---------------------------- MODULE Programs_proofs ----------------------------
(***************************************************************************)
(* Proofs about four of the sequential programs.                           *)
(*                                                                         *)
(* SearchClient, for every maximal limit, every limit and offset, any      *)
(* users and any number of failures: the pages a caller reads are the      *)
(* users found, each once and in order.                                    *)
(*                                                                         *)
(* FastSearch, for files of any length: it prints what SlowSearch prints.  *)
(*                                                                         *)
(* The generated handlers, for any request and any file whose tags have    *)
(* each rule once: which files build, and that a request is answered by    *)
(* what is wrong first.                                                    *)
(*                                                                         *)
(* The example generator and Unpack, for any file, struct and values: what *)
(* was packed is recovered, up to where it is cut.                         *)
(***************************************************************************)
EXTENDS SearchClient, Programs, SequenceTheorems, WellFoundedInduction, TLAPS

(* Only requests with a limit and an offset that are not negative are sent.*)
SentInv == caller \notin {"call", "refused"} => limit >= 0 /\ offset >= 0

(* The caller is where he began, or among the users found and beyond that. *)
OffsetInv == offset = first \/ (0 <= first /\ first <= offset /\ offset <= Len(Found))

(* A call that succeeded returned the page at the caller's offset, and     *)
(* whether there are users behind it.                                      *)
PageInv ==
  caller = "return" /\ result.error = "" =>
    /\ result.users = Window(offset, Asked(limit) - 1)
    /\ result.nextPage <=> offset + Asked(limit) - 1 < Len(Found)

IInv == TypeOK /\ SentInv /\ OffsetInv /\ PageInv /\ EveryUserOnce

-----------------------------------------------------------------------------
(* The users found are a finite sequence.                                  *)
LEMMA FoundType == Found \in Seq(Users) /\ Len(Found) \in Nat
  BY SearchAssumption

(* A window is a sequence of users, no longer than asked for; its length   *)
(* is what lies between its offset and the end of the users found.         *)
LEMMA WindowProperties ==
  ASSUME NEW o \in Nat, NEW n \in Nat
  PROVE  /\ Window(o, n) \in Seq(Users)
         /\ Len(Window(o, n)) \in Nat
         /\ o >= Len(Found) => Window(o, n) = <<>>
         /\ o < Len(Found) /\ o + n <= Len(Found) => Len(Window(o, n)) = n
         /\ o < Len(Found) /\ o + n > Len(Found) => Len(Window(o, n)) = Len(Found) - o
<1> DEFINE last == Smaller(o + n, Len(Found))
<1>1. last \in Int /\ last <= Len(Found) /\ (o + n <= Len(Found) => last = o + n)
      /\ (o + n > Len(Found) => last = Len(Found))
  BY FoundType DEF Smaller
<1>2. \A i \in o + 1 .. last : Found[i] \in Users
  BY <1>1, FoundType
<1>3. /\ SubSeq(Found, o + 1, last) \in Seq(Users)
      /\ Len(SubSeq(Found, o + 1, last)) = IF o + 1 <= last THEN last - (o + 1) + 1 ELSE 0
  <2> HIDE DEF last
  <2> QED BY <1>1, <1>2, SubSeqProperties
<1>4. o >= Len(Found) => SubSeq(Found, o + 1, last) = <<>>
  <2> HIDE DEF last
  <2> QED BY <1>1, FoundType, SubSeqEmpty
<1>5. Window(o, n) = SubSeq(Found, o + 1, last)
  BY DEF Window
<1> HIDE DEF last
<1> QED BY <1>1, <1>3, <1>4, <1>5, FoundType

(* A window behind what was read so far prolongs it.                       *)
LEMMA WindowProlongs ==
  ASSUME NEW f \in Int, NEW o \in Nat, NEW n \in Nat,
         f = o \/ (0 <= f /\ f <= o /\ o <= Len(Found))
  PROVE  SubSeq(Found, f + 1, o) \o Window(o, n)
           = SubSeq(Found, f + 1, o + Len(Window(o, n)))
<1> DEFINE w == Window(o, n)
           read == SubSeq(Found, f + 1, o)
<1>1. /\ w \in Seq(Users) /\ Len(w) \in Nat
      /\ o >= Len(Found) => w = <<>>
      /\ o < Len(Found) /\ o + n <= Len(Found) => Len(w) = n
      /\ o < Len(Found) /\ o + n > Len(Found) => Len(w) = Len(Found) - o
  BY WindowProperties
<1>2. read \in Seq(Users)
  <2>1. \A i \in f + 1 .. o : Found[i] \in Users
    BY FoundType
  <2> QED BY <2>1, SubSeqProperties
<1>3. CASE o >= Len(Found)
  <2>1. w = <<>> /\ Len(w) = 0
    BY <1>1, <1>3
  <2>2. read \o <<>> = read
    BY <1>2
  <2> QED BY <2>1, <2>2
<1>4. CASE o < Len(Found)
  <2>1. o + Len(w) <= Len(Found) /\ w = SubSeq(Found, o + 1, o + Len(w))
    <3>1. CASE o + n <= Len(Found)
      <4>1. Len(w) = n
        BY <1>1, <1>4, <3>1
      <4>2. Smaller(o + n, Len(Found)) = o + n
        BY <3>1 DEF Smaller
      <4> QED BY <3>1, <4>1, <4>2 DEF Window
    <3>2. CASE o + n > Len(Found)
      <4>1. Len(w) = Len(Found) - o
        BY <1>1, <1>4, <3>2
      <4>4. Smaller(o + n, Len(Found)) = Len(Found)
        BY <3>2, FoundType DEF Smaller
      <4>2. o + Len(w) = Len(Found)
        <5> HIDE DEF w
        <5> QED BY <4>1, FoundType
      <4>3. w = SubSeq(Found, o + 1, Len(Found))
        BY <4>4 DEF Window
      <4> HIDE DEF w
      <4> QED BY <4>2, <4>3, FoundType
    <3> QED BY <3>1, <3>2, FoundType
  <2>2. f + 1 \in 1 .. Len(Found) + 1 /\ o \in (f + 1) - 1 .. Len(Found)
    BY <1>4, FoundType
  <2>3. o + Len(w) \in o .. Len(Found)
    <3> HIDE DEF w
    <3> QED BY <1>1, <2>1, FoundType
  <2>4. read \o SubSeq(Found, o + 1, o + Len(w)) = SubSeq(Found, f + 1, o + Len(w))
    <3> HIDE DEF w
    <3> QED BY <2>2, <2>3, FoundType, ConcatAdjacentSubSeq
  <2> QED BY <2>1, <2>4
<1> HIDE DEF w, read
<1> QED BY <1>3, <1>4, FoundType

(* FindUsers, asking for one user more than a page, returns the page and   *)
(* whether there is another.                                               *)
LEMMA FindUsersReturnsPage ==
  ASSUME NEW o \in Nat, o = offset, NEW n \in Nat
  PROVE  FindUsers(Serve(n + 1), n + 1) =
           [error |-> "", users |-> Window(o, n), nextPage |-> o + n < Len(Found)]
<1> DEFINE more == Window(o, n + 1)
<1>0. /\ more \in Seq(Users) /\ Len(more) \in Nat
      /\ o >= Len(Found) => more = <<>>
      /\ o < Len(Found) /\ o + (n + 1) <= Len(Found) => Len(more) = n + 1
      /\ o < Len(Found) /\ o + (n + 1) > Len(Found) => Len(more) = Len(Found) - o
  <2>1. n + 1 \in Nat
    OBVIOUS
  <2> QED BY <2>1, WindowProperties
<1>1. FindUsers(Serve(n + 1), n + 1) =
        [error |-> "",
         users |-> IF Len(more) = n + 1 THEN SubSeq(more, 1, n) ELSE more,
         nextPage |-> Len(more) = n + 1]
  BY DEF FindUsers, Serve, Unpacked
<1>2. CASE o + n < Len(Found)
  <2>1. Smaller(o + n, Len(Found)) = o + n /\ Smaller(o + n + 1, Len(Found)) = o + n + 1
    BY <1>2, FoundType DEF Smaller
  <2>2. more = SubSeq(Found, o + 1, o + n + 1) /\ Window(o, n) = SubSeq(Found, o + 1, o + n)
    BY <2>1 DEF Window
  <2>3. Len(more) = n + 1 /\ more \in Seq(Users)
    <3> HIDE DEF more
    <3> QED BY <1>0, <1>2, FoundType
  <2>4. SubSeq(more, 1, n) = Window(o, n)
    <3>1. CASE n = 0
      <4>1. SubSeq(more, 1, 0) = <<>>
        BY SubSeqEmpty
      <4>2. SubSeq(Found, o + 1, o + 0) = <<>>
        BY SubSeqEmpty
      <4> QED BY <2>2, <3>1, <4>1, <4>2
    <3>2. CASE n > 0
      <4>1. SubSeq(SubSeq(Found, o + 1, o + n + 1), 1, n)
              = SubSeq(Found, (o + 1) + 1 - 1, (o + 1) + n - 1)
        <5>1. o + 1 \in 1 .. Len(Found) /\ o + n + 1 \in 1 .. Len(Found)
              /\ 1 \in 1 .. (o + n + 1) - (o + 1) + 1 /\ n \in 1 .. (o + n + 1) - (o + 1) + 1
          BY <1>2, <3>2, FoundType
        <5> QED BY <5>1, FoundType, SubSeqOfSubSeq
      <4>2. (o + 1) + 1 - 1 = o + 1 /\ (o + 1) + n - 1 = o + n
        OBVIOUS
      <4> QED BY <2>2, <4>1, <4>2
    <3> QED BY <3>1, <3>2
  <2> QED BY <1>1, <1>2, <2>3, <2>4
<1>3. CASE o + n >= Len(Found)
  <2>1. Len(more) # n + 1
    <3>1. CASE o >= Len(Found)
      BY <1>0, <3>1
    <3>2. CASE o < Len(Found)
      <4>1. Len(more) = Len(Found) - o
        BY <1>0, <1>3, <3>2, FoundType
      <4> HIDE DEF more
      <4> QED BY <4>1, <1>3, FoundType
    <3> QED BY <3>1, <3>2, FoundType
  <2>2. more = Window(o, n)
    BY <1>3, FoundType DEF Window, Smaller
  <2>3. (o + n < Len(Found)) = FALSE /\ (Len(more) = n + 1) = FALSE
    <3> HIDE DEF more
    <3> QED BY <1>3, <2>1, FoundType
  <2> HIDE DEF more
  <2> QED BY <1>1, <2>1, <2>2, <2>3
<1>4. o + n < Len(Found) \/ o + n >= Len(Found)
  BY FoundType
<1> QED BY <1>2, <1>3, <1>4

(* The client asks for one user more than a page shows.                    *)
LEMMA AskedIsPagePlusOne ==
  ASSUME limit \in Limits, limit >= 0
  PROVE  Asked(limit) - 1 \in Nat /\ Asked(limit) = (Asked(limit) - 1) + 1
BY SearchAssumption DEF Asked

-----------------------------------------------------------------------------
(* The inductive invariant holds at the start.                             *)
LEMMA InitIInv == Init => IInv
<1> SUFFICES ASSUME Init PROVE IInv
  OBVIOUS
<1>1. first \in Int /\ offset = first /\ caller = "call" /\ got = <<>>
  BY SearchAssumption DEF Init
<1>2. SubSeq(Found, first + 1, first) = <<>>
  BY <1>1, SubSeqEmpty
<1>3. EveryUserOnce /\ SentInv /\ OffsetInv /\ PageInv
  BY <1>1, <1>2 DEF EveryUserOnce, SentInv, OffsetInv, PageInv
<1>4. DOMAIN result = {"error", "users", "nextPage"}
  BY DEF Init, Failure
<1>5. TypeOK
  <2>1. 0 \in 0..MaxFailures
    BY SearchAssumption
  <2> QED BY <1>1, <1>4, <2>1 DEF Init, TypeOK
<1> QED
  BY <1>3, <1>5 DEF IInv

(* Each step keeps the invariant.                                          *)
LEMMA NextIInv == IInv /\ [Next]_vars => IInv'
<1> SUFFICES ASSUME IInv, [Next]_vars PROVE IInv'
  OBVIOUS
<1> USE DEF IInv
<1>1. CASE Call
  BY <1>1, SearchAssumption
  DEF Call, TypeOK, SentInv, OffsetInv, PageInv, EveryUserOnce
<1>2. ASSUME NEW reply, Return(reply), failures' \in 0..MaxFailures,
             reply = Serve(Asked(limit)) \/ reply \in FailedReplies
      PROVE  IInv'
  <2>1. limit \in Int /\ limit >= 0 /\ offset \in Nat
    BY <1>2, SearchAssumption DEF Return, TypeOK, SentInv
  <2>2. CASE reply = Serve(Asked(limit))
    <3> DEFINE n == Asked(limit) - 1
    <3>1. n \in Nat /\ Asked(limit) = n + 1
      BY <2>1, AskedIsPagePlusOne DEF TypeOK
    <3>2. result' = [error |-> "", users |-> Window(offset, n),
                     nextPage |-> offset + n < Len(Found)]
      <4> HIDE DEF n
      <4>1. FindUsers(Serve(n + 1), n + 1) =
              [error |-> "", users |-> Window(offset, n), nextPage |-> offset + n < Len(Found)]
        BY <2>1, <3>1, FindUsersReturnsPage
      <4> QED BY <1>2, <2>2, <3>1, <4>1 DEF Return
    <3>3. UNCHANGED <<limit, first, offset, got>> /\ caller' = "return"
      BY <1>2 DEF Return
    <3>4. result'.users = Window(offset, n) /\ result'.nextPage = (offset + n < Len(Found))
      BY <3>2
    <3>5. Window(offset, n)' = Window(offset, n) /\ offset + Asked(limit) - 1 = offset + n
          /\ Asked(limit)' = Asked(limit)
      BY <2>1, <3>1, <3>3 DEF Window, Asked
    <3>6. PageInv'
      BY <3>3, <3>4, <3>5 DEF PageInv
    <3>7. DOMAIN result' = {"error", "users", "nextPage"}
      BY <3>2
    <3>8. TypeOK'
      BY <1>2, <3>3, <3>7 DEF TypeOK
    <3> QED
      BY <2>1, <3>3, <3>6, <3>8 DEF SentInv, OffsetInv, EveryUserOnce
  <2>3. CASE reply \in FailedReplies
    <3>1. ~Unpacked(reply) /\ ErrorOf(reply) # ""
      <4>1. /\ reply.body = "users" => reply.status \in {400, 401, 500}
            /\ reply.status = 0 => reply.error # ""
        <5>1. /\ reply.body = "users" => reply.status \in {400, 401, 500}
              /\ reply.status = 0 <=> reply.error \in {"timeout", "unknown error"}
          BY <2>3, ZenonT(30) DEF FailedReplies
        <5> QED  BY <5>1
      <4>2. ~Unpacked(reply)
        BY <4>1 DEF Unpacked
      <4>3. ErrorOf(reply) # ""
        <5>1. CASE reply.status = 0
          <6>1. ErrorOf(reply) = reply.error
            BY <5>1 DEF ErrorOf
          <6>2. reply.error # ""
            BY <4>1, <5>1
          <6> QED  BY <6>1, <6>2
        <5>2. CASE reply.status # 0
          BY <5>2 DEF ErrorOf
        <5> QED  BY <5>1, <5>2
      <4> QED BY <4>2, <4>3
    <3>2. result' = [error |-> ErrorOf(reply), users |-> <<>>, nextPage |-> FALSE]
      BY <1>2, <3>1 DEF Return, FindUsers, Failure
    <3>3. UNCHANGED <<limit, first, offset, got>> /\ caller' = "return"
      BY <1>2 DEF Return
    <3>4. DOMAIN result' = {"error", "users", "nextPage"}
      BY <3>2
    <3>5. result'.error # ""
      BY <3>1, <3>2
    <3>6. TypeOK'
      BY <1>2, <3>3, <3>4 DEF TypeOK
    <3>7. PageInv'
      BY <3>5 DEF PageInv
    <3>8. EveryUserOnce' /\ SentInv' /\ OffsetInv'
      BY <2>1, <3>3 DEF SentInv, OffsetInv, EveryUserOnce
    <3> QED BY <3>6, <3>7, <3>8
  <2> QED BY <1>2, <2>2, <2>3
<1>3. CASE Answered
  BY <1>2, <1>3 DEF Answered, TypeOK
<1>4. CASE Fail
  BY <1>2, <1>4, SearchAssumption DEF Fail, TypeOK
<1>5. CASE TakePage
  <2> DEFINE n == Asked(limit) - 1
             page == Window(offset, n)
  <2>1. limit \in Int /\ limit >= 0 /\ offset \in Nat /\ first \in Int
    <3>1. limit \in Limits /\ first \in Offsets /\ offset \in Int /\ caller = "return"
      BY <1>5 DEF TakePage, TypeOK
    <3> QED BY <3>1, SearchAssumption DEF SentInv
  <2>2. n \in Nat
    BY <2>1, AskedIsPagePlusOne DEF TypeOK
  <2>3. result.users = page /\ (result.nextPage <=> offset + n < Len(Found))
    BY <1>5, <2>1, SearchAssumption DEF TakePage, PageInv, Asked
  <2>4. /\ Len(page) \in Nat
        /\ offset >= Len(Found) => page = <<>>
        /\ offset < Len(Found) /\ offset + n <= Len(Found) => Len(page) = n
        /\ offset < Len(Found) /\ offset + n > Len(Found) => Len(page) = Len(Found) - offset
    BY <2>1, <2>2, WindowProperties
  <2>5. got' = SubSeq(Found, first + 1, offset + Len(page))
    BY <1>5, <2>1, <2>2, <2>3, WindowProlongs, ZenonT(20) DEF TakePage, EveryUserOnce, OffsetInv
  <2>6. offset' = offset + Len(page) /\ first' = first /\ limit' = limit
        /\ caller' = IF offset + n < Len(Found) THEN "call" ELSE "end"
    BY <1>5, <2>3 DEF TakePage
  <2>7. OffsetInv'
    <3> HIDE DEF page, n
    <3>1. CASE offset >= Len(Found)
      <4>1. Len(page) = 0
        BY <2>4, <3>1
      <4> QED BY <2>1, <2>6, <4>1 DEF OffsetInv
    <3>2. CASE offset < Len(Found)
      BY <2>1, <2>2, <2>4, <2>6, <3>2, FoundType DEF OffsetInv
    <3> QED BY <3>1, <3>2, <2>1, FoundType
  <2>8. caller' = "end" => offset' >= Len(Found)
    <3> HIDE DEF page, n
    <3> QED BY <2>1, <2>2, <2>4, <2>6, FoundType
  <2>9. EveryUserOnce'
    BY <2>5, <2>6, <2>8 DEF EveryUserOnce
  <2>10. offset' \in Int /\ offset' >= 0
    <3> HIDE DEF page, n
    <3> QED BY <2>1, <2>4, <2>6
  <2> QED
    BY <1>5, <2>1, <2>7, <2>9, <2>10 DEF TakePage, TypeOK, SentInv, PageInv
<1>6. CASE Retry
  BY <1>6 DEF Retry, TypeOK, SentInv, OffsetInv, PageInv, EveryUserOnce
<1>7. CASE Ended \/ UNCHANGED vars
  BY <1>7 DEF Ended, vars, TypeOK, SentInv, OffsetInv, PageInv, EveryUserOnce, Window
<1> QED BY <1>1, <1>3, <1>4, <1>5, <1>6, <1>7 DEF Next

-----------------------------------------------------------------------------
(* The inductive invariant holds in every state.                           *)
LEMMA AlwaysIInv == Spec => []IInv
  BY InitIInv, NextIInv, PTL DEF Spec

(* The types of the variables, for any users and limits.                   *)
THEOREM TypeCorrect == Spec => []TypeOK
<1>1. IInv => TypeOK
  BY DEF IInv
<1> QED BY <1>1, AlwaysIInv, PTL

(* The pages of FindUsers never lose or repeat a user.                     *)
THEOREM AlwaysEveryUserOnce == Spec => []EveryUserOnce
<1>1. IInv => EveryUserOnce
  BY DEF IInv
<1> QED BY <1>1, AlwaysIInv, PTL

-----------------------------------------------------------------------------
(* FastSearch                                                              *)

(* Induction: a set of natural numbers that is not empty has a least one.  *)
LEMMA Least ==
  ASSUME NEW S \in SUBSET Nat, S # {}
  PROVE  \E n \in S : \A m \in S : n <= m
<1> DEFINE R == OpToRel(<, Nat)
<1>1. IsWellFoundedOn(R, Nat)
  BY NatLessThanWellFounded
<1>2. \A m, n \in Nat : m < n => <<m, n>> \in R
  BY DEF OpToRel
<1> HIDE DEF R
<1>3. PICK n \in S : \A m \in S : ~ (<<m, n>> \in R)
  BY <1>1, WFMin
<1>4. \A m \in S : m \in Nat /\ n \in Nat /\ ~ (m < n)
  BY <1>2, <1>3
<1> QED  BY <1>4

(* What FastSearch knows behind a line follows from what it knew before it.*)
LEMMA FastSteps ==
  ASSUME NEW lines, Len(lines) \in Nat
  PROVE  /\ FastAfter(lines)[0] = Nothing
         /\ \A k \in 1..Len(lines) : FastAfter(lines)[k] = FastLine(FastAfter(lines)[k - 1], lines[k])
<1> DEFINE next(k, s) == IF k = 0 THEN Nothing ELSE FastLine(s, lines[k])
           good(n) == \E f : f = [k \in 0..n |-> next(k, f[k - 1])]
           Bad == {n \in Nat : ~ good(n)}
<1> HIDE DEF next
<1>1. Bad = {}
  <2> SUFFICES ASSUME Bad # {} PROVE FALSE
    OBVIOUS
  <2>1. PICK n \in Bad : \A m \in Bad : n <= m
    <3>1. Bad \in SUBSET Nat
      OBVIOUS
    <3> HIDE DEF Bad
    <3> QED  BY <3>1, Least
  <2>2. n \in Nat /\ ~ good(n)
    BY <2>1
  <2>3. n # 0
    <3> SUFFICES ASSUME n = 0 PROVE FALSE
      OBVIOUS
    <3> DEFINE f == [k \in 0..0 |-> next(k, 0)]
    <3>1. f = [k \in 0..0 |-> next(k, f[k - 1])]
      <4>1. \A u : next(0, u) = next(0, 0)
        BY DEF next
      <4> QED  BY <4>1
    <3> QED  BY <2>2, <3>1
  <2>4. n - 1 \in Nat /\ ~ (n <= n - 1)
    BY <2>2, <2>3
  <2>5. good(n - 1)
    <3> HIDE DEF good
    <3> QED  BY <2>1, <2>4
  <2>6. PICK f : f = [k \in 0..(n - 1) |-> next(k, f[k - 1])]
    BY <2>5
  <2> DEFINE g == [k \in 0..n |-> IF k = n THEN next(n, f[n - 1]) ELSE f[k]]
  <2>7. ASSUME NEW k \in 0..n PROVE g[k] = next(k, g[k - 1])
    <3>1. CASE k = 0
      <4>1. next(k, f[k - 1]) = next(k, g[k - 1])
        BY <3>1 DEF next
      <4>2. 0 \in 0..(n - 1) /\ 0 \in 0..n /\ 0 # n
        BY <2>2, <2>3
      <4>3. g[k] = f[k]
        BY <3>1, <4>2
      <4>4. f[k] = next(k, f[k - 1])
        BY <2>6, <3>1, <4>2
      <4> QED  BY <4>1, <4>3, <4>4
    <3>2. CASE k # 0
      <4>1. k - 1 \in 0..n /\ k - 1 # n
        BY <2>2, <3>2
      <4>2. g[k - 1] = f[k - 1]
        BY <4>1
      <4> QED  BY <2>2, <2>6, <4>2, SMTT(20)
    <3> QED  BY <3>1, <3>2
  <2>8. g = [k \in 0..n |-> next(k, g[k - 1])]
    BY <2>7
  <2> QED  BY <2>2, <2>8
<1>2. PICK f : f = [k \in 0..Len(lines) |-> next(k, f[k - 1])]
  BY <1>1
<1>3. FastAfter(lines) = CHOOSE a : a = [k \in 0..Len(lines) |-> next(k, a[k - 1])]
  BY DEF FastAfter, next
<1>4. FastAfter(lines) = [k \in 0..Len(lines) |-> next(k, FastAfter(lines)[k - 1])]
  BY <1>2, <1>3
<1>5. \A k \in 0..Len(lines) : FastAfter(lines)[k] = next(k, FastAfter(lines)[k - 1])
  BY <1>4
<1>6. 0 \in 0..Len(lines) /\ \A k \in 1..Len(lines) : k \in 0..Len(lines) /\ k # 0
  OBVIOUS
<1> QED  BY <1>5, <1>6 DEF next

(* The same of SlowSearch.                                                 *)
LEMMA SlowSteps ==
  ASSUME NEW lines, Len(lines) \in Nat
  PROVE  /\ SlowAfter(lines)[0] = Nothing
         /\ \A k \in 1..Len(lines) : SlowAfter(lines)[k] = SlowUser(SlowAfter(lines)[k - 1], lines[k])
<1> DEFINE next(k, s) == IF k = 0 THEN Nothing ELSE SlowUser(s, lines[k])
           good(n) == \E f : f = [k \in 0..n |-> next(k, f[k - 1])]
           Bad == {n \in Nat : ~ good(n)}
<1> HIDE DEF next
<1>1. Bad = {}
  <2> SUFFICES ASSUME Bad # {} PROVE FALSE
    OBVIOUS
  <2>1. PICK n \in Bad : \A m \in Bad : n <= m
    <3>1. Bad \in SUBSET Nat
      OBVIOUS
    <3> HIDE DEF Bad
    <3> QED  BY <3>1, Least
  <2>2. n \in Nat /\ ~ good(n)
    BY <2>1
  <2>3. n # 0
    <3> SUFFICES ASSUME n = 0 PROVE FALSE
      OBVIOUS
    <3> DEFINE f == [k \in 0..0 |-> next(k, 0)]
    <3>1. f = [k \in 0..0 |-> next(k, f[k - 1])]
      <4>1. \A u : next(0, u) = next(0, 0)
        BY DEF next
      <4> QED  BY <4>1
    <3> QED  BY <2>2, <3>1
  <2>4. n - 1 \in Nat /\ ~ (n <= n - 1)
    BY <2>2, <2>3
  <2>5. good(n - 1)
    <3> HIDE DEF good
    <3> QED  BY <2>1, <2>4
  <2>6. PICK f : f = [k \in 0..(n - 1) |-> next(k, f[k - 1])]
    BY <2>5
  <2> DEFINE g == [k \in 0..n |-> IF k = n THEN next(n, f[n - 1]) ELSE f[k]]
  <2>7. ASSUME NEW k \in 0..n PROVE g[k] = next(k, g[k - 1])
    <3>1. CASE k = 0
      <4>1. next(k, f[k - 1]) = next(k, g[k - 1])
        BY <3>1 DEF next
      <4>2. 0 \in 0..(n - 1) /\ 0 \in 0..n /\ 0 # n
        BY <2>2, <2>3
      <4>3. g[k] = f[k]
        BY <3>1, <4>2
      <4>4. f[k] = next(k, f[k - 1])
        BY <2>6, <3>1, <4>2
      <4> QED  BY <4>1, <4>3, <4>4
    <3>2. CASE k # 0
      <4>1. k - 1 \in 0..n /\ k - 1 # n
        BY <2>2, <3>2
      <4>2. g[k - 1] = f[k - 1]
        BY <4>1
      <4> QED  BY <2>2, <2>6, <4>2, SMTT(20)
    <3> QED  BY <3>1, <3>2
  <2>8. g = [k \in 0..n |-> next(k, g[k - 1])]
    BY <2>7
  <2> QED  BY <2>2, <2>8
<1>2. PICK f : f = [k \in 0..Len(lines) |-> next(k, f[k - 1])]
  BY <1>1
<1>3. SlowAfter(lines) = CHOOSE a : a = [k \in 0..Len(lines) |-> next(k, a[k - 1])]
  BY DEF SlowAfter, next
<1>4. SlowAfter(lines) = [k \in 0..Len(lines) |-> next(k, SlowAfter(lines)[k - 1])]
  BY <1>2, <1>3
<1>5. \A k \in 0..Len(lines) : SlowAfter(lines)[k] = next(k, SlowAfter(lines)[k - 1])
  BY <1>4
<1>6. 0 \in 0..Len(lines) /\ \A k \in 1..Len(lines) : k \in 0..Len(lines) /\ k # 0
  OBVIOUS
<1> QED  BY <1>5, <1>6 DEF next

(* The two searches know the same, and go on.                              *)
IsState(s) == s = [found |-> s.found, seen |-> s.seen, i |-> s.i, end |-> s.end, user |-> s.user]

Alike(f, s) == /\ f.end = "" /\ s.end = ""
               /\ f.found = s.found /\ f.seen = s.seen /\ f.i = s.i

(* Behind a line that fits into the buffer and names its user both know    *)
(* the same again, unless one has panicked; on a regular line none does.   *)
LEMMA LineKeepsAlike ==
  ASSUME NEW f, NEW s, IsState(f), IsState(s), Alike(f, s),
         NEW line, IsLine(line), ~ line.long, ~ (line.json = "object" /\ line.name = "none")
  PROVE  /\ \/ FastLine(f, line).end = "panic"
            \/ SlowUser(s, line).end = "panic"
            \/ Alike(FastLine(f, line), SlowUser(s, line))
         /\ ~ Fails(line) /\ line.name = "good" /\ line.email = "good" =>
              Alike(FastLine(f, line), SlowUser(s, line))
<1> DEFINE b == line.browsers
           isFound == Mobile(b) # {} /\ Microsoft(b) # {}
<1>1. Mobile(<<>>) = {} /\ Microsoft(<<>>) = {}
  BY DEF Mobile, Microsoft, ToSet
<1>2. CASE Fails(line)
  <2>1. FastLine(f, line) = Panics(f)
    BY <1>2 DEF FastLine, Alike
  <2>2. Panics(f).end = "panic"
    BY DEF Panics, IsState
  <2> QED  BY <1>2, <2>1, <2>2
<1>3. CASE ~ Fails(line)
  <2>1. FastLine(f, line) = FastUser(f, line)
    BY <1>3 DEF FastLine, Alike
  <2>2. Decoded(line, f.user) = b
    BY DEF Decoded, IsLine
  <2> DEFINE user == [i |-> f.i, name |-> line.name, email |-> line.email]
             u == FastUser(f, line)
  <2>3. /\ u.end = "" /\ u.i = f.i + 1 /\ u.seen = f.seen \cup Mobile(b) \cup Microsoft(b)
        /\ u.found = IF isFound THEN Append(f.found, user) ELSE f.found
    <3> HIDE DEF b
    <3> QED  BY <2>2 DEF FastUser, IsState, Alike
  <2> HIDE DEF b, u
  <2>4. CASE line.json # "object" \/ line.list # "good"
    <3>1. b = <<>>
      BY <2>4 DEF b, IsLine
    <3>2. /\ SlowUser(s, line).end = "" /\ SlowUser(s, line).i = s.i + 1
          /\ SlowUser(s, line).seen = s.seen /\ SlowUser(s, line).found = s.found
      BY <2>4 DEF SlowUser, IsState, Alike
    <3>3. u.seen = f.seen /\ u.found = f.found
      BY <1>1, <2>3, <3>1
    <3>4. Alike(u, SlowUser(s, line))
      BY <2>3, <3>2, <3>3 DEF Alike
    <3> QED  BY <2>1, <3>4 DEF u
  <2>5. CASE line.json = "object" /\ line.list = "good"
    <3>1. line.name = "good" /\ line.email \in {"good", "none"}
      BY <1>3, <2>5 DEF Fails, IsLine
    <3>2. CASE isFound /\ line.email # "good"
      <4>1. SlowUser(s, line) = Panics(s)
        BY <2>5, <3>2 DEF SlowUser, Alike, b
      <4>2. Panics(s).end = "panic"
        BY DEF Panics, IsState
      <4> QED  BY <3>2, <4>1, <4>2
    <3>3. CASE ~ (isFound /\ line.email # "good")
      <4>1. isFound => user = [i |-> s.i, name |-> "good", email |-> "good"]
        BY <3>1, <3>3 DEF Alike
      <4>2. /\ SlowUser(s, line).end = "" /\ SlowUser(s, line).i = s.i + 1
            /\ SlowUser(s, line).seen = s.seen \cup Mobile(b) \cup Microsoft(b)
            /\ SlowUser(s, line).found =
                 IF isFound THEN Append(s.found, [i |-> s.i, name |-> "good", email |-> "good"])
                 ELSE s.found
        BY <2>5, <3>1, <3>3 DEF SlowUser, IsState, Alike, b
      <4>3. Alike(u, SlowUser(s, line))
        BY <2>3, <4>1, <4>2 DEF Alike
      <4> QED  BY <2>1, <4>3 DEF u
    <3> QED  BY <3>2, <3>3
  <2> QED  BY <2>4, <2>5
<1> QED  BY <1>2, <1>3

(* Both keep the shape of their state, and a panic is for good.            *)
LEMMA LineKeepsState ==
  ASSUME NEW s, IsState(s), NEW line
  PROVE  /\ IsState(FastLine(s, line)) /\ IsState(SlowUser(s, line))
         /\ s.end = "panic" => FastLine(s, line).end = "panic" /\ SlowUser(s, line).end = "panic"
<1>1. IsState(FastLine(s, line))
  BY DEF FastLine, FastUser, Panics, IsState
<1>2. IsState(SlowUser(s, line))
  BY DEF SlowUser, Panics, IsState
<1>3. s.end = "panic" => FastLine(s, line) = s /\ SlowUser(s, line) = s
  BY DEF FastLine, SlowUser
<1> QED  BY <1>1, <1>2, <1>3

(* The same after any number of lines, none too long and no user without   *)
(* a name.                                                                 *)
LEMMA LinesKeepAlike ==
  ASSUME NEW lines, AreLines(lines),
         \A k \in DOMAIN lines :
           ~ lines[k].long /\ ~ (lines[k].json = "object" /\ lines[k].name = "none"),
         NEW n \in 0..Len(lines)
  PROVE  LET f == FastAfter(lines)[n]
             s == SlowAfter(lines)[n]
         IN  /\ IsState(f) /\ IsState(s)
             /\ f.end = "panic" \/ s.end = "panic" \/ Alike(f, s)
             /\ (\A k \in DOMAIN lines : ~ Fails(lines[k]) /\ lines[k].name = "good" /\ lines[k].email = "good")
                  => Alike(f, s)
<1> DEFINE regular == \A k \in DOMAIN lines :
                        ~ Fails(lines[k]) /\ lines[k].name = "good" /\ lines[k].email = "good"
           F(m) == FastAfter(lines)[m]
           S(m) == SlowAfter(lines)[m]
           good(m) == /\ IsState(F(m)) /\ IsState(S(m))
                      /\ F(m).end = "panic" \/ S(m).end = "panic" \/ Alike(F(m), S(m))
                      /\ regular => Alike(F(m), S(m))
           Bad == {m \in Nat : m \in 0..Len(lines) /\ ~ good(m)}
<1>0. Len(lines) \in Nat /\ DOMAIN lines = 1..Len(lines) /\ \A k \in DOMAIN lines : IsLine(lines[k])
  BY DEF AreLines
<1>1. /\ F(0) = Nothing /\ S(0) = Nothing
      /\ \A k \in 1..Len(lines) : F(k) = FastLine(F(k - 1), lines[k]) /\ S(k) = SlowUser(S(k - 1), lines[k])
  BY <1>0, FastSteps, SlowSteps
<1> HIDE DEF F, S, regular
<1>2. good(0)
  <2>1. IsState(Nothing) /\ Alike(Nothing, Nothing)
    BY DEF Nothing, IsState, Alike
  <2> QED  BY <1>1, <2>1
<1>3. ASSUME NEW k \in 1..Len(lines), good(k - 1)
      PROVE  good(k)
  <2>1. k \in DOMAIN lines /\ IsLine(lines[k]) /\ ~ lines[k].long
        /\ ~ (lines[k].json = "object" /\ lines[k].name = "none")
    BY <1>0
  <2>2. F(k) = FastLine(F(k - 1), lines[k]) /\ S(k) = SlowUser(S(k - 1), lines[k])
    BY <1>1
  <2>3. IsState(F(k)) /\ IsState(S(k))
    BY <1>3, <2>2, LineKeepsState
  <2>4. CASE Alike(F(k - 1), S(k - 1))
    <3>1. regular => ~ Fails(lines[k]) /\ lines[k].name = "good" /\ lines[k].email = "good"
      BY <2>1 DEF regular
    <3> QED  BY <1>3, <2>1, <2>2, <2>3, <2>4, <3>1, LineKeepsAlike
  <2>5. CASE ~ Alike(F(k - 1), S(k - 1))
    <3>1. F(k).end = "panic" \/ S(k).end = "panic"
      BY <1>3, <2>2, <2>5, LineKeepsState
    <3> QED  BY <1>3, <2>3, <2>5, <3>1
  <2> QED  BY <2>4, <2>5
<1>4. Bad = {}
  <2> SUFFICES ASSUME Bad # {} PROVE FALSE
    OBVIOUS
  <2>1. PICK m \in Bad : \A k \in Bad : m <= k
    <3>1. Bad \in SUBSET Nat
      OBVIOUS
    <3> HIDE DEF Bad
    <3> QED  BY <3>1, Least
  <2> HIDE DEF good
  <2>2. m \in 1..Len(lines) /\ ~ good(m)
    BY <1>2, <2>1
  <2>3. m - 1 \in Nat /\ m - 1 \in 0..Len(lines) /\ ~ (m <= m - 1)
    BY <1>0, <2>2
  <2>4. m - 1 \notin Bad
    <3> HIDE DEF Bad
    <3> QED  BY <2>1, <2>3
  <2> QED  BY <1>3, <2>2, <2>3, <2>4
<1>5. good(n)
  <2> HIDE DEF good
  <2> QED  BY <1>0, <1>4
<1> QED  BY <1>5 DEF F, S, regular

(* On every file, of any length, FastSearch prints what SlowSearch prints, *)
(* unless one of them panics, as SlowSearch does on an empty file, a line  *)
(* is too long for the scanner or a user has no name; on regular files,    *)
(* which have a user, both print.                                          *)
THEOREM FastSearchAgrees ==
  ASSUME NEW file, AreLines(file.lines)
  PROVE  AgreesWithSlow(file, Fast(file))
<1> DEFINE lines == file.lines
           n == Len(lines)
           tame == \A k \in DOMAIN lines :
                     ~ lines[k].long /\ ~ (lines[k].json = "object" /\ lines[k].name = "none")
           f == FastAfter(lines)[n]
           s == SlowAfter(lines)[n]
<1>1. n \in Nat /\ n \in 0..n
  BY DEF AreLines
<1>2. Fast(file) = Printed(f)
  BY DEF Fast
<1>3. /\ SlowDecodes(file) => Slow(file) = Printed(s)
      /\ ~ SlowDecodes(file) => Slow(file).panicked
  BY DEF Slow, Printed, Panics, Nothing
<1>4. ASSUME NEW x, NEW y, Alike(x, y)
      PROVE  Printed(x) = Printed(y) /\ ~ Printed(x).panicked
  BY <1>4 DEF Alike, Printed
<1>5. \A x : Printed(x).panicked <=> x.end = "panic"
  BY DEF Printed
<1>6. ASSUME tame
      PROVE  /\ f.end = "panic" \/ s.end = "panic" \/ Alike(f, s)
             /\ Regular(file) => Alike(f, s)
  BY <1>1, <1>6, LinesKeepAlike DEF Regular
<1>7. ASSUME Regular(file)
      PROVE  tame /\ SlowDecodes(file)
  BY <1>7 DEF Regular, SlowDecodes, Fails
<1>8. Regular(file) => ~ Fast(file).panicked /\ Fast(file) = Slow(file)
  <2> HIDE DEF f, s, tame
  <2> QED  BY <1>2, <1>3, <1>4, <1>6, <1>7
<1>9. tame /\ ~ Fast(file).panicked /\ ~ Slow(file).panicked => Fast(file) = Slow(file)
  <2> HIDE DEF f, s, tame
  <2> QED  BY <1>2, <1>3, <1>4, <1>5, <1>6
<1> QED  BY <1>8, <1>9 DEF AgreesWithSlow

-----------------------------------------------------------------------------
(* The generated handlers                                                  *)

(* Induction up to n                                                       *)
LEMMA UpTo ==
  ASSUME NEW n \in Nat, NEW T \in SUBSET (0..n), 0 \in T,
         \A k \in 1..n : k - 1 \in T => k \in T
  PROVE  \A k \in 0..n : k \in T
<1> DEFINE Bad == {k \in 0..n : k \notin T}
<1> SUFFICES ASSUME Bad # {} PROVE FALSE
  OBVIOUS
<1>1. PICK m \in Bad : \A l \in Bad : m <= l
  <2>1. Bad \in SUBSET Nat
    OBVIOUS
  <2> HIDE DEF Bad
  <2> QED  BY <2>1, Least
<1>2. m \in 1..n /\ m \notin T
  BY <1>1
<1>3. m - 1 \in 0..n /\ ~ (m <= m - 1)
  BY <1>2
<1>4. m - 1 \notin Bad
  <2> HIDE DEF Bad
  <2> QED  BY <1>1, <1>3
<1> QED  BY <1>2, <1>3, <1>4

(* A function on 0..n may be defined by its first value and its steps.     *)
Follows(f, n, S, start, G) ==
  f \in [0..n -> S] /\ f[0] = start /\ \A k \in 1..n : f[k] = G[<<k, f[k - 1]>>]

LEMMA Recursion ==
  ASSUME NEW n \in Nat, NEW S, NEW start \in S, NEW G \in [(1..n) \X S -> S]
  PROVE  \E f : Follows(f, n, S, start, G)
<1> DEFINE T == {m \in 0..n : \E f : Follows(f, m, S, start, G)}
<1>1. 0 \in T
  <2>1. Follows([k \in 0..0 |-> start], 0, S, start, G)
    BY DEF Follows
  <2>2. 0 \in 0..n
    OBVIOUS
  <2> QED  BY <2>1, <2>2
<1>2. ASSUME NEW m \in 1..n, m - 1 \in T PROVE m \in T
  <2>1. PICK f : Follows(f, m - 1, S, start, G)
    BY <1>2
  <2> DEFINE g == [k \in 0..m |-> IF k = m THEN G[<<m, f[m - 1]>>] ELSE f[k]]
  <2>2. f[m - 1] \in S /\ G[<<m, f[m - 1]>>] \in S
    BY <2>1 DEF Follows
  <2>3. g \in [0..m -> S]
    BY <2>1, <2>2 DEF Follows
  <2>4. g[0] = start
    BY <2>1 DEF Follows
  <2>5. ASSUME NEW k \in 1..m PROVE g[k] = G[<<k, g[k - 1]>>]
    <3>1. k - 1 \in 0..m /\ k - 1 # m /\ k \in 0..m
      OBVIOUS
    <3>2. g[k - 1] = f[k - 1]
      BY <3>1
    <3>3. CASE k = m
      BY <3>1, <3>2, <3>3
    <3>4. CASE k # m
      <4>1. k \in 1..(m - 1)
        BY <3>4
      <4> QED  BY <2>1, <3>1, <3>2, <3>4, <4>1 DEF Follows
    <3> QED  BY <3>3, <3>4
  <2> HIDE DEF g
  <2>6. Follows(g, m, S, start, G)
    BY <2>3, <2>4, <2>5 DEF Follows
  <2> QED  BY <2>6
<1>3. n \in T
  <2>1. T \in SUBSET (0..n) /\ n \in 0..n
    OBVIOUS
  <2> HIDE DEF T
  <2> QED  BY <1>1, <1>2, <2>1, UpTo
<1> QED  BY <1>3

(* Its values stay where its steps lead.                                   *)
LEMMA Stays ==
  ASSUME NEW n \in Nat, NEW S, NEW W, W[0] \in S, \A k \in 1..n : W[k - 1] \in S => W[k] \in S
  PROVE  \A k \in 0..n : W[k] \in S
<1> DEFINE T == {k \in 0..n : W[k] \in S}
<1>1. 0 \in T /\ T \in SUBSET (0..n)
  OBVIOUS
<1>2. ASSUME NEW k \in 1..n, k - 1 \in T PROVE k \in T
  BY <1>2
<1> HIDE DEF T
<1>3. \A k \in 0..n : k \in T
  BY <1>1, <1>2, UpTo
<1> QED  BY <1>3 DEF T

(* How the checks of a field are collected                                 *)
LEMMA WrittenSteps ==
  ASSUME NEW R, NEW rules \in Seq(R)
  PROVE  /\ WrittenUpTo(rules) \in [0..Len(rules) -> Seq(R)]
         /\ WrittenUpTo(rules)[0] = <<>>
         /\ \A k \in 1..Len(rules) :
              WrittenUpTo(rules)[k] =
                IF Written(rules[k]) THEN Append(WrittenUpTo(rules)[k - 1], rules[k])
                ELSE WrittenUpTo(rules)[k - 1]
<1> DEFINE n == Len(rules)
           S == Seq(R)
           next(k, s) == IF k = 0 THEN <<>> ELSE IF Written(rules[k]) THEN Append(s, rules[k]) ELSE s
           G == [x \in (1..n) \X S |-> next(x[1], x[2])]
           W == WrittenUpTo(rules)
<1>1. \A k \in 0..n, s \in S : next(k, s) \in S
  OBVIOUS
<1>2. next(0, 0) \in S /\ next(0, 0) = <<>> /\ \A s : next(0, s) = next(0, 0)
  OBVIOUS
<1>3. n \in Nat
  OBVIOUS
<1>4. W = CHOOSE f : f = [k \in 0..n |-> next(k, f[k - 1])]
  BY DEF WrittenUpTo
<1>5. \A k \in 1..n, s \in S : next(k, s) = IF Written(rules[k]) THEN Append(s, rules[k]) ELSE s
  OBVIOUS
<1> HIDE DEF n, S, next, W
<1>6. G \in [(1..n) \X S -> S] /\ \A k \in 1..n, s \in S : G[<<k, s>>] = next(k, s)
  BY <1>1, <1>3
<1> HIDE DEF G
<1>7. PICK f : Follows(f, n, S, next(0, 0), G)
  BY <1>2, <1>3, <1>6, Recursion
<1>8. f = [k \in 0..n |-> next(k, f[k - 1])]
  <2>1. ASSUME NEW k \in 0..n PROVE f[k] = next(k, f[k - 1])
    <3>1. CASE k = 0
      BY <1>2, <1>7, <3>1 DEF Follows
    <3>2. CASE k # 0
      <4>1. k \in 1..n /\ k - 1 \in 0..n
        BY <1>3, <3>2
      <4> QED  BY <1>6, <1>7, <4>1 DEF Follows
    <3> QED  BY <3>1, <3>2
  <2> QED  BY <1>7, <2>1 DEF Follows
<1>9. W = [k \in 0..n |-> next(k, W[k - 1])]
  BY <1>4, <1>8
<1>10. W[0] = next(0, 0) /\ \A k \in 1..n : W[k] = next(k, W[k - 1])
  <2>1. 0 \in 0..n /\ \A k \in 1..n : k \in 0..n
    BY <1>3
  <2>2. \A k \in 0..n : W[k] = next(k, W[k - 1])
    BY <1>9
  <2> QED  BY <1>2, <2>1, <2>2
<1>11. \A k \in 0..n : W[k] \in S
  <2>1. W[0] \in S /\ \A k \in 1..n : W[k - 1] \in S => W[k] \in S
    BY <1>1, <1>2, <1>3, <1>10
  <2> QED  BY <1>3, <2>1, Stays
<1>12. W \in [0..n -> S]
  BY <1>9, <1>11
<1>13. ASSUME NEW k \in 1..n PROVE W[k] = IF Written(rules[k]) THEN Append(W[k - 1], rules[k]) ELSE W[k - 1]
  <2>1. W[k - 1] \in S
    BY <1>3, <1>11
  <2> QED  BY <1>5, <1>10, <2>1
<1> QED  BY <1>2, <1>10, <1>12, <1>13 DEF n, S, W

(* The same of those of enum                                              *)
LEMMA DeferredSteps ==
  ASSUME NEW R, NEW rules \in Seq(R)
  PROVE  /\ DeferredUpTo(rules) \in [0..Len(rules) -> Seq(R)]
         /\ DeferredUpTo(rules)[0] = <<>>
         /\ \A k \in 1..Len(rules) :
              DeferredUpTo(rules)[k] =
                IF rules[k].op = "enum" THEN <<rules[k]>> \o DeferredUpTo(rules)[k - 1]
                ELSE DeferredUpTo(rules)[k - 1]
<1> DEFINE n == Len(rules)
           S == Seq(R)
           next(k, s) == IF k = 0 THEN <<>> ELSE IF rules[k].op = "enum" THEN <<rules[k]>> \o s ELSE s
           G == [x \in (1..n) \X S |-> next(x[1], x[2])]
           W == DeferredUpTo(rules)
<1>1. \A k \in 0..n, s \in S : next(k, s) \in S
  OBVIOUS
<1>2. next(0, 0) \in S /\ next(0, 0) = <<>> /\ \A s : next(0, s) = next(0, 0)
  OBVIOUS
<1>3. n \in Nat
  OBVIOUS
<1>4. W = CHOOSE f : f = [k \in 0..n |-> next(k, f[k - 1])]
  BY DEF DeferredUpTo
<1>5. \A k \in 1..n, s \in S : next(k, s) = IF rules[k].op = "enum" THEN <<rules[k]>> \o s ELSE s
  OBVIOUS
<1> HIDE DEF n, S, next, W
<1>6. G \in [(1..n) \X S -> S] /\ \A k \in 1..n, s \in S : G[<<k, s>>] = next(k, s)
  BY <1>1, <1>3
<1> HIDE DEF G
<1>7. PICK f : Follows(f, n, S, next(0, 0), G)
  BY <1>2, <1>3, <1>6, Recursion
<1>8. f = [k \in 0..n |-> next(k, f[k - 1])]
  <2>1. ASSUME NEW k \in 0..n PROVE f[k] = next(k, f[k - 1])
    <3>1. CASE k = 0
      BY <1>2, <1>7, <3>1 DEF Follows
    <3>2. CASE k # 0
      <4>1. k \in 1..n /\ k - 1 \in 0..n
        BY <1>3, <3>2
      <4> QED  BY <1>6, <1>7, <4>1 DEF Follows
    <3> QED  BY <3>1, <3>2
  <2> QED  BY <1>7, <2>1 DEF Follows
<1>9. W = [k \in 0..n |-> next(k, W[k - 1])]
  BY <1>4, <1>8
<1>10. W[0] = next(0, 0) /\ \A k \in 1..n : W[k] = next(k, W[k - 1])
  <2>1. 0 \in 0..n /\ \A k \in 1..n : k \in 0..n
    BY <1>3
  <2>2. \A k \in 0..n : W[k] = next(k, W[k - 1])
    BY <1>9
  <2> QED  BY <1>2, <2>1, <2>2
<1>11. \A k \in 0..n : W[k] \in S
  <2>1. W[0] \in S /\ \A k \in 1..n : W[k - 1] \in S => W[k] \in S
    BY <1>1, <1>2, <1>3, <1>10
  <2> QED  BY <1>3, <2>1, Stays
<1>12. W \in [0..n -> S]
  BY <1>9, <1>11
<1>13. ASSUME NEW k \in 1..n PROVE W[k] = IF rules[k].op = "enum" THEN <<rules[k]>> \o W[k - 1] ELSE W[k - 1]
  <2>1. W[k - 1] \in S
    BY <1>3, <1>11
  <2> QED  BY <1>5, <1>10, <2>1
<1> QED  BY <1>2, <1>10, <1>12, <1>13 DEF n, S, W

(* What a statement leaves behind, for the names N that statements have    *)
(* and the values V they handle                                            *)
Answers(N, V) == [status : {0, 400, 403, 406}, field : N, value : V]

Fits(s, req, N, V) == Named(s) \in N /\ s.arg \in V /\ FormValue(req, s.arg) \in V

AllFit(block, req, N, V) == Len(block) \in Nat /\ \A k \in 1..Len(block) : Fits(block[k], req, N, V)

LEMMA ExecutedStays ==
  ASSUME NEW req, NEW N, NEW V, NEW s, Fits(s, req, N, V), NEW h \in Answers(N, V)
  PROVE  Executed(h, s, req) \in Answers(N, V)
<1>1. Assigned(s, h.value, req) \in V
  BY DEF Assigned, Fits, Answers
<1>2. Status(s.op) \in {0, 400, 403, 406}
  BY DEF Status
<1>3. \A a \in V : [h EXCEPT !.value = a] \in Answers(N, V)
  BY DEF Answers
<1>4. Named(s) \in N
  BY DEF Fits
<1>5. CASE h.status # 0
  BY <1>5 DEF Executed
<1>6. CASE h.status = 0 /\ Refuses(s, h.value, req)
  <2>1. Executed(h, s, req) = [h EXCEPT !.status = Status(s.op), !.field = Named(s)]
    BY <1>6 DEF Executed
  <2> DEFINE a == Status(s.op)
             b == Named(s)
  <2>2. a \in {0, 400, 403, 406} /\ b \in N
    BY <1>2, <1>4
  <2> HIDE DEF a, b
  <2>3. [h EXCEPT !.status = a, !.field = b] \in Answers(N, V)
    <3>1. \A x \in Answers(N, V) : [x EXCEPT !.status = a] \in Answers(N, V)
      BY <2>2 DEF Answers
    <3>2. \A x \in Answers(N, V) : [x EXCEPT !.field = b] \in Answers(N, V)
      BY <2>2 DEF Answers
    <3>3. [h EXCEPT !.status = a, !.field = b] = [[h EXCEPT !.status = a] EXCEPT !.field = b]
      OBVIOUS
    <3> QED  BY <3>1, <3>2, <3>3
  <2> QED  BY <2>1, <2>3 DEF a, b
<1>7. CASE h.status = 0 /\ ~ Refuses(s, h.value, req)
  BY <1>1, <1>3, <1>7 DEF Executed
<1> QED  BY <1>5, <1>6, <1>7

(* How the statements of a block are executed                              *)
LEMMA ExecuteSteps ==
  ASSUME NEW req, NEW N, NEW V, NEW block, AllFit(block, req, N, V), NEW start \in Answers(N, V)
  PROVE  /\ Execute(block, start, req) \in [0..Len(block) -> Answers(N, V)]
         /\ Execute(block, start, req)[0] = start
         /\ \A k \in 1..Len(block) :
              Execute(block, start, req)[k] = Executed(Execute(block, start, req)[k - 1], block[k], req)
<1> DEFINE n == Len(block)
           S == Answers(N, V)
           next(k, s) == IF k = 0 THEN start ELSE Executed(s, block[k], req)
           G == [x \in (1..n) \X S |-> next(x[1], x[2])]
           W == Execute(block, start, req)
<1>1. \A k \in 0..n, s \in S : next(k, s) \in S
  BY ExecutedStays DEF AllFit
<1>2. next(0, 0) \in S /\ next(0, 0) = start /\ \A s : next(0, s) = next(0, 0)
  OBVIOUS
<1>3. n \in Nat
  BY DEF AllFit
<1>4. W = CHOOSE f : f = [k \in 0..n |-> next(k, f[k - 1])]
  BY DEF Execute
<1>5. \A k \in 1..n, s \in S : next(k, s) = Executed(s, block[k], req)
  OBVIOUS
<1> HIDE DEF n, S, next, W
<1>6. G \in [(1..n) \X S -> S] /\ \A k \in 1..n, s \in S : G[<<k, s>>] = next(k, s)
  BY <1>1, <1>3
<1> HIDE DEF G
<1>7. PICK f : Follows(f, n, S, next(0, 0), G)
  BY <1>2, <1>3, <1>6, Recursion
<1>8. f = [k \in 0..n |-> next(k, f[k - 1])]
  <2>1. ASSUME NEW k \in 0..n PROVE f[k] = next(k, f[k - 1])
    <3>1. CASE k = 0
      BY <1>2, <1>7, <3>1 DEF Follows
    <3>2. CASE k # 0
      <4>1. k \in 1..n /\ k - 1 \in 0..n
        BY <1>3, <3>2
      <4> QED  BY <1>6, <1>7, <4>1 DEF Follows
    <3> QED  BY <3>1, <3>2
  <2> QED  BY <1>7, <2>1 DEF Follows
<1>9. W = [k \in 0..n |-> next(k, W[k - 1])]
  BY <1>4, <1>8
<1>10. W[0] = next(0, 0) /\ \A k \in 1..n : W[k] = next(k, W[k - 1])
  <2>1. 0 \in 0..n /\ \A k \in 1..n : k \in 0..n
    BY <1>3
  <2>2. \A k \in 0..n : W[k] = next(k, W[k - 1])
    BY <1>9
  <2> QED  BY <1>2, <2>1, <2>2
<1>11. \A k \in 0..n : W[k] \in S
  <2>1. W[0] \in S /\ \A k \in 1..n : W[k - 1] \in S => W[k] \in S
    BY <1>1, <1>2, <1>3, <1>10
  <2> QED  BY <1>3, <2>1, Stays
<1>12. W \in [0..n -> S]
  BY <1>9, <1>11
<1>13. ASSUME NEW k \in 1..n PROVE W[k] = Executed(W[k - 1], block[k], req)
  <2>1. W[k - 1] \in S
    BY <1>3, <1>11
  <2> QED  BY <1>5, <1>10, <2>1
<1> QED  BY <1>2, <1>10, <1>12, <1>13 DEF n, S, W

(* How the blocks of a handler are executed                                *)
Begin == [status |-> 0, field |-> Blank, value |-> Empty]

(* The same of the blocks                                                  *)
LEMMA BlocksSteps ==
  ASSUME NEW req, NEW N, NEW V, NEW code, Len(code) \in Nat,
         \A j \in 1..Len(code) : AllFit(code[j], req, N, V),
         Begin \in Answers(N, V)
  PROVE  /\ ExecuteBlocks(code, req) \in [0..Len(code) -> Answers(N, V)]
         /\ ExecuteBlocks(code, req)[0] = Begin
         /\ \A k \in 1..Len(code) :
              ExecuteBlocks(code, req)[k] = Execute(code[k], ExecuteBlocks(code, req)[k - 1], req)[Len(code[k])]
<1> DEFINE n == Len(code)
           S == Answers(N, V)
           next(k, s) == IF k = 0 THEN Begin ELSE Execute(code[k], s, req)[Len(code[k])]
           G == [x \in (1..n) \X S |-> next(x[1], x[2])]
           W == ExecuteBlocks(code, req)
<1>1. \A k \in 0..n, s \in S : next(k, s) \in S
  <2> SUFFICES ASSUME NEW k \in 0..n, NEW s \in S, k # 0 PROVE next(k, s) \in S
    OBVIOUS
  <2>1. k \in 1..Len(code)
    OBVIOUS
  <2>2. Execute(code[k], s, req) \in [0..Len(code[k]) -> S]
    BY <2>1, ExecuteSteps
  <2>3. Len(code[k]) \in 0..Len(code[k])
    BY <2>1 DEF AllFit
  <2> QED  BY <2>2, <2>3
<1>2. next(0, 0) \in S /\ next(0, 0) = Begin /\ \A s : next(0, s) = next(0, 0)
  OBVIOUS
<1>3. n \in Nat
  OBVIOUS
<1>4. W = CHOOSE f : f = [k \in 0..n |-> next(k, f[k - 1])]
  BY DEF ExecuteBlocks, Begin
<1>5. \A k \in 1..n, s \in S : next(k, s) = Execute(code[k], s, req)[Len(code[k])]
  OBVIOUS
<1> HIDE DEF n, S, next, W
<1>6. G \in [(1..n) \X S -> S] /\ \A k \in 1..n, s \in S : G[<<k, s>>] = next(k, s)
  BY <1>1, <1>3
<1> HIDE DEF G
<1>7. PICK f : Follows(f, n, S, next(0, 0), G)
  BY <1>2, <1>3, <1>6, Recursion
<1>8. f = [k \in 0..n |-> next(k, f[k - 1])]
  <2>1. ASSUME NEW k \in 0..n PROVE f[k] = next(k, f[k - 1])
    <3>1. CASE k = 0
      BY <1>2, <1>7, <3>1 DEF Follows
    <3>2. CASE k # 0
      <4>1. k \in 1..n /\ k - 1 \in 0..n
        BY <1>3, <3>2
      <4> QED  BY <1>6, <1>7, <4>1 DEF Follows
    <3> QED  BY <3>1, <3>2
  <2> QED  BY <1>7, <2>1 DEF Follows
<1>9. W = [k \in 0..n |-> next(k, W[k - 1])]
  BY <1>4, <1>8
<1>10. W[0] = next(0, 0) /\ \A k \in 1..n : W[k] = next(k, W[k - 1])
  <2>1. 0 \in 0..n /\ \A k \in 1..n : k \in 0..n
    BY <1>3
  <2>2. \A k \in 0..n : W[k] = next(k, W[k - 1])
    BY <1>9
  <2> QED  BY <1>2, <2>1, <2>2
<1>11. \A k \in 0..n : W[k] \in S
  <2>1. W[0] \in S /\ \A k \in 1..n : W[k - 1] \in S => W[k] \in S
    BY <1>1, <1>2, <1>3, <1>10
  <2> QED  BY <1>3, <2>1, Stays
<1>12. W \in [0..n -> S]
  BY <1>9, <1>11
<1>13. ASSUME NEW k \in 1..n PROVE W[k] = Execute(code[k], W[k - 1], req)[Len(code[k])]
  <2>1. W[k - 1] \in S
    BY <1>3, <1>11
  <2> QED  BY <1>5, <1>10, <2>1
<1> QED  BY <1>2, <1>10, <1>12, <1>13 DEF n, S, W

(* The checks written are those among the rules, in their order.           *)
LEMMA WrittenKeeps ==
  ASSUME NEW R, NEW rules \in Seq(R), Once(rules), NEW w, w = WrittenUpTo(rules)[Len(rules)]
  PROVE  /\ w \in Seq(R)
         /\ \A i \in 1..Len(w) : \E j \in 1..Len(rules) : w[i] = rules[j] /\ Written(rules[j])
         /\ \A j \in 1..Len(rules) : Written(rules[j]) => \E i \in 1..Len(w) : w[i] = rules[j]
         /\ \A i, l \in 1..Len(w), a, b \in 1..Len(rules) :
              l < i /\ w[i] = rules[a] /\ w[l] = rules[b] => b < a
<1> DEFINE n == Len(rules)
           W == WrittenUpTo(rules)
           From(k) == \A i \in 1..Len(W[k]) : \E j \in 1..k : W[k][i] = rules[j] /\ Written(rules[j])
           All(k) == \A j \in 1..k : Written(rules[j]) => \E i \in 1..Len(W[k]) : W[k][i] = rules[j]
           Sorted(k) == \A i, l \in 1..Len(W[k]), a, b \in 1..k :
              l < i /\ W[k][i] = rules[a] /\ W[k][l] = rules[b] => b < a
           T == {k \in 0..n : From(k) /\ All(k) /\ Sorted(k)}
<1>1. n \in Nat /\ W \in [0..n -> Seq(R)] /\ W[0] = <<>>
  BY WrittenSteps
<1>2. \A k \in 1..n : W[k] = IF Written(rules[k]) THEN Append(W[k - 1], rules[k]) ELSE W[k - 1]
  BY WrittenSteps
<1>3. 0 \in T
  BY <1>1
<1>4. ASSUME NEW k \in 1..n, k - 1 \in T PROVE k \in T
  <2> DEFINE v == W[k - 1]
             r == rules[k]
  <2>1. k \in 0..n /\ k - 1 \in 0..n /\ v \in Seq(R) /\ Len(v) \in Nat /\ r \in R
    BY <1>1
  <2>2. From(k - 1) /\ All(k - 1) /\ Sorted(k - 1)
    BY <1>4
  <2>3. \A a, b \in 1..k : rules[a] = rules[b] => a = b
    BY DEF Once
  <2>4. ASSUME NEW i \in 1..Len(v), NEW a \in 1..k, v[i] = rules[a]
        PROVE  a \in 1..(k - 1)
    <3>1. PICK j \in 1..(k - 1) : v[i] = rules[j]
      BY <2>2
    <3>2. j \in 1..k
      OBVIOUS
    <3>3. a = j
      BY <2>3, <2>4, <3>1, <3>2
    <3> QED  BY <3>3
  <2>5. ASSUME NEW i \in 1..Len(v), NEW l \in 1..Len(v), NEW a \in 1..k, NEW b \in 1..k,
               l < i, v[i] = rules[a], v[l] = rules[b]
        PROVE  b < a
    <3>1. a \in 1..(k - 1) /\ b \in 1..(k - 1)
      BY <2>4, <2>5
    <3> QED  BY <2>2, <2>5, <3>1
  <2>6. CASE ~ Written(r)
    <3>1. W[k] = v
      BY <1>2, <2>6
    <3>2. From(k)
      <4>1. \A j \in 1..(k - 1) : j \in 1..k
        OBVIOUS
      <4> QED  BY <2>2, <3>1, <4>1
    <3>3. All(k)
      <4>1. \A j \in 1..k : Written(rules[j]) => j \in 1..(k - 1)
        BY <2>6
      <4> QED  BY <2>2, <3>1, <4>1
    <3>4. Sorted(k)
      <4> HIDE DEF v
      <4> QED  BY <2>5, <3>1
    <3> QED  BY <2>1, <3>2, <3>3, <3>4
  <2>7. CASE Written(r)
    <3>1. W[k] = Append(v, r)
      BY <1>2, <2>7
    <3>2. Len(W[k]) = Len(v) + 1 /\ W[k][Len(v) + 1] = r /\ \A i \in 1..Len(v) : W[k][i] = v[i]
      BY <2>1, <3>1
    <3> HIDE DEF v, W
    <3>3. From(k)
      <4> SUFFICES ASSUME NEW i \in 1..Len(W[k])
                   PROVE  \E j \in 1..k : W[k][i] = rules[j] /\ Written(rules[j])
        OBVIOUS
      <4>1. CASE i = Len(v) + 1
        BY <2>7, <3>2, <4>1
      <4>2. CASE i \in 1..Len(v)
        <5>1. \E j \in 1..(k - 1) : v[i] = rules[j] /\ Written(rules[j])
          BY <2>2, <4>2 DEF v
        <5> QED  BY <3>2, <4>2, <5>1
      <4> QED  BY <2>1, <3>2, <4>1, <4>2
    <3>4. All(k)
      <4> SUFFICES ASSUME NEW j \in 1..k, Written(rules[j])
                   PROVE  \E i \in 1..Len(W[k]) : W[k][i] = rules[j]
        OBVIOUS
      <4>1. CASE j = k
        BY <2>1, <3>2, <4>1
      <4>2. CASE j # k
        <5>1. j \in 1..(k - 1)
          BY <4>2
        <5>2. PICK i \in 1..Len(v) : v[i] = rules[j]
          BY <2>2, <5>1 DEF v
        <5> QED  BY <2>1, <3>2, <5>2
      <4> QED  BY <4>1, <4>2
    <3>5. Sorted(k)
      <4> SUFFICES ASSUME NEW i \in 1..Len(W[k]), NEW l \in 1..Len(W[k]),
                          NEW a \in 1..k, NEW b \in 1..k,
                          l < i, W[k][i] = rules[a], W[k][l] = rules[b]
                   PROVE  b < a
        OBVIOUS
      <4>1. l \in 1..Len(v) /\ W[k][l] = v[l]
        BY <2>1, <3>2
      <4>2. CASE i \in 1..Len(v)
        <5>1. W[k][i] = v[i]
          BY <3>2, <4>2
        <5> QED  BY <2>5, <4>1, <4>2, <5>1
      <4>3. CASE i = Len(v) + 1
        <5>1. a = k
          BY <2>3, <3>2, <4>3
        <5>2. b \in 1..(k - 1)
          BY <2>4, <4>1
        <5> QED  BY <5>1, <5>2
      <4> QED  BY <2>1, <3>2, <4>2, <4>3
    <3> QED  BY <2>1, <3>3, <3>4, <3>5
  <2> QED  BY <2>6, <2>7
<1>5. n \in T
  <2>1. T \in SUBSET (0..n) /\ n \in 0..n
    BY <1>1
  <2> HIDE DEF T, n
  <2> QED  BY <1>1, <1>3, <1>4, <2>1, UpTo
<1>6. W[n] \in Seq(R) /\ w = W[n]
  BY <1>1
<1> QED  BY <1>5, <1>6

(* The checks deferred are those of enum.                                  *)
LEMMA DeferredKeeps ==
  ASSUME NEW R, NEW rules \in Seq(R), NEW d, d = DeferredUpTo(rules)[Len(rules)]
  PROVE  /\ d \in Seq(R)
         /\ \A i \in 1..Len(d) : \E j \in 1..Len(rules) : d[i] = rules[j] /\ rules[j].op = "enum"
         /\ \A j \in 1..Len(rules) : rules[j].op = "enum" => \E i \in 1..Len(d) : d[i] = rules[j]
<1> DEFINE n == Len(rules)
           D == DeferredUpTo(rules)
           From(k) == \A i \in 1..Len(D[k]) : \E j \in 1..k : D[k][i] = rules[j] /\ rules[j].op = "enum"
           All(k) == \A j \in 1..k : rules[j].op = "enum" => \E i \in 1..Len(D[k]) : D[k][i] = rules[j]
           T == {k \in 0..n : From(k) /\ All(k)}
<1>1. n \in Nat /\ D \in [0..n -> Seq(R)] /\ D[0] = <<>>
  BY DeferredSteps
<1>2. \A k \in 1..n : D[k] = IF rules[k].op = "enum" THEN <<rules[k]>> \o D[k - 1] ELSE D[k - 1]
  BY DeferredSteps
<1>3. 0 \in T
  BY <1>1
<1>4. ASSUME NEW k \in 1..n, k - 1 \in T PROVE k \in T
  <2> DEFINE v == D[k - 1]
             r == rules[k]
  <2>1. k \in 0..n /\ k - 1 \in 0..n /\ v \in Seq(R) /\ Len(v) \in Nat /\ r \in R
    BY <1>1
  <2>2. From(k - 1) /\ All(k - 1)
    BY <1>4
  <2>3. CASE r.op # "enum"
    <3>1. D[k] = v
      BY <1>2, <2>3
    <3>2. From(k)
      <4>1. \A j \in 1..(k - 1) : j \in 1..k
        OBVIOUS
      <4> QED  BY <2>2, <3>1, <4>1
    <3>3. All(k)
      <4>1. \A j \in 1..k : rules[j].op = "enum" => j \in 1..(k - 1)
        BY <2>3
      <4> QED  BY <2>2, <3>1, <4>1
    <3> QED  BY <2>1, <3>2, <3>3
  <2>4. CASE r.op = "enum"
    <3>1. D[k] = <<r>> \o v
      BY <1>2, <2>4
    <3>2. Len(D[k]) = Len(v) + 1 /\ D[k][1] = r /\ \A i \in 1..Len(v) : D[k][i + 1] = v[i]
      BY <2>1, <3>1
    <3> HIDE DEF v, D
    <3>3. From(k)
      <4> SUFFICES ASSUME NEW i \in 1..Len(D[k])
                   PROVE  \E j \in 1..k : D[k][i] = rules[j] /\ rules[j].op = "enum"
        OBVIOUS
      <4>1. CASE i = 1
        BY <2>4, <3>2, <4>1
      <4>2. CASE i # 1
        <5>1. i - 1 \in 1..Len(v) /\ D[k][i] = v[i - 1]
          BY <2>1, <3>2, <4>2
        <5>2. \E j \in 1..(k - 1) : v[i - 1] = rules[j] /\ rules[j].op = "enum"
          BY <2>2, <5>1 DEF v
        <5> QED  BY <5>1, <5>2
      <4> QED  BY <4>1, <4>2
    <3>4. All(k)
      <4> SUFFICES ASSUME NEW j \in 1..k, rules[j].op = "enum"
                   PROVE  \E i \in 1..Len(D[k]) : D[k][i] = rules[j]
        OBVIOUS
      <4>1. CASE j = k
        BY <2>1, <3>2, <4>1
      <4>2. CASE j # k
        <5>1. j \in 1..(k - 1)
          BY <4>2
        <5>2. PICK i \in 1..Len(v) : v[i] = rules[j]
          BY <2>2, <5>1 DEF v
        <5>3. i + 1 \in 1..Len(D[k]) /\ D[k][i + 1] = rules[j]
          BY <2>1, <3>2, <5>2
        <5> QED  BY <5>3
      <4> QED  BY <4>1, <4>2
    <3> QED  BY <2>1, <3>3, <3>4
  <2> QED  BY <2>3, <2>4
<1>5. n \in T
  <2>1. T \in SUBSET (0..n) /\ n \in 0..n
    BY <1>1
  <2> HIDE DEF T, n
  <2> QED  BY <1>1, <1>3, <1>4, <2>1, UpTo
<1>6. D[n] \in Seq(R) /\ d = D[n]
  BY <1>1
<1> QED  BY <1>5, <1>6

(* Together they are the checks of a field: those of enum stand at the end *)
(* and the others in the order of their rules.                             *)
Keeps(c, rules) ==
  /\ c \in Seq(ToSet(rules))
  /\ \A i \in 1..Len(c) : \E j \in 1..Len(rules) :
       c[i] = rules[j] /\ (Written(rules[j]) \/ rules[j].op = "enum")
  /\ \A j \in 1..Len(rules) : Written(rules[j]) \/ rules[j].op = "enum" =>
       \E i \in 1..Len(c) : c[i] = rules[j]
  /\ \A i, l \in 1..Len(c), a, b \in 1..Len(rules) :
       l < i /\ c[i] = rules[a] /\ c[l] = rules[b] =>
         rules[a].op = "enum" \/ (rules[b].op # "enum" /\ b < a)

LEMMA InOrderKeeps ==
  ASSUME NEW rules, Once(rules)
  PROVE  Keeps(InOrder(rules), rules)
<1> DEFINE R == ToSet(rules)
           c == InOrder(rules)
<1>0. rules \in Seq(R)
  BY DEF Once
<1> HIDE DEF R
<1> DEFINE w == WrittenUpTo(rules)[Len(rules)]
           d == DeferredUpTo(rules)[Len(rules)]
<1>1. /\ w \in Seq(R)
      /\ \A i \in 1..Len(w) : \E j \in 1..Len(rules) : w[i] = rules[j] /\ Written(rules[j])
      /\ \A j \in 1..Len(rules) : Written(rules[j]) => \E i \in 1..Len(w) : w[i] = rules[j]
      /\ \A i, l \in 1..Len(w), a, b \in 1..Len(rules) :
           l < i /\ w[i] = rules[a] /\ w[l] = rules[b] => b < a
  <2>1. w = WrittenUpTo(rules)[Len(rules)]
    OBVIOUS
  <2> HIDE DEF w
  <2>2. w \in Seq(R)
    BY <1>0, <2>1, WrittenKeeps
  <2>3. ASSUME NEW i \in 1..Len(w)
        PROVE  \E j \in 1..Len(rules) : w[i] = rules[j] /\ Written(rules[j])
    BY <1>0, <2>1, WrittenKeeps, SMTT(20)
  <2>4. ASSUME NEW j \in 1..Len(rules), Written(rules[j])
        PROVE  \E i \in 1..Len(w) : w[i] = rules[j]
    BY <1>0, <2>1, <2>4, WrittenKeeps, SMTT(20)
  <2>5. ASSUME NEW i \in 1..Len(w), NEW l \in 1..Len(w),
               NEW a \in 1..Len(rules), NEW b \in 1..Len(rules),
               l < i, w[i] = rules[a], w[l] = rules[b]
        PROVE  b < a
    BY <1>0, <2>1, <2>5, WrittenKeeps, SMTT(20)
  <2> QED  BY <2>2, <2>3, <2>4, <2>5
<1>2. /\ d \in Seq(R)
      /\ \A i \in 1..Len(d) : \E j \in 1..Len(rules) : d[i] = rules[j] /\ rules[j].op = "enum"
      /\ \A j \in 1..Len(rules) : rules[j].op = "enum" => \E i \in 1..Len(d) : d[i] = rules[j]
  <2>1. d = DeferredUpTo(rules)[Len(rules)]
    OBVIOUS
  <2> HIDE DEF d
  <2>2. d \in Seq(R)
    BY <1>0, <2>1, DeferredKeeps
  <2>3. ASSUME NEW i \in 1..Len(d)
        PROVE  \E j \in 1..Len(rules) : d[i] = rules[j] /\ rules[j].op = "enum"
    BY <1>0, <2>1, DeferredKeeps, SMTT(20)
  <2>4. ASSUME NEW j \in 1..Len(rules), rules[j].op = "enum"
        PROVE  \E i \in 1..Len(d) : d[i] = rules[j]
    BY <1>0, <2>1, <2>4, DeferredKeeps
  <2> QED  BY <2>2, <2>3, <2>4
<1>3. c = w \o d
  BY DEF InOrder
<1> HIDE DEF w, d
<1>4. /\ c \in Seq(R) /\ Len(c) = Len(w) + Len(d) /\ Len(w) \in Nat /\ Len(d) \in Nat
      /\ \A i \in 1..Len(w) : c[i] = w[i]
      /\ \A i \in 1..Len(d) : c[Len(w) + i] = d[i]
  BY <1>1, <1>2, <1>3
<1>5. ASSUME NEW i \in 1..Len(c)
      PROVE  \/ i \in 1..Len(w) /\ c[i] = w[i]
             \/ i - Len(w) \in 1..Len(d) /\ c[i] = d[i - Len(w)]
  <2>1. CASE i \in 1..Len(w)
    BY <1>4, <2>1
  <2>2. CASE i \notin 1..Len(w)
    <3>1. i - Len(w) \in 1..Len(d) /\ Len(w) + (i - Len(w)) = i
      BY <1>4, <2>2
    <3> QED  BY <1>4, <3>1
  <2> QED  BY <2>1, <2>2
<1>6. ASSUME NEW i \in 1..Len(c)
      PROVE  \E j \in 1..Len(rules) : c[i] = rules[j] /\ (Written(rules[j]) \/ rules[j].op = "enum")
  <2>1. CASE i \in 1..Len(w) /\ c[i] = w[i]
    BY <1>1, <2>1
  <2>2. CASE i - Len(w) \in 1..Len(d) /\ c[i] = d[i - Len(w)]
    BY <1>2, <2>2
  <2> QED  BY <1>5, <2>1, <2>2
<1>7. ASSUME NEW j \in 1..Len(rules), Written(rules[j]) \/ rules[j].op = "enum"
      PROVE  \E i \in 1..Len(c) : c[i] = rules[j]
  <2>1. CASE Written(rules[j])
    BY <1>1, <1>4, <2>1
  <2>2. CASE rules[j].op = "enum"
    <3>1. PICK i \in 1..Len(d) : d[i] = rules[j]
      BY <1>2, <2>2
    <3>2. Len(w) + i \in 1..Len(c) /\ c[Len(w) + i] = rules[j]
      BY <1>4, <3>1
    <3> QED  BY <3>2
  <2> QED  BY <1>7, <2>1, <2>2
<1>8. ASSUME NEW i \in 1..Len(c), NEW l \in 1..Len(c),
             NEW a \in 1..Len(rules), NEW b \in 1..Len(rules),
             l < i, c[i] = rules[a], c[l] = rules[b], rules[a].op # "enum"
      PROVE  rules[b].op # "enum" /\ b < a
  <2>1. i \in 1..Len(w) /\ c[i] = w[i]
    <3>1. CASE i - Len(w) \in 1..Len(d) /\ c[i] = d[i - Len(w)]
      <4>1. \A x \in 1..Len(d) : d[x].op = "enum"
        BY <1>2
      <4> QED  BY <1>8, <3>1, <4>1
    <3> QED  BY <1>5, <3>1
  <2>2. l \in 1..Len(w) /\ c[l] = w[l]
    BY <1>4, <1>8, <2>1
  <2>3. c[l].op # "enum"
    BY <1>1, <2>2 DEF Written
  <2> QED  BY <1>1, <1>8, <2>1, <2>2, <2>3
<1> QED  BY <1>4, <1>6, <1>7, <1>8 DEF Keeps, R

(* The statements of a field                                               *)
CodeOf(block, m, c) ==
  /\ Len(block) = Len(c) + 1 /\ Len(c) \in Nat /\ DOMAIN block = 1..Len(block)
  /\ block[1] = Fill(m)
  /\ \A i \in 1..Len(c) : block[i + 1] = Check(m, c[i])

LEMMA FieldCodeIs ==
  ASSUME NEW m, NEW R, InOrder(m.rules) \in Seq(R)
  PROVE  CodeOf(FieldCode(m), m, InOrder(m.rules))
<1> DEFINE c == InOrder(m.rules)
           block == FieldCode(m)
<1> DEFINE checks == [k \in DOMAIN c |-> Check(m, c[k])]
<1>1. block = <<Fill(m)>> \o checks
  BY DEF FieldCode
<1>2. DOMAIN c = 1..Len(c) /\ Len(c) \in Nat
  OBVIOUS
<1>3. checks \in Seq({Check(m, c[k]) : k \in DOMAIN c}) /\ Len(checks) = Len(c)
      /\ \A k \in 1..Len(c) : checks[k] = Check(m, c[k])
  <2>1. checks \in [1..Len(c) -> {Check(m, c[k]) : k \in DOMAIN c}]
    BY <1>2
  <2> QED  BY <1>2, <2>1
<1> HIDE DEF checks
<1>4. Len(block) = Len(c) + 1 /\ block[1] = Fill(m) /\ DOMAIN block = 1..(Len(c) + 1)
  BY <1>1, <1>2, <1>3
<1>5. ASSUME NEW k \in 1..Len(c) PROVE block[k + 1] = Check(m, c[k])
  <2>1. block[k + 1] = checks[k]
    BY <1>1, <1>2, <1>3
  <2> QED  BY <1>3, <2>1
<1> HIDE DEF block
<1>6. CodeOf(block, m, c)
  BY <1>2, <1>4, <1>5 DEF CodeOf
<1> QED  BY <1>6 DEF block

(* After an error nothing more is executed.                                *)
LEMMA Stopped ==
  ASSUME NEW req, NEW N, NEW V, NEW block, AllFit(block, req, N, V),
         NEW start \in Answers(N, V), start.status # 0
  PROVE  Execute(block, start, req)[Len(block)] = start
<1> DEFINE n == Len(block)
           h == Execute(block, start, req)
           S == {start}
<1>1. /\ h \in [0..n -> Answers(N, V)]
      /\ h[0] = start
      /\ \A k \in 1..n : h[k] = Executed(h[k - 1], block[k], req)
  BY ExecuteSteps
<1> HIDE DEF h
<1>2. h[0] \in S /\ \A k \in 1..n : h[k - 1] \in S => h[k] \in S
  BY <1>1 DEF Executed
<1>3. \A k \in 0..n : h[k] \in S
  <2> HIDE DEF n, S
  <2>1. n \in Nat
    BY DEF n, AllFit
  <2> QED  BY <1>2, <2>1, Stays
<1> QED  BY <1>3 DEF h, AllFit

(* The value that the rule at place a sees is the one at hand when its     *)
(* check, the k-th, is executed: the default if it was set before.         *)
LEMMA SeenIs ==
  ASSUME NEW rules, Once(rules), NEW c, Keeps(c, rules), NEW v0,
         NEW k \in 1..Len(c), NEW a \in DOMAIN rules, c[k] = rules[a], rules[a].op # "default",
         NEW given, given = {d \in DOMAIN rules : rules[d].op = "default"}
  PROVE  Seen(rules, a, v0) =
           IF v0.text = Blank /\ \E i \in 1..(k - 1) : c[i].op = "default"
           THEN rules[CHOOSE d \in given : TRUE].arg ELSE v0
<1> DEFINE set == {d \in DOMAIN rules :
                     rules[d].op = "default" /\ (d < a \/ rules[a].op = "enum")}
<1>1. DOMAIN rules = 1..Len(rules) /\ Len(rules) \in Nat
  BY DEF Once
<1>2. \A d, e \in given : d = e
  BY DEF Once
<1>3. ASSUME NEW i \in 1..(k - 1), c[i].op = "default"
      PROVE  set # {}
  <2>1. i \in 1..Len(c) /\ i < k
    BY DEF Keeps
  <2>2. PICK d \in 1..Len(rules) : c[i] = rules[d]
    BY <2>1 DEF Keeps
  <2>3. rules[a].op = "enum" \/ d < a
    BY <1>1, <2>1, <2>2 DEF Keeps
  <2>4. d \in set
    BY <1>1, <1>3, <2>2, <2>3
  <2> QED  BY <2>4
<1>4. ASSUME NEW d \in set PROVE \E i \in 1..(k - 1) : c[i].op = "default"
  <2>1. d \in 1..Len(rules) /\ Written(rules[d])
    BY <1>1 DEF Written
  <2>2. PICK i \in 1..Len(c) : c[i] = rules[d]
    BY <2>1 DEF Keeps
  <2>3. i # k
    BY <2>2
  <2>4. ~ (k < i)
    <3> SUFFICES ASSUME k < i PROVE FALSE
      OBVIOUS
    <3>1. rules[d].op = "enum" \/ (rules[a].op # "enum" /\ a < d)
      BY <1>1, <2>1, <2>2 DEF Keeps
    <3>2. a \in Nat /\ d \in Nat /\ (d < a \/ rules[a].op = "enum")
      BY <1>1
    <3> QED  BY <3>1, <3>2
  <2>5. i \in 1..(k - 1)
    BY <2>3, <2>4 DEF Keeps
  <2> QED  BY <2>2, <2>5
<1>5. set \subseteq given
  OBVIOUS
<1>6. set # {} => (CHOOSE d \in set : TRUE) = (CHOOSE d \in given : TRUE)
  <2> HIDE DEF set
  <2> QED  BY <1>2, <1>5
<1>7. Seen(rules, a, v0) = IF v0.text = Blank /\ set # {} THEN rules[CHOOSE d \in set : TRUE].arg ELSE v0
  BY DEF Seen
<1>8. set # {} <=> \E i \in 1..(k - 1) : c[i].op = "default"
  <2> HIDE DEF set
  <2> QED  BY <1>3, <1>4
<1> HIDE DEF set
<1> QED  BY <1>6, <1>7, <1>8

(* A check refuses the value it sees if its rule is broken.                *)
LEMMA BrokenIs ==
  ASSUME NEW rules, NEW a \in DOMAIN rules, NEW m, m.type \in {"int", "string"}, NEW v0, NEW req,
         Written(rules[a]) \/ rules[a].op = "enum"
  PROVE  /\ rules[a].op = "default" => \A v : ~ Refuses(Check(m, rules[a]), v, req)
         /\ a \in Broken(m.type, rules, v0) <=> Refuses(Check(m, rules[a]), Seen(rules, a, v0), req)
<1> DEFINE r == rules[a]
           s == Check(m, r)
           v == Seen(rules, a, v0)
<1>1. s.op = r.op /\ s.type = m.type /\ s.arg = r.arg
  BY DEF Check, Statement
<1>2. r.op \in {"required", "default", "min", "max", "enum"}
  BY DEF Written
<1>3. a \in Broken(m.type, rules, v0) <=>
        \/ r.op = "required" /\ v.text = Blank
        \/ r.op = "min" /\ IF m.type = "int" THEN \E n \in v.int : n < r.arg ELSE v.len < r.arg
        \/ r.op = "max" /\ \E n \in v.int : n > r.arg
        \/ r.op = "enum" /\ v.text \notin r.arg
  BY DEF Broken
<1> HIDE DEF r, s, v
<1>4. m.type = "string" <=> m.type # "int"
  OBVIOUS
<1>5. r.op = "default" => \A x : ~ Refuses(s, x, req)
  BY <1>1 DEF Refuses
<1>6. ASSUME r.op = "required"
      PROVE  a \in Broken(m.type, rules, v0) <=> Refuses(s, v, req)
  BY <1>1, <1>3, <1>6 DEF Refuses
<1>7. ASSUME r.op = "default"
      PROVE  a \in Broken(m.type, rules, v0) <=> Refuses(s, v, req)
  BY <1>1, <1>3, <1>7 DEF Refuses
<1>8. ASSUME r.op = "min"
      PROVE  a \in Broken(m.type, rules, v0) <=> Refuses(s, v, req)
  BY <1>1, <1>3, <1>4, <1>8 DEF Refuses
<1>9. ASSUME r.op = "max"
      PROVE  a \in Broken(m.type, rules, v0) <=> Refuses(s, v, req)
  BY <1>1, <1>3, <1>9 DEF Refuses
<1>10. ASSUME r.op = "enum"
      PROVE  a \in Broken(m.type, rules, v0) <=> Refuses(s, v, req)
  BY <1>1, <1>3, <1>10 DEF Refuses
<1> QED  BY <1>2, <1>5, <1>6, <1>7, <1>8, <1>9, <1>10 DEF r, s, v

(* Of the checks that refuse the first one names the field to blame.       *)
LEMMA FirstToBlame ==
  ASSUME NEW rules, Once(rules), NEW c, Keeps(c, rules), NEW broken \in SUBSET DOMAIN rules,
         NEW wrong,
         \A i \in 1..Len(c), a \in DOMAIN rules : c[i] = rules[a] => (i \in wrong <=> a \in broken),
         NEW i \in 1..Len(c), i \in wrong, \A l \in 1..(i - 1) : l \notin wrong,
         \A a \in broken : Written(rules[a]) \/ rules[a].op = "enum"
  PROVE  /\ broken # {}
         /\ c[i].op = "required" <=>
              \E x \in broken : /\ rules[x].op = "required"
                                /\ \A j \in broken : j < x => rules[j].op = "enum"
<1>1. DOMAIN rules = 1..Len(rules) /\ Len(rules) \in Nat /\ Len(c) \in Nat
  BY DEF Once, Keeps
<1>2. PICK a \in 1..Len(rules) : c[i] = rules[a]
  BY DEF Keeps
<1>3. a \in broken
  BY <1>1, <1>2
<1>4. ASSUME NEW j \in broken
      PROVE  \E l \in 1..Len(c) : c[l] = rules[j] /\ i <= l
  <2>1. j \in 1..Len(rules)
    BY <1>1
  <2>2. PICK l \in 1..Len(c) : c[l] = rules[j]
    BY <2>1 DEF Keeps
  <2>3. l \in wrong
    BY <1>1, <2>1, <2>2
  <2>4. l \notin 1..(i - 1)
    BY <2>3
  <2>5. i <= l
    BY <1>1, <2>4
  <2> QED  BY <2>2, <2>5
<1>5. \A p, q \in 1..Len(c), x, y \in 1..Len(rules) :
        q < p /\ c[p] = rules[x] /\ c[q] = rules[y] =>
          rules[x].op = "enum" \/ (rules[y].op # "enum" /\ y < x)
  BY DEF Keeps
<1>6. ASSUME c[i].op = "required", NEW j \in broken, j < a
      PROVE  rules[j].op = "enum"
  <2>1. PICK l \in 1..Len(c) : c[l] = rules[j] /\ i <= l
    BY <1>4
  <2>2. j \in 1..Len(rules) /\ ~ (a < j) /\ j # a
    BY <1>1, <1>6
  <2>3. l # i
    <3>1. rules[j] # rules[a]
      BY <1>1, <2>2 DEF Once
    <3> QED  BY <1>2, <2>1, <3>1
  <2>4. i < l
    BY <1>1, <2>1, <2>3
  <2> QED  BY <1>2, <1>5, <2>1, <2>2, <2>4
<1>7. ASSUME NEW x \in broken, rules[x].op = "required",
             \A j \in broken : j < x => rules[j].op = "enum"
      PROVE  c[i].op = "required"
  <2>1. PICK l \in 1..Len(c) : c[l] = rules[x] /\ i <= l
    BY <1>4
  <2>2. CASE i = l
    BY <1>7, <2>1, <2>2
  <2>3. CASE i # l
    <3>1. i < l /\ x \in 1..Len(rules)
      BY <1>1, <2>1, <2>3
    <3>2. rules[a].op # "enum" /\ a < x
      BY <1>2, <1>5, <1>7, <2>1, <3>1
    <3> QED  BY <1>3, <1>7, <3>2
  <2> QED  BY <2>2, <2>3
<1> QED  BY <1>2, <1>3, <1>6, <1>7

(* The block of a field lets pass a request in which nothing is wrong with *)
(* it, and answers 400 with the field to blame otherwise.                  *)
LEMMA FieldAnswers ==
  ASSUME NEW fields, NEW p, fields[p].type \in {"int", "string"}, Once(Governing(fields, p)),
         NEW m, m.name = fields[p].name, m.type = fields[p].type, m.rules = Governing(fields, p),
         NEW req, NEW N, NEW V,
         AllFit(FieldCode(m), req, N, V),
         NEW start \in Answers(N, V), start.status = 0,
         NEW end, end = Execute(FieldCode(m), start, req)[Len(FieldCode(m))]
  PROVE  IF Blamed(fields, p, req) = {} THEN end.status = 0 /\ end.field = start.field
         ELSE end.status = 400 /\ end.field = CHOOSE name \in Blamed(fields, p, req) : TRUE
<1> DEFINE rules == m.rules
           c == InOrder(rules)
           block == FieldCode(m)
           v0 == FormValue(req, ParamName(m))
           h == Execute(block, start, req)
           broken == Broken(m.type, rules, v0)
           given == {d \in DOMAIN rules : rules[d].op = "default"}
           Past(k) == \E i \in 1..(k - 1) : c[i].op = "default"
           At(k) == IF v0.text = Blank /\ Past(k) THEN rules[CHOOSE d \in given : TRUE].arg ELSE v0
           Wrong(i) == Refuses(Check(m, c[i]), At(i), req)
           NoInt == m.type = "int" /\ v0.int = {}
           Label(i) == IF c[i].op = "required" THEN "login" ELSE m.name
           Going(k) == /\ h[k].status = 0 /\ h[k].field = start.field
                       /\ \A i \in 1..(k - 1) : ~ Wrong(i)
                       /\ h[k].value = At(k)
           Refused(k) == /\ h[k].status = 400
                         /\ \E i \in 1..(k - 1) : /\ Wrong(i) /\ h[k].field = Label(i)
                                                  /\ \A l \in 1..(i - 1) : ~ Wrong(l)
           Good(k) == IF NoInt THEN h[k].status = 400 /\ h[k].field = m.name
                      ELSE Going(k) \/ Refused(k)
<1>1. Once(rules) /\ m.type \in {"int", "string"}
  OBVIOUS
<1>2. Blamed(fields, p, req) =
        IF NoInt THEN {m.name}
        ELSE IF broken = {} THEN {}
        ELSE IF \E i \in broken : /\ rules[i].op = "required"
                                  /\ \A j \in broken : j < i => rules[j].op = "enum"
        THEN {"login"} ELSE {m.name}
  <2>1. ParamName([name |-> fields[p].name, rules |-> Governing(fields, p)]) = ParamName(m)
    BY DEF ParamName
  <2> QED  BY <2>1 DEF Blamed
<1> DEFINE blamed == Blamed(fields, p, req)
<1> HIDE DEF blamed
<1>3. Keeps(c, rules)
  BY <1>1, InOrderKeeps
<1>4. CodeOf(block, m, c)
  <2>1. InOrder(m.rules) \in Seq(ToSet(rules))
    BY <1>3 DEF Keeps
  <2>2. CodeOf(FieldCode(m), m, InOrder(m.rules))
    BY <2>1, FieldCodeIs
  <2> QED  BY <2>2
<1>5. /\ h \in [0..Len(block) -> Answers(N, V)]
      /\ h[0] = start
      /\ \A k \in 1..Len(block) : h[k] = Executed(h[k - 1], block[k], req)
  <2>1. AllFit(block, req, N, V)
    OBVIOUS
  <2> HIDE DEF block
  <2> QED  BY <2>1, ExecuteSteps
<1>6. \A k \in 0..Len(block) : h[k] \in Answers(N, V)
  BY <1>5
<1>7. DOMAIN rules = 1..Len(rules) /\ Len(rules) \in Nat
  BY <1>1 DEF Once
<1>8. \A i \in 1..Len(c) : \E j \in DOMAIN rules :
         c[i] = rules[j] /\ (Written(rules[j]) \/ rules[j].op = "enum")
  BY <1>3, <1>7 DEF Keeps
<1>9. \A d, e \in given : d = e
  BY <1>1 DEF Once
<1>10. end = h[Len(c) + 1]
  BY <1>4 DEF CodeOf
<1>11. ParamName(m) = ParamName(m) /\ Fill(m).arg = ParamName(m) /\ Fill(m).name = m.name
       /\ Fill(m).op = IF m.type = "int" THEN "atoi" ELSE "read"
  BY DEF Fill, Statement
<1> HIDE DEF rules, c, block, h, broken, given
<1>12. ASSUME NEW i \in 1..Len(c), NEW a \in DOMAIN rules, c[i] = rules[a]
       PROVE  Wrong(i) <=> a \in broken
  <2>1. Written(rules[a]) \/ rules[a].op = "enum"
    BY <1>8, <1>12
  <2>2. /\ rules[a].op = "default" => \A v : ~ Refuses(Check(m, rules[a]), v, req)
        /\ a \in broken <=> Refuses(Check(m, rules[a]), Seen(rules, a, v0), req)
    <3>1. a \in Broken(m.type, rules, v0) <=>
            Refuses(Check(m, rules[a]), Seen(rules, a, v0), req)
      <4> HIDE DEF v0
      <4> QED  BY <1>1, <2>1, BrokenIs
    <3>2. rules[a].op = "default" => \A v : ~ Refuses(Check(m, rules[a]), v, req)
      BY DEF Check, Statement, Refuses
    <3> QED  BY <3>1, <3>2 DEF broken
  <2>3. CASE rules[a].op = "default"
    BY <1>12, <2>2, <2>3
  <2>4. CASE rules[a].op # "default"
    <3>1. Seen(rules, a, v0) = At(i)
      <4>1. given = {d \in DOMAIN rules : rules[d].op = "default"}
        BY DEF given
      <4>2. Seen(rules, a, v0) = IF v0.text = Blank /\ \E l \in 1..(i - 1) : c[l].op = "default"
                                 THEN rules[CHOOSE d \in given : TRUE].arg ELSE v0
        <5> HIDE DEF v0
        <5> QED  BY <1>1, <1>3, <1>12, <2>4, <4>1, SeenIs
      <4> QED  BY <4>2
    <3> QED  BY <1>12, <2>2, <3>1
  <2> QED  BY <2>3, <2>4
<1> HIDE DEF v0
<1>13. Good(1)
  <2>1. h[1] = Executed(start, Fill(m), req)
    <3>1. 1 \in 1..Len(block) /\ block[1] = Fill(m) /\ 1 - 1 = 0
      BY <1>4 DEF CodeOf
    <3> QED  BY <1>5, <3>1
  <2>2. Refuses(Fill(m), start.value, req) <=> NoInt
    BY <1>11 DEF Refuses, v0
  <2>3. Assigned(Fill(m), start.value, req) = v0
    BY <1>11 DEF Assigned, v0
  <2>4. ~ Past(1) /\ \A i \in 1..(1 - 1) : ~ Wrong(i)
    OBVIOUS
  <2>5. CASE NoInt
    <3>1. h[1] = [start EXCEPT !.status = Status(Fill(m).op), !.field = Named(Fill(m))]
      BY <2>1, <2>2, <2>5 DEF Executed
    <3>2. Status(Fill(m).op) = 400 /\ Named(Fill(m)) = m.name
      BY <1>11 DEF Status, Named
    <3> QED  BY <2>5, <3>1, <3>2 DEF Answers
  <2>6. CASE ~ NoInt
    <3>1. h[1] = [start EXCEPT !.value = v0]
      BY <2>1, <2>2, <2>3, <2>6 DEF Executed
    <3>2. h[1].status = 0 /\ h[1].field = start.field /\ h[1].value = v0
      BY <3>1 DEF Answers
    <3> HIDE DEF Wrong
    <3> QED  BY <2>4, <2>6, <3>2
  <2> QED  BY <2>5, <2>6
<1>14. ASSUME NEW k \in 1..Len(c), Good(k) PROVE Good(k + 1)
  <2> DEFINE s == Check(m, c[k])
  <2>1. h[k + 1] = Executed(h[k], s, req)
    <3>1. k + 1 \in 1..Len(block) /\ block[k + 1] = s /\ (k + 1) - 1 = k
      BY <1>4 DEF CodeOf
    <3> QED  BY <1>5, <3>1
  <2>2. CASE h[k].status # 0
    <3>1. h[k + 1] = h[k]
      BY <2>1, <2>2 DEF Executed
    <3>2. \A i \in 1..(k - 1) : i \in 1..((k + 1) - 1)
      OBVIOUS
    <3> HIDE DEF Wrong, Label, At
    <3> QED  BY <1>14, <2>2, <3>1, <3>2
  <2>3. CASE h[k].status = 0
    <3>1. ~ NoInt /\ Going(k)
      BY <1>14, <2>3
    <3>2. h[k] \in Answers(N, V)
      BY <1>4, <1>6 DEF CodeOf
    <3>3. s.op = c[k].op /\ s.arg = c[k].arg /\ Named(s) = Label(k)
      BY DEF Check, Statement, Named
    <3>4. \A i \in 1..((k + 1) - 1) : i \in 1..(k - 1) \/ i = k
      OBVIOUS
    <3>5. PICK j \in DOMAIN rules : c[k] = rules[j] /\ (Written(rules[j]) \/ rules[j].op = "enum")
      BY <1>8
    <3>6. c[k].op \in {"required", "default", "min", "max", "enum"}
      BY <3>5 DEF Written
    <3>7. k \in 1..((k + 1) - 1) /\ \A i \in 1..(k - 1) : i \in 1..((k + 1) - 1)
      OBVIOUS
    <3>8. CASE Wrong(k)
      <4>1. h[k + 1] = [h[k] EXCEPT !.status = Status(s.op), !.field = Named(s)]
        BY <2>1, <2>3, <3>1, <3>8 DEF Executed
      <4>2. Status(s.op) = 400
        <5>1. c[k].op \notin {"auth", "method"}
          BY <3>6
        <5> QED  BY <3>3, <5>1 DEF Status
      <4>3. h[k + 1].status = 400 /\ h[k + 1].field = Label(k)
        <5> HIDE DEF s, Label
        <5> QED  BY <3>2, <3>3, <4>1, <4>2 DEF Answers
      <4> HIDE DEF Wrong, Label, At
      <4> QED  BY <3>1, <3>7, <3>8, <4>3
    <3>9. CASE ~ Wrong(k)
      <4>1. h[k + 1] = [h[k] EXCEPT !.value = Assigned(s, At(k), req)]
        BY <2>1, <2>3, <3>1, <3>9 DEF Executed
      <4>2. Assigned(s, At(k), req) = At(k + 1)
        <5>1. CASE c[k].op = "default"
          <6>1. j \in given /\ (CHOOSE d \in given : TRUE) = j
            <7>1. j \in given
              BY <3>5, <5>1 DEF given
            <7> QED  BY <1>9, <7>1
          <6>2. ~ Past(k)
            <7> SUFFICES ASSUME NEW i \in 1..(k - 1), c[i].op = "default" PROVE FALSE
              OBVIOUS
            <7>1. i \in 1..Len(c) /\ i < k
              BY <1>4 DEF CodeOf
            <7>2. PICK d \in 1..Len(rules) : c[i] = rules[d]
              BY <1>3, <7>1 DEF Keeps
            <7>3. d = j
              BY <1>7, <1>9, <6>1, <7>2 DEF given
            <7>4. rules[j].op = "enum" \/ (rules[d].op # "enum" /\ d < j)
              BY <1>3, <1>7, <3>5, <7>1, <7>2 DEF Keeps
            <7> QED  BY <1>7, <3>5, <5>1, <7>3, <7>4
          <6>3. Past(k + 1)
            BY <3>7, <5>1
          <6>4. At(k) = v0
            BY <6>2
          <6>5. Assigned(s, v0, req) = IF v0.text = Blank THEN c[k].arg ELSE v0
            BY <3>3, <5>1 DEF Assigned
          <6>6. At(k + 1) = IF v0.text = Blank THEN rules[j].arg ELSE v0
            <7> HIDE DEF Past
            <7> QED  BY <6>1, <6>3
          <6> HIDE DEF At
          <6> QED  BY <3>5, <6>4, <6>5, <6>6
        <5>2. CASE c[k].op # "default"
          <6>1. Past(k + 1) <=> Past(k)
            BY <3>4, <3>7, <5>2
          <6>2. \A v : Assigned(s, v, req) = v
            BY <3>3, <3>6, <5>2 DEF Assigned
          <6> HIDE DEF Past
          <6> QED  BY <6>1, <6>2
        <5> QED  BY <5>1, <5>2
      <4>3. h[k + 1].status = 0 /\ h[k + 1].field = start.field /\ h[k + 1].value = At(k + 1)
        <5> HIDE DEF s, At
        <5> QED  BY <2>3, <3>1, <3>2, <4>1, <4>2 DEF Answers
      <4> HIDE DEF Wrong, At
      <4> QED  BY <3>1, <3>4, <3>9, <4>3
    <3> QED  BY <3>8, <3>9
  <2> QED  BY <2>2, <2>3
<1>15. Good(Len(c) + 1)
  <2> DEFINE n == Len(c)
             T == {k \in 0..n : Good(k + 1)}
  <2>1. n \in Nat
    BY <1>4 DEF CodeOf
  <2>2. 0 \in T /\ T \in SUBSET (0..n)
    BY <1>13, <2>1
  <2>3. ASSUME NEW k \in 1..n, k - 1 \in T PROVE k \in T
    <3>1. Good(k)
      <4>1. (k - 1) + 1 = k
        OBVIOUS
      <4> HIDE DEF Good
      <4> QED  BY <2>3, <4>1
    <3> HIDE DEF Good
    <3> QED  BY <1>14, <3>1
  <2> HIDE DEF T
  <2>4. \A k \in 0..n : k \in T
    BY <2>1, <2>2, <2>3, UpTo
  <2>5. n \in T
    BY <2>1, <2>4
  <2> HIDE DEF Good
  <2> QED  BY <2>5 DEF T
<1>16. broken \in SUBSET DOMAIN rules
       /\ \A a \in broken : Written(rules[a]) \/ rules[a].op = "enum"
  BY DEF broken, Broken, Written
<1>17. \A i \in 1..Len(c) : i \in 1..((Len(c) + 1) - 1)
  BY <1>4 DEF CodeOf
<1>18. \A i \in 1..((Len(c) + 1) - 1) : i \in 1..Len(c)
  BY <1>4 DEF CodeOf
<1> HIDE DEF Wrong, At
<1>19. CASE NoInt
  <2>1. blamed = {m.name}
    BY <1>2, <1>19 DEF blamed
  <2>2. end.status = 400 /\ end.field = m.name
    <3> HIDE DEF Going, Refused
    <3> QED  BY <1>10, <1>15, <1>19
  <2>3. (CHOOSE name \in {m.name} : TRUE) = m.name
    OBVIOUS
  <2> HIDE DEF NoInt
  <2> QED  BY <2>1, <2>2, <2>3 DEF blamed
<1>20. CASE ~ NoInt /\ Going(Len(c) + 1)
  <2>1. broken = {}
    <3> SUFFICES ASSUME NEW a \in broken PROVE FALSE
      OBVIOUS
    <3>1. a \in 1..Len(rules) /\ (Written(rules[a]) \/ rules[a].op = "enum")
      BY <1>7, <1>16
    <3>2. PICK i \in 1..Len(c) : c[i] = rules[a]
      BY <1>3, <3>1 DEF Keeps
    <3> QED  BY <1>7, <1>12, <1>17, <1>20, <3>1, <3>2
  <2>2. blamed = {}
    BY <1>2, <1>20, <2>1 DEF blamed
  <2> QED  BY <1>10, <1>20, <2>2 DEF blamed
<1>21. CASE ~ NoInt /\ Refused(Len(c) + 1)
  <2>1. PICK i \in 1..Len(c) : /\ Wrong(i) /\ h[Len(c) + 1].field = Label(i)
                               /\ \A l \in 1..(i - 1) : ~ Wrong(l)
    BY <1>18, <1>21
  <2> DEFINE required == \E x \in broken : /\ rules[x].op = "required"
                                           /\ \A j \in broken : j < x => rules[j].op = "enum"
  <2>2. broken # {} /\ (c[i].op = "required" <=> required)
    <3> DEFINE wrong == {l \in 1..Len(c) : Wrong(l)}
    <3>1. \A l \in 1..(i - 1) : l \in 1..Len(c)
      BY <1>4 DEF CodeOf
    <3>2. /\ i \in wrong /\ \A l \in 1..(i - 1) : l \notin wrong
          /\ \A l \in 1..Len(c), a \in DOMAIN rules : c[l] = rules[a] => (l \in wrong <=> a \in broken)
      BY <1>12, <2>1, <3>1
    <3> HIDE DEF wrong
    <3> QED  BY <1>1, <1>3, <1>16, <3>2, FirstToBlame
  <2> HIDE DEF required
  <2>3. blamed = {Label(i)}
    <3>1. blamed = IF required THEN {"login"} ELSE {m.name}
      BY <1>2, <1>21, <2>2 DEF blamed, required
    <3> QED  BY <2>2, <3>1
  <2> HIDE DEF Label
  <2> QED  BY <1>10, <1>21, <2>1, <2>3 DEF blamed
<1> QED  BY <1>15, <1>19, <1>20, <1>21

(* A field has the rules that govern it.                                   *)
LEMMA ReadFieldsIs ==
  ASSUME NEW fields, IsFields(fields)
  PROVE  /\ DOMAIN ReadFields(fields) = DOMAIN fields
         /\ \A k \in DOMAIN fields :
              /\ ReadFields(fields)[k].name = fields[k].name
              /\ ReadFields(fields)[k].type = fields[k].type
              /\ ReadFields(fields)[k].rules = Governing(fields, k)
              /\ Once(Governing(fields, k))
<1> DEFINE n == Len(fields)
           own(k) == CHOOSE t \in fields[k].tag : TRUE
           next(k, r) == IF fields[k].tag # {} THEN own(k) ELSE IF k = 1 THEN <<>> ELSE r
           tagged(k) == {j \in 1..k : fields[j].tag # {}}
           last(k) == CHOOSE j \in tagged(k) : \A i \in tagged(k) : i <= j
           g == [k \in DOMAIN fields |-> Governing(fields, k)]
           W == Rules(fields)
<1>1. DOMAIN fields = 1..n /\ n \in Nat
  BY DEF IsFields
<1>2. W = CHOOSE f : f = [k \in DOMAIN fields |-> next(k, f[k - 1])]
  BY DEF Rules
<1>3. \A k : Governing(fields, k) = IF tagged(k) = {} THEN <<>> ELSE own(last(k))
  BY DEF Governing
<1>4. ASSUME NEW k \in 1..n, fields[k].tag # {} PROVE Governing(fields, k) = own(k)
  <2>1. k \in tagged(k) /\ \A i \in tagged(k) : i <= k
    BY <1>4
  <2>2. \A j \in tagged(k) : k <= j => j = k
    OBVIOUS
  <2> HIDE DEF tagged, own
  <2>3. last(k) = k
    BY <2>1, <2>2
  <2> QED  BY <1>3, <2>1, <2>3
<1>5. ASSUME NEW k \in 1..n, fields[k].tag = {}
      PROVE  Governing(fields, k) = IF k = 1 THEN <<>> ELSE Governing(fields, k - 1)
  <2>1. CASE k = 1
    <3>1. tagged(k) = {}
      BY <1>5, <2>1
    <3> QED  BY <1>3, <2>1, <3>1
  <2>2. CASE k # 1
    <3>1. tagged(k) = tagged(k - 1)
      <4>1. \A j \in 1..k : j = k \/ j \in 1..(k - 1)
        OBVIOUS
      <4>2. \A j \in 1..(k - 1) : j \in 1..k
        OBVIOUS
      <4> QED  BY <1>5, <4>1, <4>2
    <3> HIDE DEF tagged, own
    <3> QED  BY <1>3, <2>2, <3>1
  <2> QED  BY <2>1, <2>2
<1>6. g = [k \in DOMAIN fields |-> next(k, g[k - 1])]
  <2>1. ASSUME NEW k \in DOMAIN fields PROVE g[k] = next(k, g[k - 1])
    <3>1. k \in 1..n /\ g[k] = Governing(fields, k)
      BY <1>1
    <3>2. CASE fields[k].tag # {}
      BY <1>4, <3>1, <3>2
    <3>3. CASE fields[k].tag = {} /\ k = 1
      BY <1>5, <3>1, <3>3
    <3>4. CASE fields[k].tag = {} /\ k # 1
      <4>1. k - 1 \in DOMAIN fields
        BY <1>1, <3>1, <3>4
      <4>2. g[k - 1] = Governing(fields, k - 1)
        BY <4>1
      <4> HIDE DEF g
      <4> QED  BY <1>5, <3>1, <3>4, <4>2
    <3> QED  BY <3>2, <3>3, <3>4
  <2> QED  BY <2>1
<1> HIDE DEF next, g
<1>7. W = [k \in DOMAIN fields |-> next(k, W[k - 1])]
  BY <1>2, <1>6
<1>8. \A k \in DOMAIN fields : W[k] = g[k]
  <2> DEFINE T == {k \in 0..n : k \in 1..n => W[k] = g[k]}
  <2>1. 0 \in T /\ T \in SUBSET (0..n)
    BY <1>1
  <2>2. ASSUME NEW k \in 1..n, k - 1 \in T PROVE k \in T
    <3>1. k \in DOMAIN fields /\ k \in 0..n
      BY <1>1
    <3>2. W[k] = next(k, W[k - 1])
      BY <1>7, <3>1
    <3>3. g[k] = next(k, g[k - 1])
      BY <1>6, <3>1
    <3>4. CASE k = 1
      <4>1. \A r, q : next(1, r) = next(1, q)
        BY DEF next
      <4> QED  BY <3>1, <3>2, <3>3, <3>4, <4>1
    <3>5. CASE k # 1
      <4>1. k - 1 \in 1..n
        BY <1>1, <3>5
      <4> QED  BY <2>2, <3>1, <3>2, <3>3, <4>1
    <3> QED  BY <3>4, <3>5
  <2> HIDE DEF T, n, W
  <2>3. \A k \in 0..n : k \in T
    BY <1>1, <2>1, <2>2, UpTo
  <2>4. \A k \in 1..n : k \in 0..n
    BY <1>1
  <2> QED  BY <1>1, <2>3, <2>4 DEF T
<1>9. ASSUME NEW k \in DOMAIN fields PROVE Once(Governing(fields, k))
  <2>1. CASE tagged(k) = {}
    <3>1. Governing(fields, k) = <<>>
      BY <1>3, <2>1
    <3>2. Once(<<>>)
      BY DEF Once, ToSet
    <3> QED  BY <3>1, <3>2
  <2>2. CASE tagged(k) # {}
    <3>1. \E j \in tagged(k) : \A i \in tagged(k) : i <= j
      <4> DEFINE S == {k - j : j \in tagged(k)}
      <4>1. k \in Nat /\ tagged(k) \in SUBSET (1..k)
        BY <1>1
      <4> HIDE DEF tagged
      <4>2. S \in SUBSET Nat /\ S # {}
        BY <2>2, <4>1
      <4>3. PICK d \in S : \A e \in S : d <= e
        <5> HIDE DEF S
        <5> QED  BY <4>2, Least
      <4>4. PICK j \in tagged(k) : d = k - j
        BY <4>3
      <4>5. ASSUME NEW i \in tagged(k) PROVE i <= j
        <5>1. k - i \in S
          OBVIOUS
        <5>2. k - j <= k - i
          BY <4>3, <4>4, <5>1
        <5> QED  BY <4>1, <4>4, <5>2
      <4> QED  BY <4>5
    <3>2. last(k) \in tagged(k)
      <4> HIDE DEF tagged
      <4> QED  BY <3>1
    <3>3. last(k) \in DOMAIN fields /\ fields[last(k)].tag # {}
      <4> DEFINE l == last(k)
      <4>1. l \in tagged(k)
        BY <3>2
      <4> HIDE DEF l
      <4>2. l \in 1..k /\ fields[l].tag # {}
        BY <4>1
      <4>3. l \in DOMAIN fields
        BY <1>1, <4>2
      <4> QED  BY <4>2, <4>3 DEF l
    <3> DEFINE l == last(k)
    <3> HIDE DEF l
    <3>4. PICK rules : fields[l].tag = {rules} /\ Once(rules)
      BY <3>3 DEF IsFields, l
    <3>5. Governing(fields, k) = rules
      <4>1. own(l) = rules
        BY <3>4
      <4> HIDE DEF own, tagged
      <4> QED  BY <1>3, <2>2, <4>1 DEF l
    <3> QED  BY <3>4, <3>5
  <2> QED  BY <2>1, <2>2
<1> HIDE DEF W
<1>10. \A k \in DOMAIN fields : W[k] = Governing(fields, k)
  BY <1>8 DEF g
<1> QED  BY <1>9, <1>10 DEF ReadFields, W

(* The guards of an endpoint                                               *)
LEMMA GuardsAnswer ==
  ASSUME NEW e, e.auth \in BOOLEAN, NEW req, req.auth \in BOOLEAN, NEW N, NEW V,
         AllFit(Guards(e), req, N, V), Begin \in Answers(N, V),
         NEW end, end = Execute(Guards(e), Begin, req)[Len(Guards(e))]
  PROVE  /\ end.field = Blank
         /\ end.status = IF e.auth /\ ~ req.auth THEN 403
                         ELSE IF e.method # Blank /\ req.method # e.method THEN 406
                         ELSE 0
<1> DEFINE block == Guards(e)
           h == Execute(block, Begin, req)
           ofAuth == Statement(None, "auth", Blank)
           ofMethod == Statement(None, "method", e.method)
<1>1. /\ h[0] = Begin
      /\ \A k \in 1..Len(block) : h[k] = Executed(h[k - 1], block[k], req)
  BY ExecuteSteps
<1>2. block = (IF e.auth THEN <<ofAuth>> ELSE <<>>) \o (IF e.method # Blank THEN <<ofMethod>> ELSE <<>>)
  BY DEF Guards
<1>3. /\ ofAuth.op = "auth" /\ ofAuth.name = Blank
      /\ ofMethod.op = "method" /\ ofMethod.name = Blank /\ ofMethod.arg = e.method
  BY DEF Statement, None
<1> HIDE DEF block, h, ofAuth, ofMethod
<1>4. \A v : /\ Refuses(ofAuth, v, req) <=> ~ req.auth
             /\ Refuses(ofMethod, v, req) <=> req.method # e.method
  BY <1>3 DEF Refuses
<1>5. Status(ofAuth.op) = 403 /\ Status(ofMethod.op) = 406
  BY <1>3 DEF Status
<1>6. Begin.status = 0 /\ Begin.field = Blank
  BY DEF Begin
<1>7. ASSUME NEW a \in Answers(N, V), a.status = 0, a.field = Blank
      PROVE  /\ ~ req.auth => Executed(a, ofAuth, req).status = 403 /\ Executed(a, ofAuth, req).field = Blank
             /\ req.auth => Executed(a, ofAuth, req).status = 0 /\ Executed(a, ofAuth, req).field = Blank
             /\ req.method # e.method =>
                  Executed(a, ofMethod, req).status = 406 /\ Executed(a, ofMethod, req).field = Blank
             /\ req.method = e.method =>
                  Executed(a, ofMethod, req).status = 0 /\ Executed(a, ofMethod, req).field = Blank
  <2>1. ASSUME NEW s, Named(s) = Blank
        PROVE  /\ Refuses(s, a.value, req) =>
                    Executed(a, s, req).status = Status(s.op) /\ Executed(a, s, req).field = Blank
               /\ ~ Refuses(s, a.value, req) =>
                    Executed(a, s, req).status = 0 /\ Executed(a, s, req).field = Blank
    <3>1. CASE Refuses(s, a.value, req)
      <4>1. Executed(a, s, req) = [a EXCEPT !.status = Status(s.op), !.field = Named(s)]
        BY <1>7, <3>1 DEF Executed
      <4> QED  BY <2>1, <3>1, <4>1 DEF Answers
    <3>2. CASE ~ Refuses(s, a.value, req)
      <4>1. Executed(a, s, req) = [a EXCEPT !.value = Assigned(s, a.value, req)]
        BY <1>7, <3>2 DEF Executed
      <4>2. \A b : [a EXCEPT !.value = b].status = a.status /\ [a EXCEPT !.value = b].field = a.field
        BY DEF Answers
      <4> QED  BY <1>7, <3>2, <4>1, <4>2
    <3> QED  BY <3>1, <3>2
  <2>2. /\ Refuses(ofAuth, a.value, req) <=> ~ req.auth
        /\ Refuses(ofMethod, a.value, req) <=> req.method # e.method
    BY <1>4
  <2>3. Named(ofAuth) = Blank /\ Named(ofMethod) = Blank
    BY <1>3 DEF Named
  <2>4. /\ Refuses(ofAuth, a.value, req) =>
             Executed(a, ofAuth, req).status = 403 /\ Executed(a, ofAuth, req).field = Blank
        /\ ~ Refuses(ofAuth, a.value, req) =>
             Executed(a, ofAuth, req).status = 0 /\ Executed(a, ofAuth, req).field = Blank
    BY <1>5, <2>1, <2>3
  <2>5. /\ Refuses(ofMethod, a.value, req) =>
             Executed(a, ofMethod, req).status = 406 /\ Executed(a, ofMethod, req).field = Blank
        /\ ~ Refuses(ofMethod, a.value, req) =>
             Executed(a, ofMethod, req).status = 0 /\ Executed(a, ofMethod, req).field = Blank
    BY <1>5, <2>1, <2>3
  <2> QED  BY <2>2, <2>4, <2>5
<1>8. end = h[Len(block)]
  BY DEF h, block
<1>9. CASE e.auth /\ e.method # Blank
  <2>1. Len(block) = 2 /\ block[1] = ofAuth /\ block[2] = ofMethod
    <3>1. block = <<ofAuth>> \o <<ofMethod>>
      BY <1>2, <1>9
    <3> QED  BY <3>1
  <2>2. h[1] = Executed(Begin, ofAuth, req) /\ h[2] = Executed(h[1], ofMethod, req)
    BY <1>1, <2>1
  <2>3. h[1] \in Answers(N, V)
    <3>1. Fits(ofAuth, req, N, V)
      BY <2>1 DEF AllFit, block
    <3> QED  BY <2>2, <3>1, ExecutedStays
  <2>4. h[1].status # 0 => h[2] = h[1]
    BY <2>2 DEF Executed
  <2>5. CASE ~ req.auth
    BY <1>6, <1>7, <1>8, <1>9, <2>1, <2>2, <2>4, <2>5
  <2>6. CASE req.auth
    <3>1. h[1].status = 0 /\ h[1].field = Blank
      BY <1>6, <1>7, <2>2, <2>6
    <3> QED  BY <1>7, <1>8, <1>9, <2>1, <2>2, <2>3, <2>6, <3>1
  <2> QED  BY <2>5, <2>6
<1>10. CASE e.auth /\ e.method = Blank
  <2>1. Len(block) = 1 /\ block[1] = ofAuth
    <3>1. block = <<ofAuth>> \o <<>>
      BY <1>2, <1>10
    <3> QED  BY <3>1
  <2>2. h[1] = Executed(Begin, ofAuth, req)
    BY <1>1, <2>1
  <2> QED  BY <1>6, <1>7, <1>8, <1>10, <2>1, <2>2
<1>11. CASE ~ e.auth /\ e.method # Blank
  <2>1. Len(block) = 1 /\ block[1] = ofMethod
    <3>1. block = <<>> \o <<ofMethod>>
      BY <1>2, <1>11
    <3> QED  BY <3>1
  <2>2. h[1] = Executed(Begin, ofMethod, req)
    BY <1>1, <2>1
  <2> QED  BY <1>6, <1>7, <1>8, <1>11, <2>1, <2>2
<1>12. CASE ~ e.auth /\ e.method = Blank
  <2>1. Len(block) = 0
    <3>1. block = <<>> \o <<>>
      BY <1>2, <1>12
    <3> QED  BY <3>1
  <2> QED  BY <1>1, <1>6, <1>8, <1>12, <2>1
<1> QED  BY <1>9, <1>10, <1>11, <1>12

(* The blocks of a handler: the guards, and one for each field             *)
LEMMA CodeIs ==
  ASSUME NEW e, IsFields(e.fields)
  PROVE  /\ Len(e.fields) \in Nat /\ DOMAIN e.fields = 1..Len(e.fields)
         /\ Len(Code(e)) = Len(e.fields) + 1 /\ DOMAIN Code(e) = 1..Len(Code(e))
         /\ Code(e)[1] = Guards(e)
         /\ \A k \in 1..Len(e.fields) : Code(e)[k + 1] = FieldCode(ReadFields(e.fields)[k])
<1> DEFINE n == Len(e.fields)
           params == ReadFields(e.fields)
           blocks == [k \in DOMAIN params |-> FieldCode(params[k])]
<1>1. n \in Nat /\ DOMAIN e.fields = 1..n
  BY DEF IsFields
<1>2. DOMAIN params = 1..n
  BY <1>1, ReadFieldsIs
<1>3. Code(e) = <<Guards(e)>> \o blocks
  BY DEF Code
<1> HIDE DEF n, params
<1>4. /\ blocks \in Seq({FieldCode(params[k]) : k \in 1..n}) /\ Len(blocks) = n
      /\ \A k \in 1..n : blocks[k] = FieldCode(params[k])
  <2>1. blocks \in [1..n -> {FieldCode(params[k]) : k \in 1..n}]
    BY <1>2
  <2> QED  BY <1>1, <1>2, <2>1
<1> HIDE DEF blocks
<1>5. Len(Code(e)) = n + 1 /\ DOMAIN Code(e) = 1..(n + 1)
  BY <1>1, <1>3, <1>4
<1>6. Code(e)[1] = Guards(e) /\ \A k \in 1..n : Code(e)[k + 1] = blocks[k]
  BY <1>1, <1>3, <1>4
<1> QED  BY <1>1, <1>4, <1>5, <1>6 DEF n, params

(* The block of each field of an endpoint                                  *)
LEMMA FieldWritten ==
  ASSUME NEW e, IsFields(e.fields), NEW k \in 1..Len(e.fields),
         NEW m, m = ReadFields(e.fields)[k]
  PROVE  /\ m.name = e.fields[k].name /\ m.type = e.fields[k].type /\ m.type \in {"int", "string"}
         /\ m.rules = Governing(e.fields, k) /\ Once(m.rules)
         /\ Keeps(InOrder(m.rules), m.rules)
         /\ CodeOf(FieldCode(m), m, InOrder(m.rules))
<1>1. k \in DOMAIN e.fields
  BY CodeIs
<1>2. /\ m.name = e.fields[k].name /\ m.type = e.fields[k].type
      /\ m.rules = Governing(e.fields, k) /\ Once(m.rules)
  BY <1>1, ReadFieldsIs
<1>3. m.type \in {"int", "string"}
  BY <1>1, <1>2 DEF IsFields
<1>4. Keeps(InOrder(m.rules), m.rules)
  BY <1>2, InOrderKeeps
<1>5. CodeOf(FieldCode(m), m, InOrder(m.rules))
  <2>1. InOrder(m.rules) \in Seq(ToSet(m.rules))
    BY <1>4 DEF Keeps
  <2> QED  BY <2>1, FieldCodeIs
<1> QED  BY <1>2, <1>3, <1>4, <1>5

(* The statements of an endpoint: authorisation and method, and for each   *)
(* field the reading of its parameter and the checks of its rules          *)
LEMMA StatementsOfEndpoint ==
  ASSUME NEW e, IsFields(e.fields), NEW j \in DOMAIN Code(e), NEW i \in DOMAIN Code(e)[j],
         NEW s, s = Code(e)[j][i]
  PROVE  \/ s.op \in {"auth", "method"}
         \/ \E k \in DOMAIN e.fields :
              /\ s.type = e.fields[k].type
              /\ s.op = IF s.type = "int" THEN "atoi" ELSE "read"
         \/ \E k \in DOMAIN e.fields : \E a \in DOMAIN Governing(e.fields, k) :
              /\ s.type = e.fields[k].type /\ s.op = Governing(e.fields, k)[a].op
              /\ s.op \in {"required", "default", "min", "max", "enum"}
<1>1. /\ Len(e.fields) \in Nat /\ DOMAIN e.fields = 1..Len(e.fields)
      /\ DOMAIN Code(e) = 1..(Len(e.fields) + 1)
      /\ Code(e)[1] = Guards(e)
      /\ \A k \in 1..Len(e.fields) : Code(e)[k + 1] = FieldCode(ReadFields(e.fields)[k])
  BY CodeIs
<1>2. CASE j = 1
  <2> DEFINE S == {Statement(None, "auth", Blank), Statement(None, "method", e.method)}
  <2>1. \A q \in S : q.op \in {"auth", "method"}
    BY DEF Statement
  <2>2. Guards(e) \in Seq(S)
    <3> DEFINE x == IF e.auth THEN <<Statement(None, "auth", Blank)>> ELSE <<>>
               y == IF e.method # Blank THEN <<Statement(None, "method", e.method)>> ELSE <<>>
    <3>1. x \in Seq(S) /\ y \in Seq(S)
      <4>1. Statement(None, "auth", Blank) \in S /\ Statement(None, "method", e.method) \in S
        OBVIOUS
      <4> HIDE DEF S
      <4> QED  BY <4>1
    <3>2. Guards(e) = x \o y
      BY DEF Guards
    <3> HIDE DEF x, y, S
    <3> QED  BY <3>1, <3>2
  <2> HIDE DEF S
  <2>3. Guards(e)[i] \in S
    BY <1>1, <1>2, <2>2
  <2> QED  BY <1>1, <1>2, <2>1, <2>3
<1>3. CASE j # 1
  <2> DEFINE k == j - 1
             m == ReadFields(e.fields)[k]
             c == InOrder(m.rules)
  <2>1. k \in 1..Len(e.fields) /\ k + 1 = j
    BY <1>1, <1>3
  <2>2. Code(e)[j] = FieldCode(m)
    BY <1>1, <2>1
  <2>3. /\ m.type = e.fields[k].type /\ m.rules = Governing(e.fields, k) /\ Once(m.rules)
        /\ Keeps(c, m.rules) /\ CodeOf(FieldCode(m), m, c)
    BY <2>1, FieldWritten
  <2> HIDE DEF k, m
  <2>4. CASE i = 1
    <3>1. s = Fill(m)
      BY <2>2, <2>3, <2>4 DEF CodeOf
    <3> QED  BY <1>1, <2>1, <2>3, <3>1 DEF Fill, Statement
  <2>5. CASE i # 1
    <3>1. i - 1 \in 1..Len(c) /\ (i - 1) + 1 = i
      BY <2>2, <2>3, <2>5 DEF CodeOf
    <3>2. s = Check(m, c[i - 1])
      BY <2>2, <2>3, <3>1 DEF CodeOf
    <3>3. PICK a \in 1..Len(m.rules) :
            c[i - 1] = m.rules[a] /\ (Written(m.rules[a]) \/ m.rules[a].op = "enum")
      BY <2>3, <3>1 DEF Keeps
    <3>4. a \in DOMAIN m.rules
      BY <2>3 DEF Once
    <3>5. s.type = m.type /\ s.op = m.rules[a].op
      BY <3>2, <3>3 DEF Check, Statement
    <3>6. s.op \in {"required", "default", "min", "max", "enum"}
      BY <3>3, <3>5 DEF Written
    <3> QED  BY <1>1, <2>1, <2>3, <3>4, <3>5, <3>6
  <2> QED  BY <2>4, <2>5
<1> QED  BY <1>2, <1>3

(* The compiler accepts an endpoint if the rules suit the fields.          *)
LEMMA CompilesIs ==
  ASSUME NEW e, IsFields(e.fields)
  PROVE  /\ Compiles(e) <=> \A k \in DOMAIN e.fields : Suit(e.fields[k].type, Governing(e.fields, k))
         /\ Converts(e) <=> \E k \in DOMAIN e.fields : e.fields[k].type = "int"
<1>1. /\ Len(e.fields) \in Nat /\ DOMAIN e.fields = 1..Len(e.fields)
      /\ DOMAIN Code(e) = 1..(Len(e.fields) + 1)
      /\ \A k \in 1..Len(e.fields) : Code(e)[k + 1] = FieldCode(ReadFields(e.fields)[k])
  BY CodeIs
<1>2. \A k \in DOMAIN e.fields : e.fields[k].type \in {"int", "string"}
  BY DEF IsFields
<1>3. ASSUME Compiles(e), NEW k \in DOMAIN e.fields, NEW a \in DOMAIN Governing(e.fields, k)
      PROVE  LET r == Governing(e.fields, k)[a]
             IN  /\ r.op \in {"required", "default", "enum"} => e.fields[k].type = "string"
                 /\ r.op = "max" => e.fields[k].type = "int"
  <2> DEFINE m == ReadFields(e.fields)[k]
             c == InOrder(m.rules)
             r == Governing(e.fields, k)[a]
  <2>1. /\ m.type = e.fields[k].type /\ m.rules = Governing(e.fields, k) /\ Once(m.rules)
        /\ Keeps(c, m.rules) /\ CodeOf(FieldCode(m), m, c)
    BY <1>1, FieldWritten
  <2>2. k + 1 \in DOMAIN Code(e) /\ Code(e)[k + 1] = FieldCode(m)
    BY <1>1
  <2> HIDE DEF m
  <2> SUFFICES ASSUME r.op \in {"required", "default", "enum", "max"}
               PROVE  /\ r.op \in {"required", "default", "enum"} => e.fields[k].type = "string"
                      /\ r.op = "max" => e.fields[k].type = "int"
    OBVIOUS
  <2>3. a \in 1..Len(m.rules) /\ r = m.rules[a] /\ (Written(r) \/ r.op = "enum")
    BY <1>3, <2>1 DEF Once, Written
  <2>4. PICK i \in 1..Len(c) : c[i] = r
    BY <2>1, <2>3 DEF Keeps
  <2>5. i + 1 \in DOMAIN FieldCode(m) /\ FieldCode(m)[i + 1] = Check(m, r)
    BY <2>1, <2>4 DEF CodeOf
  <2>6. WellTyped(Check(m, r))
    BY <1>3, <2>2, <2>5 DEF Compiles
  <2>7. Check(m, r).op = r.op /\ Check(m, r).type = e.fields[k].type
    BY <2>1 DEF Check, Statement
  <2> HIDE DEF r
  <2> QED  BY <2>6, <2>7 DEF WellTyped
<1>4. ASSUME \A k \in DOMAIN e.fields : Suit(e.fields[k].type, Governing(e.fields, k)),
             NEW j \in DOMAIN Code(e), NEW i \in DOMAIN Code(e)[j]
      PROVE  WellTyped(Code(e)[j][i])
  <2> DEFINE s == Code(e)[j][i]
  <2>1. \/ s.op \in {"auth", "method"}
        \/ \E k \in DOMAIN e.fields :
              /\ s.type = e.fields[k].type
              /\ s.op = IF s.type = "int" THEN "atoi" ELSE "read"
        \/ \E k \in DOMAIN e.fields : \E a \in DOMAIN Governing(e.fields, k) :
              /\ s.type = e.fields[k].type /\ s.op = Governing(e.fields, k)[a].op
              /\ s.op \in {"required", "default", "min", "max", "enum"}
    BY StatementsOfEndpoint
  <2> HIDE DEF s
  <2>2. CASE s.op \in {"auth", "method"}
    BY <2>2 DEF WellTyped, s
  <2>3. CASE \E k \in DOMAIN e.fields :
              /\ s.type = e.fields[k].type
              /\ s.op = IF s.type = "int" THEN "atoi" ELSE "read"
    BY <1>2, <2>3 DEF WellTyped, s
  <2>4. CASE \E k \in DOMAIN e.fields : \E a \in DOMAIN Governing(e.fields, k) :
              /\ s.type = e.fields[k].type /\ s.op = Governing(e.fields, k)[a].op
              /\ s.op \in {"required", "default", "min", "max", "enum"}
    BY <1>4, <2>4 DEF WellTyped, Suit, s
  <2> QED  BY <2>1, <2>2, <2>3, <2>4
<1>5. ASSUME Converts(e) PROVE \E k \in DOMAIN e.fields : e.fields[k].type = "int"
  <2>1. PICK j \in DOMAIN Code(e) : \E i \in DOMAIN Code(e)[j] : Code(e)[j][i].op = "atoi"
    BY <1>5 DEF Converts
  <2>2. PICK i \in DOMAIN Code(e)[j] : Code(e)[j][i].op = "atoi"
    BY <2>1
  <2>3. PICK s : s = Code(e)[j][i]
    OBVIOUS
  <2> QED  BY <2>2, <2>3, StatementsOfEndpoint
<1>6. ASSUME NEW k \in DOMAIN e.fields, e.fields[k].type = "int" PROVE Converts(e)
  <2> DEFINE m == ReadFields(e.fields)[k]
  <2>1. m.type = "int" /\ CodeOf(FieldCode(m), m, InOrder(m.rules))
    BY <1>1, <1>6, FieldWritten
  <2>2. k + 1 \in DOMAIN Code(e) /\ Code(e)[k + 1] = FieldCode(m)
    BY <1>1
  <2> HIDE DEF m
  <2>3. 1 \in DOMAIN FieldCode(m) /\ FieldCode(m)[1] = Fill(m) /\ Fill(m).op = "atoi"
    BY <2>1 DEF CodeOf, Fill, Statement
  <2> QED  BY <2>2, <2>3 DEF Converts
<1>7. Compiles(e) => \A k \in DOMAIN e.fields : Suit(e.fields[k].type, Governing(e.fields, k))
  BY <1>3 DEF Suit
<1>8. (\A k \in DOMAIN e.fields : Suit(e.fields[k].type, Governing(e.fields, k))) => Compiles(e)
  BY <1>4 DEF Compiles
<1> QED  BY <1>5, <1>6, <1>7, <1>8

(* The handler of an endpoint answers by what is wrong first.              *)
LEMMA WrapperAnswers ==
  ASSUME NEW e, IsFields(e.fields), e.auth \in BOOLEAN, NEW req, req.auth \in BOOLEAN
  PROVE  Wrapper(e, req) = FirstWrong(e, req)
<1> DEFINE n == Len(e.fields)
           code == Code(e)
           m(k) == ReadFields(e.fields)[k]
           Args1(j) == {code[j][i].arg : i \in 1..Len(code[j])}
           Names(j) == {Named(code[j][i]) : i \in 1..Len(code[j])}
           All == UNION {Args1(j) : j \in 1..Len(code)}
           N == {Blank} \cup UNION {Names(j) : j \in 1..Len(code)}
           V == {Empty} \cup All \cup {FormValue(req, a) : a \in All}
           h == ExecuteBlocks(code, req)
           Blame(k) == Blamed(e.fields, k, req)
           Label(k) == CHOOSE name \in Blame(k) : TRUE
           Valid(k) == Blame(k) = {}
           Good(k) == \/ /\ h[k + 1].status = 0 /\ h[k + 1].field = Blank
                         /\ \A i \in 1..k : Valid(i)
                      \/ /\ h[k + 1].status = 400
                         /\ \E i \in 1..k : /\ ~ Valid(i) /\ h[k + 1].field = Label(i)
                                            /\ \A j \in 1..(i - 1) : Valid(j)
<1>1. /\ n \in Nat /\ DOMAIN e.fields = 1..n
      /\ Len(code) = n + 1 /\ DOMAIN code = 1..(n + 1)
      /\ code[1] = Guards(e)
      /\ \A k \in 1..n : code[k + 1] = FieldCode(m(k))
  BY CodeIs
<1>2. ASSUME NEW k \in 1..n
      PROVE  /\ m(k).name = e.fields[k].name /\ m(k).type = e.fields[k].type
             /\ m(k).type \in {"int", "string"}
             /\ m(k).rules = Governing(e.fields, k) /\ Once(m(k).rules)
             /\ CodeOf(FieldCode(m(k)), m(k), InOrder(m(k).rules))
  BY FieldWritten
<1>3. \A j \in 1..(n + 1) : Len(code[j]) \in Nat
  <2> SUFFICES ASSUME NEW j \in 1..(n + 1) PROVE Len(code[j]) \in Nat
    OBVIOUS
  <2>1. CASE j = 1
    <3>1. Len(Guards(e)) \in Nat
      BY DEF Guards
    <3> QED  BY <1>1, <2>1, <3>1
  <2>2. CASE j # 1
    <3>1. j - 1 \in 1..n /\ (j - 1) + 1 = j
      BY <1>1, <2>2
    <3>2. Len(FieldCode(m(j - 1))) \in Nat
      <4>1. CodeOf(FieldCode(m(j - 1)), m(j - 1), InOrder(m(j - 1).rules))
        BY <1>2, <3>1
      <4> QED  BY <4>1 DEF CodeOf
    <3>3. code[(j - 1) + 1] = FieldCode(m(j - 1))
      BY <1>1, <3>1
    <3> QED  BY <3>1, <3>2, <3>3
  <2> QED  BY <2>1, <2>2
<1>4. \A j \in 1..Len(code) : AllFit(code[j], req, N, V)
  <2> SUFFICES ASSUME NEW j \in 1..Len(code), NEW i \in 1..Len(code[j])
               PROVE  Fits(code[j][i], req, N, V)
    BY <1>1, <1>3 DEF AllFit
  <2>1. Named(code[j][i]) \in N
    <3>1. Named(code[j][i]) \in Names(j)
      OBVIOUS
    <3> HIDE DEF Names
    <3> QED  BY <3>1
  <2>2. code[j][i].arg \in All
    <3>1. code[j][i].arg \in Args1(j)
      OBVIOUS
    <3> HIDE DEF Args1
    <3> QED  BY <3>1
  <2> HIDE DEF All, N
  <2> QED  BY <2>1, <2>2 DEF Fits
<1>5. Begin \in Answers(N, V)
  <2>1. Blank \in N /\ Empty \in V
    OBVIOUS
  <2> HIDE DEF N, V
  <2> QED  BY <2>1 DEF Begin, Answers
<1> HIDE DEF N, V
<1>6. /\ h \in [0..Len(code) -> Answers(N, V)]
      /\ h[0] = Begin
      /\ \A k \in 1..Len(code) : h[k] = Execute(code[k], h[k - 1], req)[Len(code[k])]
  <2> HIDE DEF code
  <2>1. Len(code) \in Nat
    BY <1>1
  <2> QED  BY <1>4, <1>5, <2>1, BlocksSteps
<1> HIDE DEF h, code
<1>7. /\ h[1].field = Blank
      /\ h[1].status = IF e.auth /\ ~ req.auth THEN 403
                       ELSE IF e.method # Blank /\ req.method # e.method THEN 406
                       ELSE 0
  <2>1. 1 \in 1..Len(code) /\ 1 - 1 = 0
    BY <1>1
  <2>2. h[1] = Execute(Guards(e), Begin, req)[Len(Guards(e))]
    BY <1>1, <1>6, <2>1
  <2>3. AllFit(Guards(e), req, N, V)
    BY <1>1, <1>4, <2>1
  <2> QED  BY <1>5, <2>2, <2>3, GuardsAnswer
<1>8. ASSUME NEW k \in 1..n
      PROVE  /\ h[k] \in Answers(N, V)
             /\ AllFit(FieldCode(m(k)), req, N, V)
             /\ h[k + 1] = Execute(FieldCode(m(k)), h[k], req)[Len(FieldCode(m(k)))]
  <2>1. k + 1 \in 1..Len(code) /\ (k + 1) - 1 = k /\ k \in 0..Len(code)
    BY <1>1
  <2>2. h[k + 1] = Execute(code[k + 1], h[k], req)[Len(code[k + 1])]
    BY <1>6, <2>1
  <2>3. AllFit(code[k + 1], req, N, V)
    BY <1>4, <2>1
  <2>4. code[k + 1] = FieldCode(m(k))
    BY <1>1
  <2> QED  BY <1>6, <2>1, <2>2, <2>3, <2>4
<1>9. ASSUME NEW k \in 1..n, h[k].status # 0 PROVE h[k + 1] = h[k]
  BY <1>8, <1>9, Stopped
<1>10. ASSUME NEW k \in 1..n, h[k].status = 0
       PROVE  IF Valid(k) THEN h[k + 1].status = 0 /\ h[k + 1].field = h[k].field
              ELSE h[k + 1].status = 400 /\ h[k + 1].field = Label(k)
  <2> DEFINE fields == e.fields
             p == m(k)
             start == h[k]
             end == h[k + 1]
  <2>1. /\ p.name = fields[k].name /\ p.type = fields[k].type /\ p.rules = Governing(fields, k)
        /\ fields[k].type \in {"int", "string"} /\ Once(Governing(fields, k))
    BY <1>2
  <2>2. /\ start \in Answers(N, V) /\ start.status = 0 /\ AllFit(FieldCode(p), req, N, V)
        /\ end = Execute(FieldCode(p), start, req)[Len(FieldCode(p))]
    BY <1>8, <1>10
  <2> HIDE DEF fields, p, start, end
  <2>3. IF Blamed(fields, k, req) = {} THEN end.status = 0 /\ end.field = start.field
        ELSE end.status = 400 /\ end.field = CHOOSE name \in Blamed(fields, k, req) : TRUE
    BY <2>1, <2>2, FieldAnswers
  <2> QED  BY <2>3 DEF fields, start, end
<1>11. Wrapper(e, req) = [status |-> h[n + 1].status, field |-> h[n + 1].field]
  BY <1>1 DEF Wrapper, h, code
<1>12. CASE h[1].status # 0
  <2> DEFINE S == {h[1]}
             W == [k \in 0..n |-> h[k + 1]]
  <2>1. W[0] \in S /\ \A k \in 1..n : W[k - 1] \in S => W[k] \in S
    <3>1. W[0] = h[1]
      BY <1>1
    <3>2. \A k \in 1..n : W[k] = h[k + 1] /\ W[k - 1] = h[k]
      BY <1>1
    <3> QED  BY <1>9, <1>12, <3>1, <3>2
  <2>2. n \in 0..n /\ W[n] = h[n + 1]
    BY <1>1
  <2>3. h[n + 1] = h[1]
    <3> HIDE DEF W, S, n
    <3>1. \A k \in 0..n : W[k] \in S
      BY <1>1, <2>1, Stays
    <3> QED  BY <2>2, <3>1 DEF S
  <2>4. CASE e.auth /\ ~ req.auth
    BY <1>7, <1>11, <2>3, <2>4 DEF FirstWrong
  <2>5. CASE ~ (e.auth /\ ~ req.auth)
    <3>1. e.method # Blank /\ req.method # e.method
      BY <1>7, <1>12, <2>5
    <3> QED  BY <1>7, <1>11, <2>3, <2>5, <3>1 DEF FirstWrong
  <2> QED  BY <2>4, <2>5
<1>13. CASE h[1].status = 0
  <2>1. ~ (e.auth /\ ~ req.auth) /\ ~ (e.method # Blank /\ req.method # e.method)
    BY <1>7, <1>13
  <2>2. Good(0)
    BY <1>7, <1>13
  <2>3. ASSUME NEW k \in 1..n, Good(k - 1) PROVE Good(k)
    <3>1. (k - 1) + 1 = k
      OBVIOUS
    <3>2. \A i \in 1..(k - 1) : i \in 1..k
      OBVIOUS
    <3>3. \A i \in 1..k : i \in 1..(k - 1) \/ i = k
      OBVIOUS
    <3>4. CASE h[k].status = 0
      <4>1. h[k].field = Blank /\ \A i \in 1..(k - 1) : Valid(i)
        BY <2>3, <3>1, <3>4
      <4>2. CASE Valid(k)
        <5> HIDE DEF Valid
        <5> QED  BY <1>10, <3>3, <3>4, <4>1, <4>2
      <4>3. CASE ~ Valid(k)
        <5>1. h[k + 1].status = 400 /\ h[k + 1].field = Label(k) /\ k \in 1..k
          BY <1>10, <3>4, <4>3
        <5> HIDE DEF Valid, Label
        <5> QED  BY <4>1, <4>3, <5>1
      <4> QED  BY <4>2, <4>3
    <3>5. CASE h[k].status # 0
      <4>1. h[k + 1] = h[k]
        BY <1>9, <3>5
      <4>2. h[k].status = 400 /\ \E i \in 1..(k - 1) :
              ~ Valid(i) /\ h[k].field = Label(i) /\ \A j \in 1..(i - 1) : Valid(j)
        BY <2>3, <3>1, <3>5
      <4> HIDE DEF Valid, Label
      <4> QED  BY <3>2, <4>1, <4>2
    <3> QED  BY <3>4, <3>5
  <2>4. Good(n)
    <3> DEFINE T == {k \in 0..n : Good(k)}
    <3> HIDE DEF Good
    <3>1. 0 \in T /\ T \in SUBSET (0..n)
      BY <1>1, <2>2
    <3>2. \A k \in 1..n : k - 1 \in T => k \in T
      BY <2>3
    <3> HIDE DEF T, n
    <3>3. \A k \in 0..n : k \in T
      BY <1>1, <3>1, <3>2, UpTo
    <3>4. n \in T
      BY <1>1, <3>3
    <3> QED  BY <3>4 DEF T
  <2> DEFINE wrong == {k \in DOMAIN e.fields : Blamed(e.fields, k, req) # {}}
  <2>5. CASE h[n + 1].status = 0
    <3>1. h[n + 1].field = Blank /\ \A i \in 1..n : Valid(i)
      BY <2>4, <2>5
    <3>2. wrong = {}
      BY <1>1, <3>1
    <3> QED  BY <1>11, <2>1, <2>5, <3>1, <3>2 DEF FirstWrong
  <2>6. CASE h[n + 1].status # 0
    <3>1. h[n + 1].status = 400
      BY <2>4, <2>6
    <3>2. PICK i \in 1..n : /\ ~ Valid(i) /\ h[n + 1].field = Label(i)
                            /\ \A j \in 1..(i - 1) : Valid(j)
      BY <2>4, <2>6
    <3>3. i \in wrong /\ wrong \in SUBSET (1..n)
      BY <1>1, <3>2
    <3>4. \A j \in wrong : i <= j
      <4> SUFFICES ASSUME NEW j \in wrong, ~ (i <= j) PROVE FALSE
        OBVIOUS
      <4>1. j \in 1..(i - 1)
        BY <1>1
      <4>2. ~ Valid(j)
        OBVIOUS
      <4> QED  BY <3>2, <4>1, <4>2
    <3> HIDE DEF wrong
    <3>5. (CHOOSE k \in wrong : \A j \in wrong : k <= j) = i
      <4>1. \A k \in wrong : (\A j \in wrong : k <= j) => k = i
        BY <3>3, <3>4
      <4> QED  BY <3>3, <3>4, <4>1
    <3>6. FirstWrong(e, req) = [status |-> 400, field |-> Label(i)]
      BY <2>1, <3>3, <3>5 DEF FirstWrong, wrong
    <3> QED  BY <1>11, <3>1, <3>2, <3>6
  <2> QED  BY <2>5, <2>6
<1> QED  BY <1>12, <1>13

(* The endpoints of a method                                               *)
LEMMA EndpointIs ==
  ASSUME NEW file, NEW f, f.marks \in Seq(ToSet(f.marks)), f.marks # <<>>,
         \A mark \in ToSet(f.marks) : IsMark(mark)
  PROVE  LET e == EndpointsOf(file, f)[1]
             d == Data(file, f)
         IN  /\ 1 \in DOMAIN f.marks
             /\ e.url = d.url /\ e.auth = d.auth /\ e.method = d.method /\ e.fields = d.fields
             /\ e.auth \in BOOLEAN /\ e.fields = Fields(file, f.params)
             /\ \A k \in DOMAIN f.marks : EndpointsOf(file, f)[k].name = f.name
<1> DEFINE mark == f.marks[1]
           n == Len(f.marks)
           G(k) == Unmarshal(f.marks[k], NoData)
           next(k, r) == Unmarshal(f.marks[k], IF k = 1 THEN NoData ELSE r)
           metas == CHOOSE h : h = [k \in DOMAIN f.marks |-> next(k, h[k - 1])]
<1>1. DOMAIN f.marks = 1..n /\ n \in Nat /\ 1 \in DOMAIN f.marks /\ Head(f.marks) = mark
  OBVIOUS
<1>2. EndpointsOf(file, f) =
        [k \in DOMAIN f.marks |->
           [name |-> f.name, url |-> metas[k].url, auth |-> metas[k].auth,
            method |-> metas[k].method, fields |-> Fields(file, f.params)]]
  BY DEF EndpointsOf
<1>3. metas[1] = G(1)
  <2> DEFINE D == DOMAIN NoData
             S == [D -> UNION {{NoData[a] : a \in D}, {f.marks[k][a] : k \in 1..n, a \in D}}]
             step == [x \in (1..(n - 1)) \X S |-> Unmarshal(f.marks[x[1] + 1], x[2])]
  <2>1. \A k \in 1..n, r \in S : Unmarshal(f.marks[k], r) \in S
    <3> SUFFICES ASSUME NEW k \in 1..n, NEW r \in S PROVE Unmarshal(f.marks[k], r) \in S
      OBVIOUS
    <3> DEFINE U == UNION {{NoData[a] : a \in D}, {f.marks[l][a] : l \in 1..n, a \in D}}
    <3>1. \A a \in D : f.marks[k][a] \in U
      OBVIOUS
    <3>2. DOMAIN r = D /\ \A a \in D : r[a] \in U
      OBVIOUS
    <3> HIDE DEF U, D
    <3>3. Unmarshal(f.marks[k], r) \in [D -> U]
      BY <3>1, <3>2 DEF Unmarshal
    <3> QED  BY <3>3 DEF U, D
  <2>2. NoData \in S
    <3>1. NoData = [a \in D |-> NoData[a]]
      BY DEF NoData
    <3> HIDE DEF D
    <3> QED  BY <3>1
  <2> HIDE DEF S
  <2>3. G(1) \in S /\ n - 1 \in Nat
    BY <1>1, <2>1, <2>2
  <2>4. step \in [(1..(n - 1)) \X S -> S]
    <3>1. \A x \in (1..(n - 1)) \X S : x[1] + 1 \in 1..n /\ x[2] \in S
      BY <1>1
    <3> QED  BY <2>1, <3>1
  <2> DEFINE m == n - 1
             start == G(1)
  <2> HIDE DEF m, step, start
  <2>5. PICK q : Follows(q, m, S, start, step)
    BY <2>3, <2>4, Recursion DEF m, start
  <2> DEFINE p == [k \in DOMAIN f.marks |-> q[k - 1]]
  <2>6. p = [k \in DOMAIN f.marks |-> next(k, p[k - 1])]
    <3>1. ASSUME NEW k \in DOMAIN f.marks PROVE q[k - 1] = next(k, p[k - 1])
      <4>1. CASE k = 1
        <5>1. q[k - 1] = G(1)
          BY <2>5, <4>1 DEF Follows, start
        <5> QED  BY <4>1, <5>1
      <4>2. CASE k # 1
        <5>1. k - 1 \in 1..m /\ k - 1 \in DOMAIN f.marks /\ (k - 1) - 1 \in 0..m /\ (k - 1) + 1 = k
          BY <1>1, <4>2 DEF m
        <5>2. q[k - 1] = step[<<k - 1, q[(k - 1) - 1]>>] /\ q[(k - 1) - 1] \in S
          BY <2>5, <5>1 DEF Follows
        <5>3. p[k - 1] = q[(k - 1) - 1]
          BY <5>1
        <5>4. step[<<k - 1, q[(k - 1) - 1]>>] = Unmarshal(f.marks[k], q[(k - 1) - 1])
          BY <5>1, <5>2 DEF step, m
        <5> HIDE DEF p
        <5> QED  BY <4>2, <5>2, <5>3, <5>4
      <4> QED  BY <4>1, <4>2
    <3> QED  BY <3>1
  <2> HIDE DEF p, next
  <2>7. metas = [k \in DOMAIN f.marks |-> next(k, metas[k - 1])]
    BY <2>6
  <2> HIDE DEF metas
  <2>8. metas[1] = next(1, metas[1 - 1])
    BY <1>1, <2>7
  <2> QED  BY <2>8 DEF next
<1>4. IsMark(mark)
  BY <1>1 DEF ToSet
<1>5. G(1).auth \in BOOLEAN
  BY <1>4 DEF IsMark, Unmarshal, NoData
<1>6. /\ Data(file, f).url = G(1).url /\ Data(file, f).auth = G(1).auth
      /\ Data(file, f).method = G(1).method /\ Data(file, f).fields = Fields(file, f.params)
  BY <1>1 DEF Data
<1> HIDE DEF metas, G
<1> QED  BY <1>1, <1>2, <1>3, <1>5, <1>6

(* The endpoints of a type                                                 *)
LEMMA ApisAre ==
  ASSUME NEW file, IsApiFile(file), NEW api
  PROVE  LET all == Apis(file, api)
             marked == {n \in DOMAIN file.funcs : file.funcs[n].recv = api /\ file.funcs[n].pointer}
         IN  /\ \A at \in DOMAIN all :
                  \E n \in marked : \E k \in DOMAIN file.funcs[n].marks : at = <<n, k>>
             /\ \A n \in marked : \A k \in DOMAIN file.funcs[n].marks :
                  /\ <<n, k>> \in DOMAIN all
                  /\ all[<<n, k>>] = EndpointsOf(file, file.funcs[n])[k]
<1> DEFINE all == Apis(file, api)
           marked == {n \in DOMAIN file.funcs : file.funcs[n].recv = api /\ file.funcs[n].pointer}
<1>1. DOMAIN all = UNION {{n} \X DOMAIN file.funcs[n].marks : n \in marked}
      /\ \A at \in DOMAIN all : all[at] = EndpointsOf(file, file.funcs[at[1]])[at[2]]
  BY DEF Apis
<1> HIDE DEF all, marked
<1>2. ASSUME NEW at \in DOMAIN all
      PROVE  \E n \in marked : \E k \in DOMAIN file.funcs[n].marks : at = <<n, k>>
  BY <1>1
<1>3. ASSUME NEW n \in marked, NEW k \in DOMAIN file.funcs[n].marks
      PROVE  <<n, k>> \in DOMAIN all /\ all[<<n, k>>] = EndpointsOf(file, file.funcs[n])[k]
  <2>1. <<n, k>> \in DOMAIN all
    BY <1>1
  <2> QED  BY <1>1, <2>1
<1> QED  BY <1>2, <1>3 DEF all, marked

(* A method that is served is at a place of its type's endpoints.          *)
IsAt(file, f, n) ==
  LET e == EndpointsOf(file, f)[1]
      d == Data(file, f)
  IN  /\ f = file.funcs[n] /\ n \in DOMAIN file.funcs /\ f \in ToSet(file.funcs) /\ f.pointer
      /\ f.marks \in Seq(ToSet(f.marks)) /\ f.marks # <<>>
      /\ <<n, 1>> \in DOMAIN Apis(file, f.recv) /\ Apis(file, f.recv)[<<n, 1>>] = e
      /\ e.url = d.url /\ e.auth = d.auth /\ e.method = d.method /\ e.fields = d.fields
      /\ e.auth \in BOOLEAN /\ IsFields(e.fields) /\ e.name = f.name
      /\ \A k \in DOMAIN f.marks :
           /\ <<n, k>> \in DOMAIN Apis(file, f.recv)
           /\ Apis(file, f.recv)[<<n, k>>].name = f.name

LEMMA ServedAt ==
  ASSUME NEW file, IsApiFile(file), NEW f \in Served(file)
  PROVE  \E n \in DOMAIN file.funcs : IsAt(file, f, n)
<1>1. f \in ToSet(file.funcs) /\ f.pointer /\ f.marks # <<>>
  BY DEF Served
<1>2. PICK n \in DOMAIN file.funcs : f = file.funcs[n]
  BY <1>1 DEF ToSet
<1>3. /\ f.marks \in Seq(ToSet(f.marks)) /\ IsFields(Fields(file, f.params))
      /\ \A mark \in ToSet(f.marks) : IsMark(mark)
  BY <1>1 DEF IsApiFile
<1> DEFINE e == EndpointsOf(file, f)[1]
           d == Data(file, f)
<1>4. /\ 1 \in DOMAIN f.marks
      /\ e.url = d.url /\ e.auth = d.auth /\ e.method = d.method /\ e.fields = d.fields
      /\ e.auth \in BOOLEAN /\ e.fields = Fields(file, f.params)
      /\ \A k \in DOMAIN f.marks : EndpointsOf(file, f)[k].name = f.name
  BY <1>1, <1>3, EndpointIs
<1>5. \A k \in DOMAIN f.marks :
        /\ <<n, k>> \in DOMAIN Apis(file, f.recv)
        /\ Apis(file, f.recv)[<<n, k>>] = EndpointsOf(file, f)[k]
  BY <1>1, <1>2, ApisAre
<1>6. IsAt(file, f, n)
  <2> HIDE DEF e, d
  <2> QED  BY <1>1, <1>2, <1>3, <1>4, <1>5 DEF IsAt, e, d
<1> QED  BY <1>6

(* An endpoint at a place belongs to a method that is served.              *)
LEMMA PlaceOf ==
  ASSUME NEW file, IsApiFile(file), NEW api, NEW at \in DOMAIN Apis(file, api)
  PROVE  \E n \in DOMAIN file.funcs : \E k \in DOMAIN file.funcs[n].marks :
           /\ at = <<n, k>> /\ file.funcs[n] \in Served(file) /\ file.funcs[n].recv = api
           /\ file.funcs[n].marks \in Seq(ToSet(file.funcs[n].marks))
<1>1. PICK n \in DOMAIN file.funcs :
        /\ file.funcs[n].recv = api /\ file.funcs[n].pointer
        /\ \E k \in DOMAIN file.funcs[n].marks : at = <<n, k>>
  BY ApisAre
<1>2. PICK k \in DOMAIN file.funcs[n].marks : at = <<n, k>>
  BY <1>1
<1>3. file.funcs[n] \in ToSet(file.funcs)
  BY DEF ToSet
<1>4. file.funcs[n].marks \in Seq(ToSet(file.funcs[n].marks))
  BY <1>3 DEF IsApiFile
<1>5. file.funcs[n].marks # <<>>
  BY <1>2
<1> QED  BY <1>1, <1>2, <1>3, <1>4, <1>5 DEF Served

(* What the compiler accepts of a file, told from the file                 *)
LEMMA BuildsIs ==
  ASSUME NEW file, IsApiFile(file)
  PROVE  Builds(file) <=> Buildable(file)
<1> DEFINE types == {f.recv : f \in {g \in ToSet(file.funcs) : g.pointer}}
           all(api) == Apis(file, api)
           E(f) == EndpointsOf(file, f)[1]
           D(f) == Data(file, f)
           At(f, n) == /\ f = file.funcs[n] /\ n \in DOMAIN file.funcs
                       /\ <<n, 1>> \in DOMAIN all(f.recv) /\ all(f.recv)[<<n, 1>>] = E(f)
                       /\ \A k \in DOMAIN f.marks :
                            <<n, k>> \in DOMAIN all(f.recv) /\ all(f.recv)[<<n, k>>].name = f.name
<1>1. ASSUME NEW f \in Served(file)
      PROVE  /\ \E n \in DOMAIN file.funcs : At(f, n)
             /\ f.marks \in Seq(ToSet(f.marks)) /\ f.marks # <<>> /\ f.recv \in types
             /\ E(f).url = D(f).url /\ E(f).fields = D(f).fields /\ IsFields(D(f).fields)
             /\ E(f).name = f.name
             /\ Compiles(E(f)) <=> \A k \in DOMAIN D(f).fields :
                                     Suit(D(f).fields[k].type, Governing(D(f).fields, k))
             /\ Converts(E(f)) <=> \E k \in DOMAIN D(f).fields : D(f).fields[k].type = "int"
  <2> DEFINE e == E(f)
             d == D(f)
  <2>1. PICK n \in DOMAIN file.funcs : IsAt(file, f, n)
    BY ServedAt
  <2>2. IsFields(e.fields) /\ e.url = d.url /\ e.fields = d.fields /\ e.name = f.name
        /\ f \in ToSet(file.funcs) /\ f.pointer /\ f.marks \in Seq(ToSet(f.marks)) /\ f.marks # <<>>
    BY <2>1 DEF IsAt
  <2>3. /\ Compiles(e) <=> \A k \in DOMAIN e.fields : Suit(e.fields[k].type, Governing(e.fields, k))
        /\ Converts(e) <=> \E k \in DOMAIN e.fields : e.fields[k].type = "int"
    <3> HIDE DEF e
    <3> QED  BY <2>2, CompilesIs
  <2>4. f.recv \in types
    BY <2>2
  <2>5. At(f, n)
    BY <2>1 DEF IsAt
  <2> HIDE DEF E, D, types, At
  <2> QED  BY <2>2, <2>3, <2>4, <2>5
<1>2. ASSUME NEW api, NEW at \in DOMAIN all(api)
      PROVE  \E n \in DOMAIN file.funcs : \E k \in DOMAIN file.funcs[n].marks :
               /\ at = <<n, k>> /\ file.funcs[n] \in Served(file) /\ file.funcs[n].recv = api
               /\ (Len(file.funcs[n].marks) = 1 => k = 1)
  <2>1. PICK n \in DOMAIN file.funcs : \E k \in DOMAIN file.funcs[n].marks :
           /\ at = <<n, k>> /\ file.funcs[n] \in Served(file) /\ file.funcs[n].recv = api
           /\ file.funcs[n].marks \in Seq(ToSet(file.funcs[n].marks))
    BY PlaceOf
  <2> QED  BY <2>1
<1>3. \A m, n \in DOMAIN file.funcs :
        file.funcs[m].recv = file.funcs[n].recv /\ file.funcs[m].name = file.funcs[n].name => m = n
  BY DEF IsApiFile
<1>4. Builds(file) <=> /\ \A api \in types : CompilesAll(all(api))
                       /\ \E api \in types : \E at \in DOMAIN all(api) : Converts(all(api)[at])
  BY DEF Builds
<1>5. Buildable(file) <=>
        /\ \A f \in Served(file) :
             /\ Len(f.marks) = 1
             /\ \A k \in DOMAIN D(f).fields : Suit(D(f).fields[k].type, Governing(D(f).fields, k))
        /\ \A f, g \in Served(file) : f # g /\ f.recv = g.recv => D(f).url # D(g).url
        /\ \E f \in Served(file) : \E k \in DOMAIN D(f).fields : D(f).fields[k].type = "int"
  BY DEF Buildable
<1> HIDE DEF types, all, E, D
<1>6. ASSUME Builds(file) PROVE Buildable(file)
  <2>1. ASSUME NEW f \in Served(file)
        PROVE  Len(f.marks) = 1 /\ Compiles(E(f))
    <3>1. PICK n \in DOMAIN file.funcs : At(f, n)
      BY <1>1
    <3>2. CompilesAll(all(f.recv))
      BY <1>1, <1>4, <1>6
    <3>3. Compiles(E(f))
      BY <3>1, <3>2 DEF CompilesAll
    <3>4. 2 \notin DOMAIN f.marks
      <4> SUFFICES ASSUME 2 \in DOMAIN f.marks PROVE FALSE
        OBVIOUS
      <4>1. 1 \in DOMAIN f.marks
        BY <1>1
      <4>2. /\ <<n, 1>> \in DOMAIN all(f.recv) /\ <<n, 2>> \in DOMAIN all(f.recv)
            /\ all(f.recv)[<<n, 1>>].name = all(f.recv)[<<n, 2>>].name
        BY <3>1, <4>1
      <4>3. <<n, 1>> # <<n, 2>>
        OBVIOUS
      <4> QED  BY <3>2, <4>2, <4>3 DEF CompilesAll
    <3>5. Len(f.marks) = 1
      <4>1. f.marks \in Seq(ToSet(f.marks)) /\ f.marks # <<>>
        BY <1>1
      <4>2. DOMAIN f.marks = 1..Len(f.marks) /\ Len(f.marks) \in Nat /\ Len(f.marks) # 0
        BY <4>1
      <4>3. 2 \notin 1..Len(f.marks)
        BY <3>4, <4>2
      <4>4. \A x \in Nat : x # 0 /\ 2 \notin 1..x => x = 1
        OBVIOUS
      <4> QED  BY <4>2, <4>3, <4>4
    <3> QED  BY <3>3, <3>5
  <2>2. ASSUME NEW f \in Served(file), NEW g \in Served(file), f # g, f.recv = g.recv
        PROVE  D(f).url # D(g).url
    <3>1. PICK n \in DOMAIN file.funcs : At(f, n)
      BY <1>1
    <3>2. PICK l \in DOMAIN file.funcs : At(g, l)
      BY <1>1
    <3>3. <<n, 1>> # <<l, 1>>
      BY <2>2, <3>1, <3>2
    <3>4. CompilesAll(all(f.recv))
      BY <1>1, <1>4, <1>6
    <3>5. /\ <<n, 1>> \in DOMAIN all(f.recv) /\ <<l, 1>> \in DOMAIN all(f.recv)
          /\ all(f.recv)[<<n, 1>>] = E(f) /\ all(f.recv)[<<l, 1>>] = E(g)
      BY <2>2, <3>1, <3>2
    <3>6. E(f).url # E(g).url
      BY <3>3, <3>4, <3>5 DEF CompilesAll
    <3> QED  BY <1>1, <3>6
  <2>3. \E f \in Served(file) : \E k \in DOMAIN D(f).fields : D(f).fields[k].type = "int"
    <3>1. PICK api \in types : \E at \in DOMAIN all(api) : Converts(all(api)[at])
      BY <1>4, <1>6
    <3>2. PICK at \in DOMAIN all(api) : Converts(all(api)[at])
      BY <3>1
    <3>3. PICK n \in DOMAIN file.funcs : \E k \in DOMAIN file.funcs[n].marks :
               /\ at = <<n, k>> /\ file.funcs[n] \in Served(file) /\ file.funcs[n].recv = api
               /\ (Len(file.funcs[n].marks) = 1 => k = 1)
      BY <1>2
    <3> DEFINE f == file.funcs[n]
    <3> HIDE DEF f
    <3>4. f \in Served(file) /\ at = <<n, 1>> /\ f.recv = api
      BY <2>1, <3>3 DEF f
    <3>5. PICK l \in DOMAIN file.funcs : At(f, l)
      BY <1>1, <3>4
    <3>6. l = n
      BY <1>3, <3>5 DEF f
    <3>7. Converts(E(f))
      BY <3>2, <3>4, <3>5, <3>6
    <3> QED  BY <1>1, <3>4, <3>7
  <2> QED  BY <1>1, <1>5, <2>1, <2>2, <2>3
<1>7. ASSUME Buildable(file) PROVE Builds(file)
  <2>1. ASSUME NEW api, NEW at \in DOMAIN all(api)
        PROVE  \E f \in Served(file) :
                 /\ f.recv = api /\ all(api)[at] = E(f) /\ Compiles(E(f))
                 /\ \E n \in DOMAIN file.funcs : at = <<n, 1>> /\ f = file.funcs[n]
    <3>1. PICK n \in DOMAIN file.funcs : \E k \in DOMAIN file.funcs[n].marks :
               /\ at = <<n, k>> /\ file.funcs[n] \in Served(file) /\ file.funcs[n].recv = api
               /\ (Len(file.funcs[n].marks) = 1 => k = 1)
      BY <1>2
    <3> DEFINE f == file.funcs[n]
    <3> HIDE DEF f
    <3>2. f \in Served(file) /\ at = <<n, 1>> /\ f.recv = api
      BY <1>5, <1>7, <3>1 DEF f
    <3>3. PICK l \in DOMAIN file.funcs : At(f, l)
      BY <1>1, <3>2
    <3>4. l = n
      BY <1>3, <3>3 DEF f
    <3>5. Compiles(E(f))
      BY <1>1, <1>5, <1>7, <3>2
    <3> QED  BY <3>2, <3>3, <3>4, <3>5
  <2>2. ASSUME NEW api \in types PROVE CompilesAll(all(api))
    <3>1. ASSUME NEW at \in DOMAIN all(api) PROVE Compiles(all(api)[at])
      BY <2>1
    <3>2. ASSUME NEW at \in DOMAIN all(api), NEW to \in DOMAIN all(api), at # to
          PROVE  all(api)[at].url # all(api)[to].url /\ all(api)[at].name # all(api)[to].name
      <4>1. PICK f \in Served(file) :
                 /\ f.recv = api /\ all(api)[at] = E(f)
                 /\ \E n \in DOMAIN file.funcs : at = <<n, 1>> /\ f = file.funcs[n]
        BY <2>1
      <4>2. PICK g \in Served(file) :
                 /\ g.recv = api /\ all(api)[to] = E(g)
                 /\ \E n \in DOMAIN file.funcs : to = <<n, 1>> /\ g = file.funcs[n]
        BY <2>1
      <4>3. f.name # g.name /\ f # g
        BY <1>3, <3>2, <4>1, <4>2
      <4>4. D(f).url # D(g).url
        BY <1>5, <1>7, <4>1, <4>2, <4>3
      <4>5. /\ E(f).url = D(f).url /\ E(f).name = f.name
            /\ E(g).url = D(g).url /\ E(g).name = g.name
        BY <1>1
      <4> QED  BY <4>1, <4>2, <4>3, <4>4, <4>5
    <3> QED  BY <3>1, <3>2 DEF CompilesAll
  <2>3. \E api \in types : \E at \in DOMAIN all(api) : Converts(all(api)[at])
    <3>1. PICK f \in Served(file) : \E k \in DOMAIN D(f).fields : D(f).fields[k].type = "int"
      BY <1>5, <1>7
    <3>2. f.recv \in types /\ Converts(E(f))
      BY <1>1, <3>1
    <3>3. PICK n \in DOMAIN file.funcs : At(f, n)
      BY <1>1
    <3> QED  BY <3>2, <3>3
  <2> QED  BY <1>4, <2>2, <2>3
<1> QED  BY <1>6, <1>7

(* A file whose handlers build is known by its functions and tags, and its *)
(* handlers answer every request by what is wrong first, authorisation,    *)
(* method, or a field, for any file in which a tag has each rule once.     *)
THEOREM HandlersAnswer ==
  ASSUME NEW file, IsApiFile(file), NEW api, NEW req, req.auth \in BOOLEAN
  PROVE  Respond(file, api, req) = Answer(file, api, req)
<1> DEFINE all == Apis(file, api)
           cases == Cases(all, req)
           methods == {f \in Served(file) : f.recv = api /\ Data(file, f).url = req.path}
<1>1. CASE ~ Buildable(file)
  BY <1>1, BuildsIs DEF Respond, Answer
<1>2. CASE Buildable(file)
  <2>1. Respond(file, api, req) = ServeHTTP(all, req)
    BY <1>2, BuildsIs DEF Respond
  <2>2. Answer(file, api, req) =
          IF methods = {} THEN [status |-> 404, field |-> Blank]
          ELSE FirstWrong(Data(file, CHOOSE f \in methods : TRUE), req)
    BY <1>2 DEF Answer
  <2>3. ASSUME NEW f \in methods
        PROVE  \E at \in cases :
                 /\ all[at] = EndpointsOf(file, f)[1]
                 /\ \E n \in DOMAIN file.funcs : at = <<n, 1>> /\ f = file.funcs[n]
    <3> DEFINE e == EndpointsOf(file, f)[1]
               d == Data(file, f)
    <3> HIDE DEF e, d
    <3>0. PICK n \in DOMAIN file.funcs : IsAt(file, f, n)
      BY ServedAt
    <3>1. /\ f = file.funcs[n] /\ <<n, 1>> \in DOMAIN Apis(file, f.recv)
          /\ Apis(file, f.recv)[<<n, 1>>] = e /\ e.url = d.url
      BY <3>0 DEF IsAt, e, d
    <3>2. f.recv = api /\ d.url = req.path
      BY DEF d
    <3>3. <<n, 1>> \in cases /\ all[<<n, 1>>] = e
      BY <3>1, <3>2 DEF Cases
    <3> QED  BY <3>1, <3>3 DEF e
  <2>4. ASSUME NEW at \in cases
        PROVE  \E f \in methods :
                 /\ all[at] = EndpointsOf(file, f)[1]
                 /\ \E n \in DOMAIN file.funcs : at = <<n, 1>> /\ f = file.funcs[n]
    <3>1. at \in DOMAIN all /\ all[at].url = req.path
      BY DEF Cases
    <3>2. PICK n \in DOMAIN file.funcs : \E k \in DOMAIN file.funcs[n].marks :
               /\ at = <<n, k>> /\ file.funcs[n] \in Served(file) /\ file.funcs[n].recv = api
               /\ file.funcs[n].marks \in Seq(ToSet(file.funcs[n].marks))
      BY <3>1, PlaceOf
    <3>3. PICK k \in DOMAIN file.funcs[n].marks :
               /\ at = <<n, k>> /\ file.funcs[n] \in Served(file) /\ file.funcs[n].recv = api
               /\ file.funcs[n].marks \in Seq(ToSet(file.funcs[n].marks))
      BY <3>2
    <3> DEFINE f == file.funcs[n]
               e == EndpointsOf(file, f)[1]
               d == Data(file, f)
    <3>4. f \in Served(file) /\ f.recv = api /\ f.marks \in Seq(ToSet(f.marks)) /\ k \in DOMAIN f.marks
      BY <3>3
    <3> HIDE DEF f, e, d, all
    <3>5. k = 1
      <4>1. Len(f.marks) = 1
        BY <1>2, <3>4 DEF Buildable
      <4> QED  BY <3>4, <4>1
    <3>a. PICK l \in DOMAIN file.funcs : IsAt(file, f, l)
      BY <3>4, ServedAt
    <3>6. /\ f = file.funcs[l] /\ <<l, 1>> \in DOMAIN Apis(file, f.recv)
          /\ Apis(file, f.recv)[<<l, 1>>] = e /\ e.url = d.url
      BY <3>a DEF IsAt, e, d
    <3>7. l = n
      BY <3>6 DEF IsApiFile, f
    <3>8. all[at] = e
      BY <3>3, <3>4, <3>5, <3>6, <3>7 DEF all
    <3>9. f \in methods
      BY <3>1, <3>4, <3>6, <3>8 DEF d
    <3> QED  BY <3>3, <3>5, <3>8, <3>9 DEF f, e
  <2>5. CASE cases = {}
    <3>1. methods = {}
      BY <2>3, <2>5
    <3> QED  BY <2>1, <2>2, <2>5, <3>1 DEF ServeHTTP
  <2>6. CASE cases # {}
    <3> DEFINE at == CHOOSE c \in cases : TRUE
               f == CHOOSE g \in methods : TRUE
               e == EndpointsOf(file, f)[1]
               d == Data(file, f)
    <3>1. at \in cases
      BY <2>6
    <3>2. PICK g \in methods :
                 /\ all[at] = EndpointsOf(file, g)[1]
                 /\ \E n \in DOMAIN file.funcs : at = <<n, 1>> /\ g = file.funcs[n]
      BY <2>4, <3>1
    <3>3. f \in methods
      BY <3>2
    <3>4. f = g
      <4>1. f \in Served(file) /\ g \in Served(file) /\ f.recv = g.recv
            /\ Data(file, f).url = Data(file, g).url
        BY <3>2, <3>3
      <4> HIDE DEF f
      <4> QED  BY <1>2, <4>1 DEF Buildable
    <3> HIDE DEF at, f, e, d, all, cases, methods
    <3>5. all[at] = e
      BY <3>2, <3>4 DEF e
    <3>6. /\ e.auth = d.auth /\ e.method = d.method /\ e.fields = d.fields
          /\ e.auth \in BOOLEAN /\ IsFields(e.fields)
      <4>1. f \in Served(file)
        BY <3>3 DEF methods
      <4>2. PICK n \in DOMAIN file.funcs : IsAt(file, f, n)
        BY <4>1, ServedAt
      <4> QED  BY <4>2 DEF IsAt, e, d
    <3>7. Wrapper(e, req) = FirstWrong(e, req)
      BY <3>6, WrapperAnswers
    <3>8. FirstWrong(e, req) = FirstWrong(d, req)
      BY <3>6 DEF FirstWrong
    <3>9. ServeHTTP(all, req) = Wrapper(e, req)
      BY <2>6, <3>5 DEF ServeHTTP, at, cases
    <3>10. Answer(file, api, req) = FirstWrong(d, req)
      BY <2>2, <3>3 DEF d, f
    <3> QED  BY <2>1, <3>7, <3>8, <3>9, <3>10
  <2> QED  BY <2>5, <2>6
<1> QED  BY <1>1, <1>2

-----------------------------------------------------------------------------
(* The example generator and the Unpack methods it writes                  *)

(* Division by a positive number                                           *)
LEMMA Division ==
  ASSUME NEW a \in Int, NEW b \in Int, b > 0, NEW q \in Int, q = a \div b, NEW r \in Int, r = a % b
  PROVE  a = b * q + r
BY SMTT(20)

LEMMA Remainder ==
  ASSUME NEW b \in Nat \ {0}, NEW a \in Int, NEW q \in Int, NEW r \in 0..(b - 1), a = b * q + r
  PROVE  a % b = r
<1> DEFINE p == a \div b
           s == a % b
<1>1. p \in Int /\ s \in 0..(b - 1) /\ b \in Int /\ b > 0
  BY SMTT(20)
<1>2. a = b * p + s
  BY <1>1, Division
<1> SUFFICES s = r
  OBVIOUS
<1> HIDE DEF p, s
<1>3. b * (q - p) = s - r
  BY <1>1, <1>2
<1>4. CASE q - p >= 1
  <2>1. b * (q - p) >= b
    BY <1>1, <1>4, SMTT(20)
  <2> QED  BY <1>1, <1>3, <2>1
<1>5. CASE q - p <= -1
  <2>1. b * (q - p) <= -b
    BY <1>1, <1>5, SMTT(20)
  <2> QED  BY <1>1, <1>3, <2>1
<1>6. CASE q = p
  <2>1. q - p = 0 /\ b * 0 = 0
    BY <1>1, <1>6
  <2>2. s - r = 0 /\ s \in Int /\ r \in Int
    BY <1>1, <1>3, <2>1
  <2> QED  BY <2>2
<1>7. q - p >= 1 \/ q - p <= -1 \/ q = p
  BY <1>1
<1> QED  BY <1>4, <1>5, <1>6, <1>7

(* A digit more                                                            *)
LEMMA Digit ==
  ASSUME NEW b \in Nat \ {0}, NEW m \in Nat \ {0}, NEW r \in 0..(b - 1), NEW u \in 0..(m - 1),
         NEW t \in Int, NEW x \in Int, x = m * t + u
  PROVE  /\ b * m \in Nat \ {0}
         /\ r + b * u \in 0..(b * m - 1)
         /\ b * x + r = (b * m) * t + (r + b * u)
<1>1. b * u >= 0 /\ b * u <= b * (m - 1)
  BY SMTT(20)
<1>2. b * (m - 1) = b * m - b
  BY SMTT(20)
<1>3. b * u \in Int /\ b * m \in Int /\ b * m > 0
  BY SMTT(20)
<1>4. r + b * u \in 0..(b * m - 1)
  BY <1>1, <1>2, <1>3
<1>5. b * (m * t + u) = (b * m) * t + b * u
  BY SMTT(20)
<1> QED  BY <1>3, <1>4, <1>5

(* What binary.Read makes of the bytes of a number                         *)
LEMMA Uint32OfBytes ==
  ASSUME NEW n \in Int
  PROVE  /\ Bytes(n) \in Seq(0..(Base - 1)) /\ Len(Bytes(n)) = Word
         /\ Uint32(Bytes(n)) = n % Modulus
<1> DEFINE q1 == n \div Base
           q2 == q1 \div Base
           q3 == q2 \div Base
           q4 == q3 \div Base
           d1 == n % Base
           d2 == q1 % Base
           d3 == q2 % Base
           d4 == q3 % Base
<1>1. Base \in Nat \ {0} /\ Base \in Int /\ Base > 0
  BY BinpackAssumption
<1>2. Bytes(n) = <<d1, d2, d3, d4>>
  BY DEF Bytes
<1>3. q1 \in Int /\ d1 \in 0..(Base - 1) /\ n = Base * q1 + d1
  <2>1. q1 \in Int /\ d1 \in 0..(Base - 1)
    BY <1>1, SMTT(20)
  <2>2. d1 \in Int
    BY <1>1, <2>1
  <2> QED  BY <1>1, <2>1, <2>2, Division
<1> HIDE DEF q1, d1
<1>4. q2 \in Int /\ d2 \in 0..(Base - 1) /\ q1 = Base * q2 + d2
  <2>1. q2 \in Int /\ d2 \in 0..(Base - 1)
    BY <1>1, <1>3, SMTT(20)
  <2>2. d2 \in Int
    BY <1>1, <2>1
  <2> QED  BY <1>1, <1>3, <2>1, <2>2, Division
<1> HIDE DEF q2, d2
<1>5. q3 \in Int /\ d3 \in 0..(Base - 1) /\ q2 = Base * q3 + d3
  <2>1. q3 \in Int /\ d3 \in 0..(Base - 1)
    BY <1>1, <1>4, SMTT(20)
  <2>2. d3 \in Int
    BY <1>1, <2>1
  <2> QED  BY <1>1, <1>4, <2>1, <2>2, Division
<1> HIDE DEF q3, d3
<1>6. q4 \in Int /\ d4 \in 0..(Base - 1) /\ q3 = Base * q4 + d4
  <2>1. q4 \in Int /\ d4 \in 0..(Base - 1)
    BY <1>1, <1>5, SMTT(20)
  <2>2. d4 \in Int
    BY <1>1, <2>1
  <2> QED  BY <1>1, <1>5, <2>1, <2>2, Division
<1> HIDE DEF q4, d4
<1> DEFINE u3 == d3 + Base * d4
           u2 == d2 + Base * u3
           u1 == d1 + Base * u2
           m2 == Base * Base
           m3 == Base * m2
           m4 == Base * m3
<1>7. m2 \in Nat \ {0} /\ u3 \in 0..(m2 - 1) /\ q2 = m2 * q4 + u3
  BY <1>1, <1>5, <1>6, Digit
<1> HIDE DEF u3, m2
<1>8. m3 \in Nat \ {0} /\ u2 \in 0..(m3 - 1) /\ q1 = m3 * q4 + u2
  BY <1>1, <1>4, <1>6, <1>7, Digit
<1> HIDE DEF u2, m3
<1>9. m4 \in Nat \ {0} /\ u1 \in 0..(m4 - 1) /\ n = m4 * q4 + u1
  BY <1>1, <1>3, <1>4, <1>6, <1>8, Digit
<1>10. u1 = Uint32(Bytes(n)) /\ m4 = Modulus
  BY <1>2 DEF Uint32, Modulus, u2, u3, m2, m3
<1> HIDE DEF u1, m4
<1>11. u1 = n % m4
  BY <1>6, <1>9, Remainder
<1>12. Bytes(n) \in Seq(0..(Base - 1)) /\ Len(Bytes(n)) = Word
  BY <1>2, <1>3, <1>4, <1>5, <1>6 DEF Word
<1> QED  BY <1>10, <1>11, <1>12

(* How a struct is packed                                                  *)
LEMMA PackSteps ==
  ASSUME NEW D, NEW fields, Len(fields) \in Nat, NEW v,
         \A k \in 1..Len(fields) : ~fields[k].skip => Pack(fields[k], v) \in Seq(D)
  PROVE  /\ PackUpTo(fields, v) \in [0..Len(fields) -> Seq(D)]
         /\ PackUpTo(fields, v)[0] = <<>>
         /\ \A k \in 1..Len(fields) :
              PackUpTo(fields, v)[k] =
                IF fields[k].skip THEN PackUpTo(fields, v)[k - 1]
                ELSE PackUpTo(fields, v)[k - 1] \o Pack(fields[k], v)
<1> DEFINE n == Len(fields)
           S == Seq(D)
           next(k, s) == IF k = 0 THEN <<>> ELSE IF fields[k].skip THEN s ELSE s \o Pack(fields[k], v)
           G == [x \in (1..n) \X S |-> next(x[1], x[2])]
           W == PackUpTo(fields, v)
<1>1. \A k \in 1..n, s \in S : next(k, s) \in S
  OBVIOUS
<1>2. next(0, 0) \in S /\ next(0, 0) = <<>> /\ \A s : next(0, s) = next(0, 0)
  OBVIOUS
<1>3. n \in Nat
  OBVIOUS
<1>4. W = CHOOSE f : f = [k \in 0..n |-> next(k, f[k - 1])]
  BY DEF PackUpTo
<1>5. \A k \in 1..n, s \in S : next(k, s) = IF fields[k].skip THEN s ELSE s \o Pack(fields[k], v)
  OBVIOUS
<1> HIDE DEF n, S, next, W
<1>6. G \in [(1..n) \X S -> S] /\ \A k \in 1..n, s \in S : G[<<k, s>>] = next(k, s)
  BY <1>1, <1>3
<1> HIDE DEF G
<1>7. PICK f : Follows(f, n, S, next(0, 0), G)
  BY <1>2, <1>3, <1>6, Recursion
<1>8. f = [k \in 0..n |-> next(k, f[k - 1])]
  <2>1. ASSUME NEW k \in 0..n PROVE f[k] = next(k, f[k - 1])
    <3>1. CASE k = 0
      BY <1>2, <1>7, <3>1 DEF Follows
    <3>2. CASE k # 0
      <4>1. k \in 1..n /\ k - 1 \in 0..n
        BY <1>3, <3>2
      <4> QED  BY <1>6, <1>7, <4>1 DEF Follows
    <3> QED  BY <3>1, <3>2
  <2> QED  BY <1>7, <2>1 DEF Follows
<1>9. W = [k \in 0..n |-> next(k, W[k - 1])]
  BY <1>4, <1>8
<1>10. W[0] = next(0, 0) /\ \A k \in 1..n : W[k] = next(k, W[k - 1])
  <2>1. 0 \in 0..n /\ \A k \in 1..n : k \in 0..n
    BY <1>3
  <2>2. \A k \in 0..n : W[k] = next(k, W[k - 1])
    BY <1>9
  <2> QED  BY <1>2, <2>1, <2>2
<1>11. \A k \in 0..n : W[k] \in S
  <2>1. W[0] \in S /\ \A k \in 1..n : W[k - 1] \in S => W[k] \in S
    BY <1>1, <1>2, <1>3, <1>10
  <2> QED  BY <1>3, <2>1, Stays
<1>12. W \in [0..n -> S]
  BY <1>9, <1>11
<1>13. ASSUME NEW k \in 1..n
       PROVE  W[k] = IF fields[k].skip THEN W[k - 1] ELSE W[k - 1] \o Pack(fields[k], v)
  <2>1. W[k - 1] \in S
    BY <1>3, <1>11
  <2> QED  BY <1>5, <1>10, <2>1
<1> QED  BY <1>2, <1>10, <1>12, <1>13 DEF n, S, W

(* How it is unpacked                                                      *)
Closed(code, S) == \A k \in 1..Len(code), s \in S : UnpackField(s, code[k]) \in S

LEMMA ExecutionSteps ==
  ASSUME NEW S, NEW code, Len(code) \in Nat, NEW in, NEW data, [in |-> in, rest |-> data] \in S,
         Closed(code, S)
  PROVE  /\ Execution(code, in, data) \in [0..Len(code) -> S]
         /\ Execution(code, in, data)[0] = [in |-> in, rest |-> data]
         /\ \A k \in 1..Len(code) :
              Execution(code, in, data)[k] = UnpackField(Execution(code, in, data)[k - 1], code[k])
<1> DEFINE n == Len(code)
           next(k, s) == IF k = 0 THEN [in |-> in, rest |-> data] ELSE UnpackField(s, code[k])
           G == [x \in (1..n) \X S |-> next(x[1], x[2])]
           W == Execution(code, in, data)
<1>1. \A k \in 1..n, s \in S : next(k, s) \in S
  BY DEF Closed
<1>2. next(0, 0) \in S /\ next(0, 0) = [in |-> in, rest |-> data] /\ \A s : next(0, s) = next(0, 0)
  OBVIOUS
<1>3. n \in Nat
  OBVIOUS
<1>4. W = CHOOSE f : f = [k \in 0..n |-> next(k, f[k - 1])]
  BY DEF Execution
<1>5. \A k \in 1..n, s \in S : next(k, s) = UnpackField(s, code[k])
  OBVIOUS
<1> HIDE DEF n, next, W
<1>6. G \in [(1..n) \X S -> S] /\ \A k \in 1..n, s \in S : G[<<k, s>>] = next(k, s)
  BY <1>1, <1>3
<1> HIDE DEF G
<1>7. PICK f : Follows(f, n, S, next(0, 0), G)
  BY <1>2, <1>3, <1>6, Recursion
<1>8. f = [k \in 0..n |-> next(k, f[k - 1])]
  <2>1. ASSUME NEW k \in 0..n PROVE f[k] = next(k, f[k - 1])
    <3>1. CASE k = 0
      BY <1>2, <1>7, <3>1 DEF Follows
    <3>2. CASE k # 0
      <4>1. k \in 1..n /\ k - 1 \in 0..n
        BY <1>3, <3>2
      <4> QED  BY <1>6, <1>7, <4>1 DEF Follows
    <3> QED  BY <3>1, <3>2
  <2> QED  BY <1>7, <2>1 DEF Follows
<1>9. W = [k \in 0..n |-> next(k, W[k - 1])]
  BY <1>4, <1>8
<1>10. W[0] = next(0, 0) /\ \A k \in 1..n : W[k] = next(k, W[k - 1])
  <2>1. 0 \in 0..n /\ \A k \in 1..n : k \in 0..n
    BY <1>3
  <2>2. \A k \in 0..n : W[k] = next(k, W[k - 1])
    BY <1>9
  <2> QED  BY <1>2, <2>1, <2>2
<1>11. \A k \in 0..n : W[k] \in S
  <2>1. W[0] \in S /\ \A k \in 1..n : W[k - 1] \in S => W[k] \in S
    BY <1>1, <1>2, <1>3, <1>10
  <2> QED  BY <1>3, <2>1, Stays
<1>12. W \in [0..n -> S]
  BY <1>9, <1>11
<1>13. ASSUME NEW k \in 1..n PROVE W[k] = UnpackField(W[k - 1], code[k])
  <2>1. W[k - 1] \in S
    BY <1>3, <1>11
  <2> QED  BY <1>5, <1>10, <2>1
<1> QED  BY <1>2, <1>10, <1>12, <1>13 DEF n, W

(* Which statements are written for a struct                               *)
LEMMA StatementsSteps ==
  ASSUME NEW F, NEW type, type.fields \in Seq(F)
  PROVE  /\ StatementsUpTo(type) \in
              [0..Len(type.fields) -> [type : {type.name}, code : Seq(F), whole : BOOLEAN]]
         /\ StatementsUpTo(type)[0] = [type |-> type.name, code |-> <<>>, whole |-> TRUE]
         /\ \A k \in 1..Len(type.fields) :
              StatementsUpTo(type)[k] =
                IF ~StatementsUpTo(type)[k - 1].whole \/ ~Packed(type.fields[k])
                THEN StatementsUpTo(type)[k - 1]
                ELSE IF Supported(type.fields[k])
                THEN [StatementsUpTo(type)[k - 1] EXCEPT !.code = Append(@, type.fields[k])]
                ELSE [StatementsUpTo(type)[k - 1] EXCEPT !.whole = FALSE]
<1> DEFINE n == Len(type.fields)
           S == [type : {type.name}, code : Seq(F), whole : BOOLEAN]
           next(k, s) == IF k = 0 THEN [type |-> type.name, code |-> <<>>, whole |-> TRUE]
                ELSE IF ~s.whole \/ ~Packed(type.fields[k]) THEN s
                ELSE IF Supported(type.fields[k]) THEN [s EXCEPT !.code = Append(@, type.fields[k])]
                ELSE [s EXCEPT !.whole = FALSE]
           G == [x \in (1..n) \X S |-> next(x[1], x[2])]
           W == StatementsUpTo(type)
<1>1. ASSUME NEW k \in 0..n, NEW s \in S PROVE next(k, s) \in S
  <2>1. CASE k = 0
    BY <2>1
  <2>2. CASE k # 0
    <3>1. type.fields[k] \in F /\ s.code \in Seq(F)
      BY <2>2
    <3>2. Append(s.code, type.fields[k]) \in Seq(F)
      BY <3>1
    <3>3. [s EXCEPT !.code = Append(@, type.fields[k])] \in S
      BY <3>2
    <3>4. [s EXCEPT !.whole = FALSE] \in S
      OBVIOUS
    <3> HIDE DEF S
    <3> QED  BY <2>2, <3>3, <3>4
  <2> QED  BY <2>1, <2>2
<1>2. /\ next(0, 0) \in S /\ \A s : next(0, s) = next(0, 0)
      /\ next(0, 0) = [type |-> type.name, code |-> <<>>, whole |-> TRUE]
  OBVIOUS
<1>3. n \in Nat
  OBVIOUS
<1>4. W = CHOOSE f : f = [k \in 0..n |-> next(k, f[k - 1])]
  BY DEF StatementsUpTo
<1>5. \A k \in 1..n, s \in S : next(k, s) = IF ~s.whole \/ ~Packed(type.fields[k]) THEN s
                ELSE IF Supported(type.fields[k]) THEN [s EXCEPT !.code = Append(@, type.fields[k])]
                ELSE [s EXCEPT !.whole = FALSE]
  OBVIOUS
<1> HIDE DEF n, S, next, W
<1>6. G \in [(1..n) \X S -> S] /\ \A k \in 1..n, s \in S : G[<<k, s>>] = next(k, s)
  BY <1>1, <1>3
<1> HIDE DEF G
<1>7. PICK f : Follows(f, n, S, next(0, 0), G)
  BY <1>2, <1>3, <1>6, Recursion
<1>8. f = [k \in 0..n |-> next(k, f[k - 1])]
  <2>1. ASSUME NEW k \in 0..n PROVE f[k] = next(k, f[k - 1])
    <3>1. CASE k = 0
      BY <1>2, <1>7, <3>1 DEF Follows
    <3>2. CASE k # 0
      <4>1. k \in 1..n /\ k - 1 \in 0..n
        BY <1>3, <3>2
      <4> QED  BY <1>6, <1>7, <4>1 DEF Follows
    <3> QED  BY <3>1, <3>2
  <2> QED  BY <1>7, <2>1 DEF Follows
<1>9. W = [k \in 0..n |-> next(k, W[k - 1])]
  BY <1>4, <1>8
<1>10. W[0] = next(0, 0) /\ \A k \in 1..n : W[k] = next(k, W[k - 1])
  <2>1. 0 \in 0..n /\ \A k \in 1..n : k \in 0..n
    BY <1>3
  <2>2. \A k \in 0..n : W[k] = next(k, W[k - 1])
    BY <1>9
  <2> QED  BY <1>2, <2>1, <2>2
<1>11. \A k \in 0..n : W[k] \in S
  <2>1. W[0] \in S /\ \A k \in 1..n : W[k - 1] \in S => W[k] \in S
    BY <1>1, <1>2, <1>3, <1>10
  <2> QED  BY <1>3, <2>1, Stays
<1>12. W \in [0..n -> S]
  BY <1>9, <1>11
<1>13. ASSUME NEW k \in 1..n PROVE W[k] = IF ~W[k - 1].whole \/ ~Packed(type.fields[k]) THEN W[k - 1]
                ELSE IF Supported(type.fields[k]) THEN [W[k - 1] EXCEPT !.code = Append(@, type.fields[k])]
                ELSE [W[k - 1] EXCEPT !.whole = FALSE]
  <2>1. W[k - 1] \in S
    BY <1>3, <1>11
  <2> QED  BY <1>5, <1>10, <2>1
<1> QED  BY <1>2, <1>10, <1>12, <1>13 DEF n, S, W

(* Which methods are written                                               *)
LEMMA MethodsSteps ==
  ASSUME NEW M, NEW file, Len(file) \in Nat, \A k \in 1..Len(file) : Statements(file[k]) \in M
  PROVE  /\ MethodsUpTo(file) \in [0..Len(file) -> Seq(M)]
         /\ MethodsUpTo(file)[0] = <<>>
         /\ \A k \in 1..Len(file) :
              MethodsUpTo(file)[k] =
                IF \/ ~Marked(file[k])
                   \/ MethodsUpTo(file)[k - 1] # <<>> /\ ~Last(MethodsUpTo(file)[k - 1]).whole
                THEN MethodsUpTo(file)[k - 1]
                ELSE Append(MethodsUpTo(file)[k - 1], Statements(file[k]))
<1> DEFINE n == Len(file)
           S == Seq(M)
           next(k, s) == IF k = 0 THEN <<>>
                ELSE IF ~Marked(file[k]) \/ (s # <<>> /\ ~Last(s).whole) THEN s
                ELSE Append(s, Statements(file[k]))
           G == [x \in (1..n) \X S |-> next(x[1], x[2])]
           W == MethodsUpTo(file)
<1>1. \A k \in 1..n, s \in S : next(k, s) \in S
  OBVIOUS
<1>2. next(0, 0) \in S /\ next(0, 0) = <<>> /\ \A s : next(0, s) = next(0, 0)
  OBVIOUS
<1>3. n \in Nat
  OBVIOUS
<1>4. W = CHOOSE f : f = [k \in 0..n |-> next(k, f[k - 1])]
  BY DEF MethodsUpTo
<1>5. \A k \in 1..n, s \in S : next(k, s) = IF ~Marked(file[k]) \/ (s # <<>> /\ ~Last(s).whole) THEN s
                ELSE Append(s, Statements(file[k]))
  OBVIOUS
<1> HIDE DEF n, S, next, W
<1>6. G \in [(1..n) \X S -> S] /\ \A k \in 1..n, s \in S : G[<<k, s>>] = next(k, s)
  BY <1>1, <1>3
<1> HIDE DEF G
<1>7. PICK f : Follows(f, n, S, next(0, 0), G)
  BY <1>2, <1>3, <1>6, Recursion
<1>8. f = [k \in 0..n |-> next(k, f[k - 1])]
  <2>1. ASSUME NEW k \in 0..n PROVE f[k] = next(k, f[k - 1])
    <3>1. CASE k = 0
      BY <1>2, <1>7, <3>1 DEF Follows
    <3>2. CASE k # 0
      <4>1. k \in 1..n /\ k - 1 \in 0..n
        BY <1>3, <3>2
      <4> QED  BY <1>6, <1>7, <4>1 DEF Follows
    <3> QED  BY <3>1, <3>2
  <2> QED  BY <1>7, <2>1 DEF Follows
<1>9. W = [k \in 0..n |-> next(k, W[k - 1])]
  BY <1>4, <1>8
<1>10. W[0] = next(0, 0) /\ \A k \in 1..n : W[k] = next(k, W[k - 1])
  <2>1. 0 \in 0..n /\ \A k \in 1..n : k \in 0..n
    BY <1>3
  <2>2. \A k \in 0..n : W[k] = next(k, W[k - 1])
    BY <1>9
  <2> QED  BY <1>2, <2>1, <2>2
<1>11. \A k \in 0..n : W[k] \in S
  <2>1. W[0] \in S /\ \A k \in 1..n : W[k - 1] \in S => W[k] \in S
    BY <1>1, <1>2, <1>3, <1>10
  <2> QED  BY <1>3, <2>1, Stays
<1>12. W \in [0..n -> S]
  BY <1>9, <1>11
<1>13. ASSUME NEW k \in 1..n
       PROVE  W[k] = IF ~Marked(file[k]) \/ (W[k - 1] # <<>> /\ ~Last(W[k - 1]).whole) THEN W[k - 1]
                ELSE Append(W[k - 1], Statements(file[k]))
  <2>1. W[k - 1] \in S
    BY <1>3, <1>11
  <2> QED  BY <1>5, <1>10, <2>1
<1> QED  BY <1>2, <1>10, <1>12, <1>13 DEF n, S, W

(* What remains of data behind some of its bytes, and what is read of it   *)
LEMMA Behind ==
  ASSUME NEW D, NEW data \in Seq(D), NEW a \in Nat, NEW n \in Nat,
         NEW rest, rest = SubSeq(data, a + 1, Len(data))
  PROVE  /\ rest \in Seq(D) /\ Len(rest) = IF a <= Len(data) THEN Len(data) - a ELSE 0
         /\ \A i \in 1..Len(rest) : rest[i] = data[a + i]
         /\ Rest(rest, n) = SubSeq(data, a + n + 1, Len(data))
<1> DEFINE l == Len(data)
           r == Rest(rest, n)
           t == SubSeq(data, a + n + 1, l)
<1>1. l \in Nat /\ \A i \in 1..l : data[i] \in D
  OBVIOUS
<1>2. r = SubSeq(rest, n + 1, Len(rest))
  BY DEF Rest
<1>3. \A i \in a + 1..l : data[i] \in D
  BY <1>1
<1>4. \A i \in a + n + 1..l : data[i] \in D
  BY <1>1
<1>5. /\ rest \in Seq(D) /\ Len(rest) = IF a + 1 <= l THEN l - (a + 1) + 1 ELSE 0
      /\ \A i \in 1..l - (a + 1) + 1 : rest[i] = data[a + 1 + i - 1]
  <2>1. a + 1 \in Int /\ l \in Int
    BY <1>1
  <2> HIDE DEF l
  <2> QED  BY <1>3, <2>1, SubSeqProperties DEF l
<1>6. /\ t \in Seq(D) /\ Len(t) = IF a + n + 1 <= l THEN l - (a + n + 1) + 1 ELSE 0
      /\ \A i \in 1..l - (a + n + 1) + 1 : t[i] = data[a + n + 1 + i - 1]
  <2>1. a + n + 1 \in Int /\ l \in Int
    BY <1>1
  <2> HIDE DEF l
  <2> QED  BY <1>4, <2>1, SubSeqProperties
<1> DEFINE m == Len(rest)
<1>7. m \in Nat /\ m = IF a <= l THEN l - a ELSE 0
  BY <1>1, <1>5
<1>8. /\ r \in Seq(D) /\ Len(r) = IF n + 1 <= m THEN m - (n + 1) + 1 ELSE 0
      /\ \A i \in 1..m - (n + 1) + 1 : r[i] = rest[n + 1 + i - 1]
  <2>1. \A i \in n + 1..m : rest[i] \in D
    BY <1>5, <1>7
  <2>2. n + 1 \in Int /\ m \in Int
    BY <1>7
  <2> HIDE DEF r
  <2> QED  BY <1>2, <2>1, <2>2, SubSeqProperties
<1>9. \A i \in 1..m : rest[i] = data[a + i]
  <2> TAKE i \in 1..m
  <2>1. i \in 1..l - (a + 1) + 1 /\ a + 1 + i - 1 = a + i
    BY <1>1, <1>7
  <2> QED  BY <1>5, <2>1
<1> HIDE DEF l, r, t, m
<1>10. Len(r) = Len(t)
  BY <1>1, <1>6, <1>7, <1>8
<1>11. ASSUME NEW i \in 1..Len(r) PROVE r[i] = t[i]
  <2>1. i \in 1..m - (n + 1) + 1 /\ i \in 1..l - (a + n + 1) + 1 /\ n + 1 + i - 1 \in 1..m
        /\ a + (n + 1 + i - 1) = a + n + 1 + i - 1
    BY <1>1, <1>7, <1>8
  <2>2. r[i] = rest[n + 1 + i - 1] /\ t[i] = data[a + n + 1 + i - 1]
    BY <1>6, <1>8, <2>1
  <2> QED  BY <1>9, <2>1, <2>2
<1>12. r = t
  BY <1>6, <1>8, <1>10, <1>11, SeqEqual
<1> QED  BY <1>5, <1>7, <1>9, <1>12 DEF l, r, t, m

LEMMA RestIs ==
  ASSUME NEW D, NEW data \in Seq(D), NEW a \in Nat
  PROVE  /\ Rest(data, a) \in Seq(D)
         /\ Len(Rest(data, a)) = IF a <= Len(data) THEN Len(data) - a ELSE 0
         /\ \A i \in 1..Len(Rest(data, a)) : Rest(data, a)[i] = data[a + i]
         /\ \A n \in Nat : Rest(Rest(data, a), n) = Rest(data, a + n)
<1> DEFINE rest == Rest(data, a)
<1>1. rest = SubSeq(data, a + 1, Len(data))
  BY DEF Rest
<1>2. 0 \in Nat
  OBVIOUS
<1>3. /\ rest \in Seq(D) /\ Len(rest) = IF a <= Len(data) THEN Len(data) - a ELSE 0
      /\ \A i \in 1..Len(rest) : rest[i] = data[a + i]
  BY <1>1, <1>2, Behind
<1>4. ASSUME NEW n \in Nat PROVE Rest(rest, n) = Rest(data, a + n)
  <2> HIDE DEF rest
  <2>1. Rest(rest, n) = SubSeq(data, a + n + 1, Len(data))
    BY <1>1, Behind, ZenonT(60)
  <2> QED  BY <2>1 DEF Rest
<1> QED  BY <1>3, <1>4

LEMMA RestAt ==
  ASSUME NEW D, NEW data \in Seq(D), NEW a \in Nat, NEW i \in 1..Len(Rest(data, a))
  PROVE  Rest(data, a)[i] = data[a + i]
BY RestIs

LEMMA ReadIs ==
  ASSUME NEW D, 0 \in D, NEW rest \in Seq(D), NEW n \in Nat
  PROVE  /\ Read(rest, n) \in Seq(D) /\ Len(Read(rest, n)) = n
         /\ Len(rest) >= n => \A i \in 1..n : Read(rest, n)[i] = rest[i]
         /\ Len(rest) < n => Read(rest, n) = Zero(n)
<1>1. CASE Len(rest) >= n
  <2>1. n \in Int /\ 1 \in Int /\ (\A i \in 1..n : rest[i] \in D)
    BY <1>1
  <2>2. /\ SubSeq(rest, 1, n) \in Seq(D) /\ Len(SubSeq(rest, 1, n)) = IF 1 <= n THEN n - 1 + 1 ELSE 0
        /\ \A i \in 1..n - 1 + 1 : SubSeq(rest, 1, n)[i] = rest[1 + i - 1]
    BY <2>1, SubSeqProperties
  <2>3. Read(rest, n) = SubSeq(rest, 1, n)
    BY <1>1 DEF Read
  <2>4. n - 1 + 1 = n /\ \A i \in 1..n : 1 + i - 1 = i
    OBVIOUS
  <2>5. Len(SubSeq(rest, 1, n)) = n
    BY <2>2
  <2>6. \A i \in 1..n : SubSeq(rest, 1, n)[i] = rest[i]
    BY <2>2, <2>4
  <2> QED  BY <1>1, <2>2, <2>3, <2>5, <2>6
<1>2. CASE Len(rest) < n
  <2>1. Read(rest, n) = Zero(n)
    BY <1>2 DEF Read
  <2>2. Zero(n) \in Seq(D) /\ Len(Zero(n)) = n
    BY DEF Zero
  <2> QED  BY <1>2, <2>1, <2>2
<1> QED  BY <1>1, <1>2

(* The length that is read, or the number: of Pack's bytes, or of none     *)
LEMMA WordIs ==
  ASSUME NEW D, 0 \in D, NEW n \in Int, NEW rest \in Seq(D),
         Len(rest) >= Word => \A i \in 1..Word : rest[i] = Bytes(n)[i]
  PROVE  Uint32(Read(rest, Word)) = IF Len(rest) >= Word THEN n % Modulus ELSE 0
<1>1. Base \in Int /\ Base * 0 = 0
  BY BinpackAssumption
<1>2. Word \in Nat /\ 1 \in 1..Word /\ 2 \in 1..Word /\ 3 \in 1..Word /\ 4 \in 1..Word
  BY DEF Word
<1>3. CASE Len(rest) >= Word
  <2>1. \A i \in 1..Word : Read(rest, Word)[i] = Bytes(n)[i]
    BY <1>1, <1>2, <1>3, ReadIs
  <2>2. Uint32(Read(rest, Word)) = Uint32(Bytes(n))
    BY <1>2, <2>1 DEF Uint32
  <2> QED  BY <1>3, <2>2, Uint32OfBytes
<1>4. CASE Len(rest) < Word
  <2>1. Read(rest, Word) = Zero(Word)
    BY <1>1, <1>2, <1>4, ReadIs
  <2>2. \A i \in 1..Word : Zero(Word)[i] = 0
    BY DEF Zero
  <2>3. Uint32(Zero(Word)) = 0
    BY <1>1, <1>2, <2>2 DEF Uint32
  <2> QED  BY <1>2, <1>4, <2>1, <2>3
<1>5. Len(rest) \in Nat
  OBVIOUS
<1> QED  BY <1>2, <1>3, <1>4, <1>5

LEMMA PackIs ==
  ASSUME NEW field, NEW v, Supported(field), IsValueOf(field, v)
  PROVE  /\ Pack(field, v) \in Seq(0..(Base - 1))
         /\ Len(Pack(field, v)) = IF field.type = "int" THEN Word ELSE Word + Len(v[field.name])
<1>1. CASE field.type = "int"
  <2>1. Pack(field, v) = Bytes(v[field.name]) /\ v[field.name] \in Int
    BY <1>1 DEF Pack, IsValueOf
  <2> QED  BY <1>1, <2>1, Uint32OfBytes
<1>2. CASE field.type = "string"
  <2>1. /\ Pack(field, v) = Bytes(Len(v[field.name])) \o v[field.name]
        /\ v[field.name] \in Seq(0..(Base - 1)) /\ Len(v[field.name]) \in Int
    BY <1>2 DEF Pack, IsValueOf
  <2>2. Bytes(Len(v[field.name])) \in Seq(0..(Base - 1)) /\ Len(Bytes(Len(v[field.name]))) = Word
    BY <2>1, Uint32OfBytes
  <2>3. Word \in Nat
    BY DEF Word
  <2> DEFINE D == 0..(Base - 1)
             x == v[field.name]
             b == Bytes(Len(x))
  <2>4. b \in Seq(D) /\ x \in Seq(D) /\ Pack(field, v) = b \o x
    BY <2>1, <2>2
  <2> HIDE DEF D, x, b
  <2>5. Pack(field, v) \in Seq(D) /\ Len(Pack(field, v)) = Len(b) + Len(x)
    BY <2>4
  <2> QED  BY <1>2, <2>2, <2>5 DEF D, x, b
<1> QED  BY <1>1, <1>2 DEF Supported

(* The length of a string is read, and the string behind it.               *)
LEMMA ReadString ==
  ASSUME NEW D, 0 \in D, NEW x \in Seq(D), Len(x) < Modulus, NEW rest \in Seq(D),
         \A i \in 1..Word : i <= Len(rest) => rest[i] = Bytes(Len(x))[i],
         \A i \in 1..Len(x) : Word + i <= Len(rest) => rest[Word + i] = x[i],
         NEW n, n = Uint32(Read(rest, Word)), NEW behind, behind = Rest(rest, Word)
  PROVE  /\ Read(behind, n) = IF Len(rest) >= Word + Len(x) THEN x
                              ELSE IF Len(rest) >= Word THEN Zero(Len(x)) ELSE <<>>
         /\ Rest(behind, n) = Rest(rest, Word + Len(x))
<1> DEFINE l == Len(rest)
           k == Len(x)
           m == Len(behind)
<1>1. Word \in Nat /\ Word = 4
  BY DEF Word
<1>2. l \in Nat /\ k \in Nat /\ k \in Int
  OBVIOUS
<1>3. k % Modulus = k
  <2>1. Modulus \in Nat \ {0}
    BY BinpackAssumption, <1>2, SMTT(20) DEF Modulus
  <2>2. k < Modulus
    OBVIOUS
  <2> HIDE DEF k
  <2>3. k \in 0..(Modulus - 1) /\ 0 \in Int /\ k = Modulus * 0 + k
    BY <1>2, <2>1, <2>2
  <2> QED  BY <1>2, <2>1, <2>3, Remainder
<1>4. n = IF l >= Word THEN k ELSE 0
  <2>1. l >= Word => \A i \in 1..Word : rest[i] = Bytes(k)[i]
    BY <1>1, <1>2
  <2> HIDE DEF k
  <2> QED  BY <1>2, <1>3, <2>1, WordIs
<1>5. behind \in Seq(D) /\ m = (IF Word <= l THEN l - Word ELSE 0)
      /\ (\A i \in 1..m : behind[i] = rest[Word + i])
      /\ \A j \in Nat : Rest(behind, j) = Rest(rest, Word + j)
  <2>1. behind = Rest(rest, Word)
    OBVIOUS
  <2>2. Rest(rest, Word) \in Seq(D)
    BY <1>1, RestIs
  <2>3. Len(Rest(rest, Word)) = IF Word <= l THEN l - Word ELSE 0
    BY <1>1, RestIs, ZenonT(20)
  <2>4. ASSUME NEW i \in 1..Len(Rest(rest, Word)) PROVE Rest(rest, Word)[i] = rest[Word + i]
    BY <1>1, RestAt
  <2>5. \A j \in Nat : Rest(Rest(rest, Word), j) = Rest(rest, Word + j)
    BY <1>1, RestIs
  <2> QED  BY <2>1, <2>2, <2>3, <2>4, <2>5
<1>6. m \in Nat /\ m = IF Word <= l THEN l - Word ELSE 0
  BY <1>5
<1>7. CASE l >= Word + k
  <2>1. n = k /\ m >= k
    <3> HIDE DEF l, k, m
    <3> QED  BY <1>1, <1>2, <1>4, <1>6, <1>7
  <2>2. Read(behind, k) \in Seq(D) /\ Len(Read(behind, k)) = k
        /\ \A i \in 1..k : Read(behind, k)[i] = behind[i]
    BY <1>2, <1>5, <2>1, ReadIs
  <2>3. ASSUME NEW i \in 1..k PROVE behind[i] = x[i]
    <3>1. i \in 1..m /\ Word + i <= l
      <4> HIDE DEF l, k, m
      <4> QED  BY <1>1, <1>2, <1>6, <1>7, <2>1
    <3> QED  BY <1>5, <3>1
  <2>4. Read(behind, k) = x
    BY <2>2, <2>3, SeqEqual
  <2> QED  BY <1>2, <1>5, <1>7, <2>1, <2>4
<1>8. CASE l >= Word /\ ~ (l >= Word + k)
  <2>1. n = k /\ m < k
    <3> HIDE DEF l, k, m
    <3> QED  BY <1>1, <1>2, <1>4, <1>6, <1>8
  <2>2. Read(behind, k) = Zero(k)
    BY <1>2, <1>5, <2>1, ReadIs
  <2> QED  BY <1>2, <1>5, <1>8, <2>1, <2>2
<1>9. CASE ~ (l >= Word)
  <2>1. n = 0 /\ m = 0 /\ ~ (l >= Word + k)
    <3> HIDE DEF l, k, m
    <3> QED  BY <1>1, <1>2, <1>4, <1>6, <1>9
  <2>2. Read(behind, 0) = <<>>
    <3>1. Read(behind, 0) \in Seq(D) /\ Len(Read(behind, 0)) = 0
      BY <1>5, ReadIs
    <3> QED  BY <3>1
  <2>3. Rest(behind, 0) = <<>>
    <3>1. 0 + 1 \in Int /\ m \in Int /\ m < 0 + 1
      BY <2>1
    <3> QED  BY <3>1, SubSeqEmpty DEF Rest
  <2>4. Rest(rest, Word + k) = <<>>
    <3>1. Word + k + 1 \in Int /\ l \in Int /\ l < Word + k + 1
      <4> HIDE DEF l, k
      <4> QED  BY <1>1, <1>2, <2>1
    <3> QED  BY <3>1, SubSeqEmpty DEF Rest
  <2> QED  BY <1>9, <2>1, <2>2, <2>3, <2>4
<1> QED  BY <1>7, <1>8, <1>9

(* What begins with a packed field is unpacked: to its value, or to what a *)
(* cut leaves of it.                                                       *)
LEMMA UnpackFieldIs ==
  ASSUME NEW field, NEW v, Supported(field), IsValueOf(field, v),
         NEW s, s.rest \in Seq(0..(Base - 1)),
         \A i \in 1..Len(Pack(field, v)) : i <= Len(s.rest) => s.rest[i] = Pack(field, v)[i]
  PROVE  UnpackField(s, field) =
           [in |-> [s.in EXCEPT ![field.name] = FieldOf(field, v, Len(s.rest))],
            rest |-> Rest(s.rest, Len(Pack(field, v)))]
<1> DEFINE D == 0..(Base - 1)
           x == v[field.name]
           rest == s.rest
           l == Len(rest)
<1>1. 0 \in D /\ rest \in Seq(D) /\ l \in Nat /\ Word \in Nat
  BY BinpackAssumption DEF Word
<1>2. \A i \in 1..Len(Pack(field, v)) : i <= l => rest[i] = Pack(field, v)[i]
  OBVIOUS
<1> HIDE DEF D, rest
<1>3. CASE field.type = "int"
  <2>1. x \in Int /\ Pack(field, v) = Bytes(x) /\ Len(Pack(field, v)) = Word
    BY <1>3, PackIs DEF Pack, IsValueOf
  <2>2. l >= Word => \A i \in 1..Word : rest[i] = Bytes(x)[i]
    BY <1>1, <1>2, <2>1
  <2> HIDE DEF x
  <2>3. Uint32(Read(rest, Word)) = IF l >= Word THEN x % Modulus ELSE 0
    BY <1>1, <2>1, <2>2, WordIs
  <2>4. FieldOf(field, v, l) = Uint32(Read(rest, Word))
    BY <1>3, <2>3 DEF FieldOf, x
  <2>5. UnpackField(s, field) = [in |-> [s.in EXCEPT ![field.name] = Uint32(Read(rest, Word))],
                                 rest |-> Rest(rest, Word)]
    BY <1>3 DEF UnpackField, UnpackInt, rest
  <2> QED  BY <2>1, <2>4, <2>5 DEF rest
<1>4. CASE field.type = "string"
  <2> DEFINE n == Uint32(Read(rest, Word))
             behind == Rest(rest, Word)
             b == Bytes(Len(x))
  <2>1. x \in Seq(D) /\ Len(x) < Modulus /\ Pack(field, v) = b \o x
        /\ Len(Pack(field, v)) = Word + Len(x)
    BY <1>4, PackIs DEF Pack, IsValueOf, D
  <2> HIDE DEF x
  <2>2. Len(x) \in Int /\ Len(x) \in Nat
    BY <2>1
  <2>3. b \in Seq(D) /\ Len(b) = Word
    BY <2>2, Uint32OfBytes DEF D
  <2>4. \A i \in 1..Word : i <= l => rest[i] = b[i]
    <3> HIDE DEF b, l
    <3>1. \A i \in 1..Word : (b \o x)[i] = b[i] /\ i \in 1..Len(Pack(field, v))
      BY <1>1, <2>1, <2>2, <2>3
    <3> QED  BY <1>2, <2>1, <3>1 DEF l
  <2>5. \A i \in 1..Len(x) : Word + i <= l => rest[Word + i] = x[i]
    <3> HIDE DEF b, l
    <3>1. \A i \in 1..Len(x) : (b \o x)[Word + i] = x[i] /\ Word + i \in 1..Len(Pack(field, v))
      BY <1>1, <2>1, <2>2, <2>3
    <3> QED  BY <1>2, <2>1, <3>1 DEF l
  <2>6. /\ Read(behind, n) = IF l >= Word + Len(x) THEN x
                             ELSE IF l >= Word THEN Zero(Len(x)) ELSE <<>>
        /\ Rest(behind, n) = Rest(rest, Word + Len(x))
    BY <1>1, <2>1, <2>4, <2>5, ReadString
  <2>7. FieldOf(field, v, l) = Read(behind, n)
    BY <1>4, <2>6 DEF FieldOf, x
  <2>8. UnpackField(s, field) = [in |-> [s.in EXCEPT ![field.name] = Read(behind, n)],
                                 rest |-> Rest(behind, n)]
    BY <1>4 DEF UnpackField, UnpackString, rest
  <2> HIDE DEF n, behind
  <2> QED  BY <2>1, <2>6, <2>7, <2>8 DEF rest
<1> QED  BY <1>3, <1>4 DEF Supported

(* In a row of sequences each of which prolongs the one before, each is a  *)
(* prefix of the last.                                                     *)
Grows(P, n, D) ==
  /\ \A k \in 0..n : P[k] \in Seq(D)
  /\ \A k \in 1..n : \E x \in Seq(D) : P[k] = P[k - 1] \o x

LEMMA EachIsPrefix ==
  ASSUME NEW n \in Nat, NEW D, NEW P, Grows(P, n, D)
  PROVE  \A k \in 0..n : /\ Len(P[k]) <= Len(P[n])
                         /\ \A i \in 1..Len(P[k]) : P[n][i] = P[k][i]
<1> DEFINE Begins(k) == Len(P[k]) <= Len(P[n]) /\ \A i \in 1..Len(P[k]) : P[n][i] = P[k][i]
           T == {k \in 0..n : Begins(n - k)}
<1> USE DEF Grows
<1>1. 0 \in T /\ T \in SUBSET (0..n)
  <2>1. n - 0 = n /\ n \in 0..n /\ Len(P[n]) \in Nat
    OBVIOUS
  <2>2. Begins(n)
    BY <2>1
  <2> HIDE DEF Begins
  <2> QED  BY <2>1, <2>2
<1>2. ASSUME NEW k \in 1..n, k - 1 \in T PROVE k \in T
  <2> DEFINE m == n - (k - 1)
  <2>1. m \in 1..n /\ m - 1 = n - k /\ m \in 0..n /\ m - 1 \in 0..n
    OBVIOUS
  <2>2. Begins(m)
    BY <1>2
  <2> HIDE DEF m
  <2>3. P[m] \in Seq(D) /\ P[m - 1] \in Seq(D) /\ P[n] \in Seq(D)
    BY <2>1
  <2>4. PICK x \in Seq(D) : P[m] = P[m - 1] \o x
    BY <2>1
  <2>5. Len(P[m - 1]) <= Len(P[m]) /\ \A i \in 1..Len(P[m - 1]) : P[m][i] = P[m - 1][i]
    BY <2>3, <2>4
  <2>6. Len(P[m - 1]) \in Nat /\ Len(P[m]) \in Nat /\ Len(P[n]) \in Nat
    BY <2>3
  <2>7. Begins(m - 1)
    BY <2>2, <2>5, <2>6
  <2> HIDE DEF Begins
  <2> QED  BY <2>1, <2>7
<1> HIDE DEF T, Begins
<1>3. \A k \in 0..n : k \in T
  BY <1>1, <1>2, UpTo
<1>4. ASSUME NEW k \in 0..n
      PROVE  Len(P[k]) <= Len(P[n]) /\ \A i \in 1..Len(P[k]) : P[n][i] = P[k][i]
  <2>1. n - k \in 0..n /\ n - (n - k) = k
    OBVIOUS
  <2>2. n - k \in T
    BY <1>3, <2>1
  <2>3. Begins(n - (n - k))
    BY <2>2 DEF T
  <2> QED  BY <2>1, <2>3 DEF Begins
<1> QED  BY <1>4

(* A method is whole if every field it should read is an int or a string.  *)
LEMMA WholeIff ==
  ASSUME NEW F, NEW type, type.fields \in Seq(F)
  PROVE  /\ Statements(type).type = type.name /\ Statements(type).code \in Seq(F)
         /\ Statements(type).whole \in BOOLEAN
         /\ Statements(type).whole <=>
              \A k \in 1..Len(type.fields) : Packed(type.fields[k]) => Supported(type.fields[k])
         /\ Statements(type).whole => \A k \in 0..Len(type.fields) : StatementsUpTo(type)[k].whole
<1> DEFINE n == Len(type.fields)
           W == StatementsUpTo(type)
           S == [type : {type.name}, code : Seq(F), whole : BOOLEAN]
<1>1. n \in Nat /\ \A k \in 0..n : W[k] \in S
  <2>1. W \in [0..n -> S]
    BY StatementsSteps
  <2> HIDE DEF W, S
  <2> QED  BY <2>1
<1>2. /\ W[0].whole
      /\ \A k \in 1..n : W[k].whole <=> /\ W[k - 1].whole
                                        /\ Packed(type.fields[k]) => Supported(type.fields[k])
  <2>1. W[0].whole
    <3>1. W[0] = [type |-> type.name, code |-> <<>>, whole |-> TRUE]
      BY StatementsSteps
    <3> HIDE DEF W
    <3> QED  BY <3>1
  <2>2. ASSUME NEW k \in 1..n
        PROVE  W[k].whole <=> /\ W[k - 1].whole
                              /\ Packed(type.fields[k]) => Supported(type.fields[k])
    <3>1. W[k] = IF ~W[k - 1].whole \/ ~Packed(type.fields[k]) THEN W[k - 1]
                 ELSE IF Supported(type.fields[k])
                      THEN [W[k - 1] EXCEPT !.code = Append(@, type.fields[k])]
                      ELSE [W[k - 1] EXCEPT !.whole = FALSE]
      BY StatementsSteps, ZenonT(20)
    <3>2. W[k - 1] \in S
      BY <1>1
    <3> HIDE DEF W
    <3> QED  BY <3>1, <3>2
  <2> QED  BY <2>1, <2>2
<1>3. Statements(type) = W[n] /\ n \in 0..n
  BY <1>1 DEF Statements
<1>4. /\ W[n].type = type.name /\ W[n].code \in Seq(F) /\ W[n].whole \in BOOLEAN
  <2>1. W[n] \in S
    BY <1>1
  <2> HIDE DEF W, n
  <2> QED  BY <2>1
<1> HIDE DEF W, n
<1>5. ASSUME \A k \in 1..n : Packed(type.fields[k]) => Supported(type.fields[k]) PROVE W[n].whole
  <2> DEFINE T == {k \in 0..n : W[k].whole}
  <2>1. 0 \in T /\ T \in SUBSET (0..n)
    BY <1>1, <1>2
  <2>2. ASSUME NEW k \in 1..n, k - 1 \in T PROVE k \in T
    BY <1>1, <1>2, <1>5, <2>2
  <2> HIDE DEF T
  <2>3. \A k \in 0..n : k \in T
    BY <1>1, <2>1, <2>2, UpTo
  <2> QED  BY <1>3, <2>3 DEF T
<1>6. ASSUME W[n].whole PROVE \A k \in 0..n : W[k].whole
  <2> DEFINE T == {k \in 0..n : W[n - k].whole}
  <2>1. 0 \in T /\ T \in SUBSET (0..n)
    <3>1. n - 0 = n /\ 0 \in 0..n
      BY <1>1
    <3> QED  BY <1>6, <3>1
  <2>2. ASSUME NEW k \in 1..n, k - 1 \in T PROVE k \in T
    <3>1. n - (k - 1) \in 1..n /\ n - (k - 1) - 1 = n - k /\ k \in 0..n
      BY <1>1
    <3>2. W[n - (k - 1)].whole
      BY <2>2
    <3>3. W[n - (k - 1) - 1].whole
      BY <1>2, <3>1, <3>2
    <3> QED  BY <3>1, <3>3
  <2>3. \A k \in 0..n : k \in T
    <3> HIDE DEF T
    <3> QED  BY <1>1, <2>1, <2>2, UpTo
  <2>4. ASSUME NEW k \in 0..n PROVE W[k].whole
    <3>1. n - k \in 0..n /\ n - (n - k) = k
      BY <1>1
    <3>2. n - k \in T
      BY <2>3, <3>1
    <3>3. W[n - (n - k)].whole
      BY <3>2
    <3> QED  BY <3>1, <3>3
  <2> QED  BY <2>4
<1>7. ASSUME W[n].whole, NEW k \in 1..n
      PROVE  Packed(type.fields[k]) => Supported(type.fields[k])
  <2>1. k \in 0..n
    BY <1>1
  <2> QED  BY <1>2, <1>6, <1>7, <2>1
<1> QED  BY <1>3, <1>4, <1>5, <1>6, <1>7 DEF W, n

(* Which statements a whole method has                                     *)
LEMMA CodeSteps ==
  ASSUME NEW F, NEW type, type.fields \in Seq(F),
         Statements(type).whole
  PROVE  /\ StatementsUpTo(type)[0].code = <<>>
         /\ \A k \in 0..Len(type.fields) : StatementsUpTo(type)[k].code \in Seq(F)
         /\ \A k \in 1..Len(type.fields) :
              StatementsUpTo(type)[k].code =
                IF Packed(type.fields[k])
                THEN Append(StatementsUpTo(type)[k - 1].code, type.fields[k])
                ELSE StatementsUpTo(type)[k - 1].code
<1> DEFINE n == Len(type.fields)
           W == StatementsUpTo(type)
           S == [type : {type.name}, code : Seq(F), whole : BOOLEAN]
<1>1. n \in Nat /\ (\A k \in 0..n : W[k] \in S) /\ W[0].code = <<>>
  <2>1. W \in [0..n -> S]
    BY StatementsSteps
  <2>2. W[0] = [type |-> type.name, code |-> <<>>, whole |-> TRUE]
    BY StatementsSteps
  <2> HIDE DEF W, S
  <2> QED  BY <2>1, <2>2
<1>2. ASSUME NEW k \in 1..n
      PROVE  W[k].code = IF Packed(type.fields[k]) THEN Append(W[k - 1].code, type.fields[k])
                         ELSE W[k - 1].code
  <2>1. W[k] = IF ~W[k - 1].whole \/ ~Packed(type.fields[k]) THEN W[k - 1]
               ELSE IF Supported(type.fields[k])
                    THEN [W[k - 1] EXCEPT !.code = Append(@, type.fields[k])]
                    ELSE [W[k - 1] EXCEPT !.whole = FALSE]
    BY StatementsSteps, ZenonT(20)
  <2>2. W[k - 1] \in S /\ k - 1 \in 0..n
    BY <1>1
  <2>3. W[k - 1].whole /\ (Packed(type.fields[k]) => Supported(type.fields[k]))
    BY <2>2, WholeIff
  <2> HIDE DEF W
  <2> QED  BY <2>1, <2>2, <2>3
<1>3. \A k \in 0..n : W[k].code \in Seq(F)
  <2> HIDE DEF W, n
  <2> QED  BY <1>1
<1> QED  BY <1>1, <1>2, <1>3

(* What is left behind too few bytes is as good as nothing.                *)
LEMMA FieldOfLeft ==
  ASSUME NEW field, NEW v, Supported(field), IsValueOf(field, v), NEW l \in Nat, NEW a \in Nat
  PROVE  FieldOf(field, v, IF a <= l THEN l - a ELSE 0) = FieldOf(field, v, l - a)
<1> DEFINE b == IF a <= l THEN l - a ELSE 0
<1>1. Word \in Nat /\ Word > 0
  BY DEF Word
<1>2. b >= Word <=> l - a >= Word
  BY <1>1
<1>3. CASE field.type = "int"
  <2> HIDE DEF b
  <2>1. FieldOf(field, v, b) = IF b >= Word THEN v[field.name] % Modulus ELSE 0
    BY <1>3 DEF FieldOf
  <2>2. FieldOf(field, v, l - a) = IF l - a >= Word THEN v[field.name] % Modulus ELSE 0
    BY <1>3 DEF FieldOf
  <2> QED  BY <1>2, <2>1, <2>2 DEF b
<1>4. CASE field.type = "string"
  <2> DEFINE k == Len(v[field.name])
  <2>1. k \in Nat
    BY <1>4 DEF IsValueOf
  <2> HIDE DEF k
  <2>2. b >= Word + k <=> l - a >= Word + k
    BY <1>1, <2>1
  <2> HIDE DEF b
  <2>3. FieldOf(field, v, b) = IF b >= Word + k THEN v[field.name]
                               ELSE IF b >= Word THEN Zero(k) ELSE <<>>
    BY <1>4 DEF FieldOf, k
  <2>4. FieldOf(field, v, l - a) = IF l - a >= Word + k THEN v[field.name]
                                   ELSE IF l - a >= Word THEN Zero(k) ELSE <<>>
    BY <1>4 DEF FieldOf, k
  <2> QED  BY <1>2, <2>2, <2>3, <2>4 DEF b
<1> QED  BY <1>3, <1>4 DEF Supported

(* The state of an Unpack: the struct's values, and what remains to read   *)
LEMMA UnpackFieldType ==
  ASSUME NEW X, NEW V, Int \subseteq V, Seq(0..(Base - 1)) \subseteq V,
         NEW s \in [in : [X -> V], rest : Seq(0..(Base - 1))], NEW field
  PROVE  UnpackField(s, field) \in [in : [X -> V], rest : Seq(0..(Base - 1))]
<1> DEFINE D == 0..(Base - 1)
           S == [in : [X -> V], rest : Seq(D)]
           n == Uint32(Read(s.rest, Word))
           behind == Rest(s.rest, Word)
<1>1. 0 \in D /\ D \subseteq Nat /\ Base \in Nat /\ Word \in Nat
      /\ 1 \in 1..Word /\ 2 \in 1..Word /\ 3 \in 1..Word /\ 4 \in 1..Word
  BY BinpackAssumption DEF Word
<1>2. s \in S /\ Seq(D) \subseteq V
  OBVIOUS
<1> HIDE DEF D
<1>3. Read(s.rest, Word) \in Seq(D) /\ Len(Read(s.rest, Word)) = Word
  BY <1>1, <1>2, ReadIs
<1>4. n \in Nat
  <2>1. ASSUME NEW i \in 1..Word PROVE Read(s.rest, Word)[i] \in Nat
    <3>1. Read(s.rest, Word)[i] \in D
      BY <1>3
    <3> QED  BY <1>1, <3>1
  <2>2. \A x, y \in Nat : x + Base * y \in Nat
    BY <1>1, SMTT(20)
  <2> QED  BY <1>1, <2>1, <2>2 DEF Uint32
<1>5. behind \in Seq(D)
  BY <1>1, <1>2, RestIs
<1> HIDE DEF n, behind
<1>6. Read(behind, n) \in Seq(D) /\ Rest(behind, n) \in Seq(D)
  BY <1>1, <1>4, <1>5, ReadIs, RestIs
<1>7. ASSUME NEW x \in V, NEW r \in Seq(D)
      PROVE  [in |-> [s.in EXCEPT ![field.name] = x], rest |-> r] \in S
  BY <1>2
<1>8. UnpackInt(s, field) \in S
  <2>1. n \in V
    BY <1>4
  <2> HIDE DEF S
  <2> QED  BY <1>5, <1>7, <2>1 DEF UnpackInt, n, behind
<1>9. UnpackString(s, field) \in S
  <2>1. Read(behind, n) \in V
    BY <1>2, <1>6
  <2> HIDE DEF S
  <2> QED  BY <1>6, <1>7, <2>1 DEF UnpackString, n, behind
<1> HIDE DEF S
<1>10. UnpackField(s, field) \in S
  BY <1>8, <1>9 DEF UnpackField
<1> QED  BY <1>10 DEF S, D

(* Unpack recovers what was packed, and of data that is cut the fields     *)
(* before the cut: behind field k the variable has the first k fields, and *)
(* what remains to read is what was packed behind them.                    *)
LEMMA UnpackRight ==
  ASSUME NEW type, NEW v, NEW in, NEW data,
         IsStruct(type), ArePacked(type, v, in, data), Statements(type).whole
  PROVE  Recovers(type, v, in, data, Unpack(Statements(type), in, data))
<1> DEFINE F == ToSet(type.fields)
           fields == type.fields
           n == Len(fields)
           D == 0..(Base - 1)
           W == StatementsUpTo(type)
           code == Statements(type).code
           c == [k \in 0..n |-> W[k].code]
           p == PackUpTo(fields, v)
           V == {in[x] : x \in DOMAIN in} \cup (Int \cup Seq(D))
           S == [in : [DOMAIN in -> V], rest : Seq(D)]
           e == Execution(code, in, data)
<1>1. fields \in Seq(F) /\ n \in Nat /\ \A k \in 1..n : fields[k] \in F
  BY DEF IsStruct
<1>2. \A i, k \in 1..n : fields[i].name = fields[k].name => i = k
  BY <1>1 DEF IsStruct
<1>3. ASSUME NEW k \in 1..n, Packed(fields[k])
      PROVE  Supported(fields[k]) /\ IsValueOf(fields[k], v)
  <2>1. Supported(fields[k])
    BY <1>1, <1>3, WholeIff
  <2> QED  BY <1>1, <1>3, <2>1 DEF ArePacked
<1>4. \A f \in F : f.name \in DOMAIN in
  BY DEF ArePacked
<1>5. in = [x \in DOMAIN in |-> in[x]]
  BY DEF ArePacked
<1>6. PICK cut \in 0..Len(p[n]) : data = SubSeq(p[n], 1, cut)
  BY DEF ArePacked, PackAll
(* the bytes *)
<1>7. /\ \A k \in 0..n : p[k] \in Seq(D)
      /\ p[0] = <<>>
      /\ \A k \in 1..n :
           p[k] = IF fields[k].skip THEN p[k - 1] ELSE p[k - 1] \o Pack(fields[k], v)
  <2>1. \A k \in 1..n : ~fields[k].skip => Pack(fields[k], v) \in Seq(D)
    BY <1>3, PackIs DEF Packed
  <2>2. p \in [0..n -> Seq(D)]
    BY <1>1, <2>1, PackSteps
  <2>3. p[0] = <<>>
    BY <1>1, <2>1, PackSteps
  <2>4. \A k \in 1..n :
           p[k] = IF fields[k].skip THEN p[k - 1] ELSE p[k - 1] \o Pack(fields[k], v)
    BY <1>1, <2>1, PackSteps, SMTT(20)
  <2> HIDE DEF p, D
  <2> QED  BY <2>2, <2>3, <2>4
<1>8. \A k \in 0..n : Len(p[k]) <= Len(p[n]) /\ \A i \in 1..Len(p[k]) : p[n][i] = p[k][i]
  <2>1. ASSUME NEW k \in 1..n PROVE \E x \in Seq(D) : p[k] = p[k - 1] \o x
    <3>1. CASE fields[k].skip
      <4>1. p[k - 1] \in Seq(D) /\ k - 1 \in 0..n
        BY <1>1, <1>7
      <4>2. <<>> \in Seq(D) /\ p[k - 1] \o <<>> = p[k - 1]
        <5> HIDE DEF D, p
        <5> QED  BY <4>1
      <4> QED  BY <1>7, <3>1, <4>2
    <3>2. CASE ~ fields[k].skip
      <4>1. Pack(fields[k], v) \in Seq(D)
        BY <1>3, <3>2, PackIs DEF Packed
      <4> HIDE DEF p, D
      <4> QED  BY <1>7, <3>2, <4>1
    <3> QED  BY <3>1, <3>2
  <2>2. n \in Nat /\ \A k \in 0..n : p[k] \in Seq(D)
    BY <1>1, <1>7
  <2> HIDE DEF p, D, n
  <2>3. Grows(p, n, D)
    BY <2>1, <2>2 DEF Grows
  <2> QED  BY <2>2, <2>3, EachIsPrefix
<1>9. /\ data \in Seq(D) /\ Len(data) = cut /\ Len(p[n]) \in Nat
      /\ \A i \in 1..cut : data[i] = p[n][i]
  <2>1. p[n] \in Seq(D)
    BY <1>1, <1>7
  <2> HIDE DEF p, D, n
  <2>2. Len(p[n]) \in Nat /\ \A i \in 1..Len(p[n]) : p[n][i] \in D
    BY <2>1
  <2>3. 1 \in Int /\ cut \in Int /\ cut \in Nat /\ \A i \in 1..cut : p[n][i] \in D
    BY <2>2
  <2>4. /\ SubSeq(p[n], 1, cut) \in Seq(D)
        /\ Len(SubSeq(p[n], 1, cut)) = IF 1 <= cut THEN cut - 1 + 1 ELSE 0
        /\ \A i \in 1..cut - 1 + 1 : SubSeq(p[n], 1, cut)[i] = p[n][1 + i - 1]
    BY <2>3, SubSeqProperties
  <2>5. (IF 1 <= cut THEN cut - 1 + 1 ELSE 0) = cut /\ cut - 1 + 1 = cut
        /\ \A i \in 1..cut : 1 + i - 1 = i
    BY <2>3
  <2> QED  BY <1>6, <2>2, <2>4, <2>5
(* the statements *)
<1>10. /\ c[0] = <<>> /\ c[n] = code
       /\ \A k \in 0..n : c[k] \in Seq(F)
       /\ \A k \in 1..n : c[k] = IF fields[k].skip THEN c[k - 1] ELSE Append(c[k - 1], fields[k])
  <2>1. W[0].code = <<>> /\ W[n].code = code /\ \A k \in 0..n : W[k].code \in Seq(F)
    BY <1>1, CodeSteps DEF Statements
  <2>2. ASSUME NEW k \in 1..n
        PROVE  W[k].code = IF fields[k].skip THEN W[k - 1].code ELSE Append(W[k - 1].code, fields[k])
    BY <1>1, CodeSteps DEF Packed
  <2> HIDE DEF W, code, F, fields
  <2>3. 0 \in 0..n /\ n \in 0..n /\ \A k \in 1..n : k \in 0..n /\ k - 1 \in 0..n
    BY <1>1
  <2> QED  BY <2>1, <2>2, <2>3
<1>11. \A k \in 0..n : Len(c[k]) <= Len(code) /\ \A i \in 1..Len(c[k]) : code[i] = c[k][i]
  <2>1. ASSUME NEW k \in 1..n PROVE \E x \in Seq(F) : c[k] = c[k - 1] \o x
    <3> HIDE DEF c, F, fields
    <3>1. c[k - 1] \in Seq(F) /\ fields[k] \in F
      BY <1>1, <1>10
    <3>2. /\ <<>> \in Seq(F) /\ c[k - 1] \o <<>> = c[k - 1]
          /\ <<fields[k]>> \in Seq(F) /\ c[k - 1] \o <<fields[k]>> = Append(c[k - 1], fields[k])
      BY <3>1
    <3> QED  BY <1>10, <3>2
  <2> HIDE DEF c, F, n, code
  <2>2. n \in Nat /\ \A k \in 0..n : c[k] \in Seq(F)
    BY <1>1, <1>10
  <2>3. \A k \in 0..n : Len(c[k]) <= Len(c[n]) /\ \A i \in 1..Len(c[k]) : c[n][i] = c[k][i]
    <3>1. Grows(c, n, F)
      BY <2>1, <2>2 DEF Grows
    <3> QED  BY <2>2, <3>1, EachIsPrefix
  <2> QED  BY <1>10, <2>3
<1>12. /\ e[0] = [in |-> in, rest |-> data]
       /\ \A k \in 1..Len(code) : e[k] = UnpackField(e[k - 1], code[k])
       /\ \A k \in 0..Len(code) : e[k] \in S
  <2>1. code \in Seq(F) /\ Len(code) \in Nat
    BY <1>1, WholeIff
  <2>2. [in |-> in, rest |-> data] \in S
    <3>1. in \in [DOMAIN in -> V]
      <4>1. \A x \in DOMAIN in : in[x] \in V
        OBVIOUS
      <4> HIDE DEF V
      <4> QED  BY <1>5, <4>1
    <3> HIDE DEF V, D
    <3> QED  BY <1>9, <3>1
  <2>3. Closed(code, S)
    <3>1. Int \subseteq V /\ Seq(D) \subseteq V
      OBVIOUS
    <3> HIDE DEF V
    <3> QED  BY <3>1, UnpackFieldType DEF Closed
  <2> HIDE DEF S, code
  <2>4. e \in [0..Len(code) -> S]
    BY <2>1, <2>2, <2>3, ExecutionSteps
  <2>5. e[0] = [in |-> in, rest |-> data]
    BY <2>1, <2>2, <2>3, ExecutionSteps
  <2>6. \A k \in 1..Len(code) : e[k] = UnpackField(e[k - 1], code[k])
    BY <2>1, <2>2, <2>3, ExecutionSteps
  <2> HIDE DEF e
  <2> QED  BY <2>1, <2>4, <2>5, <2>6
(* fields read, one after the other *)
<1> DEFINE name(k) == fields[k].name
           Value(k) == FieldOf(fields[k], v, Len(data) - Len(p[k - 1]))
           Done(k) == LET s == e[Len(c[k])]
                      IN  /\ s.rest = Rest(data, Len(p[k]))
                          /\ \A j \in 1..n :
                               s.in[name(j)] = IF j <= k /\ ~ fields[j].skip THEN Value(j)
                                               ELSE in[name(j)]
<1>13. Done(0)
  <2>1. Len(c[0]) = 0 /\ Len(p[0]) = 0
    BY <1>7, <1>10
  <2>2. Rest(data, 0) = data
    BY <1>9, SubSeqFull DEF Rest
  <2>3. e[0].in = in /\ e[0].rest = data
    BY <1>12
  <2>4. \A j \in 1..n : ~ (j <= 0)
    BY <1>1
  <2> HIDE DEF e, c, p, name, Value
  <2> QED  BY <2>1, <2>2, <2>3, <2>4
<1>14. ASSUME NEW k \in 1..n, Done(k - 1) PROVE Done(k)
  <2> DEFINE a == Len(p[k - 1])
             s == e[Len(c[k - 1])]
             field == fields[k]
             left == IF a <= Len(data) THEN Len(data) - a ELSE 0
  <2>1. k - 1 \in 0..n /\ k \in 0..n /\ k \in Nat /\ (\A j \in 1..n : j <= k <=> j <= k - 1 \/ j = k)
    BY <1>1
  <2>2. /\ s.rest = Rest(data, a)
        /\ \A j \in 1..n : s.in[name(j)] = IF j <= k - 1 /\ ~ fields[j].skip THEN Value(j) ELSE in[name(j)]
    BY <1>14
  <2>3. CASE field.skip
    <3>1. c[k] = c[k - 1] /\ p[k] = p[k - 1]
      BY <1>7, <1>10, <2>3
    <3>2. \A j \in 1..n : (j <= k /\ ~ fields[j].skip) <=> (j <= k - 1 /\ ~ fields[j].skip)
      BY <2>1, <2>3
    <3> HIDE DEF c, p, e, name, Value, fields
    <3> QED  BY <2>2, <3>1, <3>2
  <2>4. CASE ~ field.skip
    <3>1. Supported(field) /\ IsValueOf(field, v)
      BY <1>3, <2>4 DEF Packed
    <3>2. p[k - 1] \in Seq(D) /\ Pack(field, v) \in Seq(D) /\ p[k] = p[k - 1] \o Pack(field, v)
      BY <1>7, <2>1, <2>4, <3>1, PackIs
    <3>3. c[k - 1] \in Seq(F) /\ c[k] = Append(c[k - 1], field)
      BY <1>10, <2>1, <2>4
    <3> DEFINE l == Len(c[k])
    <3>4. l \in Nat /\ l >= 1 /\ l - 1 = Len(c[k - 1]) /\ c[k][l] = field
      <4> HIDE DEF c, F, field
      <4> QED  BY <3>3
    <3>5. l \in 1..Len(code) /\ code[l] = field
      <4>1. code \in Seq(F)
        BY <1>1, WholeIff
      <4>2. l <= Len(code) /\ \A i \in 1..l : code[i] = c[k][i]
        BY <1>11, <2>1
      <4> HIDE DEF l, c, code, F, field
      <4>3. Len(code) \in Nat
        BY <4>1
      <4> QED  BY <3>4, <4>2, <4>3
    <3>6. e[l] = UnpackField(s, field) /\ s \in S
      <4>1. e[l] = UnpackField(e[l - 1], code[l]) /\ e[l - 1] \in S
        <5>1. l - 1 \in 0..Len(code)
          <6> HIDE DEF l, code
          <6> QED  BY <3>4, <3>5
        <5> HIDE DEF e, l, S
        <5> QED  BY <1>12, <3>5, <5>1
      <4> HIDE DEF e, l, S, field, code
      <4> QED  BY <3>4, <3>5, <4>1
    <3> DEFINE b == Pack(field, v)
    <3>7. /\ a \in Nat /\ Len(b) \in Nat /\ Len(p[k]) = a + Len(b)
          /\ \A i \in 1..Len(b) : p[k][a + i] = b[i]
      <4>1. p[k - 1] \in Seq(D) /\ b \in Seq(D) /\ p[k] = p[k - 1] \o b
        BY <3>2
      <4> HIDE DEF p, D, b
      <4> QED  BY <4>1
    <3>8. /\ s.rest \in Seq(D) /\ Len(s.rest) = left
          /\ Rest(s.rest, Len(b)) = Rest(data, Len(p[k]))
          /\ \A i \in 1..Len(s.rest) : s.rest[i] = data[a + i]
      <4> HIDE DEF a, b, p, D, s
      <4>1. Rest(data, a) \in Seq(D) /\ Len(Rest(data, a)) = left
        BY <1>9, <3>7, RestIs
      <4>2. Rest(Rest(data, a), Len(b)) = Rest(data, a + Len(b))
        BY <1>9, <3>7, RestIs
      <4>3. ASSUME NEW i \in 1..Len(Rest(data, a)) PROVE Rest(data, a)[i] = data[a + i]
        <5>1. data \in Seq(D) /\ a \in Nat
          BY <1>9, <3>7
        <5> QED  BY <5>1, RestAt
      <4> QED  BY <2>2, <3>7, <4>1, <4>2, <4>3
    <3>9. ASSUME NEW i \in 1..Len(b), i <= Len(s.rest) PROVE s.rest[i] = b[i]
      <4>1. i \in 1..Len(s.rest) /\ a + i \in 1..cut /\ a + i \in 1..Len(p[k])
        <5> HIDE DEF a, b, p, s
        <5> QED  BY <1>9, <3>7, <3>8, <3>9
      <4>2. s.rest[i] = data[a + i] /\ data[a + i] = p[n][a + i]
        <5> HIDE DEF a, b, p, s, n
        <5> QED  BY <1>9, <3>8, <4>1
      <4>3. p[n][a + i] = p[k][a + i]
        <5> HIDE DEF a, b, p, s, n
        <5> QED  BY <1>8, <2>1, <4>1
      <4>4. p[k][a + i] = b[i]
        <5> HIDE DEF a, b, p, s, n
        <5> QED  BY <3>7
      <4> QED  BY <4>2, <4>3, <4>4
    <3>10. UnpackField(s, field) =
             [in |-> [s.in EXCEPT ![field.name] = FieldOf(field, v, Len(s.rest))],
              rest |-> Rest(s.rest, Len(b))]
      <4> HIDE DEF s, field
      <4> QED  BY <3>1, <3>8, <3>9, UnpackFieldIs
    <3>11. FieldOf(field, v, Len(s.rest)) = Value(k)
      <4>1. Len(data) \in Nat
        BY <1>9
      <4>2. FieldOf(field, v, left) = FieldOf(field, v, Len(data) - a)
        <5> HIDE DEF a, field
        <5> QED  BY <3>1, <3>7, <4>1, FieldOfLeft
      <4> HIDE DEF s
      <4> QED  BY <3>8, <4>2
    <3>12. /\ e[l].rest = Rest(data, Len(p[k]))
           /\ e[l].in = [s.in EXCEPT ![name(k)] = Value(k)]
           /\ name(k) \in DOMAIN s.in
      <4>1. name(k) \in DOMAIN in
        BY <1>1, <1>4
      <4>2. DOMAIN s.in = DOMAIN in
        <5> HIDE DEF s, V, D
        <5> QED  BY <3>6
      <4> HIDE DEF e, l, s, p, Value, b
      <4> QED  BY <3>6, <3>8, <3>10, <3>11, <4>1, <4>2
    <3>13. ASSUME NEW j \in 1..n
           PROVE  e[l].in[name(j)] = IF j <= k /\ ~ fields[j].skip THEN Value(j) ELSE in[name(j)]
      <4>1. CASE j = k
        <5>1. e[l].in[name(k)] = Value(k)
          <6> HIDE DEF e, l, s, p, Value, name
          <6> QED  BY <3>12
        <5>2. k <= k
          BY <2>1
        <5> HIDE DEF e, l, s, p, Value, name
        <5> QED  BY <2>4, <4>1, <5>1, <5>2
      <4>2. CASE j # k
        <5>1. name(j) # name(k)
          BY <1>2, <4>2
        <5>2. e[l].in[name(j)] = s.in[name(j)]
          <6> HIDE DEF e, l, s, p, Value, name
          <6> QED  BY <3>12, <5>1
        <5>3. j <= k <=> j <= k - 1
          BY <2>1, <4>2
        <5> HIDE DEF e, l, s, p, Value, name
        <5> QED  BY <2>2, <5>2, <5>3
      <4> QED  BY <4>1, <4>2
    <3> HIDE DEF e, p, name, Value
    <3> QED  BY <3>12, <3>13
  <2> QED  BY <2>3, <2>4
<1>15. Done(n)
  <2> DEFINE T == {k \in 0..n : Done(k)}
  <2>1. 0 \in T /\ T \in SUBSET (0..n)
    <3> HIDE DEF Done
    <3> QED  BY <1>1, <1>13
  <2>2. ASSUME NEW k \in 1..n, k - 1 \in T PROVE k \in T
    <3>1. Done(k - 1)
      BY <2>2
    <3>2. k \in 0..n
      <4> HIDE DEF n
      <4> QED  BY <1>1
    <3>3. Done(k)
      BY <1>14, <3>1
    <3> HIDE DEF Done
    <3> QED  BY <3>2, <3>3
  <2> HIDE DEF T, n
  <2>3. \A k \in 0..n : k \in T
    BY <1>1, <2>1, <2>2, UpTo
  <2>4. n \in 0..n
    BY <1>1
  <2>5. n \in T
    BY <2>3, <2>4
  <2> HIDE DEF Done
  <2> QED  BY <2>5 DEF T
<1> DEFINE out == Unpack(Statements(type), in, data)
<1>16. out = e[Len(c[n])].in
  BY <1>10 DEF Unpack
<1>17. ASSUME NEW k \in 1..n
       PROVE  out[name(k)] = IF fields[k].skip THEN in[name(k)] ELSE Value(k)
  <2>1. k <= n
    BY <1>1
  <2> HIDE DEF out, e, c, name, Value, fields
  <2> QED  BY <1>15, <1>16, <2>1
<1>18. DOMAIN type.fields = 1..n
  BY <1>1
<1> HIDE DEF out
<1> QED  BY <1>17, <1>18 DEF Recovers, out

(* What a sequence has and what it ends with                               *)
LEMMA ToSetAppend ==
  ASSUME NEW M, NEW s \in Seq(M), NEW x \in M
  PROVE  /\ ToSet(Append(s, x)) = ToSet(s) \cup {x}
         /\ Append(s, x) # <<>> /\ Last(Append(s, x)) = x
         /\ s # <<>> => Last(s) \in ToSet(s)
<1>1. /\ Len(s) \in Nat /\ DOMAIN s = 1..Len(s) /\ DOMAIN Append(s, x) = 1..(Len(s) + 1)
      /\ \A i \in 1..Len(s) : Append(s, x)[i] = s[i]
      /\ Append(s, x)[Len(s) + 1] = x /\ Len(Append(s, x)) = Len(s) + 1
  OBVIOUS
<1>2. ToSet(Append(s, x)) = ToSet(s) \cup {x}
  <2>1. ASSUME NEW y \in ToSet(Append(s, x)) PROVE y \in ToSet(s) \cup {x}
    <3>1. PICK i \in 1..(Len(s) + 1) : y = Append(s, x)[i]
      BY <1>1, <2>1 DEF ToSet
    <3>2. i \in 1..Len(s) \/ i = Len(s) + 1
      BY <1>1
    <3> QED  BY <1>1, <3>1, <3>2 DEF ToSet
  <2>2. ASSUME NEW y \in ToSet(s) PROVE y \in ToSet(Append(s, x))
    <3>1. PICK i \in 1..Len(s) : y = s[i]
      BY <1>1, <2>2 DEF ToSet
    <3>2. i \in 1..(Len(s) + 1) /\ y = Append(s, x)[i]
      BY <1>1, <3>1
    <3> QED  BY <1>1, <3>2 DEF ToSet
  <2>3. x \in ToSet(Append(s, x))
    <3>1. Len(s) + 1 \in 1..(Len(s) + 1)
      BY <1>1
    <3> QED  BY <1>1, <3>1 DEF ToSet
  <2> QED  BY <2>1, <2>2, <2>3
<1>3. Append(s, x) # <<>> /\ Last(Append(s, x)) = x
  BY <1>1 DEF Last
<1>4. ASSUME s # <<>> PROVE Last(s) \in ToSet(s)
  <2>1. Len(s) \in 1..Len(s)
    BY <1>1, <1>4
  <2> QED  BY <1>1, <2>1 DEF Last, ToSet
<1> QED  BY <1>2, <1>3, <1>4

(* The methods of a generated file: those of the marked structs.  Some     *)
(* struct's method is not whole if and only if the last method is not.     *)
LEMMA GeneratedIs ==
  ASSUME NEW file, IsGoFile(file)
  PROVE  /\ \A m \in ToSet(Generate(file)) :
              \E t \in ToSet(file) : Marked(t) /\ m = Statements(t)
         /\ (\E t \in ToSet(file) : Marked(t) /\ ~ Statements(t).whole) =>
              Generate(file) # <<>> /\ ~ Last(Generate(file)).whole
              /\ Last(Generate(file)) \in ToSet(Generate(file))
         /\ (\A t \in ToSet(file) : Marked(t) => Statements(t).whole) =>
              \A t \in ToSet(file) : Marked(t) => Statements(t) \in ToSet(Generate(file))
<1> DEFINE n == Len(file)
           M == {Statements(file[k]) : k \in 1..n}
           W == MethodsUpTo(file)
           Bad(k) == Marked(file[k]) /\ ~ Statements(file[k]).whole
           Inv(k) ==
             /\ \A m \in ToSet(W[k]) : \E j \in 1..k : Marked(file[j]) /\ m = Statements(file[j])
             /\ (\E j \in 1..k : Bad(j)) => W[k] # <<>> /\ ~ Last(W[k]).whole
             /\ (\A j \in 1..k : ~ Bad(j)) =>
                  \A j \in 1..k : Marked(file[j]) => Statements(file[j]) \in ToSet(W[k])
<1>1. /\ n \in Nat /\ ToSet(file) = {file[k] : k \in 1..n}
      /\ \A k \in 1..n : Statements(file[k]) \in M
  BY DEF IsGoFile, ToSet
<1> HIDE DEF M
<1>2. /\ W[0] = <<>> /\ \A k \in 0..n : W[k] \in Seq(M)
      /\ \A k \in 1..n : W[k] = IF ~Marked(file[k]) \/ (W[k - 1] # <<>> /\ ~Last(W[k - 1]).whole)
                                THEN W[k - 1] ELSE Append(W[k - 1], Statements(file[k]))
  <2>1. W \in [0..n -> Seq(M)]
    BY <1>1, MethodsSteps
  <2>2. W[0] = <<>>
    BY <1>1, MethodsSteps
  <2>3. \A k \in 1..n : W[k] = IF ~Marked(file[k]) \/ (W[k - 1] # <<>> /\ ~Last(W[k - 1]).whole)
                               THEN W[k - 1] ELSE Append(W[k - 1], Statements(file[k]))
    BY <1>1, MethodsSteps
  <2> HIDE DEF W
  <2> QED  BY <2>1, <2>2, <2>3
<1> HIDE DEF W
<1>3. Inv(0)
  <2>1. ToSet(W[0]) = {} /\ 1..0 = {}
    BY <1>2 DEF ToSet
  <2> QED  BY <2>1
<1>4. ASSUME NEW k \in 1..n, Inv(k - 1) PROVE Inv(k)
  <2>1. W[k - 1] \in Seq(M) /\ Statements(file[k]) \in M /\ k - 1 \in 0..n
    BY <1>1, <1>2
  <2>2. \A j \in 1..k : j \in 1..(k - 1) \/ j = k
    BY <1>1
  <2>3. k \in 1..k /\ \A j \in 1..(k - 1) : j \in 1..k
    BY <1>1
  <2>4. CASE \E j \in 1..(k - 1) : Bad(j)
    <3>1. W[k] = W[k - 1]
      BY <1>2, <1>4, <2>4
    <3> QED  BY <1>4, <2>3, <2>4, <3>1
  <2>5. CASE ~ \E j \in 1..(k - 1) : Bad(j)
    <3>1. \A m \in ToSet(W[k - 1]) : m.whole
      BY <1>4, <2>5
    <3>2. ~ (W[k - 1] # <<>> /\ ~Last(W[k - 1]).whole)
      BY <2>1, <3>1, ToSetAppend
    <3>3. CASE ~ Marked(file[k])
      <4>1. W[k] = W[k - 1] /\ ~ Bad(k)
        BY <1>2, <3>3
      <4> QED  BY <1>4, <2>2, <2>3, <2>5, <3>3, <4>1
    <3>4. CASE Marked(file[k])
      <4>1. W[k] = Append(W[k - 1], Statements(file[k]))
        BY <1>2, <3>2, <3>4
      <4>2. /\ ToSet(W[k]) = ToSet(W[k - 1]) \cup {Statements(file[k])}
            /\ W[k] # <<>> /\ Last(W[k]) = Statements(file[k])
        BY <2>1, <4>1, ToSetAppend
      <4>3. \A m \in ToSet(W[k]) : \E j \in 1..k : Marked(file[j]) /\ m = Statements(file[j])
        BY <1>4, <2>3, <3>4, <4>2
      <4>4. (\E j \in 1..k : Bad(j)) => W[k] # <<>> /\ ~ Last(W[k]).whole
        BY <2>2, <2>5, <4>2
      <4>5. (\A j \in 1..k : ~ Bad(j)) =>
              \A j \in 1..k : Marked(file[j]) => Statements(file[j]) \in ToSet(W[k])
        BY <1>4, <2>2, <2>3, <4>2
      <4> QED  BY <4>3, <4>4, <4>5
    <3> QED  BY <3>3, <3>4
  <2> QED  BY <2>4, <2>5
<1>5. Inv(n)
  <2> DEFINE T == {k \in 0..n : Inv(k)}
  <2>1. 0 \in T /\ T \in SUBSET (0..n)
    <3> HIDE DEF Inv
    <3> QED  BY <1>1, <1>3
  <2>2. ASSUME NEW k \in 1..n, k - 1 \in T PROVE k \in T
    <3> HIDE DEF Inv
    <3>1. Inv(k - 1) /\ k \in 0..n
      BY <1>1, <2>2
    <3> QED  BY <1>4, <3>1
  <2> HIDE DEF T, n
  <2>3. \A k \in 0..n : k \in T
    BY <1>1, <2>1, <2>2, UpTo
  <2>4. n \in T
    BY <1>1, <2>3
  <2> HIDE DEF Inv
  <2> QED  BY <2>4 DEF T
<1>6. Generate(file) = W[n] /\ W[n] \in Seq(M)
  BY <1>1, <1>2 DEF Generate, W
<1>7. \A m \in ToSet(W[n]) : \E t \in ToSet(file) : Marked(t) /\ m = Statements(t)
  BY <1>1, <1>5
<1>8. ASSUME NEW t \in ToSet(file), Marked(t), ~ Statements(t).whole
      PROVE  W[n] # <<>> /\ ~ Last(W[n]).whole /\ Last(W[n]) \in ToSet(W[n])
  <2>1. PICK k \in 1..n : t = file[k]
    BY <1>1
  <2>2. W[n] # <<>> /\ ~ Last(W[n]).whole
    BY <1>5, <1>8, <2>1
  <2>3. Statements(file[k]) \in M
    BY <1>1
  <2> QED  BY <1>6, <2>2, <2>3, ToSetAppend
<1>9. ASSUME \A t \in ToSet(file) : Marked(t) => Statements(t).whole, NEW t \in ToSet(file), Marked(t)
      PROVE  Statements(t) \in ToSet(W[n])
  <2>1. PICK k \in 1..n : t = file[k]
    BY <1>1
  <2>2. \A j \in 1..n : ~ Bad(j)
    BY <1>1, <1>9
  <2> QED  BY <1>5, <1>9, <2>1, <2>2
<1> QED  BY <1>6, <1>7, <1>8, <1>9

LEMMA StatementsOf ==
  ASSUME NEW file, IsGoFile(file), NEW t \in ToSet(file)
  PROVE  /\ IsStruct(t) /\ Statements(t).type = t.name /\ Statements(t).whole \in BOOLEAN
         /\ Statements(t).whole <=>
              ~ \E f \in ToSet(t.fields) : ~f.skip /\ f.type \notin {"int", "string"}
         /\ \A u \in ToSet(file) : u.name = t.name => u = t
<1>1. PICK k \in DOMAIN file : t = file[k]
  BY DEF ToSet
<1>2. IsStruct(t)
  BY <1>1 DEF IsGoFile
<1>3. t.fields \in Seq(ToSet(t.fields)) /\ DOMAIN t.fields = 1..Len(t.fields)
  BY <1>2 DEF IsStruct
<1>4. Statements(t).type = t.name /\ Statements(t).whole \in BOOLEAN
      /\ (Statements(t).whole <=>
            \A i \in 1..Len(t.fields) : Packed(t.fields[i]) => Supported(t.fields[i]))
  BY <1>3, WholeIff
<1>5. (\A i \in 1..Len(t.fields) : Packed(t.fields[i]) => Supported(t.fields[i])) <=>
        ~ \E f \in ToSet(t.fields) : ~f.skip /\ f.type \notin {"int", "string"}
  BY <1>3 DEF Packed, Supported, ToSet
<1>6. ASSUME NEW u \in ToSet(file), u.name = t.name PROVE u = t
  <2>1. PICK i \in DOMAIN file : u = file[i]
    BY DEF ToSet
  <2> QED  BY <1>1, <1>6, <2>1 DEF IsGoFile
<1> QED  BY <1>2, <1>4, <1>5, <1>6

(* For any file and any marked struct of it, the example generator writes  *)
(* an Unpack for the marked structs and no others, and what it writes      *)
(* recovers any data packed from the struct, or as much of it as a cut     *)
(* leaves.                                                                 *)
THEOREM UnpackWritten ==
  ASSUME NEW file, IsGoFile(file), NEW type \in ToSet(file), Marked(type),
         NEW v, NEW in, NEW data, ArePacked(type, v, in, data)
  PROVE  /\ GeneratesMarked(file, Generate(file))
         /\ Usable(Generate(file)) =>
              Recovers(type, v, in, data, Unpack(MethodOf(Generate(file), type.name), in, data))
<1> DEFINE methods == Generate(file)
           structs == {t \in ToSet(file) : t.struct /\ t.marked}
           written == {m.type : m \in ToSet(methods)}
           Ends(t) == \E f \in ToSet(t.fields) : ~f.skip /\ f.type \notin {"int", "string"}
<1>1. \A t : t \in structs <=> t \in ToSet(file) /\ Marked(t)
  BY DEF Marked
<1>2. \A t \in ToSet(file) : Statements(t).type = t.name /\ (Statements(t).whole <=> ~ Ends(t))
  BY StatementsOf
<1>3. \A m \in ToSet(methods) : \E t \in structs : m = Statements(t)
  BY <1>1, GeneratedIs
<1> HIDE DEF methods, Ends
<1>4. written \subseteq {t.name : t \in structs}
  BY <1>1, <1>2, <1>3
<1>5. CASE \E t \in structs : Ends(t)
  <2>1. methods # <<>> /\ ~ Last(methods).whole /\ Last(methods) \in ToSet(methods)
    BY <1>1, <1>2, <1>5, GeneratedIs DEF methods
  <2>2. ~ Usable(methods)
    BY <2>1 DEF Usable
  <2> QED  BY <1>4, <1>5, <2>1, <2>2 DEF GeneratesMarked, methods, Ends
<1>6. CASE ~ \E t \in structs : Ends(t)
  <2>1. \A t \in structs : Statements(t).whole
    BY <1>1, <1>2, <1>6
  <2>2. \A t \in structs : Statements(t) \in ToSet(methods)
    BY <1>1, <2>1, GeneratedIs DEF methods
  <2>3. \A m \in ToSet(methods) : m.whole
    BY <1>3, <2>1
  <2>4. written = {t.name : t \in structs}
    BY <1>1, <1>2, <1>4, <2>2
  <2>5. GeneratesMarked(file, methods)
    BY <1>6, <2>3, <2>4 DEF GeneratesMarked, Ends
  <2>6. MethodOf(methods, type.name) = Statements(type)
    <3>1. Statements(type) \in ToSet(methods) /\ Statements(type).type = type.name
      BY <1>1, <1>2, <2>2
    <3>2. ASSUME NEW m \in ToSet(methods), m.type = type.name PROVE m = Statements(type)
      <4>1. PICK t \in structs : m = Statements(t)
        BY <1>3
      <4>2. t.name = type.name
        BY <1>1, <1>2, <3>2, <4>1
      <4>3. t = type
        BY <1>1, <4>2, StatementsOf
      <4> QED  BY <4>1, <4>3
    <3> QED  BY <3>1, <3>2 DEF MethodOf
  <2>7. Recovers(type, v, in, data, Unpack(Statements(type), in, data))
    <3>1. IsStruct(type) /\ Statements(type).whole
      BY <1>1, <2>1, StatementsOf
    <3> QED  BY <3>1, UnpackRight
  <2> QED  BY <2>5, <2>6, <2>7 DEF methods
<1> QED  BY <1>5, <1>6

-----------------------------------------------------------------------------
(* Runs of the programs: nothing has been given yet, or the program has    *)
(* ended with what it should give.                                         *)
ProgramsInv ==
  /\ InitHandler \/ InitSearch \/ InitUnpack
  /\ AnswersInOrder /\ FastPrintsAsSlow /\ UnpackRecovers

LEMMA AlwaysProgramsInv ==
  ASSUME RequestsDescribed, FilesAreLines, DataPacked
  PROVE  SpecPrograms => []ProgramsInv
<1>1. InitPrograms => ProgramsInv
  BY DEF InitPrograms, ProgramsInv, AnswersInOrder, FastPrintsAsSlow, UnpackRecovers, Ran
<1>2. ProgramsInv /\ [NextPrograms]_<<task, output>> => ProgramsInv'
  <2> SUFFICES ASSUME ProgramsInv, [NextPrograms]_<<task, output>> PROVE ProgramsInv'
    OBVIOUS
  <2>1. CASE RunHandler
    <3>1. task' = task /\ task.program = "handler"
      BY <2>1 DEF RunHandler, Run
    <3>2. PICK r \in Requests :
            task = [program |-> "handler", file |-> r.file, api |-> r.api, req |-> r.req]
      BY <3>1 DEF ProgramsInv, InitHandler, InitSearch, InitUnpack
    <3>3. output' = {Respond(r.file, r.api, r.req)}
      BY <2>1, <3>2 DEF RunHandler
    <3>4. Output' = Respond(r.file, r.api, r.req)
      BY <3>3 DEF Output
    <3>5. Respond(r.file, r.api, r.req) = Answer(r.file, r.api, r.req)
      BY HandlersAnswer DEF RequestsDescribed
    <3>6. AnswersInOrder'
      BY <3>1, <3>2, <3>4, <3>5 DEF AnswersInOrder
    <3>7. FastPrintsAsSlow' /\ UnpackRecovers'
      BY <3>1 DEF FastPrintsAsSlow, UnpackRecovers, Ran
    <3>8. InitHandler'
      BY <3>1, <3>2 DEF InitHandler
    <3> QED  BY <3>6, <3>7, <3>8 DEF ProgramsInv
  <2>2. CASE RunSearch
    <3>1. task' = task /\ task.program = "search"
      BY <2>2 DEF RunSearch, Run
    <3>2. PICK file \in Files : task = [program |-> "search", file |-> file]
      BY <3>1 DEF ProgramsInv, InitHandler, InitSearch, InitUnpack
    <3>3. output' = {Fast(file)}
      BY <2>2, <3>2 DEF RunSearch
    <3>4. Output' = Fast(file)
      BY <3>3 DEF Output
    <3>5. AgreesWithSlow(file, Fast(file))
      BY FastSearchAgrees DEF FilesAreLines
    <3>6. FastPrintsAsSlow'
      BY <3>1, <3>2, <3>4, <3>5 DEF FastPrintsAsSlow
    <3>7. AnswersInOrder' /\ UnpackRecovers'
      BY <3>1 DEF AnswersInOrder, UnpackRecovers, Ran
    <3>8. InitSearch'
      BY <3>1, <3>2 DEF InitSearch
    <3> QED  BY <3>6, <3>7, <3>8 DEF ProgramsInv
  <2>3. CASE RunUnpack
    <3>1. task' = task /\ task.program = "unpack"
      BY <2>3 DEF RunUnpack, Run
    <3>2. PICK u \in Unpacks :
            task = [program |-> "unpack", file |-> u.file, type |-> u.type,
                    v |-> u.v, in |-> u.in, data |-> u.data]
      BY <3>1 DEF ProgramsInv, InitHandler, InitSearch, InitUnpack
    <3> DEFINE methods == Generate(u.file)
               out == Unpack(MethodOf(methods, u.type.name), u.in, u.data)
    <3>3. output' = {IF Usable(methods) THEN out ELSE u.in}
      BY <2>3, <3>2 DEF RunUnpack
    <3>4. Usable(methods) => Output' = out
      <4> HIDE DEF out, methods
      <4> QED  BY <3>3 DEF Output
    <3>5. GeneratesMarked(u.file, methods)
          /\ (Usable(methods) => Recovers(u.type, u.v, u.in, u.data, out))
      BY UnpackWritten DEF DataPacked
    <3>6. UnpackRecovers'
      <4> HIDE DEF out
      <4> QED  BY <3>1, <3>2, <3>4, <3>5 DEF UnpackRecovers
    <3>7. AnswersInOrder' /\ FastPrintsAsSlow'
      BY <3>1 DEF AnswersInOrder, FastPrintsAsSlow, Ran
    <3>8. InitUnpack'
      BY <3>1, <3>2 DEF InitUnpack
    <3> QED  BY <3>6, <3>7, <3>8 DEF ProgramsInv
  <2>4. CASE UNCHANGED <<task, output>>
    <3>1. task' = task /\ output' = output
      BY <2>4
    <3> QED  BY <3>1 DEF ProgramsInv, InitHandler, InitSearch, InitUnpack, AnswersInOrder,
                         FastPrintsAsSlow, UnpackRecovers, Ran, Output
  <2> QED  BY <2>1, <2>2, <2>3, <2>4 DEF NextPrograms
<1> QED  BY <1>1, <1>2, PTL DEF SpecPrograms

(* The generated handlers answer by the file they are generated from, and  *)
(* are built when they can be, for any files whose tags have each rule     *)
(* once and any requests.                                                  *)
THEOREM AlwaysAnswersInOrder ==
  ASSUME RequestsDescribed, FilesAreLines, DataPacked
  PROVE  SpecPrograms => []AnswersInOrder
<1>1. ProgramsInv => AnswersInOrder
  BY DEF ProgramsInv
<1> QED  BY <1>1, AlwaysProgramsInv, PTL

(* FastSearch prints what SlowSearch prints, for any files.                *)
THEOREM AlwaysFastPrintsAsSlow ==
  ASSUME RequestsDescribed, FilesAreLines, DataPacked
  PROVE  SpecPrograms => []FastPrintsAsSlow
<1>1. ProgramsInv => FastPrintsAsSlow
  BY DEF ProgramsInv
<1> QED  BY <1>1, AlwaysProgramsInv, PTL

(* The example generator writes Unpack methods that recover what was       *)
(* packed, for any files, structs, values and cuts.                        *)
THEOREM AlwaysUnpackRecovers ==
  ASSUME RequestsDescribed, FilesAreLines, DataPacked
  PROVE  SpecPrograms => []UnpackRecovers
<1>1. ProgramsInv => UnpackRecovers
  BY DEF ProgramsInv
<1> QED  BY <1>1, AlwaysProgramsInv, PTL
=============================================================================
