----------------------------- MODULE DiscoveryProofs ----------------------------
(***************************************************************************)
(* The search for devices, for every number of senders and answers and     *)
(* every deadline, given that the parsers tell an answer from the rest:    *)
(* TLC evaluates that for the identities of module MCDiscovery.            *)
(***************************************************************************)
EXTENDS Discovery, SequenceTheorems, TLAPS

\* A device and the answer it was found in.
Matches(device, answer) == device.ip = answer.ip

\* The devices are those of the answers, and the search is over at the deadline.
Inv == TypeOK /\ FindsAnswers /\ SearchesToTheDeadline

\* One more element at the end of a sequence.
LEMMA OneMore ==
    ASSUME NEW S, NEW q \in Seq(S), NEW x \in S
    PROVE  /\ Append(q, x) = q \o <<x>>
           /\ Append(q, x) \in Seq(S) /\ Len(Append(q, x)) = Len(q) + 1
           /\ Len(q) \in Nat /\ DOMAIN q = 1 .. Len(q)
           /\ DOMAIN Append(q, x) = 1 .. Len(q) + 1
           /\ Append(q, x)[Len(q) + 1] = x
           /\ \A i \in 1 .. Len(q) : Append(q, x)[i] = q[i]
  BY AppendIsConcat, AppendProperties, LenProperties

\* One more element at the end of two sequences that match.
LEMMA MatchesOneMore ==
    ASSUME NEW D, NEW A, NEW ds \in Seq(D), NEW qs \in Seq(A), Len(ds) = Len(qs),
           \A i \in DOMAIN ds : Matches(ds[i], qs[i]),
           NEW d \in D, NEW a \in A, Matches(d, a)
    PROVE  /\ ds \o <<d>> \in Seq(D) /\ qs \o <<a>> \in Seq(A)
           /\ Len(qs \o <<a>>) = Len(qs) + 1
           /\ Len(ds \o <<d>>) = Len(qs \o <<a>>)
           /\ \A i \in DOMAIN (ds \o <<d>>) : Matches((ds \o <<d>>)[i], (qs \o <<a>>)[i])
<1> DEFINE n == Len(ds)
           e == Append(ds, d)
           b == Append(qs, a)
<1>1. n \in Nat /\ DOMAIN ds = 1 .. n /\ DOMAIN qs = 1 .. n /\ Len(qs) = n
  BY LenProperties
<1>2. Append(ds, d) = ds \o <<d>> /\ Append(qs, a) = qs \o <<a>>
  <2>1. Append(ds, d) = ds \o <<d>>
    BY OneMore
  <2>2. Append(qs, a) = qs \o <<a>>
    BY OneMore
  <2> QED
    BY <2>1, <2>2
<1>3. /\ e \in Seq(D) /\ Len(e) = n + 1 /\ e[n + 1] = d
      /\ \A i \in 1 .. n : e[i] = ds[i]
  BY <1>1, OneMore
<1>4. /\ b \in Seq(A) /\ Len(b) = n + 1 /\ b[n + 1] = a
      /\ \A i \in 1 .. n : b[i] = qs[i]
  BY <1>1, OneMore
<1>5. DOMAIN e = 1 .. n + 1
  BY OneMore
<1> HIDE DEF n, e, b
<1>6. \A i \in 1 .. n + 1 : i \in 1 .. n \/ i = n + 1
  BY <1>1
<1>7. \A i \in DOMAIN e : Matches(e[i], b[i])
  BY <1>1, <1>3, <1>4, <1>5, <1>6
<1> QED
  BY <1>1, <1>2, <1>3, <1>4, <1>7 DEF e, b

\* A datagram that is no answer leaves the devices as they are.
LEMMA ReadOther ==
    ASSUME Inv, NEW from \in Senders, NEW data, DeviceIn(data) = << >>, Read(from, data, << >>)
    PROVE  Inv'
<1>1. TypeOK /\ FindsAnswers
  BY DEF Inv
<1>2. Found(from, data) = << >>
  BY DEF Found
<1>3. /\ pc = "loop" /\ pc' = "loop" /\ left' = left /\ failed' = failed
      /\ devices' = devices \o << >> /\ answered' = answered \o << >>
  BY <1>2 DEF Read, LeftAfterRead, ContinuesOn
<1>4. devices' = devices /\ answered' = answered
  BY <1>1, <1>3, ConcatEmptySeq DEF TypeOK
<1> QED
  BY <1>1, <1>3, <1>4 DEF Inv, TypeOK, FindsAnswers, SearchesToTheDeadline

\* An answer adds its device.
LEMMA AnswerAdds ==
    ASSUME TellsAnswers, Inv, NEW from \in Senders, NEW id \in Identities, Answer(from, id)
    PROVE  Inv'
<1> DEFINE answer == [ip |-> from, id |-> id]
           D == [ip : Senders, id : DeviceInfo]
           A == [ip : Senders, id : Identities]
<1>1. TypeOK /\ FindsAnswers
  BY DEF Inv
<1>2. PICK data \in Answers(id) : Read(from, data, <<answer>>)
  BY DEF Answer
<1>3. PICK info \in DeviceInfo : DeviceIn(data) = <<info>>
  BY <1>2 DEF TellsAnswers
<1> DEFINE device == [ip |-> from, id |-> info]
<1>4. Found(from, data) = <<device>>
  BY <1>3 DEF Found
<1>5. /\ pc = "loop" /\ pc' = "loop" /\ left' = left /\ failed' = failed
      /\ devices' = devices \o <<device>> /\ answered' = answered \o <<answer>>
  BY <1>2, <1>4 DEF Read, LeftAfterRead, ContinuesOn
<1>6. device \in D /\ answer \in A /\ Matches(device, answer)
  BY <1>3 DEF Matches
<1>7. /\ devices \in Seq(D) /\ answered \in Seq(A) /\ Len(devices) = Len(answered)
      /\ \A i \in DOMAIN devices : Matches(devices[i], answered[i])
  BY <1>1 DEF TypeOK, FindsAnswers, Matches
<1>8. Len(answered) + 1 <= MaxAnswers
  BY <1>7, LenProperties, DiscoveryAssumption DEF Answer
<1> HIDE DEF device, answer, D, A
<1>9. /\ devices' \in Seq(D) /\ answered' \in Seq(A)
      /\ Len(answered') = Len(answered) + 1 /\ Len(devices') = Len(answered')
      /\ \A i \in DOMAIN devices' : Matches(devices'[i], answered'[i])
  BY <1>5, <1>6, <1>7, MatchesOneMore
<1>10. FindsAnswers'
  BY <1>9 DEF FindsAnswers, Matches
<1>11. TypeOK'
  BY <1>1, <1>5, <1>8, <1>9 DEF TypeOK, D, A
<1> QED
  BY <1>5, <1>10, <1>11 DEF Inv, SearchesToTheDeadline

LEMMA InvInit ==
    ASSUME Init
    PROVE  Inv
<1>1. /\ devices \in Seq([ip : Senders, id : DeviceInfo]) /\ Len(devices) = 0
      /\ answered \in Seq([ip : Senders, id : Identities]) /\ Len(answered) = 0
      /\ DOMAIN devices = {}
  BY DEF Init
<1>2. pc = "listen" /\ left = 0 /\ failed = FALSE
  BY DEF Init
<1>3. TypeOK
  <2>1. left \in 0 .. Timeout /\ Len(answered) <= MaxAnswers
    BY <1>1, <1>2, DiscoveryAssumption
  <2> QED
    BY <1>1, <1>2, <2>1 DEF TypeOK
<1> QED
  BY <1>1, <1>2, <1>3 DEF Inv, FindsAnswers, SearchesToTheDeadline

LEMMA InvNext ==
    ASSUME TellsAnswers, Inv, [Next]_vars
    PROVE  Inv'
<1>1. CASE Listen \/ ListenFails \/ ReadTimesOut \/ ReadFails \/ Tick
  <2>1. UNCHANGED <<devices, answered>>
    BY <1>1 DEF Listen, ListenFails, ReadTimesOut, ReadFails, Tick
  <2>2. left \in 0 .. Timeout /\ failed \in BOOLEAN /\ pc \in {"listen", "loop", "returned"}
    BY DEF Inv, TypeOK
  <2>3. left' \in 0 .. Timeout
    BY <1>1, <2>2, DiscoveryAssumption DEF Listen, ListenFails, ReadTimesOut, ReadFails, Tick
  <2>4. pc' \in {"listen", "loop", "returned"} /\ failed' \in BOOLEAN
    BY <1>1, <2>2 DEF Listen, ListenFails, ReadTimesOut, ReadFails, Tick
  <2>5. pc' = "returned" /\ ~failed' => left' = 0
    BY <1>1 DEF Listen, ListenFails, ReadTimesOut, ReadFails, Tick
  <2> QED
    BY <2>1, <2>3, <2>4, <2>5 DEF Inv, TypeOK, FindsAnswers, SearchesToTheDeadline
<1>2. CASE UNCHANGED vars
  BY <1>2 DEF vars, Inv, TypeOK, FindsAnswers, SearchesToTheDeadline
<1>3. ASSUME NEW from \in Senders, NEW id \in Identities,
             \E data \in NoAnswers(id) : Read(from, data, << >>)
      PROVE  Inv'
  BY <1>3, ReadOther DEF TellsAnswers
<1> QED
  BY <1>1, <1>2, <1>3, AnswerAdds DEF Next, Returned

\* If the parsers tell answers from other datagrams, each answer that arrives before the
\* deadline adds one device with the address it came from, in the order of their arrival,
\* and nothing else does, however many datagrams arrive.
THEOREM EveryAnswerIsFound ==
    ASSUME TellsAnswers
    PROVE  Spec => []FindsAnswers
<1>1. Spec => []Inv
  BY InvInit, InvNext, PTL DEF Spec
<1> QED
  BY <1>1, PTL DEF Inv

\* Whatever the parsers make of the datagrams, only an error ends the search before its
\* deadline.
THEOREM SearchLastsToDeadline == Spec => []SearchesToTheDeadline
<1>1. Init => SearchesToTheDeadline
  BY DEF Init, SearchesToTheDeadline
<1>2. SearchesToTheDeadline /\ [Next]_vars => SearchesToTheDeadline'
  BY DEF SearchesToTheDeadline, Next, vars, Listen, ListenFails, ReadTimesOut, ReadFails, Tick,
         Returned, Answer, Read, ContinuesOn
<1> QED
  BY <1>1, <1>2, PTL DEF Spec
=============================================================================
