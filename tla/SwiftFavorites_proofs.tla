----------------------- MODULE SwiftFavorites_proofs -----------------------
(***************************************************************************)
(* Theorems about SwiftFavorites, for every set of devices and cities and  *)
(* every bound.                                                            *)
(***************************************************************************)
EXTENDS SwiftFavorites, SequenceFacts

-----------------------------------------------------------------------------
(* Queues.                                                                 *)

LEMMA EnqueueIn ==
  ASSUME NEW S, NEW q \in [Devices -> Seq(S)], NEW d \in Devices,
         NEW rest \in Seq(S), NEW e \in S
  PROVE  [q EXCEPT ![d] = Append(rest, e)] \in [Devices -> Seq(S)]
OBVIOUS

-----------------------------------------------------------------------------
(* The link keeps lists in L.                                              *)

LEMMA GetDataKeeps ==
  ASSUME NEW L, LinkOver(L), NEW d \in Devices, NEW call \in ReadCalls,
         NEW rest \in Seq(Answers(L)), GetData(d, call, rest)
  PROVE  LinkOver(L)'
<1>1. CASE AnswerFromPendingWrite(d, call, rest)
  <2>1. Last(puts[d]) \in [val : L, call : WriteCalls]
    BY <1>1, LastIn DEF LinkOver, AnswerFromPendingWrite
  <2>2. Reply(GetRequest(call), TRUE, Last(puts[d]).val) \in Answers(L)
    BY <2>1 DEF Reply, GetRequest, Answers
  <2>3. main' \in [Devices -> Seq(Answers(L))]
    BY <1>1, <2>2, EnqueueIn DEF LinkOver, AnswerFromPendingWrite
  <2>. QED
    BY <1>1, <2>3 DEF LinkOver, GetData, AnswerFromPendingWrite
<1>2. CASE SendGet(d, call, rest)
  <2>1. GetRequest(call) \in Requests(L)
    BY DEF GetRequest, Requests
  <2>2. toServer' \in [Devices -> Seq(Requests(L))]
    BY <1>2, <2>1 DEF LinkOver, SendGet
  <2>3. main' \in [Devices -> Seq(Answers(L))]
    BY <1>2 DEF LinkOver, SendGet
  <2>. QED
    BY <1>2, <2>2, <2>3 DEF LinkOver, GetData, SendGet
<1>3. CASE HoldGet(d, call, rest)
  <2>1. waitingGets' \in [Devices -> Seq(ReadCalls)]
    BY <1>3 DEF LinkOver, HoldGet
  <2>2. main' \in [Devices -> Seq(Answers(L))]
    BY <1>3 DEF LinkOver, HoldGet
  <2>. QED
    BY <1>3, <2>1, <2>2 DEF LinkOver, GetData, HoldGet
<1>. QED
  BY <1>1, <1>2, <1>3 DEF GetData

LEMMA SetValueKeeps ==
  ASSUME NEW L, LinkOver(L), NEW d \in Devices, NEW val \in L, NEW call \in WriteCalls,
         NEW rest \in Seq(Answers(L)), SetValue(d, val, call, rest)
  PROVE  LinkOver(L)'
<1>. DEFINE put == [val |-> val, call |-> call]
<1>1. put \in [val : L, call : WriteCalls]
  OBVIOUS
<1>2. PutRequest(put) \in Requests(L)
  BY DEF PutRequest, Requests
<1>3. puts' \in [Devices -> Seq([val : L, call : WriteCalls])]
  BY <1>1, EnqueueIn DEF LinkOver, SetValue
<1>4. toServer' \in [Devices -> Seq(Requests(L))]
  BY <1>2 DEF LinkOver, SetValue
<1>5. main' \in [Devices -> Seq(Answers(L))]
  BY DEF LinkOver, SetValue
<1>. QED
  BY <1>3, <1>4, <1>5 DEF LinkOver, SetValue

LEMMA ServerKeeps ==
  ASSUME NEW L, LinkOver(L), NEW d \in Devices,
         ServerAcceptsPut(d) \/ ServerAnswersGet(d) \/ ServerDenies(d)
  PROVE  LinkOver(L)'
<1>. DEFINE request == Head(toServer[d])
<1>1. toServer[d] \in Seq(Requests(L)) /\ toServer[d] # <<>>
  BY DEF LinkOver, ServerAcceptsPut, ServerAnswersGet, ServerDenies
<1>2. request \in Requests(L) /\ Tail(toServer[d]) \in Seq(Requests(L))
  BY <1>1, HeadTailIn
<1>3. ASSUME NEW ok, NEW val, ServerReplies(d, ok, val),
             Reply(request, ok, val) \in Answers(L), store' \in L
      PROVE  LinkOver(L)'
  <2>1. toServer' \in [Devices -> Seq(Requests(L))]
    BY <1>2, <1>3 DEF LinkOver, ServerReplies
  <2>2. toClient' \in [Devices -> Seq(Answers(L))]
    BY <1>3 DEF LinkOver, ServerReplies
  <2>. QED
    BY <1>3, <2>1, <2>2 DEF LinkOver, ServerReplies
<1>4. CASE ServerAcceptsPut(d)
  <2>1. store' \in L /\ Reply(request, TRUE, NoValue) \in Answers(L)
    BY <1>2, <1>4 DEF ServerAcceptsPut, Requests, Answers, Reply
  <2>. QED
    BY <1>3, <1>4, <2>1 DEF ServerAcceptsPut
<1>5. CASE ServerAnswersGet(d)
  <2>1. store' \in L /\ Reply(request, TRUE, store) \in Answers(L)
    BY <1>2, <1>5 DEF LinkOver, ServerAnswersGet, Requests, Answers, Reply
  <2>. QED
    BY <1>3, <1>5, <2>1 DEF ServerAnswersGet
<1>6. CASE ServerDenies(d)
  <2>1. store' \in L /\ Reply(request, FALSE, NoValue) \in Answers(L)
    BY <1>2, <1>6 DEF LinkOver, ServerDenies, Requests, Answers, Reply
  <2>. QED
    BY <1>3, <1>6, <2>1 DEF ServerDenies
<1>. QED
  BY <1>4, <1>5, <1>6

LEMMA ReplyHandledKeeps ==
  ASSUME NEW L, LinkOver(L), NEW d \in Devices,
         PutAcknowledged(d) \/ GetAnswered(d)
  PROVE  LinkOver(L)'
<1>1. toClient[d] \in Seq(Answers(L)) /\ toClient[d] # <<>>
  BY DEF LinkOver, PutAcknowledged, GetAnswered
<1>2. Head(toClient[d]) \in Answers(L) /\ Tail(toClient[d]) \in Seq(Answers(L))
  BY <1>1, HeadTailIn
<1>3. toClient' \in [Devices -> Seq(Answers(L))]
  BY <1>2 DEF LinkOver, PutAcknowledged, GetAnswered
<1>4. main' \in [Devices -> Seq(Answers(L))]
  <2>1. main[d] \in Seq(Answers(L)) /\ main \in [Devices -> Seq(Answers(L))]
    BY DEF LinkOver
  <2>2. main' = [main EXCEPT ![d] = Append(main[d], Head(toClient[d]))]
    BY DEF PutAcknowledged, GetAnswered
  <2>. QED
    BY <1>2, <2>1, <2>2, EnqueueIn
<1>5. puts' \in [Devices -> Seq([val : L, call : WriteCalls])]
  <2>1. CASE PutAcknowledged(d)
    <3>1. Tail(puts[d]) \in Seq([val : L, call : WriteCalls])
      BY <2>1, HeadTailIn DEF LinkOver, PutAcknowledged
    <3>. QED
      BY <2>1, <3>1 DEF LinkOver, PutAcknowledged
  <2>2. CASE GetAnswered(d)
    BY <2>2 DEF LinkOver, GetAnswered
  <2>. QED
    BY <2>1, <2>2
<1>. QED
  BY <1>3, <1>4, <1>5 DEF LinkOver, PutAcknowledged, GetAnswered

LEMMA GetTimesOutKeeps ==
  ASSUME NEW L, LinkOver(L), NEW d \in Devices, GetTimesOut(d)
  PROVE  LinkOver(L)'
<1>. DEFINE answer == Reply(GetRequest(Head(waitingGets[d])), FALSE, NoValue)
<1>1. Head(waitingGets[d]) \in ReadCalls /\ Tail(waitingGets[d]) \in Seq(ReadCalls)
  BY HeadTailIn DEF LinkOver, GetTimesOut
<1>2. answer \in Answers(L)
  BY <1>1 DEF Reply, GetRequest, Answers
<1>3. main' \in [Devices -> Seq(Answers(L))]
  BY <1>2, EnqueueIn DEF LinkOver, GetTimesOut
<1>4. waitingGets' \in [Devices -> Seq(ReadCalls)]
  BY <1>1 DEF LinkOver, GetTimesOut
<1>. QED
  BY <1>3, <1>4 DEF LinkOver, GetTimesOut

LEMMA DisconnectKeeps ==
  ASSUME NEW L, LinkOver(L), NEW d \in Devices, Disconnect(d)
  PROVE  LinkOver(L)'
BY EmptySeq DEF LinkOver, Disconnect

LEMMA ReconnectKeeps ==
  ASSUME NEW L, LinkOver(L), NEW d \in Devices, Reconnect(d)
  PROVE  LinkOver(L)'
<1>. DEFINE np == Len(puts[d])
            nw == Len(waitingGets[d])
            putsAgain == [i \in 1..np |-> PutRequest(puts[d][i])]
            getsAtLast == [i \in 1..nw |-> GetRequest(waitingGets[d][i])]
<1>1. putsAgain \in Seq(Requests(L))
  <2>1. puts[d] \in Seq([val : L, call : WriteCalls]) /\ np \in Nat
    BY LenProperties DEF LinkOver
  <2>2. \A i \in 1..np : puts[d][i] \in [val : L, call : WriteCalls]
    BY <2>1, ElementOfSeq
  <2>3. \A i \in 1..np : PutRequest(puts[d][i]) \in Requests(L)
    BY <2>2 DEF PutRequest, Requests
  <2>. HIDE DEF np
  <2>. QED
    BY <2>1, <2>3, SeqDef
<1>2. getsAtLast \in Seq(Requests(L))
  <2>1. waitingGets[d] \in Seq(ReadCalls) /\ nw \in Nat
    BY LenProperties DEF LinkOver
  <2>2. \A i \in 1..nw : waitingGets[d][i] \in ReadCalls
    BY <2>1, ElementOfSeq
  <2>3. \A i \in 1..nw : GetRequest(waitingGets[d][i]) \in Requests(L)
    BY <2>2 DEF GetRequest, Requests
  <2>. HIDE DEF nw
  <2>. QED
    BY <2>1, <2>3, SeqDef
<1>3. putsAgain \o getsAtLast \in Seq(Requests(L))
  BY <1>1, <1>2, ConcatProperties
<1>4. toServer' \in [Devices -> Seq(Requests(L))]
  <2>. HIDE DEF putsAgain, getsAtLast
  <2>. QED
    BY <1>3 DEF LinkOver, Reconnect, putsAgain, getsAtLast
<1>. QED
  BY <1>4, EmptySeq DEF LinkOver, Reconnect

LEMMA KillAppKeeps ==
  ASSUME NEW L, LinkOver(L), NEW d \in Devices, KillApp(d)
  PROVE  LinkOver(L)'
BY EmptySeq DEF LinkOver, KillApp

LEMMA LinkStepKeeps ==
  ASSUME NEW L, LinkOver(L), NEW d \in Devices, LinkStep(d)
  PROVE  LinkOver(L)'
BY ServerKeeps, ReplyHandledKeeps, GetTimesOutKeeps, ReconnectKeeps DEF LinkStep

-----------------------------------------------------------------------------
(* So does every step of the specification, when L is closed.              *)

ClosedFor(L, c) ==
  /\ \A l \in L : ~HasCity(l, c) => WithCity(l, c) \in L
  /\ \A l \in L : HasCity(l, c) => WithoutCity(l, c) \in L
Closed(L) == \A c \in Cities : ClosedFor(L, c)

LEMMA CallbackKeeps ==
  ASSUME NEW L, LinkOver(L), NEW d \in Devices, RunCallback(d),
         Head(main[d]).call.city \in Cities => ClosedFor(L, Head(main[d]).call.city)
  PROVE  LinkOver(L)'
<1>. DEFINE answer == Head(main[d])
            rest == Tail(main[d])
<1>1. answer \in Answers(L) /\ rest \in Seq(Answers(L))
  BY HeadTailIn DEF LinkOver, RunCallback, AddRead, RemoveRead, Written,
                    RegistrationWritten, Checked, Callback
<1>2. answer.call.op # "register" =>
        /\ answer.call.city \in Cities
        /\ [answer.call EXCEPT !.op = "check"] \in ReadCalls
        /\ answer.call.op \in {"add", "remove"} => answer.call \in WriteCalls
  <2>1. answer.call \in ReadCalls \cup WriteCalls
    BY <1>1 DEF Answers
  <2>2. answer.call.op # "register" =>
          answer.call \in [op : {"add", "remove", "check"}, city : Cities, visit : Nat]
    BY <2>1 DEF ReadCalls, WriteCalls, Registration
  <2>. QED
    BY <2>2 DEF ReadCalls, WriteCalls
<1>3. ASSUME Refresh(d), answer.call.op # "register"
      PROVE  LinkOver(L)'
  BY <1>1, <1>2, <1>3, GetDataKeeps DEF Refresh
<1>4. CASE AddRead(d)
  <2>1. answer.call.op = "add" /\ answer.type = "get"
    BY <1>4 DEF AddRead, Callback
  <2>2. CASE answer.ok /\ ~HasCity(answer.val, answer.call.city)
    <3>1. answer.val \in L
      BY <1>1, <2>1, <2>2 DEF Answers
    <3>2. WithCity(answer.val, answer.call.city) \in L
      BY <1>2, <2>1, <2>2, <3>1 DEF ClosedFor
    <3>3. SetValue(d, WithCity(answer.val, answer.call.city), answer.call, rest)
      BY <1>4, <2>2 DEF AddRead
    <3>. QED
      BY <1>1, <1>2, <2>1, <3>2, <3>3, SetValueKeeps
  <2>3. CASE ~(answer.ok /\ ~HasCity(answer.val, answer.call.city))
    BY <1>3, <1>4, <2>1, <2>3 DEF AddRead
  <2>. QED
    BY <2>2, <2>3
<1>5. CASE RemoveRead(d)
  <2>1. answer.call.op = "remove" /\ answer.type = "get"
    BY <1>5 DEF RemoveRead, Callback
  <2>2. CASE answer.ok /\ HasCity(answer.val, answer.call.city)
    <3>1. answer.val \in L
      BY <1>1, <2>1, <2>2 DEF Answers
    <3>2. WithoutCity(answer.val, answer.call.city) \in L
      BY <1>2, <2>1, <2>2, <3>1 DEF ClosedFor
    <3>3. SetValue(d, WithoutCity(answer.val, answer.call.city), answer.call, rest)
      BY <1>5, <2>2 DEF RemoveRead
    <3>. QED
      BY <1>1, <1>2, <2>1, <3>2, <3>3, SetValueKeeps
  <2>3. CASE ~(answer.ok /\ HasCity(answer.val, answer.call.city))
    BY <1>3, <1>5, <2>1, <2>3 DEF RemoveRead
  <2>. QED
    BY <2>2, <2>3
<1>6. CASE Written(d)
  BY <1>3, <1>6 DEF Written, Callback
<1>7. ASSUME main' = [main EXCEPT ![d] = rest],
             UNCHANGED <<store, online, puts, waitingGets, toServer, toClient>>
      PROVE  LinkOver(L)'
  BY <1>1, <1>7 DEF LinkOver
<1>8. CASE RegistrationWritten(d)
  BY <1>7, <1>8 DEF RegistrationWritten
<1>9. CASE Checked(d)
  BY <1>7, <1>9 DEF Checked
<1>. QED
  BY <1>4, <1>5, <1>6, <1>8, <1>9 DEF RunCallback

LEMMA InitOver ==
  ASSUME NEW L, SettledAccount => store \in L,
         Registering => NoValue \in L /\ <<Placeholder>> \in L,
         Init
  PROVE  LinkOver(L)
<1>1. CASE SettledAccount
  BY <1>1, EmptySeq DEF Init, SettledAccount, LinkOver
<1>2. ASSUME NEW r \in Devices, FreshAccount(r)
      PROVE  LinkOver(L)
  <2>1. NoValue \in L /\ <<Placeholder>> \in L /\ store = NoValue
    BY <1>2 DEF FreshAccount
  <2>2. Registration \in WriteCalls
    BY DEF WriteCalls
  <2>3. RegistrationWrites \in Seq([val : L, call : WriteCalls])
    BY <2>1, <2>2 DEF RegistrationWrites
  <2>4. /\ PutRequest(RegistrationWrites[1]) \in Requests(L)
        /\ PutRequest(RegistrationWrites[2]) \in Requests(L)
    BY <2>1, <2>2 DEF RegistrationWrites, PutRequest, Requests
  <2>5. puts \in [Devices -> Seq([val : L, call : WriteCalls])]
    BY <1>2, <2>3, EmptySeq DEF FreshAccount
  <2>6. toServer \in [Devices -> Seq(Requests(L))]
    BY <1>2, <2>4, EmptySeq DEF FreshAccount
  <2>. QED
    BY <2>1, <2>5, <2>6, EmptySeq DEF Init, LinkOver
<1>. QED
  BY <1>1, <1>2 DEF Init

LEMMA NextKeeps ==
  ASSUME NEW L, Closed(L), LinkOver(L), ViewOK, [Next]_vars
  PROVE  LinkOver(L)'
<1>1. ASSUME NEW d \in Devices, NEW c \in Cities, OpenCity(d, c)
      PROVE  LinkOver(L)'
  <2>1. [op |-> "check", city |-> c, visit |-> visit[d] + 1] \in ReadCalls
    BY BoundsAssumption DEF ReadCalls, ViewOK
  <2>2. main[d] \in Seq(Answers(L))
    BY DEF LinkOver
  <2>. QED
    BY <1>1, <2>1, <2>2, GetDataKeeps DEF OpenCity
<1>2. ASSUME NEW d \in Devices, CloseCity(d)
      PROVE  LinkOver(L)'
  BY <1>2 DEF CloseCity, LinkOver, linkVars
<1>3. ASSUME NEW d \in Devices, TapFavorite(d)
      PROVE  LinkOver(L)'
  <2>1. [op |-> IF isInFavorites[d] THEN "remove" ELSE "add",
         city |-> screen[d], visit |-> visit[d]] \in ReadCalls
    BY <1>3, BoundsAssumption DEF ReadCalls, ViewOK, TapFavorite
  <2>2. main[d] \in Seq(Answers(L))
    BY DEF LinkOver
  <2>. QED
    BY <1>3, <2>1, <2>2, GetDataKeeps DEF TapFavorite
<1>4. ASSUME NEW d \in Devices, RunCallback(d)
      PROVE  LinkOver(L)'
  BY <1>4, CallbackKeeps DEF Closed
<1>5. ASSUME NEW d \in Devices, Link(d)
      PROVE  LinkOver(L)'
  BY <1>5, LinkStepKeeps DEF Link
<1>6. ASSUME NEW d \in Devices, BreakConnection(d)
      PROVE  LinkOver(L)'
  BY <1>6, DisconnectKeeps DEF BreakConnection
<1>7. ASSUME NEW d \in Devices, KillAndRestart(d)
      PROVE  LinkOver(L)'
  BY <1>7, KillAppKeeps DEF KillAndRestart
<1>8. CASE UNCHANGED vars
  BY <1>8 DEF vars, LinkOver, linkVars
<1>. QED
  BY <1>1, <1>2, <1>3, <1>4, <1>5, <1>6, <1>7, <1>8 DEF Next

LEMMA ViewKeeps ==
  ASSUME ViewOK, [Next]_vars
  PROVE  ViewOK'
<1>. USE BoundsAssumption
<1>1. ASSUME NEW d \in Devices, NEW c \in Cities, OpenCity(d, c)
      PROVE  ViewOK'
  BY <1>1 DEF OpenCity, ViewOK
<1>2. ASSUME NEW d \in Devices, CloseCity(d)
      PROVE  ViewOK'
  BY <1>2 DEF CloseCity, ViewOK
<1>3. ASSUME NEW d \in Devices, TapFavorite(d)
      PROVE  ViewOK'
  BY <1>3 DEF TapFavorite, ViewOK
<1>4. ASSUME NEW d \in Devices, RunCallback(d)
      PROVE  ViewOK'
  <2>1. CASE Checked(d)
    BY <2>1 DEF Checked, ViewOK, HasCity, Contains
  <2>2. CASE UNCHANGED <<viewVars, taps, breaks>>
    BY <2>2 DEF viewVars, ViewOK
  <2>. QED
    BY <1>4, <2>1, <2>2 DEF RunCallback, AddRead, RemoveRead, Written,
                            RegistrationWritten
<1>5. ASSUME NEW d \in Devices, Link(d)
      PROVE  ViewOK'
  BY <1>5 DEF Link, viewVars, ViewOK
<1>6. ASSUME NEW d \in Devices, BreakConnection(d)
      PROVE  ViewOK'
  BY <1>6 DEF BreakConnection, ViewOK
<1>7. ASSUME NEW d \in Devices, KillAndRestart(d)
      PROVE  ViewOK'
  BY <1>7 DEF KillAndRestart, ViewOK
<1>8. CASE UNCHANGED vars
  BY <1>8 DEF vars, viewVars, ViewOK
<1>. QED
  BY <1>1, <1>2, <1>3, <1>4, <1>5, <1>6, <1>7, <1>8 DEF Next

LEMMA InitView == Init => ViewOK
BY BoundsAssumption DEF Init, ViewOK

-----------------------------------------------------------------------------
(* What appending a city and removing its first occurrence does to a list. *)

LEMMA WithoutCityProperties ==
  ASSUME NEW l \in Lists, NEW c, HasCity(l, c)
  PROVE  \E i \in 1..Len(l) :
           /\ l[i] = c
           /\ WithoutCity(l, c) \in Lists
           /\ Len(WithoutCity(l, c)) = Len(l) - 1
           /\ \A j \in 1..Len(l) - 1 :
                WithoutCity(l, c)[j] = IF j < i THEN l[j] ELSE l[j + 1]
<1>1. PICK i \in 1..Len(l) : l[i] = c /\ WithoutCity(l, c) = RemoveAt(l, i)
  BY RemovesFirst DEF Lists, HasCity, WithoutCity
<1>. QED
  BY <1>1, RemoveAtProperties DEF Lists

LEMMA ListsClosed == Closed(Lists)
<1>1. \A l \in Lists, c \in Cities : WithCity(l, c) \in Lists
  BY DEF Lists, WithCity
<1>. QED
  BY <1>1, WithoutCityProperties DEF Closed, ClosedFor

-----------------------------------------------------------------------------
LEMMA InitialTypes == Init => TypeOK
<1>1. NoValue \in Lists /\ <<Placeholder>> \in Lists
  BY DEF Lists, NoValue
<1>. QED
  BY <1>1, InitOver, InitView, InitialListsAssumption DEF TypeOK, SettledAccount

LEMMA TypesKept == TypeOK /\ [Next]_vars => TypeOK'
BY NextKeeps, ViewKeeps, ListsClosed DEF TypeOK

(* TypeOK holds of every reachable state: failed reads and acknowledgements *)
(* carry no list, and no operation puts anything but cities and the        *)
(* placeholder into one.                                                   *)
THEOREM TypeCorrect == Spec => []TypeOK
BY InitialTypes, TypesKept, PTL DEF Spec

-----------------------------------------------------------------------------
UniqueLists == {l \in Lists : NoRepeats(l)}

LEMMA UniqueListsClosed == Closed(UniqueLists)
<1>1. ASSUME NEW l \in UniqueLists, NEW c \in Cities, ~HasCity(l, c)
      PROVE  WithCity(l, c) \in UniqueLists
  <2>1. /\ Append(l, c) \in Lists
        /\ Len(Append(l, c)) = Len(l) + 1 /\ Len(l) \in Nat
        /\ \A i \in 1..Len(l) : Append(l, c)[i] = l[i]
        /\ Append(l, c)[Len(l) + 1] = c
    BY AppendProperties, LenProperties DEF UniqueLists, Lists
  <2>2. \A i \in 1..Len(l) : l[i] # c
    BY <1>1 DEF HasCity, Contains
  <2>3. \A i, j \in 1..Len(l) : l[i] = l[j] => i = j
    BY DEF UniqueLists, NoRepeats
  <2>4. ASSUME NEW i \in 1..Len(l) + 1, NEW j \in 1..Len(l) + 1,
               Append(l, c)[i] = Append(l, c)[j]
        PROVE  i = j
    BY <2>1, <2>2, <2>3, <2>4
  <2>. QED
    BY <2>1, <2>4 DEF WithCity, UniqueLists, NoRepeats
<1>2. ASSUME NEW l \in UniqueLists, NEW c \in Cities, HasCity(l, c)
      PROVE  WithoutCity(l, c) \in UniqueLists
  <2>. DEFINE m == WithoutCity(l, c)
  <2>1. l \in Lists /\ Len(l) \in Nat
    BY LenProperties DEF UniqueLists, Lists
  <2>2. PICK k \in 1..Len(l) :
          /\ m \in Lists
          /\ Len(m) = Len(l) - 1
          /\ \A j \in 1..Len(l) - 1 : m[j] = IF j < k THEN l[j] ELSE l[j + 1]
    BY <1>2, <2>1, WithoutCityProperties
  <2>3. \A i, j \in 1..Len(l) : l[i] = l[j] => i = j
    BY DEF UniqueLists, NoRepeats
  <2>4. ASSUME NEW i \in 1..Len(l) - 1, NEW j \in 1..Len(l) - 1, m[i] = m[j]
        PROVE  i = j
    <3>. DEFINE from(x) == IF x < k THEN x ELSE x + 1
    <3>1. from(i) \in 1..Len(l) /\ from(j) \in 1..Len(l)
      BY <2>1
    <3>2. m[i] = l[from(i)] /\ m[j] = l[from(j)]
      BY <2>2
    <3>3. from(i) = from(j)
      BY <2>3, <2>4, <3>1, <3>2
    <3>. QED
      BY <2>1, <3>3
  <2>. QED
    BY <2>2, <2>4 DEF UniqueLists, NoRepeats
<1>. QED
  BY <1>1, <1>2 DEF Closed, ClosedFor

(* However many devices edit their copies of the list at once, in whatever *)
(* order their requests, replies and broken connections come, no city is   *)
(* ever twice in it: no list under way holds one twice either.             *)
THEOREM NeverTwiceHolds == Spec => []NeverTwice
<1>. DEFINE IInv == LinkOver(UniqueLists) /\ ViewOK
<1>1. Init => IInv
  <2>1. NoValue \in UniqueLists /\ <<Placeholder>> \in UniqueLists
    BY DEF UniqueLists, Lists, NoRepeats, NoValue
  <2>2. SettledAccount => store \in UniqueLists
    BY InitialListsAssumption DEF SettledAccount, UniqueLists
  <2>. QED
    BY <2>1, <2>2, InitOver, InitView
<1>2. IInv /\ [Next]_vars => IInv'
  BY NextKeeps, ViewKeeps, UniqueListsClosed
<1>3. IInv => NeverTwice
  BY DEF LinkOver, UniqueLists, NeverTwice
<1>. QED
  BY <1>1, <1>2, <1>3, PTL DEF Spec

-----------------------------------------------------------------------------
Marked == {l \in Lists : HasCity(l, Placeholder)}
Unmarked == {l \in Lists : ~HasCity(l, Placeholder)}

\* Which cities are in a list that was changed.
LEMMA HasWithCity ==
  ASSUME NEW l \in Lists, NEW c \in Cities, NEW x
  PROVE  /\ WithCity(l, c) \in Lists
         /\ HasCity(WithCity(l, c), x) <=> HasCity(l, x) \/ x = c
<1>. DEFINE m == Append(l, c)
<1>1. /\ m \in Lists /\ Len(l) \in Nat /\ Len(m) = Len(l) + 1
      /\ m[Len(l) + 1] = c /\ \A i \in 1..Len(l) : m[i] = l[i]
  BY AppendProperties, LenProperties DEF Lists
<1>. HIDE DEF m
<1>2. 1..Len(m) = 1..Len(l) \cup {Len(l) + 1}
  BY <1>1
<1>. QED
  BY <1>1, <1>2 DEF HasCity, Contains, WithCity, m

LEMMA HasWithoutCity ==
  ASSUME NEW l \in Lists, NEW c, HasCity(l, c), NEW x, x # c
  PROVE  /\ WithoutCity(l, c) \in Lists
         /\ HasCity(WithoutCity(l, c), x) <=> HasCity(l, x)
<1>. DEFINE m == WithoutCity(l, c)
<1>1. Len(l) \in Nat
  BY LenProperties DEF Lists
<1>2. PICK k \in 1..Len(l) :
        /\ l[k] = c /\ m \in Lists /\ Len(m) = Len(l) - 1
        /\ \A j \in 1..Len(l) - 1 : m[j] = IF j < k THEN l[j] ELSE l[j + 1]
  BY WithoutCityProperties
<1>. HIDE DEF m
<1>3. ASSUME NEW j \in 1..Len(m), m[j] = x
      PROVE  HasCity(l, x)
  <2>1. j \in 1..Len(l) /\ j + 1 \in 1..Len(l) /\ (m[j] = l[j] \/ m[j] = l[j + 1])
    BY <1>1, <1>2
  <2>. QED
    BY <1>3, <2>1 DEF HasCity, Contains
<1>4. ASSUME NEW p \in 1..Len(l), l[p] = x
      PROVE  HasCity(m, x)
  <2>1. CASE p < k
    <3>1. p \in 1..Len(m) /\ m[p] = x
      BY <1>1, <1>2, <1>4, <2>1
    <3>. QED
      BY <3>1 DEF HasCity, Contains
  <2>2. CASE p > k
    <3>1. p - 1 \in 1..Len(l) - 1 /\ ~(p - 1 < k) /\ (p - 1) + 1 = p
      BY <1>1, <2>2
    <3>2. p - 1 \in 1..Len(m) /\ m[p - 1] = x
      BY <1>2, <1>4, <3>1
    <3>. QED
      BY <3>2 DEF HasCity, Contains
  <2>3. p # k
    BY <1>2, <1>4
  <2>. QED
    BY <1>1, <2>1, <2>2, <2>3
<1>5. HasCity(m, x) <=> HasCity(l, x)
  BY <1>3, <1>4 DEF HasCity, Contains
<1>. QED
  BY <1>2, <1>5 DEF m

LEMMA MarkedClosed == Closed(Marked) /\ Closed(Unmarked)
<1>1. \A c \in Cities : c # Placeholder
  BY PlaceholderAssumption
<1>2. ASSUME NEW l \in Lists, NEW c \in Cities
      PROVE  /\ WithCity(l, c) \in Lists
             /\ HasCity(WithCity(l, c), Placeholder) <=> HasCity(l, Placeholder)
             /\ HasCity(l, c) =>
                  /\ WithoutCity(l, c) \in Lists
                  /\ HasCity(WithoutCity(l, c), Placeholder) <=> HasCity(l, Placeholder)
  <2>1. c # Placeholder
    BY <1>1
  <2>. QED
    BY <2>1, HasWithCity, HasWithoutCity
<1>. QED
  BY <1>2 DEF Closed, ClosedFor, Marked, Unmarked

(* Of an account that is not being registered, no device ever takes the    *)
(* entry "null" out of the list: the lists in circulation either all hold  *)
(* it, or none does.                                                       *)
THEOREM PlaceholderStaysHolds ==
  ASSUME Registering = FALSE
  PROVE  Spec => PlaceholderStays
<1>. DEFINE IInv == (LinkOver(Marked) \/ LinkOver(Unmarked)) /\ ViewOK
<1>1. Init => IInv
  <2>1. ASSUME Init, ~SettledAccount
        PROVE  FALSE
    BY <2>1 DEF Init, FreshAccount
  <2>2. SettledAccount => store \in Marked \/ store \in Unmarked
    BY InitialListsAssumption DEF SettledAccount, Marked, Unmarked
  <2>3. Init /\ store \in Marked => LinkOver(Marked)
    BY InitOver
  <2>4. Init /\ store \in Unmarked => LinkOver(Unmarked)
    BY InitOver
  <2>. QED
    BY <2>1, <2>2, <2>3, <2>4, InitView
<1>2. IInv /\ [Next]_vars => IInv'
  BY NextKeeps, ViewKeeps, MarkedClosed
<1>3. IInv /\ IInv' /\ [Next]_vars =>
        [HasCity(store, Placeholder) => HasCity(store', Placeholder)]_vars
  <2>1. SUFFICES ASSUME IInv, [Next]_vars, HasCity(store, Placeholder)
                 PROVE  HasCity(store', Placeholder)
    OBVIOUS
  <2>2. LinkOver(Marked)
    BY <2>1 DEF LinkOver, Unmarked
  <2>3. LinkOver(Marked)'
    BY <2>1, <2>2, NextKeeps, MarkedClosed
  <2>. QED
    BY <2>3 DEF LinkOver, Marked
<1>. QED
  BY <1>1, <1>2, <1>3, PTL DEF Spec, PlaceholderStays

-----------------------------------------------------------------------------
(* Writes in flight, in the order of the outstanding ones.                 *)

Messages == Requests(Lists) \cup Answers(Lists)
Writes == [val : Lists, call : WriteCalls]

PutsAt(q) == {i \in 1..Len(q) : q[i].type = "put"}

\* at says where in q the writes w travel.
Carries(q, w, at) ==
  /\ at \in [1..Len(w) -> 1..Len(q)]
  /\ \A i, j \in 1..Len(w) : i < j => at[i] < at[j]
  /\ {at[i] : i \in 1..Len(w)} = PutsAt(q)
  /\ \A i \in 1..Len(w) : q[at[i]].call = w[i].call

InOrder(q, w) == \E at : Carries(q, w, at)

LEMMA InOrderEmpty == InOrder(<<>>, <<>>)
<1>. DEFINE at == [i \in 1..0 |-> 0]
<1>1. at \in [1..0 -> 1..0]
  OBVIOUS
<1>2. {at[i] : i \in 1..0} = {} /\ PutsAt(<<>>) = {}
  BY DEF PutsAt
<1>. HIDE DEF at
<1>3. Carries(<<>>, <<>>, at)
  BY <1>1, <1>2 DEF Carries
<1>. QED
  BY <1>3 DEF InOrder

\* A message that is no write is put behind them.
LEMMA InOrderOther ==
  ASSUME NEW q \in Seq(Messages), NEW w \in Seq(Writes), InOrder(q, w),
         NEW e \in Messages, e.type # "put"
  PROVE  InOrder(Append(q, e), w)
<1>. DEFINE u == Append(q, e)
<1>1. PICK at : Carries(q, w, at)
  BY DEF InOrder
<1>2. /\ Len(q) \in Nat /\ Len(u) = Len(q) + 1
      /\ \A i \in 1..Len(q) : u[i] = q[i]
      /\ u[Len(q) + 1] = e
  BY AppendProperties, LenProperties
<1>. HIDE DEF u
<1>3. PutsAt(u) = PutsAt(q)
  BY <1>2 DEF PutsAt
<1>4. \A i \in 1..Len(w) : at[i] \in 1..Len(q) /\ at[i] \in 1..Len(u)
  BY <1>1, <1>2 DEF Carries
<1>5. at \in [1..Len(w) -> 1..Len(u)]
  BY <1>1, <1>4 DEF Carries
<1>6. Carries(u, w, at)
  BY <1>1, <1>2, <1>3, <1>4, <1>5 DEF Carries
<1>. QED
  BY <1>6 DEF InOrder, u

\* A write is put behind them, in flight and outstanding.
LEMMA InOrderWrite ==
  ASSUME NEW q \in Seq(Messages), NEW w \in Seq(Writes), InOrder(q, w),
         NEW e \in Messages, NEW p \in Writes, e.type = "put", e.call = p.call
  PROVE  InOrder(Append(q, e), Append(w, p))
<1>. DEFINE u == Append(q, e)
            v == Append(w, p)
            m == Len(q) + 1
            n == Len(w) + 1
<1>1. PICK at : Carries(q, w, at)
  BY DEF InOrder
<1>2. /\ Len(q) \in Nat /\ Len(u) = m
      /\ \A i \in 1..Len(q) : u[i] = q[i]
      /\ u[m] = e
  BY AppendProperties, LenProperties
<1>3. /\ Len(w) \in Nat /\ Len(v) = n
      /\ \A i \in 1..Len(w) : v[i] = w[i]
      /\ v[n] = p
  BY AppendProperties, LenProperties
<1>. HIDE DEF u, v
<1>4. /\ m \in Nat /\ m > Len(q) /\ 1..m = 1..Len(q) \cup {m}
      /\ n \in Nat /\ n > Len(w) /\ 1..n = 1..Len(w) \cup {n}
  BY <1>2, <1>3
<1>5. m = Len(q) + 1 /\ n = Len(w) + 1
  OBVIOUS
<1>. HIDE DEF m, n
<1>. DEFINE bt == [i \in 1..n |-> IF i = n THEN m ELSE at[i]]
<1>6. \A i \in 1..Len(w) : at[i] \in 1..Len(q) /\ i # n /\ at[i] < m
  BY <1>1, <1>2, <1>3, <1>4 DEF Carries
<1>7. bt[n] = m /\ \A i \in 1..Len(w) : bt[i] = at[i]
  BY <1>4, <1>6
<1>8. bt \in [1..n -> 1..m]
  BY <1>2, <1>3, <1>4, <1>6
<1>. HIDE DEF bt
<1>9. \A i, j \in 1..n : i < j => bt[i] < bt[j]
  <2>1. ASSUME NEW i \in 1..n, NEW j \in 1..n, i < j
        PROVE  bt[i] < bt[j]
    <3>1. i \in 1..Len(w)
      BY <1>3, <1>4, <1>5, <2>1
    <3>2. CASE j = n
      BY <1>6, <1>7, <3>1, <3>2
    <3>3. CASE j # n
      <4>1. j \in 1..Len(w)
        BY <1>4, <3>3
      <4>. QED
        BY <1>1, <1>7, <2>1, <3>1, <4>1 DEF Carries
    <3>. QED
      BY <3>2, <3>3
  <2>. QED
    BY <2>1
<1>10. PutsAt(u) = PutsAt(q) \cup {m}
  BY <1>2, <1>4 DEF PutsAt
<1>11. {bt[i] : i \in 1..n} = {at[i] : i \in 1..Len(w)} \cup {m}
  BY <1>4, <1>7
<1>12. ASSUME NEW i \in 1..n
       PROVE  u[bt[i]].call = v[i].call
  <2>1. CASE i = n
    BY <1>2, <1>3, <1>7, <2>1
  <2>2. CASE i # n
    <3>1. i \in 1..Len(w)
      BY <1>4, <2>2
    <3>2. u[bt[i]] = q[at[i]] /\ v[i] = w[i]
      BY <1>2, <1>3, <1>6, <1>7, <3>1
    <3>. QED
      BY <1>1, <3>1, <3>2 DEF Carries
  <2>. QED
    BY <2>1, <2>2
<1>13. Carries(u, v, bt)
  BY <1>1, <1>2, <1>3, <1>8, <1>9, <1>10, <1>11, <1>12 DEF Carries
<1>. QED
  BY <1>13 DEF InOrder, u, v

\* The first message goes, and is no write.
LEMMA InOrderTailOther ==
  ASSUME NEW q \in Seq(Messages), NEW w \in Seq(Writes), InOrder(q, w),
         q # <<>>, Head(q).type # "put"
  PROVE  InOrder(Tail(q), w)
<1>. DEFINE u == Tail(q)
<1>1. PICK at : Carries(q, w, at)
  BY DEF InOrder
<1>2. /\ Len(q) \in Nat \ {0} /\ Head(q) = q[1] /\ Len(u) = Len(q) - 1
      /\ \A i \in 1..Len(q) - 1 : u[i] = q[i + 1]
  BY TailProperties
<1>3. Len(w) \in Nat
  BY LenProperties
<1>. HIDE DEF u
<1>. DEFINE bt == [i \in 1..Len(w) |-> at[i] - 1]
<1>4. ASSUME NEW i \in 1..Len(w)
      PROVE  at[i] \in 1..Len(q) /\ at[i] - 1 \in 1..Len(u) /\ (at[i] - 1) + 1 = at[i]
  <2>1. at[i] \in PutsAt(q)
    BY <1>1 DEF Carries
  <2>2. at[i] # 1 /\ at[i] \in 1..Len(q)
    BY <1>2, <2>1 DEF PutsAt
  <2>. QED
    BY <1>2, <2>2
<1>5. \A i \in 1..Len(w) : bt[i] = at[i] - 1
  OBVIOUS
<1>6. bt \in [1..Len(w) -> 1..Len(u)]
  BY <1>4
<1>. HIDE DEF bt
<1>7. \A i, j \in 1..Len(w) : i < j => bt[i] < bt[j]
  BY <1>1, <1>2, <1>4, <1>5 DEF Carries
<1>8. PutsAt(u) = {j \in 1..Len(q) - 1 : j + 1 \in PutsAt(q)}
  BY <1>2 DEF PutsAt
<1>9. {bt[i] : i \in 1..Len(w)} = PutsAt(u)
  <2>1. \A i \in 1..Len(w) : bt[i] \in PutsAt(u)
    BY <1>1, <1>2, <1>4, <1>5, <1>8 DEF Carries
  <2>2. ASSUME NEW j \in PutsAt(u)
        PROVE  \E i \in 1..Len(w) : bt[i] = j
    <3>1. j \in 1..Len(q) - 1 /\ j + 1 \in PutsAt(q)
      BY <1>8
    <3>2. PICK i \in 1..Len(w) : at[i] = j + 1
      BY <1>1, <3>1 DEF Carries
    <3>. QED
      BY <1>5, <3>1, <3>2
  <2>. QED
    BY <2>1, <2>2
<1>10. \A i \in 1..Len(w) : u[bt[i]].call = w[i].call
  <2>1. ASSUME NEW i \in 1..Len(w)
        PROVE  u[bt[i]].call = w[i].call
    <3>1. u[bt[i]] = q[at[i]]
      BY <1>2, <1>4, <1>5
    <3>. QED
      BY <1>1, <3>1 DEF Carries
  <2>. QED
    BY <2>1
<1>11. Carries(u, w, bt)
  BY <1>6, <1>7, <1>9, <1>10 DEF Carries
<1>. QED
  BY <1>11 DEF InOrder, u

\* The first message goes and is a write: it is the oldest outstanding one.
LEMMA InOrderTailWrite ==
  ASSUME NEW q \in Seq(Messages), NEW w \in Seq(Writes), InOrder(q, w),
         q # <<>>, Head(q).type = "put"
  PROVE  /\ w # <<>> /\ Head(w).call = Head(q).call
         /\ InOrder(Tail(q), Tail(w))
<1>. DEFINE u == Tail(q)
            v == Tail(w)
<1>1. PICK at : Carries(q, w, at)
  BY DEF InOrder
<1>2. /\ Len(q) \in Nat \ {0} /\ Head(q) = q[1] /\ Len(u) = Len(q) - 1
      /\ \A i \in 1..Len(q) - 1 : u[i] = q[i + 1]
  BY TailProperties
<1>3. 1 \in PutsAt(q)
  BY <1>2 DEF PutsAt
<1>4. PICK k \in 1..Len(w) : at[k] = 1
  BY <1>1, <1>3 DEF Carries
<1>5. w # <<>> /\ Len(w) \in Nat
  BY <1>4, LenProperties
<1>6. /\ Len(w) \in Nat \ {0} /\ Head(w) = w[1] /\ Len(v) = Len(w) - 1
      /\ \A i \in 1..Len(w) - 1 : v[i] = w[i + 1]
  BY <1>5, TailProperties
<1>. HIDE DEF u, v
<1>7. \A i \in 1..Len(w) : at[i] \in 1..Len(q)
  BY <1>1 DEF Carries
<1>8. at[1] = 1
  <2>1. 1 \in 1..Len(w) /\ (k = 1 \/ 1 < k)
    BY <1>6
  <2>2. 1 < k => at[1] < 1
    BY <1>1, <1>4, <2>1 DEF Carries
  <2>. QED
    BY <1>2, <1>4, <1>7, <2>1, <2>2
<1>9. Head(w).call = Head(q).call
  <2>1. \A i \in 1..Len(w) : q[at[i]].call = w[i].call
    BY <1>1 DEF Carries
  <2>2. 1 \in 1..Len(w)
    BY <1>6
  <2>. QED
    BY <1>2, <1>6, <1>8, <2>1, <2>2
<1>. DEFINE bt == [i \in 1..Len(v) |-> at[i + 1] - 1]
<1>10. ASSUME NEW i \in 1..Len(v)
       PROVE  /\ i + 1 \in 1..Len(w) /\ at[i + 1] \in PutsAt(q)
              /\ at[i + 1] \in 1..Len(q)
              /\ at[i + 1] - 1 \in 1..Len(u) /\ (at[i + 1] - 1) + 1 = at[i + 1]
  <2>1. 1 \in 1..Len(w) /\ i + 1 \in 1..Len(w) /\ 1 < i + 1
    BY <1>6
  <2>2. at[i + 1] \in PutsAt(q) /\ 1 < at[i + 1]
    BY <1>1, <1>8, <2>1 DEF Carries
  <2>. QED
    BY <1>2, <1>7, <2>1, <2>2
<1>11. \A i \in 1..Len(v) : bt[i] = at[i + 1] - 1
  OBVIOUS
<1>12. bt \in [1..Len(v) -> 1..Len(u)]
  BY <1>10
<1>. HIDE DEF bt
<1>13. ASSUME NEW i \in 1..Len(v), NEW j \in 1..Len(v), i < j
       PROVE  bt[i] < bt[j]
  <2>1. i + 1 < j + 1
    BY <1>6, <1>13
  <2>2. at[i + 1] < at[j + 1]
    BY <1>1, <1>10, <2>1 DEF Carries
  <2>3. at[i + 1] \in Int /\ at[j + 1] \in Int
    BY <1>10
  <2>4. bt[i] = at[i + 1] - 1 /\ bt[j] = at[j + 1] - 1
    BY <1>11
  <2>. QED
    BY <2>2, <2>3, <2>4
<1>14. PutsAt(u) = {j \in 1..Len(q) - 1 : j + 1 \in PutsAt(q)}
  BY <1>2 DEF PutsAt
<1>15. {bt[i] : i \in 1..Len(v)} = PutsAt(u)
  <2>1. ASSUME NEW i \in 1..Len(v)
        PROVE  bt[i] \in PutsAt(u)
    <3>1. bt[i] \in 1..Len(u) /\ bt[i] + 1 \in PutsAt(q)
      BY <1>10, <1>11
    <3>. QED
      BY <1>2, <1>14, <3>1
  <2>2. ASSUME NEW j \in PutsAt(u)
        PROVE  \E i \in 1..Len(v) : bt[i] = j
    <3>1. j \in 1..Len(q) - 1 /\ j + 1 \in PutsAt(q)
      BY <1>14
    <3>2. PICK i \in 1..Len(w) : at[i] = j + 1
      BY <1>1, <3>1 DEF Carries
    <3>3. i # 1
      BY <1>8, <3>1, <3>2
    <3>4. i - 1 \in 1..Len(v) /\ (i - 1) + 1 = i
      BY <1>6, <3>3
    <3>5. bt[i - 1] = at[i] - 1
      BY <1>11, <3>4
    <3>6. at[i] - 1 = j
      BY <1>2, <3>1, <3>2
    <3>. QED
      BY <3>4, <3>5, <3>6
  <2>. QED
    BY <2>1, <2>2
<1>16. ASSUME NEW i \in 1..Len(v)
       PROVE  u[bt[i]].call = v[i].call
  <2>1. u[bt[i]] = q[at[i + 1]] /\ v[i] = w[i + 1]
    BY <1>2, <1>6, <1>10, <1>11
  <2>. QED
    BY <1>1, <1>10, <2>1 DEF Carries
<1>17. Carries(u, v, bt)
  BY <1>12, <1>13, <1>15, <1>16 DEF Carries
<1>. QED
  BY <1>5, <1>9, <1>17 DEF InOrder, u, v

\* Of messages only type and call matter.
LEMMA InOrderSame ==
  ASSUME NEW q, NEW w, InOrder(q, w), NEW u,
         Len(u) = Len(q),
         \A i \in 1..Len(q) : u[i].type = q[i].type /\ u[i].call = q[i].call
  PROVE  InOrder(u, w)
<1>1. PICK at : Carries(q, w, at)
  BY DEF InOrder
<1>2. PutsAt(u) = PutsAt(q)
  BY DEF PutsAt
<1>3. \A i \in 1..Len(w) : u[at[i]].call = q[at[i]].call
  BY <1>1 DEF Carries
<1>4. Carries(u, w, at)
  BY <1>1, <1>2, <1>3 DEF Carries
<1>. QED
  BY <1>4 DEF InOrder

\* All outstanding writes are sent, and reads behind them.
LEMMA InOrderSent ==
  ASSUME NEW w \in Seq(Writes), NEW q \in Seq(Messages), Len(w) <= Len(q),
         \A i \in 1..Len(w) : q[i].type = "put" /\ q[i].call = w[i].call,
         \A i \in 1..Len(q) : i > Len(w) => q[i].type # "put"
  PROVE  InOrder(q, w)
<1>. DEFINE at == [i \in 1..Len(w) |-> i]
<1>1. Len(w) \in Nat /\ Len(q) \in Nat
  BY LenProperties
<1>2. \A i \in 1..Len(w) : at[i] = i /\ i \in 1..Len(q)
  BY <1>1
<1>3. at \in [1..Len(w) -> 1..Len(q)]
  BY <1>2
<1>. HIDE DEF at
<1>4. PutsAt(q) = 1..Len(w)
  BY <1>1, <1>2 DEF PutsAt
<1>5. {at[i] : i \in 1..Len(w)} = 1..Len(w)
  BY <1>2
<1>6. Carries(q, w, at)
  BY <1>2, <1>3, <1>4, <1>5 DEF Carries
<1>. QED
  BY <1>6 DEF InOrder

LEMMA TailConcat ==
  ASSUME NEW S, NEW s \in Seq(S), NEW t \in Seq(S), s # <<>>
  PROVE  /\ s \o t \in Seq(S) /\ s \o t # <<>>
         /\ Head(s \o t) = Head(s) /\ Tail(s \o t) = Tail(s) \o t
<1>. DEFINE u == s \o t
            v == Tail(s) \o t
<1>1. /\ Len(s) \in Nat \ {0} /\ Head(s) = s[1]
      /\ Tail(s) \in Seq(S) /\ Len(Tail(s)) = Len(s) - 1
      /\ \A i \in 1..Len(s) - 1 : Tail(s)[i] = s[i + 1]
  BY TailProperties
<1>2. /\ u \in Seq(S) /\ Len(t) \in Nat /\ Len(u) = Len(s) + Len(t)
      /\ \A i \in 1..Len(s) + Len(t) : u[i] = IF i <= Len(s) THEN s[i] ELSE t[i - Len(s)]
  BY ConcatProperties, LenProperties
<1>3. /\ v \in Seq(S) /\ Len(v) = Len(Tail(s)) + Len(t)
      /\ \A i \in 1..Len(Tail(s)) + Len(t) :
           v[i] = IF i <= Len(Tail(s)) THEN Tail(s)[i] ELSE t[i - Len(Tail(s))]
  BY <1>1, ConcatProperties
<1>. HIDE DEF u, v
<1>4. u # <<>>
  BY <1>1, <1>2, EmptySeq
<1>5. /\ Head(u) = u[1] /\ Tail(u) \in Seq(S) /\ Len(Tail(u)) = Len(u) - 1
      /\ \A i \in 1..Len(u) - 1 : Tail(u)[i] = u[i + 1]
  BY <1>2, <1>4, TailProperties
<1>6. Head(u) = Head(s)
  BY <1>1, <1>2, <1>5
<1>7. ASSUME NEW i \in 1..Len(v)
      PROVE  Tail(u)[i] = v[i]
  <2>1. i \in 1..Len(u) - 1 /\ i + 1 \in 1..Len(s) + Len(t)
    BY <1>1, <1>2, <1>3
  <2>2. CASE i <= Len(s) - 1
    <3>1. i \in 1..Len(s) - 1 /\ i + 1 <= Len(s)
      BY <1>1, <1>2, <1>3, <2>2
    <3>. QED
      BY <1>1, <1>2, <1>3, <1>5, <2>1, <3>1
  <2>3. CASE ~(i <= Len(s) - 1)
    <3>1. /\ ~(i + 1 <= Len(s)) /\ (i + 1) - Len(s) = i - (Len(s) - 1)
      BY <1>1, <2>1, <2>3
    <3>2. Tail(u)[i] = t[(i + 1) - Len(s)]
      BY <1>2, <1>5, <2>1, <3>1
    <3>3. v[i] = t[i - (Len(s) - 1)]
      BY <1>1, <1>3, <2>3
    <3>. QED
      BY <3>1, <3>2, <3>3
  <2>. QED
    BY <2>2, <2>3
<1>8. Len(Tail(u)) = Len(v)
  BY <1>1, <1>2, <1>3, <1>5
<1>9. Tail(u) = v
  BY <1>3, <1>5, <1>7, <1>8, SeqEqual
<1>. QED
  BY <1>2, <1>4, <1>6, <1>9 DEF u, v

LEMMA EmptyBoth ==
  /\ <<>> \o <<>> = <<>>
  /\ \A S : \A s \in Seq(S) : <<>> \o s = s
BY ConcatEmptySeq, EmptySeq

-----------------------------------------------------------------------------
(* Each step keeps that order.                                             *)

OrderInv(d) ==
  /\ online[d] => /\ InOrder(toClient[d] \o toServer[d], puts[d])
                  /\ waitingGets[d] = <<>>
  /\ ~online[d] => toClient[d] = <<>> /\ toServer[d] = <<>>

LEMMA OrderFrame ==
  ASSUME NEW d \in Devices, OrderInv(d),
         online'[d] = online[d], puts'[d] = puts[d], waitingGets'[d] = waitingGets[d],
         toServer'[d] = toServer[d], toClient'[d] = toClient[d]
  PROVE  OrderInv(d)'
BY DEF OrderInv

LEMMA FlightTypes ==
  ASSUME LinkOver(Lists), NEW d \in Devices
  PROVE  /\ toClient[d] \in Seq(Messages) /\ toServer[d] \in Seq(Messages)
         /\ toClient[d] \o toServer[d] \in Seq(Messages)
         /\ puts[d] \in Seq(Writes) /\ waitingGets[d] \in Seq(ReadCalls)
<1>1. toClient[d] \in Seq(Answers(Lists)) /\ toServer[d] \in Seq(Requests(Lists))
  BY DEF LinkOver
<1>2. toClient[d] \in Seq(Messages) /\ toServer[d] \in Seq(Messages)
  BY <1>1, SeqMonotonic DEF Messages
<1>. QED
  BY <1>2, ConcatProperties DEF LinkOver, Writes

LEMMA GetDataOrder ==
  ASSUME LinkOver(Lists), NEW d \in Devices, OrderInv(d), NEW call \in ReadCalls, NEW rest,
         GetData(d, call, rest)
  PROVE  OrderInv(d)'
<1>1. CASE AnswerFromPendingWrite(d, call, rest)
  BY <1>1, OrderFrame DEF GetData, AnswerFromPendingWrite
<1>2. CASE SendGet(d, call, rest)
  <2>1. GetRequest(call) \in Messages /\ GetRequest(call).type # "put"
    BY DEF GetRequest, Messages, Requests
  <2>2. toServer'[d] = Append(toServer[d], GetRequest(call))
    BY <1>2 DEF SendGet, LinkOver
  <2>. HIDE DEF Messages
  <2>3. toClient[d] \o toServer'[d] = Append(toClient[d] \o toServer[d], GetRequest(call))
    <3>1. toClient[d] \in Seq(Messages) /\ toServer[d] \in Seq(Messages)
      BY FlightTypes
    <3>. DEFINE s == toClient[d]
                t == toServer[d]
                e == GetRequest(call)
    <3>2. s \in Seq(Messages) /\ t \in Seq(Messages) /\ e \in Messages
      BY <2>1, <3>1
    <3>. HIDE DEF s, t, e
    <3>3. s \o Append(t, e) = Append(s \o t, e)
      BY <3>2, AppendAfter
    <3>. QED
      BY <2>2, <3>3 DEF s, t, e
  <2>4. InOrder(toClient[d] \o toServer[d], puts[d])
    BY <1>2 DEF OrderInv, SendGet
  <2>5. InOrder(toClient[d] \o toServer'[d], puts[d])
    BY <2>1, <2>3, <2>4, FlightTypes, InOrderOther
  <2>. QED
    BY <1>2, <2>5 DEF OrderInv, GetData, SendGet
<1>3. CASE HoldGet(d, call, rest)
  BY <1>3 DEF OrderInv, GetData, HoldGet
<1>. QED
  BY <1>1, <1>2, <1>3 DEF GetData

LEMMA SetValueOrder ==
  ASSUME LinkOver(Lists), NEW d \in Devices, OrderInv(d), NEW val \in Lists,
         NEW call \in WriteCalls, NEW rest, SetValue(d, val, call, rest)
  PROVE  OrderInv(d)'
<1>. DEFINE put == [val |-> val, call |-> call]
<1>1. CASE online[d]
  <2>1. put \in Writes /\ PutRequest(put) \in Messages
    BY DEF Writes, Messages, Requests, PutRequest
  <2>2. PutRequest(put).type = "put" /\ PutRequest(put).call = put.call
    BY DEF PutRequest
  <2>3. toServer'[d] = Append(toServer[d], PutRequest(put)) /\ puts'[d] = Append(puts[d], put)
    BY <1>1 DEF SetValue, LinkOver
  <2>. HIDE DEF put
  <2>4. toClient[d] \o toServer'[d] = Append(toClient[d] \o toServer[d], PutRequest(put))
    <3>1. toClient[d] \in Seq(Messages) /\ toServer[d] \in Seq(Messages)
      BY FlightTypes
    <3>. DEFINE s == toClient[d]
                t == toServer[d]
                e == PutRequest(put)
    <3>2. s \in Seq(Messages) /\ t \in Seq(Messages) /\ e \in Messages
      BY <2>1, <3>1
    <3>. HIDE DEF s, t, e
    <3>3. s \o Append(t, e) = Append(s \o t, e)
      BY <3>2, AppendAfter
    <3>. QED
      BY <2>3, <3>3 DEF s, t, e
  <2>5. InOrder(toClient[d] \o toServer[d], puts[d])
    BY <1>1 DEF OrderInv
  <2>6. InOrder(toClient[d] \o toServer'[d], puts'[d])
    BY <2>1, <2>2, <2>3, <2>4, <2>5, FlightTypes, InOrderWrite
  <2>. QED
    BY <1>1, <2>6 DEF OrderInv, SetValue
<1>2. CASE ~online[d]
  BY <1>2 DEF OrderInv, SetValue
<1>. QED
  BY <1>1, <1>2

LEMMA ServerOrder ==
  ASSUME LinkOver(Lists), NEW d \in Devices, OrderInv(d),
         ServerAcceptsPut(d) \/ ServerAnswersGet(d) \/ ServerDenies(d)
  PROVE  OrderInv(d)'
<1>. DEFINE s == toClient[d]
            t == toServer[d]
<1>1. PICK ok, val : ServerReplies(d, ok, val)
  BY DEF ServerAcceptsPut, ServerAnswersGet, ServerDenies
<1>2. t # <<>>
  BY DEF ServerAcceptsPut, ServerAnswersGet, ServerDenies
<1>. DEFINE r == Reply(Head(t), ok, val)
            u == s \o t
            v == Append(s, r) \o Tail(t)
            M == Messages \cup {r}
<1>3. r.type = Head(t).type /\ r.call = Head(t).call
  BY DEF Reply
<1>4. s \in Seq(M) /\ t \in Seq(M) /\ r \in M
  BY FlightTypes, SeqMonotonic
<1>5. s' = Append(s, r) /\ t' = Tail(t)
  BY <1>1 DEF ServerReplies, LinkOver
<1>. HIDE DEF s, t, r, M
<1>6. /\ Len(t) \in Nat \ {0} /\ Head(t) = t[1]
      /\ Tail(t) \in Seq(M) /\ Len(Tail(t)) = Len(t) - 1
      /\ \A i \in 1..Len(t) - 1 : Tail(t)[i] = t[i + 1]
  BY <1>2, <1>4, TailProperties
<1>7. /\ Len(s) \in Nat /\ Append(s, r) \in Seq(M) /\ Len(Append(s, r)) = Len(s) + 1
      /\ \A i \in 1..Len(s) : Append(s, r)[i] = s[i]
      /\ Append(s, r)[Len(s) + 1] = r
  BY <1>4, AppendProperties, LenProperties
<1>8. /\ Len(u) = Len(s) + Len(t)
      /\ \A i \in 1..Len(s) + Len(t) : u[i] = IF i <= Len(s) THEN s[i] ELSE t[i - Len(s)]
  BY <1>4, ConcatProperties
<1>9. /\ Len(v) = Len(Append(s, r)) + Len(Tail(t))
      /\ \A i \in 1..Len(Append(s, r)) + Len(Tail(t)) :
           v[i] = IF i <= Len(Append(s, r)) THEN Append(s, r)[i]
                                            ELSE Tail(t)[i - Len(Append(s, r))]
  BY <1>6, <1>7, ConcatProperties
<1>. HIDE DEF u, v
<1>10. Len(v) = Len(u)
  BY <1>6, <1>7, <1>8, <1>9
<1>11. ASSUME NEW i \in 1..Len(u)
       PROVE  v[i].type = u[i].type /\ v[i].call = u[i].call
  <2>1. i \in 1..Len(s) + Len(t) /\ i \in 1..Len(Append(s, r)) + Len(Tail(t))
    BY <1>8, <1>9, <1>10
  <2>2. CASE i <= Len(s)
    <3>1. i \in 1..Len(s) /\ i <= Len(Append(s, r))
      BY <1>7, <2>1, <2>2
    <3>. QED
      BY <1>7, <1>8, <1>9, <2>1, <2>2, <3>1
  <2>3. CASE i = Len(s) + 1
    <3>1. ~(i <= Len(s)) /\ i - Len(s) = 1 /\ i <= Len(Append(s, r))
      BY <1>7, <2>3
    <3>2. v[i] = r
      BY <1>7, <1>9, <2>1, <2>3, <3>1
    <3>3. u[i] = Head(t)
      BY <1>6, <1>8, <2>1, <3>1
    <3>. QED
      BY <1>3, <3>2, <3>3
  <2>4. CASE i > Len(s) + 1
    <3>1. /\ ~(i <= Len(s)) /\ ~(i <= Len(s) + 1)
          /\ i - (Len(s) + 1) \in 1..Len(t) - 1
          /\ (i - (Len(s) + 1)) + 1 = i - Len(s)
      BY <1>6, <1>7, <2>1, <2>4
    <3>2. v[i] = Tail(t)[i - (Len(s) + 1)]
      BY <1>7, <1>9, <2>1, <3>1
    <3>3. u[i] = t[i - Len(s)]
      BY <1>8, <2>1, <3>1
    <3>4. Tail(t)[i - (Len(s) + 1)] = t[(i - (Len(s) + 1)) + 1]
      BY <1>6, <3>1
    <3>5. v[i] = u[i]
      BY <3>1, <3>2, <3>3, <3>4
    <3>. QED
      BY <3>5
  <2>. QED
    BY <1>7, <2>1, <2>2, <2>3, <2>4
<1>12. InOrder(u, puts[d]) => InOrder(v, puts[d])
  BY <1>10, <1>11, InOrderSame
<1>13. online[d]
  BY <1>2 DEF OrderInv, t
<1>14. InOrder(toClient'[d] \o toServer'[d], puts[d])
  BY <1>5, <1>12, <1>13 DEF OrderInv, s, t, u, v
<1>. QED
  BY <1>1, <1>13, <1>14 DEF ServerReplies, OrderInv

LEMMA PutAcknowledgedOrder ==
  ASSUME LinkOver(Lists), NEW d \in Devices, OrderInv(d), PutAcknowledged(d)
  PROVE  OrderInv(d)' /\ Head(puts[d]).call = Head(toClient[d]).call
<1>. DEFINE s == toClient[d]
            t == toServer[d]
<1>1. s # <<>> /\ Head(s).type = "put" /\ online[d]
  BY DEF PutAcknowledged, OrderInv
<1>2. InOrder(s \o t, puts[d])
  BY <1>1 DEF OrderInv
<1>3. s \in Seq(Messages) /\ t \in Seq(Messages) /\ puts[d] \in Seq(Writes)
  BY FlightTypes
<1>. HIDE DEF s, t
<1>4. /\ s \o t \in Seq(Messages) /\ s \o t # <<>>
      /\ Head(s \o t) = Head(s) /\ Tail(s \o t) = Tail(s) \o t
  BY <1>1, <1>3, TailConcat
<1>5. Head(puts[d]).call = Head(s).call /\ InOrder(Tail(s) \o t, Tail(puts[d]))
  <2>. DEFINE q == s \o t
              w == puts[d]
  <2>1. /\ q \in Seq(Messages) /\ w \in Seq(Writes) /\ InOrder(q, w)
        /\ q # <<>> /\ Head(q).type = "put"
    BY <1>1, <1>2, <1>3, <1>4
  <2>. HIDE DEF q, w
  <2>2. Head(w).call = Head(q).call /\ InOrder(Tail(q), Tail(w))
    BY <2>1, InOrderTailWrite
  <2>. QED
    BY <1>4, <2>2 DEF q, w
<1>6. toClient'[d] = Tail(s) /\ puts'[d] = Tail(puts[d]) /\ toServer' = toServer
  BY DEF s, PutAcknowledged, LinkOver
<1>. QED
  BY <1>1, <1>5, <1>6 DEF s, t, OrderInv, PutAcknowledged

LEMMA GetAnsweredOrder ==
  ASSUME LinkOver(Lists), NEW d \in Devices, OrderInv(d), GetAnswered(d)
  PROVE  OrderInv(d)'
<1>. DEFINE s == toClient[d]
            t == toServer[d]
<1>1. s # <<>> /\ Head(s).type # "put" /\ online[d]
  BY DEF GetAnswered, OrderInv
<1>2. InOrder(s \o t, puts[d])
  BY <1>1 DEF OrderInv
<1>3. s \in Seq(Messages) /\ t \in Seq(Messages) /\ puts[d] \in Seq(Writes)
  BY FlightTypes
<1>. HIDE DEF s, t
<1>4. /\ s \o t \in Seq(Messages) /\ s \o t # <<>>
      /\ Head(s \o t) = Head(s) /\ Tail(s \o t) = Tail(s) \o t
  BY <1>1, <1>3, TailConcat
<1>5. InOrder(Tail(s) \o t, puts[d])
  BY <1>1, <1>2, <1>4, <1>3, InOrderTailOther
<1>6. toClient'[d] = Tail(s) /\ puts' = puts /\ toServer' = toServer
  BY DEF s, GetAnswered, LinkOver
<1>. QED
  BY <1>1, <1>5, <1>6 DEF s, t, OrderInv, GetAnswered

LEMMA ReconnectOrder ==
  ASSUME LinkOver(Lists), NEW d \in Devices, OrderInv(d), Reconnect(d)
  PROVE  OrderInv(d)'
<1>. DEFINE w == puts[d]
            g == waitingGets[d]
            s == [i \in 1..Len(w) |-> PutRequest(w[i])]
            t == [i \in 1..Len(g) |-> GetRequest(g[i])]
<1>1. w \in Seq(Writes) /\ g \in Seq(ReadCalls) /\ Len(w) \in Nat /\ Len(g) \in Nat
  BY FlightTypes, LenProperties
<1>2. toServer'[d] = s \o t /\ toClient'[d] = <<>>
  BY DEF Reconnect, LinkOver, OrderInv
<1>3. online'[d] = TRUE /\ waitingGets'[d] = <<>> /\ puts' = puts
  BY DEF Reconnect, LinkOver
<1>. HIDE DEF w, g
<1>4. s \in Seq(Messages) /\ Len(s) = Len(w)
  <2>1. ASSUME NEW i \in 1..Len(w) PROVE PutRequest(w[i]) \in Messages
    <3>1. w[i] \in Writes
      BY <1>1, ElementOfSeq
    <3>. QED
      BY <3>1 DEF PutRequest, Writes, Messages, Requests
  <2>. QED
    BY <1>1, <2>1, SeqDef
<1>5. t \in Seq(Messages) /\ Len(t) = Len(g)
  <2>1. \A i \in 1..Len(g) : GetRequest(g[i]) \in Messages
    BY <1>1, ElementOfSeq DEF GetRequest, Messages, Requests
  <2>. QED
    BY <1>1, <2>1, SeqDef
<1>6. \A i \in 1..Len(w) : s[i].type = "put" /\ s[i].call = w[i].call
  BY DEF PutRequest
<1>7. \A i \in 1..Len(g) : t[i].type # "put"
  BY DEF GetRequest
<1>. HIDE DEF s, t
<1>8. /\ s \o t \in Seq(Messages) /\ Len(s \o t) = Len(w) + Len(g)
      /\ \A i \in 1..Len(w) + Len(g) :
           (s \o t)[i] = IF i <= Len(w) THEN s[i] ELSE t[i - Len(w)]
  <2>1. s \o t \in Seq(Messages) /\ Len(s \o t) = Len(s) + Len(t)
    BY <1>4, <1>5, ConcatProperties
  <2>2. \A i \in 1..Len(s) + Len(t) :
           (s \o t)[i] = IF i <= Len(s) THEN s[i] ELSE t[i - Len(s)]
    BY <1>4, <1>5, ConcatProperties
  <2>. QED
    BY <1>4, <1>5, <2>1, <2>2
<1>9. \A i \in 1..Len(w) : (s \o t)[i].type = "put" /\ (s \o t)[i].call = w[i].call
  BY <1>1, <1>6, <1>8
<1>10. ASSUME NEW i \in 1..Len(s \o t), i > Len(w)
       PROVE  (s \o t)[i].type # "put"
  <2>1. i - Len(w) \in 1..Len(g) /\ ~(i <= Len(w)) /\ i \in 1..Len(w) + Len(g)
    BY <1>1, <1>8, <1>10
  <2>. QED
    BY <1>7, <1>8, <2>1
<1>11. InOrder(s \o t, w)
  <2>. DEFINE q == s \o t
  <2>1. q \in Seq(Messages) /\ Len(w) <= Len(q)
    BY <1>1, <1>8
  <2>2. /\ \A i \in 1..Len(w) : q[i].type = "put" /\ q[i].call = w[i].call
        /\ \A i \in 1..Len(q) : i > Len(w) => q[i].type # "put"
    BY <1>9, <1>10
  <2>. HIDE DEF q
  <2>3. InOrder(q, w)
    BY <1>1, <2>1, <2>2, InOrderSent
  <2>. QED
    BY <2>3 DEF q
<1>12. <<>> \o (s \o t) = s \o t
  BY <1>8, EmptyBoth
<1>. QED
  BY <1>2, <1>3, <1>11, <1>12 DEF OrderInv, w

LEMMA LinkStepOrder ==
  ASSUME LinkOver(Lists), NEW d \in Devices, OrderInv(d), LinkStep(d)
  PROVE  OrderInv(d)'
<1>1. ASSUME GetTimesOut(d)
      PROVE  OrderInv(d)'
  BY <1>1 DEF GetTimesOut, OrderInv
<1>. QED
  BY <1>1, ServerOrder, PutAcknowledgedOrder, GetAnsweredOrder, ReconnectOrder DEF LinkStep

LEMMA CallbackOrder ==
  ASSUME LinkOver(Lists), NEW d \in Devices, OrderInv(d), RunCallback(d)
  PROVE  OrderInv(d)'
<1>. DEFINE answer == Head(main[d])
            rest == Tail(main[d])
<1>1. answer \in Answers(Lists)
  BY HeadTailIn DEF LinkOver, RunCallback, AddRead, RemoveRead, Written,
                    RegistrationWritten, Checked, Callback
<1>2. answer.call \in ReadCalls \cup WriteCalls
  BY <1>1 DEF Answers
<1>3. answer.call.op # "register" =>
        /\ answer.call.city \in Cities
        /\ [answer.call EXCEPT !.op = "check"] \in ReadCalls
        /\ answer.call.op \in {"add", "remove"} => answer.call \in WriteCalls
  BY <1>2 DEF ReadCalls, WriteCalls, Registration
<1>4. ASSUME Refresh(d), answer.call.op # "register"
      PROVE  OrderInv(d)'
  BY <1>3, <1>4, GetDataOrder DEF Refresh
<1>5. ASSUME NEW val \in Lists, SetValue(d, val, answer.call, rest),
             answer.call.op \in {"add", "remove"}
      PROVE  OrderInv(d)'
  BY <1>3, <1>5, SetValueOrder
<1>6. CASE AddRead(d)
  <2>1. answer.call.op = "add" /\ answer.type = "get"
    BY <1>6 DEF AddRead, Callback
  <2>2. CASE answer.ok /\ ~HasCity(answer.val, answer.call.city)
    <3>1. answer.val \in Lists
      BY <1>1, <2>1, <2>2 DEF Answers
    <3>2. WithCity(answer.val, answer.call.city) \in Lists
      BY <1>3, <2>1, <2>2, <3>1, ListsClosed DEF Closed, ClosedFor
    <3>. QED
      BY <1>5, <1>6, <2>1, <2>2, <3>2 DEF AddRead
  <2>3. CASE ~(answer.ok /\ ~HasCity(answer.val, answer.call.city))
    BY <1>4, <1>6, <2>1, <2>3 DEF AddRead
  <2>. QED
    BY <2>2, <2>3
<1>7. CASE RemoveRead(d)
  <2>1. answer.call.op = "remove" /\ answer.type = "get"
    BY <1>7 DEF RemoveRead, Callback
  <2>2. CASE answer.ok /\ HasCity(answer.val, answer.call.city)
    <3>1. answer.val \in Lists
      BY <1>1, <2>1, <2>2 DEF Answers
    <3>2. WithoutCity(answer.val, answer.call.city) \in Lists
      BY <1>3, <2>1, <2>2, <3>1, ListsClosed DEF Closed, ClosedFor
    <3>. QED
      BY <1>5, <1>7, <2>1, <2>2, <3>2 DEF RemoveRead
  <2>3. CASE ~(answer.ok /\ HasCity(answer.val, answer.call.city))
    BY <1>4, <1>7, <2>1, <2>3 DEF RemoveRead
  <2>. QED
    BY <2>2, <2>3
<1>8. CASE Written(d)
  BY <1>4, <1>8 DEF Written, Callback
<1>9. CASE RegistrationWritten(d) \/ Checked(d)
  BY <1>9, OrderFrame DEF RegistrationWritten, Checked
<1>. QED
  BY <1>6, <1>7, <1>8, <1>9 DEF RunCallback

\* What a step on one device leaves alone on the others.
LEMMA OthersUntouched ==
  ASSUME LinkOver(Lists), NEW e \in Devices, NEW d \in Devices, d # e,
         \/ \E c \in Cities : OpenCity(e, c)
         \/ CloseCity(e) \/ TapFavorite(e) \/ RunCallback(e)
         \/ Link(e) \/ BreakConnection(e) \/ KillAndRestart(e)
  PROVE  /\ online'[d] = online[d] /\ puts'[d] = puts[d]
         /\ waitingGets'[d] = waitingGets[d]
         /\ toServer'[d] = toServer[d] /\ toClient'[d] = toClient[d]
<1>. DEFINE Same == /\ online'[d] = online[d] /\ puts'[d] = puts[d]
                    /\ waitingGets'[d] = waitingGets[d]
                    /\ toServer'[d] = toServer[d] /\ toClient'[d] = toClient[d]
<1>. USE DEF LinkOver
<1>1. ASSUME NEW call, NEW rest, GetData(e, call, rest)
      PROVE  Same
  BY <1>1 DEF GetData, AnswerFromPendingWrite, SendGet, HoldGet
<1>2. ASSUME NEW val, NEW call, NEW rest, SetValue(e, val, call, rest)
      PROVE  Same
  BY <1>2 DEF SetValue
<1>3. ASSUME NEW ok, NEW val, ServerReplies(e, ok, val)
      PROVE  Same
  BY <1>3 DEF ServerReplies
<1>4. ASSUME LinkStep(e)
      PROVE  Same
  <2>1. CASE ServerAcceptsPut(e) \/ ServerAnswersGet(e) \/ ServerDenies(e)
    BY <1>3, <2>1 DEF ServerAcceptsPut, ServerAnswersGet, ServerDenies
  <2>2. CASE PutAcknowledged(e) \/ GetAnswered(e) \/ GetTimesOut(e) \/ Reconnect(e)
    BY <2>2 DEF PutAcknowledged, GetAnswered, GetTimesOut, Reconnect
  <2>. QED
    BY <1>4, <2>1, <2>2 DEF LinkStep
<1>5. ASSUME RunCallback(e)
      PROVE  Same
  <2>1. CASE AddRead(e) \/ RemoveRead(e) \/ Written(e)
    BY <1>1, <1>2, <2>1 DEF AddRead, RemoveRead, Written, Refresh
  <2>2. CASE RegistrationWritten(e) \/ Checked(e)
    BY <2>2 DEF RegistrationWritten, Checked
  <2>. QED
    BY <1>5, <2>1, <2>2 DEF RunCallback
<1>6. CASE \E c \in Cities : OpenCity(e, c)
  BY <1>1, <1>6 DEF OpenCity
<1>7. CASE CloseCity(e)
  BY <1>7 DEF CloseCity, linkVars
<1>8. CASE TapFavorite(e)
  BY <1>1, <1>8 DEF TapFavorite
<1>9. CASE BreakConnection(e) \/ KillAndRestart(e)
  BY <1>9 DEF BreakConnection, KillAndRestart, Disconnect, KillApp
<1>. QED
  BY <1>4, <1>5, <1>6, <1>7, <1>8, <1>9 DEF Link

LEMMA OrderKept ==
  ASSUME TypeOK, NEW d \in Devices, OrderInv(d), [Next]_vars
  PROVE  OrderInv(d)'
<1>. USE DEF TypeOK
<1>1. ASSUME NEW c \in Cities, OpenCity(d, c)
      PROVE  OrderInv(d)'
  <2>1. [op |-> "check", city |-> c, visit |-> visit[d] + 1] \in ReadCalls
    BY BoundsAssumption DEF ReadCalls, ViewOK
  <2>. QED
    BY <1>1, <2>1, GetDataOrder DEF OpenCity
<1>2. ASSUME TapFavorite(d)
      PROVE  OrderInv(d)'
  <2>1. [op |-> IF isInFavorites[d] THEN "remove" ELSE "add",
         city |-> screen[d], visit |-> visit[d]] \in ReadCalls
    BY <1>2, BoundsAssumption DEF ReadCalls, ViewOK, TapFavorite
  <2>. QED
    BY <1>2, <2>1, GetDataOrder DEF TapFavorite
<1>3. ASSUME CloseCity(d) \/ UNCHANGED vars
      PROVE  OrderInv(d)'
  BY <1>3, OrderFrame DEF CloseCity, vars, linkVars
<1>4. ASSUME RunCallback(d)
      PROVE  OrderInv(d)'
  BY <1>4, CallbackOrder
<1>5. ASSUME Link(d)
      PROVE  OrderInv(d)'
  BY <1>5, LinkStepOrder DEF Link
<1>6. ASSUME BreakConnection(d)
      PROVE  OrderInv(d)'
  BY <1>6 DEF BreakConnection, Disconnect, OrderInv, LinkOver
<1>7. ASSUME KillAndRestart(d)
      PROVE  OrderInv(d)'
  BY <1>7, InOrderEmpty, EmptyBoth DEF KillAndRestart, KillApp, OrderInv, LinkOver
<1>8. ASSUME NEW e \in Devices, e # d,
             \/ \E c \in Cities : OpenCity(e, c)
             \/ CloseCity(e) \/ TapFavorite(e) \/ RunCallback(e)
             \/ Link(e) \/ BreakConnection(e) \/ KillAndRestart(e)
      PROVE  OrderInv(d)'
  BY <1>8, OthersUntouched, OrderFrame
<1>. QED
  BY <1>1, <1>2, <1>3, <1>4, <1>5, <1>6, <1>7, <1>8 DEF Next

LEMMA OrderBegins ==
  ASSUME Init, NEW d \in Devices
  PROVE  OrderInv(d)
<1>1. CASE SettledAccount
  BY <1>1, InOrderEmpty, EmptyBoth DEF Init, SettledAccount, OrderInv
<1>2. ASSUME NEW r \in Devices, FreshAccount(r)
      PROVE  OrderInv(d)
  <2>1. CASE d # r
    BY <1>2, <2>1, InOrderEmpty, EmptyBoth DEF Init, FreshAccount, OrderInv
  <2>2. CASE d = r
    <3>. DEFINE w == RegistrationWrites
                q == <<PutRequest(w[1]), PutRequest(w[2])>>
    <3>1. puts[d] = w /\ toServer[d] = q /\ toClient[d] = <<>> /\ online[d]
          /\ waitingGets[d] = <<>>
      BY <1>2, <2>2 DEF Init, FreshAccount
    <3>2. NoValue \in Lists /\ <<Placeholder>> \in Lists /\ Registration \in WriteCalls
      BY DEF Lists, NoValue, WriteCalls
    <3>3. w \in Seq(Writes) /\ Len(w) = 2
      BY <3>2 DEF RegistrationWrites, Writes
    <3>4. PutRequest(w[1]) \in Messages /\ PutRequest(w[2]) \in Messages
      BY <3>2 DEF RegistrationWrites, PutRequest, Messages, Requests
    <3>5. q \in Seq(Messages) /\ Len(q) = 2
      BY <3>4
    <3>6. q[1] = PutRequest(w[1]) /\ q[2] = PutRequest(w[2])
      OBVIOUS
    <3>. HIDE DEF w, q
    <3>7. \A i \in 1..2 : q[i].type = "put" /\ q[i].call = w[i].call
      <4>1. \A i \in 1..2 : i = 1 \/ i = 2
        OBVIOUS
      <4>. QED
        BY <3>6, <4>1 DEF PutRequest
    <3>8. InOrder(q, w)
      BY <3>3, <3>5, <3>7, InOrderSent
    <3>9. <<>> \o q = q
      BY <3>5, EmptyBoth
    <3>. QED
      BY <3>1, <3>8, <3>9 DEF OrderInv
  <2>. QED
    BY <2>1, <2>2
<1>. QED
  BY <1>1, <1>2 DEF Init

(* On any number of devices an acknowledgement is for the oldest write     *)
(* that waits for one, through denials, reads in between, broken           *)
(* connections and writes sent again (FPersistentConnection's outstanding  *)
(* puts, FRepo.ackWrite).                                                  *)
THEOREM WritesTravelInOrderHolds == Spec => []WritesTravelInOrder
<1>. DEFINE IInv == TypeOK /\ \A d \in Devices : OrderInv(d)
<1>1. Init => IInv
  BY InitialTypes, OrderBegins
<1>2. IInv /\ [Next]_vars => IInv'
  BY TypesKept, OrderKept
<1>3. IInv => WritesTravelInOrder
  BY DEF OrderInv, InOrder, Carries, PutsAt, WritesTravelInOrder
<1>. QED
  BY <1>1, <1>2, <1>3, PTL DEF Spec

-----------------------------------------------------------------------------
(* The operations whose answers are under way.                             *)

Named(q) == {q[i].call : i \in 1..Len(q)}
Asked(g) == {g[i] : i \in 1..Len(g)}

LEMMA NamedEmpty == Named(<<>>) = {} /\ Asked(<<>>) = {}
BY DEF Named, Asked

LEMMA NamedAppend ==
  ASSUME NEW S, NEW s \in Seq(S), NEW e \in S
  PROVE  /\ Named(Append(s, e)) = Named(s) \cup {e.call}
         /\ Asked(Append(s, e)) = Asked(s) \cup {e}
<1>. DEFINE t == Append(s, e)
            n == Len(s)
<1>1. /\ n \in Nat /\ Len(t) = n + 1 /\ t[n + 1] = e
      /\ \A i \in 1..n : t[i] = s[i]
  BY AppendProperties, LenProperties
<1>. HIDE DEF t
<1>2. n = Len(s) /\ 1..n + 1 = 1..n \cup {n + 1}
  BY <1>1
<1>. HIDE DEF n
<1>3. Asked(t) = {t[i] : i \in 1..n} \cup {e}
  BY <1>1, <1>2 DEF Asked
<1>4. Named(t) = {t[i].call : i \in 1..n} \cup {e.call}
  BY <1>1, <1>2 DEF Named
<1>5. {t[i] : i \in 1..n} = Asked(s) /\ {t[i].call : i \in 1..n} = Named(s)
  BY <1>1, <1>2 DEF Named, Asked
<1>. QED
  BY <1>3, <1>4, <1>5 DEF t

LEMMA NamedTail ==
  ASSUME NEW S, NEW s \in Seq(S), s # <<>>
  PROVE  /\ Named(s) = {Head(s).call} \cup Named(Tail(s))
         /\ Asked(s) = {Head(s)} \cup Asked(Tail(s))
<1>. DEFINE t == Tail(s)
            n == Len(s) - 1
<1>1. /\ Len(s) \in Nat \ {0} /\ Head(s) = s[1] /\ Len(t) = n /\ n \in Nat
      /\ \A i \in 1..n : t[i] = s[i + 1]
  BY TailProperties
<1>2. n = Len(s) - 1
  OBVIOUS
<1>. HIDE DEF t, n
<1>3. 1 \in 1..Len(s) /\ \A i \in 1..n : i + 1 \in 1..Len(s)
  BY <1>1, <1>2
<1>4. ASSUME NEW i \in 1..Len(s), i # 1
      PROVE  i - 1 \in 1..n /\ t[i - 1] = s[i]
  <2>1. i - 1 \in 1..n /\ (i - 1) + 1 = i
    BY <1>1, <1>2, <1>4
  <2>. QED
    BY <1>1, <2>1
<1>5. Asked(s) = {Head(s)} \cup Asked(t)
  <2>1. \A x \in Asked(s) : x \in {Head(s)} \cup Asked(t)
    BY <1>1, <1>4 DEF Asked
  <2>2. \A x \in Asked(t) : x \in Asked(s)
    BY <1>1, <1>3 DEF Asked
  <2>3. Head(s) \in Asked(s)
    BY <1>1, <1>3 DEF Asked
  <2>. QED
    BY <2>1, <2>2, <2>3
<1>6. Named(s) = {Head(s).call} \cup Named(t)
  <2>1. \A x \in Named(s) : x \in {Head(s).call} \cup Named(t)
    BY <1>1, <1>4 DEF Named
  <2>2. ASSUME NEW i \in 1..n
        PROVE  t[i].call \in Named(s)
    <3>1. t[i].call = s[i + 1].call
      BY <1>1
    <3>. QED
      BY <1>3, <3>1 DEF Named
  <2>3. Head(s).call \in Named(s)
    BY <1>1, <1>3 DEF Named
  <2>4. \A x \in Named(t) : x \in Named(s)
    BY <1>1, <2>2 DEF Named
  <2>. QED
    BY <2>1, <2>3, <2>4
<1>. QED
  BY <1>5, <1>6 DEF t

LEMMA NamedConcat ==
  ASSUME NEW S, NEW s \in Seq(S), NEW t \in Seq(S)
  PROVE  Named(s \o t) = Named(s) \cup Named(t)
<1>. DEFINE u == s \o t
<1>1. /\ Len(s) \in Nat /\ Len(t) \in Nat /\ Len(u) = Len(s) + Len(t)
      /\ \A i \in 1..Len(s) + Len(t) : u[i] = IF i <= Len(s) THEN s[i] ELSE t[i - Len(s)]
  BY ConcatProperties, LenProperties
<1>. HIDE DEF u
<1>2. ASSUME NEW i \in 1..Len(u)
      PROVE  u[i].call \in Named(s) \cup Named(t)
  <2>1. CASE i <= Len(s)
    BY <1>1, <2>1 DEF Named
  <2>2. CASE ~(i <= Len(s))
    <3>1. i - Len(s) \in 1..Len(t)
      BY <1>1, <2>2
    <3>. QED
      BY <1>1, <2>2, <3>1 DEF Named
  <2>. QED
    BY <2>1, <2>2
<1>3. ASSUME NEW i \in 1..Len(s)
      PROVE  s[i].call \in Named(u)
  <2>1. i \in 1..Len(u) /\ u[i] = s[i]
    BY <1>1
  <2>. QED
    BY <2>1 DEF Named
<1>4. ASSUME NEW i \in 1..Len(t)
      PROVE  t[i].call \in Named(u)
  <2>1. i + Len(s) \in 1..Len(u) /\ ~(i + Len(s) <= Len(s)) /\ (i + Len(s)) - Len(s) = i
    BY <1>1
  <2>2. u[i + Len(s)] = t[i]
    BY <1>1, <2>1
  <2>. QED
    BY <2>1, <2>2 DEF Named
<1>5. /\ \A x \in Named(u) : x \in Named(s) \cup Named(t)
      /\ \A x \in Named(s) : x \in Named(u)
      /\ \A x \in Named(t) : x \in Named(u)
  BY <1>2, <1>3, <1>4 DEF Named
<1>. QED
  BY <1>5 DEF u

LEMMA LastNamed ==
  ASSUME NEW S, NEW s \in Seq(S), s # <<>>
  PROVE  Last(s).call \in Named(s)
<1>1. Len(s) \in 1..Len(s)
  BY EmptySeq, LenProperties
<1>. QED
  BY <1>1 DEF Last, Named

LEMMA LastOfRest ==
  ASSUME NEW S, NEW s \in Seq(S), s # <<>>, Tail(s) # <<>>
  PROVE  Last(Tail(s)) = Last(s)
<1>1. /\ Len(s) \in Nat \ {0} /\ Len(Tail(s)) = Len(s) - 1 /\ Tail(s) \in Seq(S)
      /\ \A i \in 1..Len(s) - 1 : Tail(s)[i] = s[i + 1]
  BY TailProperties
<1>2. Len(Tail(s)) # 0
  BY <1>1, EmptySeq
<1>3. Len(s) - 1 \in 1..Len(s) - 1 /\ (Len(s) - 1) + 1 = Len(s)
  BY <1>1, <1>2
<1>. QED
  BY <1>1, <1>3 DEF Last

UnderWay(d) ==
  Named(puts[d]) \cup Asked(waitingGets[d]) \cup Named(toServer[d])
    \cup Named(toClient[d]) \cup Named(main[d])

LEMMA GetDataCalls ==
  ASSUME LinkOver(Lists), NEW d \in Devices, NEW call \in ReadCalls,
         NEW rest \in Seq(Answers(Lists)), GetData(d, call, rest)
  PROVE  UnderWay(d)' = Named(puts[d]) \cup Asked(waitingGets[d]) \cup Named(toServer[d])
                          \cup Named(toClient[d]) \cup Named(rest) \cup {call}
<1>1. CASE AnswerFromPendingWrite(d, call, rest)
  <2>. DEFINE r == Reply(GetRequest(call), TRUE, Last(puts[d]).val)
  <2>1. Last(puts[d]) \in [val : Lists, call : WriteCalls]
    BY <1>1, LastIn DEF LinkOver, AnswerFromPendingWrite
  <2>2. r \in Answers(Lists) /\ r.call = call
    BY <2>1 DEF Reply, GetRequest, Answers
  <2>3. main'[d] = Append(rest, r)
    BY <1>1 DEF AnswerFromPendingWrite, LinkOver
  <2>. HIDE DEF r
  <2>4. Named(main'[d]) = Named(rest) \cup {call}
    BY <2>2, <2>3, NamedAppend
  <2>. QED
    BY <1>1, <2>4 DEF UnderWay, GetData, AnswerFromPendingWrite
<1>2. CASE SendGet(d, call, rest)
  <2>1. GetRequest(call) \in Requests(Lists) /\ GetRequest(call).call = call
    BY DEF GetRequest, Requests
  <2>2. toServer'[d] = Append(toServer[d], GetRequest(call)) /\ main'[d] = rest
    BY <1>2 DEF SendGet, LinkOver
  <2>3. toServer[d] \in Seq(Requests(Lists))
    BY DEF LinkOver
  <2>4. Named(toServer'[d]) = Named(toServer[d]) \cup {call}
    BY <2>1, <2>2, <2>3, NamedAppend
  <2>. QED
    BY <1>2, <2>2, <2>4 DEF UnderWay, GetData, SendGet
<1>3. CASE HoldGet(d, call, rest)
  <2>1. waitingGets'[d] = Append(waitingGets[d], call) /\ main'[d] = rest
    BY <1>3 DEF HoldGet, LinkOver
  <2>2. waitingGets[d] \in Seq(ReadCalls)
    BY DEF LinkOver
  <2>3. Asked(waitingGets'[d]) = Asked(waitingGets[d]) \cup {call}
    BY <2>1, <2>2, NamedAppend
  <2>. QED
    BY <1>3, <2>1, <2>3 DEF UnderWay, GetData, HoldGet
<1>. QED
  BY <1>1, <1>2, <1>3 DEF GetData

LEMMA SetValueCalls ==
  ASSUME LinkOver(Lists), NEW d \in Devices, NEW val \in Lists, NEW call \in WriteCalls,
         NEW rest \in Seq(Answers(Lists)), SetValue(d, val, call, rest)
  PROVE  /\ UnderWay(d)' = Named(puts[d]) \cup Asked(waitingGets[d]) \cup Named(toServer[d])
                             \cup Named(toClient[d]) \cup Named(rest) \cup {call}
         /\ Last(puts'[d]).call = call
<1>. DEFINE put == [val |-> val, call |-> call]
<1>1. /\ put \in Writes /\ PutRequest(put) \in Requests(Lists)
      /\ put.call = call /\ PutRequest(put).call = call
  BY DEF Writes, Requests, PutRequest
<1>2. /\ puts'[d] = Append(puts[d], put) /\ main'[d] = rest
      /\ toServer'[d] = IF online[d] THEN Append(toServer[d], PutRequest(put)) ELSE toServer[d]
  BY DEF SetValue, LinkOver
<1>3. puts[d] \in Seq(Writes) /\ toServer[d] \in Seq(Requests(Lists))
  BY DEF LinkOver, Writes
<1>. HIDE DEF put
<1>4. Named(puts'[d]) = Named(puts[d]) \cup {call} /\ Last(puts'[d]) = put
  BY <1>1, <1>2, <1>3, NamedAppend, AppendLast
<1>5. \/ Named(toServer'[d]) = Named(toServer[d])
      \/ Named(toServer'[d]) = Named(toServer[d]) \cup {call}
  BY <1>1, <1>2, <1>3, NamedAppend
<1>6. toClient' = toClient /\ waitingGets' = waitingGets
  BY DEF SetValue
<1>. QED
  BY <1>1, <1>2, <1>4, <1>5, <1>6 DEF UnderWay

\* The link's own steps complete nothing and begin nothing.
LEMMA LinkCalls ==
  ASSUME LinkOver(Lists), NEW d \in Devices, OrderInv(d), LinkStep(d)
  PROVE  UnderWay(d)' = UnderWay(d)
<1>. DEFINE w == puts[d]
            g == waitingGets[d]
            t == toServer[d]
            s == toClient[d]
            h == main[d]
<1>1. /\ w \in Seq(Writes) /\ g \in Seq(ReadCalls)
      /\ t \in Seq(Requests(Lists)) /\ s \in Seq(Answers(Lists)) /\ h \in Seq(Answers(Lists))
  BY DEF LinkOver, Writes
<1>2. ASSUME NEW ok, NEW val, ServerReplies(d, ok, val), t # <<>>
      PROVE  UnderWay(d)' = UnderWay(d)
  <2>. DEFINE r == Reply(Head(t), ok, val)
              M == Answers(Lists) \cup {r}
  <2>1. r.call = Head(t).call /\ r \in M /\ s \in Seq(M)
    BY <1>1, SeqMonotonic DEF Reply
  <2>2. s' = Append(s, r) /\ t' = Tail(t)
    BY <1>2 DEF ServerReplies, LinkOver
  <2>. HIDE DEF r, M
  <2>3. Named(s') = Named(s) \cup {Head(t).call}
    BY <2>1, <2>2, NamedAppend
  <2>4. Named(t) = {Head(t).call} \cup Named(t')
    BY <1>1, <1>2, <2>2, NamedTail
  <2>. QED
    BY <1>2, <2>3, <2>4 DEF UnderWay, ServerReplies
<1>3. CASE ServerAcceptsPut(d) \/ ServerAnswersGet(d) \/ ServerDenies(d)
  BY <1>2, <1>3 DEF ServerAcceptsPut, ServerAnswersGet, ServerDenies
<1>4. CASE PutAcknowledged(d)
  <2>1. s # <<>> /\ w # <<>> /\ Head(w).call = Head(s).call
    BY <1>4, PutAcknowledgedOrder DEF PutAcknowledged
  <2>2. Head(s) \in Answers(Lists)
    BY <1>1, <2>1, HeadTailIn
  <2>3. w' = Tail(w) /\ s' = Tail(s) /\ h' = Append(h, Head(s))
    BY <1>4 DEF PutAcknowledged, LinkOver
  <2>4. Named(w) = {Head(s).call} \cup Named(w') /\ Named(s) = {Head(s).call} \cup Named(s')
    BY <1>1, <2>1, <2>3, NamedTail
  <2>5. Named(h') = Named(h) \cup {Head(s).call}
    BY <1>1, <2>2, <2>3, NamedAppend
  <2>. QED
    BY <1>4, <2>4, <2>5 DEF UnderWay, PutAcknowledged
<1>5. CASE GetAnswered(d)
  <2>1. s # <<>>
    BY <1>5 DEF GetAnswered
  <2>2. Head(s) \in Answers(Lists)
    BY <1>1, <2>1, HeadTailIn
  <2>3. s' = Tail(s) /\ h' = Append(h, Head(s))
    BY <1>5 DEF GetAnswered, LinkOver
  <2>4. Named(s) = {Head(s).call} \cup Named(s')
    BY <1>1, <2>1, <2>3, NamedTail
  <2>5. Named(h') = Named(h) \cup {Head(s).call}
    BY <1>1, <2>2, <2>3, NamedAppend
  <2>. QED
    BY <1>5, <2>4, <2>5 DEF UnderWay, GetAnswered
<1>6. CASE GetTimesOut(d)
  <2>. DEFINE r == Reply(GetRequest(Head(g)), FALSE, NoValue)
  <2>1. g # <<>>
    BY <1>6 DEF GetTimesOut
  <2>2. Head(g) \in ReadCalls
    BY <1>1, <2>1, HeadTailIn
  <2>3. r \in Answers(Lists) /\ r.call = Head(g)
    BY <2>2 DEF Reply, GetRequest, Answers
  <2>4. g' = Tail(g) /\ h' = Append(h, r)
    BY <1>6 DEF GetTimesOut, LinkOver
  <2>. HIDE DEF r
  <2>5. Asked(g) = {Head(g)} \cup Asked(g')
    BY <1>1, <2>1, <2>4, NamedTail
  <2>6. Named(h') = Named(h) \cup {Head(g)}
    BY <1>1, <2>3, <2>4, NamedAppend
  <2>. QED
    BY <1>6, <2>5, <2>6 DEF UnderWay, GetTimesOut
<1>7. CASE Reconnect(d)
  <2>. DEFINE p == [i \in 1..Len(w) |-> PutRequest(w[i])]
              q == [i \in 1..Len(g) |-> GetRequest(g[i])]
  <2>1. t' = p \o q /\ g' = <<>> /\ t = <<>>
    BY <1>7 DEF Reconnect, LinkOver, OrderInv
  <2>2. Len(w) \in Nat /\ Len(g) \in Nat
    BY <1>1, LenProperties
  <2>3. p \in Seq(Requests(Lists)) /\ Len(p) = Len(w)
    <3>1. ASSUME NEW i \in 1..Len(w) PROVE PutRequest(w[i]) \in Requests(Lists)
      <4>1. w[i] \in Writes
        BY <1>1, ElementOfSeq
      <4>. QED
        BY <4>1 DEF PutRequest, Writes, Requests
    <3>. HIDE DEF w
    <3>. QED
      BY <2>2, <3>1, SeqDef
  <2>4. q \in Seq(Requests(Lists)) /\ Len(q) = Len(g)
    <3>1. \A i \in 1..Len(g) : GetRequest(g[i]) \in Requests(Lists)
      BY <1>1, ElementOfSeq DEF GetRequest, Requests
    <3>. HIDE DEF g
    <3>. QED
      BY <2>2, <3>1, SeqDef
  <2>5. Named(p) = Named(w) /\ Named(q) = Asked(g)
    BY <2>3, <2>4 DEF Named, Asked, PutRequest, GetRequest
  <2>. HIDE DEF p, q
  <2>6. Named(p \o q) = Named(p) \cup Named(q)
    BY <2>3, <2>4, NamedConcat
  <2>. QED
    BY <1>7, <2>1, <2>5, <2>6, NamedEmpty DEF UnderWay, Reconnect
<1>. QED
  BY <1>3, <1>4, <1>5, <1>6, <1>7 DEF LinkStep

-----------------------------------------------------------------------------
(* What the answers that wait will make of the button.                     *)

\* All that is under way was begun on the open screen, or registers.
PageCalls(d) ==
  [op : {"add", "remove", "check"}, city : {screen[d]}, visit : {visit[d]}]
    \cup {Registration}
OfPage(d) == screen[d] # NoCity => UnderWay(d) \subseteq PageCalls(d)

\* An addition or a removal is under way.
Changing(d) == \E call \in UnderWay(d) : call.op \in {"add", "remove"}

\* While a registration is the newest outstanding write, no city is in any list.
Bare == {l \in Lists : \A c \in Cities : ~HasCity(l, c)}
Fresh(d) == puts[d] # <<>> /\ Last(puts[d]).call = Registration
FreshInv(d) == Fresh(d) => LinkOver(Bare)

\* Once nothing changes any more, the read answered last finds what is
\* stored; when there is none, the button shows it.
Gets == {m \in Messages : m.type = "get"}
Tells(m, l, c) == m.ok => (HasCity(m.val, c) <=> HasCity(l, c))
Final(d) ==
  waitingGets[d] = <<>> /\ Of(toServer[d], Gets) = {} =>
    /\ \A m : LastOf(toClient[d], Gets, m) => Tells(m, store, screen[d])
    /\ Of(toClient[d], Gets) = {} =>
         \A m : LastOf(main[d], Gets, m) => Tells(m, store, screen[d])
    /\ Of(toClient[d], Gets) = {} /\ Of(main[d], Gets) = {} =>
         (isInFavorites[d] <=> HasCity(store, screen[d]))
Quiet(d) == screen[d] # NoCity /\ ~unanswered[d] /\ ~Changing(d)
LastWord(d) == Quiet(d) => Final(d)

SettleInv(d) == OfPage(d) /\ FreshInv(d) /\ LastWord(d)

LEMMA BareLists ==
  /\ NoValue \in Bare /\ <<Placeholder>> \in Bare
  /\ \A l \in Bare : \A c \in Cities : ~HasCity(l, c)
BY PlaceholderAssumption DEF Bare, Lists, NoValue, HasCity, Contains

LEMMA BareTells ==
  ASSUME NEW q \in Seq(Answers(Bare)), NEW m, LastOf(q, Gets, m),
         NEW l \in Bare, NEW c \in Cities
  PROVE  Tells(m, l, c)
<1>1. m \in Of(q, Gets)
  BY LastOfIn
<1>2. m \in Answers(Bare) \cap Gets
  BY <1>1, KindsNone
<1>3. m.ok => m.val \in Bare
  BY <1>2 DEF Answers, Gets
<1>. QED
  BY <1>3, BareLists DEF Tells

LEMMA QueueTypes ==
  ASSUME LinkOver(Lists), NEW d \in Devices
  PROVE  /\ puts[d] \in Seq(Writes) /\ waitingGets[d] \in Seq(ReadCalls)
         /\ toServer[d] \in Seq(Messages) /\ toClient[d] \in Seq(Messages)
         /\ main[d] \in Seq(Messages)
<1>1. main[d] \in Seq(Answers(Lists))
  BY DEF LinkOver
<1>2. main[d] \in Seq(Messages)
  BY <1>1, SeqMonotonic DEF Messages
<1>. QED
  BY <1>2, FlightTypes

\* If only checks and the registration are under way, a write that is
\* outstanding is the registration's.
LEMMA OnlyRegistration ==
  ASSUME NEW w \in Seq(Writes), w # <<>>,
         \A call \in Named(w) : call.op \notin {"add", "remove"}
  PROVE  Last(w).call = Registration
<1>1. Last(w) \in Writes /\ Last(w).call \in Named(w)
  BY LastIn, LastNamed
<1>. QED
  BY <1>1 DEF Writes, WriteCalls

-----------------------------------------------------------------------------
(* A check that is begun will bring the last word.                         *)

LEMMA GetDataSettles ==
  ASSUME TypeOK, NEW d \in Devices, FreshInv(d), screen' \in [Devices -> Cities \cup {NoCity}],
         NEW call \in ReadCalls, NEW rest,
         \A L : LinkOver(L) => rest \in Seq(Answers(L)),
         GetData(d, call, rest)
  PROVE  FreshInv(d)' /\ LastWord(d)'
<1>1. LinkOver(Lists) /\ LinkOver(Lists)'
  BY GetDataKeeps DEF TypeOK
<1>2. LinkOver(Bare) => LinkOver(Bare)'
  BY GetDataKeeps
<1>3. puts' = puts
  BY DEF GetData
<1>4. FreshInv(d)'
  BY <1>2, <1>3 DEF FreshInv, Fresh
<1>5. SUFFICES ASSUME Quiet(d)'
               PROVE  Final(d)'
  BY <1>4 DEF LastWord
<1>6. CASE AnswerFromPendingWrite(d, call, rest)
  <2>. DEFINE r == Reply(GetRequest(call), TRUE, Last(puts[d]).val)
  <2>1. puts[d] # <<>> /\ main'[d] = Append(rest, r)
    BY <1>1, <1>6 DEF AnswerFromPendingWrite, LinkOver
  <2>2. \A c \in Named(puts[d]) : c.op \notin {"add", "remove"}
    BY <1>3, <1>5 DEF Quiet, Changing, UnderWay
  <2>3. Last(puts[d]).call = Registration
    BY <1>1, <2>1, <2>2, QueueTypes, OnlyRegistration
  <2>4. LinkOver(Bare)
    BY <2>1, <2>3 DEF FreshInv, Fresh
  <2>5. /\ store' \in Bare /\ screen'[d] \in Cities
        /\ toClient'[d] \in Seq(Answers(Bare)) /\ main'[d] \in Seq(Answers(Bare))
    BY <1>2, <1>5, <2>4 DEF LinkOver, Quiet
  <2>6. Last(puts[d]).val \in Lists
    <3>1. Last(puts[d]) \in Writes
      BY <1>1, <2>1, QueueTypes, LastIn
    <3>. QED
      BY <3>1 DEF Writes
  <2>7. r \in Answers(Lists) /\ r \in Gets
    BY <2>6 DEF Reply, GetRequest, Answers, Gets, Messages
  <2>8. rest \in Seq(Answers(Lists))
    BY <1>1
  <2>. HIDE DEF r
  <2>9. Of(main'[d], Gets) # {}
    <3>1. Of(Append(rest, r), Gets) = Of(rest, Gets) \cup {r}
      BY <2>7, <2>8, OfAppend
    <3>. QED
      BY <2>1, <3>1
  <2>10. /\ \A m : LastOf(toClient'[d], Gets, m) => Tells(m, store', screen'[d])
         /\ \A m : LastOf(main'[d], Gets, m) => Tells(m, store', screen'[d])
    BY <2>5, BareTells
  <2>. QED
    BY <2>9, <2>10 DEF Final
<1>7. CASE SendGet(d, call, rest)
  <2>. DEFINE r == GetRequest(call)
  <2>1. r \in Messages /\ r \in Gets
    BY DEF GetRequest, Messages, Requests, Gets
  <2>2. toServer'[d] = Append(toServer[d], r)
    BY <1>1, <1>7 DEF SendGet, LinkOver
  <2>3. toServer[d] \in Seq(Messages)
    BY <1>1, QueueTypes
  <2>. HIDE DEF r
  <2>4. Of(toServer'[d], Gets) = Of(toServer[d], Gets) \cup {r}
    BY <2>1, <2>2, <2>3, OfAppend
  <2>. QED
    BY <2>4 DEF Final
<1>8. CASE HoldGet(d, call, rest)
  <2>1. waitingGets'[d] = Append(waitingGets[d], call) /\ waitingGets[d] \in Seq(ReadCalls)
    BY <1>1, <1>8 DEF HoldGet, LinkOver
  <2>2. waitingGets'[d] # <<>>
    BY <2>1, AppendLast
  <2>. QED
    BY <2>2 DEF Final
<1>. QED
  BY <1>6, <1>7, <1>8 DEF GetData

\* The rest of the main queue, wherever its lists are from.
LEMMA RestIn ==
  ASSUME NEW d \in Devices, main[d] # <<>>
  PROVE  \A L : LinkOver(L) => Tail(main[d]) \in Seq(Answers(L))
<1>1. ASSUME NEW L, LinkOver(L)
      PROVE  Tail(main[d]) \in Seq(Answers(L))
  BY <1>1, HeadTailIn DEF LinkOver
<1>. QED
  BY <1>1

LEMMA CallbackSettles ==
  ASSUME TypeOK, NEW d \in Devices, SettleInv(d), RunCallback(d)
  PROVE  SettleInv(d)'
<1>. DEFINE answer == Head(main[d])
            rest == Tail(main[d])
            others == Named(puts[d]) \cup Asked(waitingGets[d]) \cup Named(toServer[d])
                        \cup Named(toClient[d])
<1>1. LinkOver(Lists) /\ ViewOK /\ main[d] # <<>>
  BY DEF TypeOK, RunCallback, AddRead, RemoveRead, Written,
         RegistrationWritten, Checked, Callback
<1>2. /\ answer \in Answers(Lists) /\ rest \in Seq(Answers(Lists))
      /\ main[d] \in Seq(Answers(Lists))
  BY <1>1, HeadTailIn DEF LinkOver
<1>3. answer.call \in ReadCalls \cup WriteCalls
  BY <1>2 DEF Answers
<1>4. UnderWay(d) = others \cup {answer.call} \cup Named(rest)
  <2>1. Named(main[d]) = {answer.call} \cup Named(rest)
    BY <1>1, <1>2, NamedTail
  <2>. QED
    BY <2>1 DEF UnderWay
<1>5. answer.call.op # "register" =>
        /\ [answer.call EXCEPT !.op = "check"] \in ReadCalls
        /\ answer.call.op \in {"add", "remove"} => answer.call \in WriteCalls
  BY <1>3 DEF ReadCalls, WriteCalls, Registration
<1>. HIDE DEF others
<1>6. ASSUME Refresh(d), answer.call.op # "register", UNCHANGED viewVars
      PROVE  SettleInv(d)'
  <2>. DEFINE call == [answer.call EXCEPT !.op = "check"]
  <2>1. call \in ReadCalls /\ GetData(d, call, rest)
    BY <1>5, <1>6 DEF Refresh
  <2>2. \A L : LinkOver(L) => rest \in Seq(Answers(L))
    BY <1>1, RestIn
  <2>3. screen' = screen /\ visit' = visit /\ screen' \in [Devices -> Cities \cup {NoCity}]
    BY <1>1, <1>6 DEF viewVars, ViewOK
  <2>4. ASSUME screen[d] # NoCity
        PROVE  call \in PageCalls(d) /\ UnderWay(d) \subseteq PageCalls(d)
    <3>1. UnderWay(d) \subseteq PageCalls(d) /\ answer.call \in PageCalls(d)
      BY <1>4, <2>4 DEF SettleInv, OfPage
    <3>. QED
      BY <1>6, <3>1 DEF PageCalls, Registration
  <2>. HIDE DEF call
  <2>5. FreshInv(d)' /\ LastWord(d)'
    BY <2>1, <2>2, <2>3, GetDataSettles DEF SettleInv
  <2>6. UnderWay(d)' = others \cup Named(rest) \cup {call}
    BY <1>1, <1>2, <2>1, GetDataCalls DEF others
  <2>7. PageCalls(d)' = PageCalls(d)
    BY <2>3 DEF PageCalls
  <2>8. OfPage(d)'
    BY <1>4, <2>3, <2>4, <2>6, <2>7 DEF OfPage
  <2>. QED
    BY <2>5, <2>8 DEF SettleInv
<1>7. ASSUME NEW val \in Lists, SetValue(d, val, answer.call, rest),
             answer.call.op \in {"add", "remove"}, UNCHANGED viewVars
      PROVE  SettleInv(d)'
  <2>1. answer.call \in WriteCalls
    BY <1>5, <1>7
  <2>2. /\ UnderWay(d)' = others \cup Named(rest) \cup {answer.call}
        /\ Last(puts'[d]).call = answer.call
    BY <1>1, <1>2, <1>7, <2>1, SetValueCalls DEF others
  <2>3. FreshInv(d)'
    BY <1>7, <2>2 DEF FreshInv, Fresh, Registration
  <2>4. LastWord(d)'
    BY <1>7, <2>2 DEF LastWord, Quiet, Changing
  <2>5. OfPage(d)'
    BY <1>4, <1>7, <2>2 DEF SettleInv, OfPage, PageCalls, viewVars
  <2>. QED
    BY <2>3, <2>4, <2>5 DEF SettleInv
<1>8. CASE AddRead(d)
  <2>1. answer.call.op = "add" /\ answer.type = "get" /\ UNCHANGED viewVars
    BY <1>8 DEF AddRead, Callback
  <2>2. CASE answer.ok /\ ~HasCity(answer.val, answer.call.city)
    <3>1. answer.val \in Lists /\ answer.call \in ReadCalls
      BY <1>2, <2>1, <2>2 DEF Answers
    <3>2. WithCity(answer.val, answer.call.city) \in Lists
      BY <2>2, <3>1, ListsClosed DEF Closed, ClosedFor, ReadCalls
    <3>. QED
      BY <1>7, <1>8, <2>1, <2>2, <3>2 DEF AddRead
  <2>3. CASE ~(answer.ok /\ ~HasCity(answer.val, answer.call.city))
    BY <1>6, <1>8, <2>1, <2>3 DEF AddRead
  <2>. QED
    BY <2>2, <2>3
<1>9. CASE RemoveRead(d)
  <2>1. answer.call.op = "remove" /\ answer.type = "get" /\ UNCHANGED viewVars
    BY <1>9 DEF RemoveRead, Callback
  <2>2. CASE answer.ok /\ HasCity(answer.val, answer.call.city)
    <3>1. answer.val \in Lists /\ answer.call \in ReadCalls
      BY <1>2, <2>1, <2>2 DEF Answers
    <3>2. WithoutCity(answer.val, answer.call.city) \in Lists
      BY <2>2, <3>1, ListsClosed DEF Closed, ClosedFor, ReadCalls
    <3>. QED
      BY <1>7, <1>9, <2>1, <2>2, <3>2 DEF RemoveRead
  <2>3. CASE ~(answer.ok /\ HasCity(answer.val, answer.call.city))
    BY <1>6, <1>9, <2>1, <2>3 DEF RemoveRead
  <2>. QED
    BY <2>2, <2>3
<1>10. CASE Written(d)
  BY <1>6, <1>10 DEF Written, Callback
<1>11. ASSUME main' = [main EXCEPT ![d] = rest],
              UNCHANGED <<store, online, puts, waitingGets, toServer, toClient>>,
              UNCHANGED <<screen, visit>>, answer.call.op \in {"check", "register"}
       PROVE  /\ OfPage(d)' /\ FreshInv(d)' /\ main'[d] = rest
              /\ Changing(d)' <=> Changing(d)
  <2>1. main'[d] = rest
    BY <1>1, <1>11 DEF LinkOver
  <2>2. UnderWay(d)' = others \cup Named(rest)
    BY <1>11, <2>1 DEF UnderWay, others
  <2>3. OfPage(d)'
    BY <1>4, <1>11, <2>2 DEF SettleInv, OfPage, PageCalls
  <2>4. Changing(d)' <=> Changing(d)
    BY <1>4, <1>11, <2>2 DEF Changing
  <2>5. FreshInv(d)'
    <3>1. SUFFICES ASSUME LinkOver(Bare) PROVE LinkOver(Bare)'
      BY <1>11 DEF SettleInv, FreshInv, Fresh
    <3>2. rest \in Seq(Answers(Bare))
      BY <1>1, <3>1, RestIn
    <3>. QED
      BY <1>11, <3>1, <3>2 DEF LinkOver
  <2>. QED
    BY <2>1, <2>3, <2>4, <2>5
<1>12. main[d] \in Seq(Messages) /\ answer \in Messages
  BY <1>1, <1>2, QueueTypes DEF Messages
<1>13. /\ Of(main[d], Gets) = Of(rest, Gets) \cup (IF answer \in Gets THEN {answer} ELSE {})
       /\ \A m : LastOf(rest, Gets, m) => LastOf(main[d], Gets, m)
       /\ Of(rest, Gets) = {} /\ answer \in Gets => LastOf(main[d], Gets, answer)
  BY <1>1, <1>12, KindsTail
<1>14. CASE RegistrationWritten(d)
  <2>1. /\ OfPage(d)' /\ FreshInv(d)' /\ main'[d] = rest
        /\ Changing(d)' <=> Changing(d)
    BY <1>11, <1>14 DEF RegistrationWritten, Callback, viewVars
  <2>2. answer \notin Gets
    BY <1>14 DEF RegistrationWritten, Callback, Gets
  <2>3. Final(d) => Final(d)'
    BY <1>13, <1>14, <2>1, <2>2 DEF Final, RegistrationWritten, viewVars
  <2>4. Quiet(d)' => Quiet(d)
    BY <1>14, <2>1 DEF Quiet, RegistrationWritten, viewVars
  <2>. QED
    BY <2>1, <2>3, <2>4 DEF SettleInv, LastWord
<1>15. CASE Checked(d)
  <2>1. /\ OfPage(d)' /\ FreshInv(d)' /\ main'[d] = rest
        /\ Changing(d)' <=> Changing(d)
    BY <1>11, <1>15 DEF Checked, Callback
  <2>2. answer \in Gets /\ answer.call.op = "check"
    BY <1>12, <1>15 DEF Checked, Callback, Gets
  <2>3. SUFFICES ASSUME Quiet(d)'
                 PROVE  Final(d)'
    BY <2>1 DEF SettleInv, LastWord
  <2>4. screen' = screen /\ visit' = visit /\ screen[d] # NoCity
    BY <1>15, <2>3 DEF Checked, Quiet
  <2>5. answer.call.city = screen[d] /\ OfThisScreen(d, answer.call)
    <3>1. answer.call \in PageCalls(d)
      BY <1>4, <2>4 DEF SettleInv, OfPage
    <3>. QED
      BY <2>2, <2>4, <3>1 DEF PageCalls, Registration, OfThisScreen
  <2>6. /\ ~unanswered[d] /\ answer.ok
        /\ isInFavorites'[d] <=> HasCity(answer.val, screen[d])
    BY <1>1, <1>15, <2>3, <2>5 DEF Checked, ViewOK, Quiet
  <2>7. Final(d)
    BY <2>1, <2>3, <2>4, <2>6 DEF SettleInv, LastWord, Quiet
  <2>8. UNCHANGED <<store, waitingGets, toServer, toClient>>
    BY <1>15 DEF Checked
  <2>. QED
    BY <1>13, <2>1, <2>2, <2>4, <2>6, <2>7, <2>8 DEF Final, Tells
<1>. QED
  BY <1>8, <1>9, <1>10, <1>14, <1>15 DEF RunCallback

-----------------------------------------------------------------------------
(* The link.                                                               *)

\* A registration that is written replaces one list without cities by
\* another.
LEMMA QuietWrite ==
  ASSUME TypeOK, NEW d \in Devices, OrderInv(d), FreshInv(d), ~Changing(d),
         ServerAcceptsPut(d)
  PROVE  store \in Bare /\ store' \in Bare
<1>1. /\ toServer[d] \in Seq(Messages) /\ toClient[d] \in Seq(Messages)
      /\ puts[d] \in Seq(Writes) /\ toServer[d] # <<>> /\ Head(toServer[d]).type = "put"
  BY QueueTypes DEF TypeOK, ServerAcceptsPut
<1>2. online[d] /\ InOrder(toClient[d] \o toServer[d], puts[d])
  BY <1>1 DEF OrderInv
<1>3. puts[d] # <<>>
  <2>. DEFINE s == toClient[d]
              t == toServer[d]
              w == puts[d]
              u == s \o t
  <2>1. PICK at : Carries(u, w, at)
    BY <1>2 DEF InOrder
  <2>. HIDE DEF s, t, w
  <2>10. s \in Seq(Messages) /\ t \in Seq(Messages) /\ t # <<>>
    BY <1>1 DEF s, t
  <2>11. Len(s) \in Nat /\ Len(t) \in Nat \ {0} /\ Head(t) = t[1]
    BY <2>10, LenProperties, TailProperties
  <2>12. Len(u) = Len(s) + Len(t)
    BY <2>10, ConcatProperties
  <2>13. \A i \in 1..Len(s) + Len(t) : u[i] = IF i <= Len(s) THEN s[i] ELSE t[i - Len(s)]
    BY <2>10, ConcatProperties
  <2>2. /\ Len(s) \in Nat /\ Len(t) \in Nat \ {0} /\ Len(u) = Len(s) + Len(t)
        /\ Head(t) = t[1]
        /\ \A i \in 1..Len(s) + Len(t) : u[i] = IF i <= Len(s) THEN s[i] ELSE t[i - Len(s)]
    BY <2>11, <2>12, <2>13
  <2>3. /\ Len(s) + 1 \in 1..Len(s) + Len(t) /\ ~(Len(s) + 1 <= Len(s))
        /\ (Len(s) + 1) - Len(s) = 1
    BY <2>2
  <2>4. u[Len(s) + 1] = Head(t)
    BY <2>2, <2>3
  <2>. HIDE DEF u
  <2>5. Len(s) + 1 \in PutsAt(u)
    BY <1>1, <2>2, <2>3, <2>4 DEF PutsAt, t
  <2>6. PICK i \in 1..Len(w) : at[i] = Len(s) + 1
    BY <2>1, <2>5 DEF Carries
  <2>7. Len(w) # 0
    BY <2>6
  <2>. QED
    BY <2>7 DEF w
<1>4. \A call \in Named(puts[d]) : call.op \notin {"add", "remove"}
  BY DEF Changing, UnderWay
<1>5. Fresh(d)
  BY <1>1, <1>3, <1>4, OnlyRegistration DEF Fresh
<1>6. LinkOver(Bare)
  BY <1>5 DEF FreshInv
<1>7. Head(toServer[d]) \in Requests(Bare)
  BY <1>1, <1>6, HeadTailIn DEF LinkOver
<1>. QED
  BY <1>1, <1>6, <1>7 DEF LinkOver, ServerAcceptsPut, Requests

LEMMA LinkSettles ==
  ASSUME TypeOK, NEW d \in Devices, OrderInv(d), SettleInv(d), Link(d)
  PROVE  SettleInv(d)'
<1>. DEFINE g == waitingGets[d]
            t == toServer[d]
            s == toClient[d]
            h == main[d]
<1>1. LinkOver(Lists) /\ ViewOK /\ LinkStep(d)
  BY DEF TypeOK, Link
<1>2. /\ g \in Seq(ReadCalls) /\ t \in Seq(Messages) /\ s \in Seq(Messages)
      /\ h \in Seq(Messages)
  BY <1>1, QueueTypes
<1>3. screen' = screen /\ visit' = visit /\ isInFavorites' = isInFavorites
      /\ unanswered' = unanswered
  BY DEF Link, viewVars
<1>4. UnderWay(d)' = UnderWay(d)
  BY <1>1, LinkCalls
<1>5. OfPage(d)'
  BY <1>3, <1>4 DEF SettleInv, OfPage, PageCalls
<1>6. FreshInv(d)'
  <2>1. Fresh(d)' => Fresh(d)
    <3>1. CASE PutAcknowledged(d)
      <4>1. puts[d] # <<>> /\ puts'[d] = Tail(puts[d]) /\ puts[d] \in Seq(Writes)
        BY <1>1, <3>1, QueueTypes DEF PutAcknowledged, LinkOver
      <4>. QED
        BY <4>1, LastOfRest DEF Fresh
    <3>2. CASE ~PutAcknowledged(d)
      <4>1. puts' = puts
        BY <1>1, <3>2 DEF LinkStep, ServerAcceptsPut, ServerAnswersGet, ServerDenies,
                          ServerReplies, GetAnswered, GetTimesOut, Reconnect
      <4>. QED
        BY <4>1 DEF Fresh
    <3>. QED
      BY <3>1, <3>2
  <2>. QED
    BY <1>1, <2>1, LinkStepKeeps DEF SettleInv, FreshInv
<1>7. SUFFICES ASSUME Quiet(d), Final(d)
               PROVE  Final(d)'
  BY <1>3, <1>4, <1>5, <1>6 DEF SettleInv, LastWord, Quiet, Changing
<1>. DEFINE c == screen[d]
            Right(m) == Tells(m, store, c)
<1>8. /\ c \in Cities
      /\ g = <<>> /\ Of(t, Gets) = {} =>
           /\ \A m : LastOf(s, Gets, m) => Right(m)
           /\ Of(s, Gets) = {} => \A m : LastOf(h, Gets, m) => Right(m)
           /\ Of(s, Gets) = {} /\ Of(h, Gets) = {} => (isInFavorites[d] <=> HasCity(store, c))
  BY <1>1, <1>7 DEF Quiet, ViewOK, Final
\* The server takes a request and replies to it.
<1>9. ASSUME NEW ok, NEW val, ServerReplies(d, ok, val), t # <<>>,
             Reply(Head(t), ok, val) \in Messages,
             HasCity(store', c) <=> HasCity(store, c),
             Head(t).type = "get" => Tells(Reply(Head(t), ok, val), store, c)
      PROVE  Final(d)'
  <2>. DEFINE r == Reply(Head(t), ok, val)
  <2>1. s' = Append(s, r) /\ t' = Tail(t)
    BY <1>1, <1>9 DEF ServerReplies, LinkOver
  <2>2. Head(t) \in Messages /\ r.type = Head(t).type
    BY <1>2, <1>9, HeadTailIn DEF Reply
  <2>3. Head(t) \in Gets <=> r \in Gets
    BY <1>9, <2>2 DEF Gets
  <2>4. r \in Messages /\ (r \in Gets => Right(r))
    BY <1>9, <2>2, <2>3 DEF Gets
  <2>6. \A m : Tells(m, store', c) <=> Right(m)
    BY <1>9 DEF Tells
  <2>. HIDE DEF r
  <2>7. Of(t, Gets) = Of(t', Gets) \cup (IF Head(t) \in Gets THEN {Head(t)} ELSE {})
    BY <1>2, <1>9, <2>1, KindsTail
  <2>8. /\ Of(s', Gets) = Of(s, Gets) \cup (IF r \in Gets THEN {r} ELSE {})
        /\ \A m : LastOf(s', Gets, m) <=> IF r \in Gets THEN m = r ELSE LastOf(s, Gets, m)
    BY <1>2, <2>1, <2>4, KindsAppend
  <2>9. h' = h /\ g' = g /\ (HasCity(store', c) <=> HasCity(store, c))
    BY <1>9 DEF ServerReplies
  <2>10. CASE r \in Gets
    <3>1. Of(s', Gets) # {} /\ \A m : LastOf(s', Gets, m) => Right(m)
      BY <2>4, <2>8, <2>10
    <3>. QED
      BY <1>3, <2>6, <3>1 DEF Final
  <2>11. CASE r \notin Gets
    <3>1. Of(t', Gets) = Of(t, Gets) /\ Of(s', Gets) = Of(s, Gets)
      BY <2>3, <2>7, <2>8, <2>11
    <3>2. \A m : LastOf(s', Gets, m) <=> LastOf(s, Gets, m)
      BY <2>8, <2>11
    <3>. QED
      BY <1>3, <1>8, <2>6, <2>9, <3>1, <3>2 DEF Final
  <2>. QED
    BY <2>10, <2>11
<1>10. ASSUME t # <<>> PROVE Head(t) \in Requests(Lists)
  BY <1>1, <1>10, HeadTailIn DEF LinkOver
<1>11. CASE ServerAcceptsPut(d)
  <2>1. t # <<>> /\ Head(t).type = "put" /\ ServerReplies(d, TRUE, NoValue)
    BY <1>11 DEF ServerAcceptsPut
  <2>2. store \in Bare /\ store' \in Bare
    BY <1>7, <1>11, QuietWrite DEF SettleInv, Quiet
  <2>3. HasCity(store', c) <=> HasCity(store, c)
    BY <1>8, <2>2, BareLists
  <2>4. Reply(Head(t), TRUE, NoValue) \in Messages
    BY <1>10, <2>1 DEF Reply, Requests, Answers, Messages
  <2>. QED
    BY <1>9, <2>1, <2>3, <2>4
<1>12. CASE ServerAnswersGet(d)
  <2>1. t # <<>> /\ Head(t).type = "get" /\ ServerReplies(d, TRUE, store) /\ store' = store
    BY <1>12 DEF ServerAnswersGet
  <2>2. Reply(Head(t), TRUE, store) \in Messages
    BY <1>1, <1>10, <2>1 DEF Reply, Requests, Answers, Messages, LinkOver
  <2>3. Tells(Reply(Head(t), TRUE, store), store, c)
    BY DEF Tells, Reply
  <2>. QED
    BY <1>9, <2>1, <2>2, <2>3
<1>13. CASE ServerDenies(d)
  <2>1. t # <<>> /\ ServerReplies(d, FALSE, NoValue) /\ store' = store
    BY <1>13 DEF ServerDenies
  <2>2. Reply(Head(t), FALSE, NoValue) \in Messages
    BY <1>10, <2>1 DEF Reply, Requests, Answers, Messages
  <2>3. Tells(Reply(Head(t), FALSE, NoValue), store, c)
    BY DEF Tells, Reply
  <2>. QED
    BY <1>9, <2>1, <2>2, <2>3
\* The library hands an answer to the app.
<1>14. ASSUME s # <<>>, PutAcknowledged(d) \/ GetAnswered(d)
       PROVE  /\ s' = Tail(s) /\ h' = Append(h, Head(s)) /\ Head(s) \in Messages
              /\ UNCHANGED <<store, waitingGets, toServer>>
  BY <1>1, <1>2, <1>14, HeadTailIn DEF PutAcknowledged, GetAnswered, LinkOver
<1>15. ASSUME s # <<>>
       PROVE  /\ Of(s, Gets) = Of(Tail(s), Gets) \cup (IF Head(s) \in Gets THEN {Head(s)} ELSE {})
              /\ \A m : LastOf(Tail(s), Gets, m) => LastOf(s, Gets, m)
              /\ Of(Tail(s), Gets) = {} /\ Head(s) \in Gets => LastOf(s, Gets, Head(s))
  BY <1>2, <1>15, KindsTail
<1>16. ASSUME NEW m \in Messages
       PROVE  /\ Of(Append(h, m), Gets) = Of(h, Gets) \cup (IF m \in Gets THEN {m} ELSE {})
              /\ \A x : LastOf(Append(h, m), Gets, x) <=>
                           IF m \in Gets THEN x = m ELSE LastOf(h, Gets, x)
  BY <1>2, KindsAppend
<1>17. CASE PutAcknowledged(d)
  <2>1. s # <<>> /\ Head(s) \notin Gets
    BY <1>17 DEF PutAcknowledged, Gets
  <2>2. Of(s', Gets) = Of(s, Gets) /\ \A m : LastOf(s', Gets, m) => LastOf(s, Gets, m)
    BY <1>14, <1>15, <1>17, <2>1
  <2>3. Of(h', Gets) = Of(h, Gets) /\ \A m : LastOf(h', Gets, m) <=> LastOf(h, Gets, m)
    BY <1>14, <1>16, <1>17, <2>1
  <2>4. UNCHANGED <<store, waitingGets, toServer>>
    BY <1>14, <1>17, <2>1
  <2>. QED
    BY <1>3, <1>8, <2>2, <2>3, <2>4 DEF Final
<1>18. CASE GetAnswered(d)
  <2>1. s # <<>> /\ Head(s).type = "get"
    BY <1>18 DEF GetAnswered
  <2>2. /\ s' = Tail(s) /\ h' = Append(h, Head(s)) /\ Head(s) \in Gets
        /\ UNCHANGED <<store, waitingGets, toServer>>
    BY <1>14, <1>18, <2>1 DEF Gets
  <2>3. /\ \A m : LastOf(s', Gets, m) => LastOf(s, Gets, m)
        /\ Of(s', Gets) = {} => LastOf(s, Gets, Head(s))
    BY <1>15, <2>1, <2>2
  <2>4. Of(h', Gets) # {} /\ \A m : LastOf(h', Gets, m) <=> m = Head(s)
    BY <1>14, <1>16, <1>18, <2>1, <2>2
  <2>. QED
    BY <1>3, <1>8, <2>2, <2>3, <2>4 DEF Final
<1>19. CASE GetTimesOut(d)
  <2>. DEFINE r == Reply(GetRequest(Head(g)), FALSE, NoValue)
  <2>1. g # <<>> /\ ~online[d] /\ h' = Append(h, r)
    BY <1>1, <1>19 DEF GetTimesOut, LinkOver
  <2>2. Head(g) \in ReadCalls
    BY <1>2, <2>1, HeadTailIn
  <2>3. r \in Gets /\ r \in Messages /\ Tells(r, store, c)
    BY <2>2 DEF Reply, GetRequest, Answers, Messages, Gets, Tells
  <2>. HIDE DEF r
  <2>4. Of(h', Gets) # {} /\ \A m : LastOf(h', Gets, m) <=> m = r
    BY <1>16, <2>1, <2>3
  <2>5. s' = <<>> /\ store' = store
    BY <1>19, <2>1 DEF OrderInv, GetTimesOut
  <2>6. \A m : ~LastOf(s', Gets, m)
    BY <2>5, KindsEmpty
  <2>. QED
    BY <1>3, <2>3, <2>4, <2>5, <2>6 DEF Final
<1>20. CASE Reconnect(d)
  <2>. DEFINE w == puts[d]
              p == [i \in 1..Len(w) |-> PutRequest(w[i])]
              q == [i \in 1..Len(g) |-> GetRequest(g[i])]
              R == Requests(Lists)
              G == R \cap Gets
              P == R \ Gets
  <2>1. t' = p \o q /\ t = <<>> /\ UNCHANGED <<store, toClient, main>>
    BY <1>1, <1>20 DEF Reconnect, LinkOver, OrderInv
  <2>2. w \in Seq(Writes) /\ Len(w) \in Nat /\ Len(g) \in Nat
    BY <1>1, <1>2, QueueTypes, LenProperties
  <2>3. p \in Seq(P)
    <3>1. ASSUME NEW i \in 1..Len(w) PROVE PutRequest(w[i]) \in P
      <4>1. w[i] \in Writes
        BY <2>2, ElementOfSeq
      <4>. QED
        BY <4>1 DEF PutRequest, Writes, Requests, Gets
    <3>. HIDE DEF w, P
    <3>. QED
      BY <2>2, <3>1, SeqDef
  <2>4. q \in Seq(G) /\ Len(q) = Len(g)
    <3>1. ASSUME NEW i \in 1..Len(g) PROVE GetRequest(g[i]) \in G
      <4>1. g[i] \in ReadCalls
        BY <1>2, ElementOfSeq
      <4>. QED
        BY <4>1 DEF GetRequest, Requests, Gets, Messages
    <3>. HIDE DEF g, G
    <3>. QED
      BY <2>2, <3>1, SeqDef
  <2>. HIDE DEF p, q, R
  <2>5. CASE g = <<>>
    <3>1. q = <<>>
      BY <2>4, <2>5, EmptySeq
    <3>2. t' = p
      BY <2>1, <2>3, <3>1, ConcatEmptySeq
    <3>3. Of(t', Gets) = {} /\ Of(t, Gets) = {}
      BY <2>1, <2>3, <3>2, KindsNone, KindsEmpty
    <3>. QED
      BY <1>3, <1>8, <2>1, <2>5, <3>3 DEF Final
  <2>6. CASE g # <<>>
    <3>1. Len(g) # 0
      BY <1>2, <2>6, EmptySeq
    <3>2. q # <<>>
      BY <2>4, <3>1
    <3>3. G \subseteq Gets
      OBVIOUS
    <3>. HIDE DEF G, P
    <3>4. Of(p \o q, Gets) # {}
      BY <2>3, <2>4, <3>2, <3>3, KindsConcat
    <3>. QED
      BY <2>1, <3>4 DEF Final
  <2>. QED
    BY <2>5, <2>6
<1>. QED
  BY <1>1, <1>11, <1>12, <1>13, <1>17, <1>18, <1>19, <1>20 DEF LinkStep

-----------------------------------------------------------------------------
(* The user and the platform.                                              *)

LEMMA OpenSettles ==
  ASSUME TypeOK, Overlap = FALSE, NEW d \in Devices, SettleInv(d),
         NEW c \in Cities, OpenCity(d, c)
  PROVE  SettleInv(d)'
<1>. DEFINE call == [op |-> "check", city |-> c, visit |-> visit[d] + 1]
<1>1. LinkOver(Lists) /\ ViewOK /\ Idle(d)
  BY DEF TypeOK, OpenCity
<1>2. call \in ReadCalls
  BY <1>1, BoundsAssumption DEF ReadCalls, ViewOK
<1>3. \A L : LinkOver(L) => main[d] \in Seq(Answers(L))
  BY DEF LinkOver
<1>4. /\ GetData(d, call, main[d])
      /\ screen' \in [Devices -> Cities \cup {NoCity}]
      /\ screen'[d] = c /\ visit'[d] = visit[d] + 1
  BY <1>1 DEF OpenCity, ViewOK
<1>5. call \in PageCalls(d)'
  BY <1>4 DEF PageCalls
<1>. HIDE DEF call
<1>6. FreshInv(d)' /\ LastWord(d)'
  BY <1>2, <1>3, <1>4, GetDataSettles DEF SettleInv
<1>7. UnderWay(d)' = Named(puts[d]) \cup Asked(waitingGets[d]) \cup Named(toServer[d])
                       \cup Named(toClient[d]) \cup Named(main[d]) \cup {call}
  BY <1>1, <1>2, <1>3, <1>4, GetDataCalls
<1>8. UnderWay(d)' = {call}
  BY <1>1, <1>7, NamedEmpty DEF Idle
<1>. QED
  BY <1>5, <1>6, <1>8 DEF SettleInv, OfPage

LEMMA TapSettles ==
  ASSUME TypeOK, NEW d \in Devices, SettleInv(d), TapFavorite(d)
  PROVE  SettleInv(d)'
<1>. DEFINE call == [op |-> IF isInFavorites[d] THEN "remove" ELSE "add",
                     city |-> screen[d], visit |-> visit[d]]
<1>1. LinkOver(Lists) /\ ViewOK /\ screen[d] # NoCity
  BY DEF TypeOK, TapFavorite
<1>2. call \in ReadCalls /\ call \in PageCalls(d)
  BY <1>1, BoundsAssumption DEF ReadCalls, PageCalls, ViewOK
<1>3. \A L : LinkOver(L) => main[d] \in Seq(Answers(L))
  BY DEF LinkOver
<1>4. /\ GetData(d, call, main[d]) /\ screen' = screen /\ visit' = visit
      /\ screen' \in [Devices -> Cities \cup {NoCity}]
  BY <1>1 DEF TapFavorite, ViewOK
<1>. HIDE DEF call
<1>5. FreshInv(d)' /\ LastWord(d)'
  BY <1>2, <1>3, <1>4, GetDataSettles DEF SettleInv
<1>6. UnderWay(d)' = UnderWay(d) \cup {call}
  BY <1>1, <1>2, <1>3, <1>4, GetDataCalls DEF UnderWay
<1>7. UnderWay(d) \subseteq PageCalls(d)
  BY <1>1 DEF SettleInv, OfPage
<1>. QED
  BY <1>2, <1>4, <1>5, <1>6, <1>7 DEF SettleInv, OfPage, PageCalls

LEMMA LeavingSettles ==
  ASSUME TypeOK, NEW d \in Devices, SettleInv(d), CloseCity(d) \/ KillAndRestart(d)
  PROVE  SettleInv(d)'
<1>1. screen'[d] = NoCity
  BY DEF TypeOK, ViewOK, CloseCity, KillAndRestart
<1>2. FreshInv(d)'
  <2>1. CASE CloseCity(d)
    BY <2>1 DEF CloseCity, linkVars, SettleInv, FreshInv, Fresh, LinkOver
  <2>2. CASE KillAndRestart(d)
    BY <2>2 DEF TypeOK, LinkOver, KillAndRestart, KillApp, FreshInv, Fresh
  <2>. QED
    BY <2>1, <2>2
<1>. QED
  BY <1>1, <1>2 DEF SettleInv, OfPage, LastWord, Quiet

\* With no read in flight the connection carries outstanding writes only.
LEMMA OnlyWritesInFlight ==
  ASSUME NEW s \in Seq(Messages), NEW t \in Seq(Messages), NEW w \in Seq(Writes),
         InOrder(s \o t, w), Of(s, Gets) = {}, Of(t, Gets) = {}
  PROVE  Named(s) \cup Named(t) \subseteq Named(w)
<1>. DEFINE u == s \o t
<1>1. /\ Len(s) \in Nat /\ Len(t) \in Nat /\ Len(u) = Len(s) + Len(t)
      /\ \A i \in 1..Len(s) + Len(t) : u[i] = IF i <= Len(s) THEN s[i] ELSE t[i - Len(s)]
  BY ConcatProperties, LenProperties
<1>2. PICK at : Carries(u, w, at)
  BY DEF InOrder
<1>3. Named(u) = Named(s) \cup Named(t)
  BY NamedConcat
<1>. HIDE DEF u
<1>4. ASSUME NEW q \in Seq(Messages), Of(q, Gets) = {}, NEW j \in 1..Len(q)
      PROVE  q[j] \in Messages /\ q[j] \notin Gets
  <2>1. q[j] \in Messages
    BY ElementOfSeq
  <2>2. q[j] \in Gets => q[j] \in Of(q, Gets)
    BY DEF Of, At
  <2>. QED
    BY <1>4, <2>1, <2>2
<1>5. ASSUME NEW i \in 1..Len(u)
      PROVE  u[i].call \in Named(w)
  <2>1. u[i] \in Messages /\ u[i] \notin Gets
    <3>1. CASE i <= Len(s)
      <4>1. i \in 1..Len(s) /\ u[i] = s[i]
        BY <1>1, <1>5, <3>1
      <4>2. s[i] \in Messages /\ s[i] \notin Gets
        BY <1>4, <4>1
      <4>. QED
        BY <4>1, <4>2
    <3>2. CASE ~(i <= Len(s))
      <4>1. i - Len(s) \in 1..Len(t) /\ u[i] = t[i - Len(s)]
        BY <1>1, <1>5, <3>2
      <4>2. t[i - Len(s)] \in Messages /\ t[i - Len(s)] \notin Gets
        BY <1>4, <4>1
      <4>. QED
        BY <4>1, <4>2
    <3>. QED
      BY <3>1, <3>2
  <2>2. u[i].type = "put"
    BY <2>1 DEF Gets, Messages, Requests, Answers
  <2>3. PICK j \in 1..Len(w) : at[j] = i
    BY <1>2, <2>2 DEF Carries, PutsAt
  <2>4. u[i].call = w[j].call
    BY <1>2, <2>3 DEF Carries
  <2>. QED
    BY <2>4 DEF Named
<1>. QED
  BY <1>3, <1>5 DEF Named

LEMMA BreakSettles ==
  ASSUME TypeOK, NEW d \in Devices, OrderInv(d), SettleInv(d), BreakConnection(d)
  PROVE  SettleInv(d)'
<1>. DEFINE t == toServer[d]
            s == toClient[d]
            lost == {m \in ToSet(t) \cup ToSet(s) : m.type = "get" /\ m.call.visit = visit[d]}
<1>1. LinkOver(Lists) /\ ViewOK /\ Disconnect(d) /\ online[d]
  BY DEF TypeOK, BreakConnection, Disconnect
<1>2. /\ t \in Seq(Messages) /\ s \in Seq(Messages) /\ puts[d] \in Seq(Writes)
  BY <1>1, QueueTypes
<1>3. /\ t' = <<>> /\ s' = <<>>
      /\ UNCHANGED <<store, puts, waitingGets, main>>
      /\ UNCHANGED <<screen, visit, isInFavorites>>
  BY <1>1 DEF BreakConnection, Disconnect, LinkOver
<1>4. UnderWay(d)' = Named(puts[d]) \cup Asked(waitingGets[d]) \cup Named(main[d])
  BY <1>3, NamedEmpty DEF UnderWay
<1>5. OfPage(d)'
  BY <1>3, <1>4 DEF SettleInv, OfPage, PageCalls, UnderWay
<1>6. FreshInv(d)'
  <2>1. Fresh(d)' <=> Fresh(d)
    BY <1>3 DEF Fresh
  <2>. QED
    BY <1>1, <2>1, DisconnectKeeps DEF SettleInv, FreshInv
<1>7. SUFFICES ASSUME Quiet(d)'
               PROVE  Final(d)'
  BY <1>5, <1>6 DEF SettleInv, LastWord
<1>8. screen[d] # NoCity /\ ~unanswered[d] /\ lost = {}
  BY <1>1, <1>3, <1>7 DEF BreakConnection, Quiet, ViewOK
<1>9. ASSUME NEW q \in Seq(Messages), ToSet(q) \subseteq ToSet(t) \cup ToSet(s),
             Named(q) \subseteq UnderWay(d)
      PROVE  Of(q, Gets) = {}
  <2>1. SUFFICES ASSUME NEW i \in 1..Len(q), q[i] \in Gets
                 PROVE  FALSE
    BY DEF Of, At
  <2>2. q[i] \in Messages /\ q[i].type = "get" /\ q[i].call \in ReadCalls
    BY <2>1 DEF Gets, Messages, Requests, Answers
  <2>3. q[i].call \in PageCalls(d)
    BY <1>8, <1>9 DEF SettleInv, OfPage, Named
  <2>4. q[i].call.visit = visit[d]
    BY <2>2, <2>3 DEF PageCalls, ReadCalls, Registration
  <2>5. q[i] \in ToSet(q)
    BY DEF ToSet
  <2>. QED
    BY <1>8, <1>9, <2>2, <2>4, <2>5
<1>10. Of(t, Gets) = {} /\ Of(s, Gets) = {}
  BY <1>2, <1>9 DEF UnderWay
<1>11. Named(s) \cup Named(t) \subseteq Named(puts[d])
  BY <1>1, <1>2, <1>10, OnlyWritesInFlight DEF OrderInv
<1>12. UnderWay(d)' = UnderWay(d)
  BY <1>4, <1>11 DEF UnderWay
<1>13. Final(d)
  BY <1>3, <1>7, <1>8, <1>12 DEF SettleInv, LastWord, Quiet, Changing
<1>. QED
  BY <1>3, <1>10, <1>13, KindsEmpty DEF Final

LEMMA SettleKept ==
  ASSUME Overlap = FALSE, \A d, e \in Devices : d = e,
         TypeOK, NEW d \in Devices, OrderInv(d), SettleInv(d), [Next]_vars
  PROVE  SettleInv(d)'
<1>1. CASE UNCHANGED vars
  BY <1>1 DEF vars, linkVars, viewVars, SettleInv, OfPage, PageCalls, UnderWay, FreshInv,
              Fresh, LinkOver, LastWord, Quiet, Changing, Final
<1>2. ASSUME NEW e \in Devices,
             \/ \E c \in Cities : OpenCity(e, c)
             \/ CloseCity(e) \/ TapFavorite(e) \/ RunCallback(e)
             \/ Link(e) \/ BreakConnection(e) \/ KillAndRestart(e)
      PROVE  SettleInv(d)'
  <2>1. e = d
    OBVIOUS
  <2>. QED
    BY <1>2, <2>1, OpenSettles, TapSettles, LeavingSettles, CallbackSettles,
       LinkSettles, BreakSettles
<1>. QED
  BY <1>1, <1>2 DEF Next

LEMMA SettleBegins ==
  ASSUME Init, NEW d \in Devices
  PROVE  SettleInv(d)
<1>1. screen[d] = NoCity
  BY DEF Init
<1>2. FreshInv(d)
  <2>1. CASE SettledAccount
    BY <2>1 DEF SettledAccount, FreshInv, Fresh
  <2>2. CASE ~SettledAccount
    BY <2>2, InitOver, BareLists DEF FreshInv
  <2>. QED
    BY <2>1, <2>2
<1>. QED
  BY <1>1, <1>2 DEF SettleInv, OfPage, LastWord, Quiet

(* On the only device of the account, with any number of cities, visits,   *)
(* taps, denials and broken connections: when no city screen is opened     *)
(* while answers are under way, nothing is under way and no answer of the  *)
(* open screen was lost or failed, the button says what the database       *)
(* holds (CityView.checkFavorites, FirebaseAppDataHandler's add and        *)
(* removeFromFavorites and the refresh in their completions).              *)
THEOREM ButtonSettlesHolds ==
  ASSUME Overlap = FALSE, \A d, e \in Devices : d = e
  PROVE  Spec => []ButtonSettles
<1>. DEFINE IInv == TypeOK /\ \A d \in Devices : OrderInv(d) /\ SettleInv(d)
<1>1. Init => IInv
  BY InitialTypes, OrderBegins, SettleBegins
<1>2. IInv /\ [Next]_vars => IInv'
  BY TypesKept, OrderKept, SettleKept
<1>3. IInv => ButtonSettles
  <2>. SUFFICES ASSUME IInv, NEW d \in Devices, Idle(d), screen[d] # NoCity, ~unanswered[d]
                PROVE  isInFavorites[d] <=> HasCity(store, screen[d])
    BY DEF ButtonSettles
  <2>1. UnderWay(d) = {}
    BY NamedEmpty DEF UnderWay, Idle
  <2>2. Final(d)
    BY <2>1 DEF SettleInv, LastWord, Quiet, Changing
  <2>3. \A q \in {waitingGets[d], toServer[d], toClient[d], main[d]} : q = <<>>
    BY DEF Idle
  <2>. QED
    BY <2>2, <2>3, KindsEmpty DEF Final
<1>. QED
  BY <1>1, <1>2, <1>3, PTL DEF Spec

-----------------------------------------------------------------------------
(* Everything under way is for one city.                                   *)

\* The lists that differ from the one stored in c at most.
Around(c) == {l \in Lists : CitiesIn(l) \ {c} = CitiesIn(store) \ {c}}
CallsFor(c) ==
  {call \in ReadCalls \cup WriteCalls : call.city = c \/ call = Registration}
For(d, c) ==
  /\ LinkOver(Around(c)) /\ UnderWay(d) \subseteq CallsFor(c)
  /\ screen[d] # NoCity => screen[d] = c
OneCityInv(d) == \E c \in Cities \cup {NoCity} : For(d, c)

LEMMA AroundClosed ==
  ASSUME NEW c \in Cities
  PROVE  ClosedFor(Around(c), c)
<1>1. ASSUME NEW l \in Around(c)
      PROVE  /\ WithCity(l, c) \in Around(c)
             /\ HasCity(l, c) => WithoutCity(l, c) \in Around(c)
  <2>1. l \in Lists /\ CitiesIn(l) \ {c} = CitiesIn(store) \ {c}
    BY DEF Around
  <2>2. CitiesIn(WithCity(l, c)) \ {c} = CitiesIn(l) \ {c}
    BY <2>1, HasWithCity DEF CitiesIn
  <2>3. HasCity(l, c) => CitiesIn(WithoutCity(l, c)) \ {c} = CitiesIn(l) \ {c}
    BY <2>1, HasWithoutCity DEF CitiesIn
  <2>4. WithCity(l, c) \in Lists /\ (HasCity(l, c) => WithoutCity(l, c) \in Lists)
    BY <2>1, HasWithCity, WithoutCityProperties
  <2>. QED
    BY <2>1, <2>2, <2>3, <2>4 DEF Around
<1>. QED
  BY <1>1 DEF ClosedFor

\* When the value stored next is around c as well, so are the others.
LEMMA AroundNext ==
  ASSUME NEW c, store' \in Around(c)
  PROVE  (Around(c))' = Around(c)
BY DEF Around

\* With nothing under way any city will do.
LEMMA NothingUnderWay ==
  ASSUME LinkOver(Lists), \A d, e \in Devices : d = e, NEW d \in Devices, Idle(d),
         NEW c
  PROVE  LinkOver(Around(c))
<1>1. store \in Around(c)
  BY DEF LinkOver, Around
<1>2. \A e \in Devices : Idle(e)
  OBVIOUS
<1>. QED
  BY <1>1, <1>2, EmptySeq DEF LinkOver, Idle

LEMMA GetDataFor ==
  ASSUME TypeOK, NEW d \in Devices, NEW c \in Cities,
         LinkOver(Around(c)), UnderWay(d) \subseteq CallsFor(c), screen'[d] = c,
         NEW call \in ReadCalls, call.city = c, GetData(d, call, main[d])
  PROVE  For(d, c)'
<1>1. LinkOver(Lists) /\ main[d] \in Seq(Answers(Lists)) /\ main[d] \in Seq(Answers(Around(c)))
  BY DEF TypeOK, LinkOver
<1>2. LinkOver(Around(c))' /\ store' = store
  <2>1. ASSUME NEW L, L = Around(c) PROVE LinkOver(L)'
    BY <1>1, <2>1, GetDataKeeps
  <2>2. store' = store
    BY DEF GetData
  <2>3. (Around(c))' = Around(c)
    BY <2>2 DEF Around
  <2>. QED
    BY <2>1, <2>2, <2>3 DEF LinkOver
<1>3. UnderWay(d)' = UnderWay(d) \cup {call}
  BY <1>1, GetDataCalls DEF UnderWay
<1>4. call \in CallsFor(c) /\ CallsFor(c)' = CallsFor(c)
  BY DEF CallsFor
<1>. QED
  BY <1>2, <1>3, <1>4 DEF For

LEMMA AroundKept ==
  ASSUME NEW c, \A L : L = Around(c) => LinkOver(L)'
  PROVE  LinkOver(Around(c))'
<1>1. ASSUME NEW L, L = Around(c) PROVE LinkOver(L)' /\ (Around(c))' = L
  BY <1>1, AroundNext DEF LinkOver
<1>. QED
  BY <1>1 DEF LinkOver

\* A callback begins its operation's refresh at most.
LEMMA CallbackCalls ==
  ASSUME LinkOver(Lists), NEW d \in Devices, NEW c, RunCallback(d),
         UnderWay(d) \subseteq CallsFor(c)
  PROVE  UnderWay(d)' \subseteq CallsFor(c)
<1>. DEFINE answer == Head(main[d])
            rest == Tail(main[d])
            others == Named(puts[d]) \cup Asked(waitingGets[d]) \cup Named(toServer[d])
                        \cup Named(toClient[d])
<1>1. /\ main[d] \in Seq(Answers(Lists)) /\ main[d] # <<>>
      /\ answer \in Answers(Lists) /\ rest \in Seq(Answers(Lists))
  BY HeadTailIn DEF LinkOver, RunCallback, AddRead, RemoveRead, Written,
                    RegistrationWritten, Checked, Callback
<1>2. UnderWay(d) = others \cup {answer.call} \cup Named(rest)
  <2>1. Named(main[d]) = {answer.call} \cup Named(rest)
    BY <1>1, NamedTail
  <2>. QED
    BY <2>1 DEF UnderWay
<1>3. answer.call \in CallsFor(c)
  BY <1>2
<1>4. answer.call.op # "register" =>
        /\ [answer.call EXCEPT !.op = "check"] \in ReadCalls \cap CallsFor(c)
        /\ answer.call.op \in {"add", "remove"} => answer.call \in WriteCalls
  BY <1>3 DEF CallsFor, ReadCalls, WriteCalls, Registration
<1>. HIDE DEF others
<1>5. ASSUME Refresh(d), answer.call.op # "register"
      PROVE  UnderWay(d)' \subseteq CallsFor(c)
  <2>. DEFINE call == [answer.call EXCEPT !.op = "check"]
  <2>1. call \in ReadCalls /\ call \in CallsFor(c) /\ GetData(d, call, rest)
    BY <1>4, <1>5 DEF Refresh
  <2>3. rest \in Seq(Answers(Lists))
    BY <1>1
  <2>. HIDE DEF call, rest, answer
  <2>2. UnderWay(d)' = others \cup Named(rest) \cup {call}
    BY <2>1, <2>3, GetDataCalls DEF others
  <2>. QED
    BY <1>2, <2>1, <2>2
<1>6. ASSUME NEW val \in Lists, SetValue(d, val, answer.call, rest),
             answer.call.op \in {"add", "remove"}
      PROVE  UnderWay(d)' \subseteq CallsFor(c)
  <2>2. rest \in Seq(Answers(Lists)) /\ answer.call \in WriteCalls
    BY <1>1, <1>4, <1>6
  <2>. HIDE DEF rest, answer
  <2>1. UnderWay(d)' = others \cup Named(rest) \cup {answer.call}
    BY <1>6, <2>2, SetValueCalls DEF others
  <2>. QED
    BY <1>2, <2>1
<1>7. CASE AddRead(d)
  <2>1. answer.call.op = "add" /\ answer.type = "get"
    BY <1>7 DEF AddRead, Callback
  <2>2. CASE answer.ok /\ ~HasCity(answer.val, answer.call.city)
    <3>1. answer.val \in Lists /\ answer.call \in ReadCalls
      BY <1>1, <2>1, <2>2 DEF Answers
    <3>2. WithCity(answer.val, answer.call.city) \in Lists
      BY <2>2, <3>1, HasWithCity DEF ReadCalls
    <3>. QED
      BY <1>6, <1>7, <2>1, <2>2, <3>2 DEF AddRead
  <2>3. CASE ~(answer.ok /\ ~HasCity(answer.val, answer.call.city))
    BY <1>5, <1>7, <2>1, <2>3 DEF AddRead
  <2>. QED
    BY <2>2, <2>3
<1>8. CASE RemoveRead(d)
  <2>1. answer.call.op = "remove" /\ answer.type = "get"
    BY <1>8 DEF RemoveRead, Callback
  <2>2. CASE answer.ok /\ HasCity(answer.val, answer.call.city)
    <3>1. answer.val \in Lists
      BY <1>1, <2>1, <2>2 DEF Answers
    <3>2. WithoutCity(answer.val, answer.call.city) \in Lists
      BY <2>2, <3>1, WithoutCityProperties
    <3>. QED
      BY <1>6, <1>8, <2>1, <2>2, <3>2 DEF RemoveRead
  <2>3. CASE ~(answer.ok /\ HasCity(answer.val, answer.call.city))
    BY <1>5, <1>8, <2>1, <2>3 DEF RemoveRead
  <2>. QED
    BY <2>2, <2>3
<1>9. CASE Written(d)
  BY <1>5, <1>9 DEF Written, Callback
<1>10. CASE RegistrationWritten(d) \/ Checked(d)
  <2>1. /\ main'[d] = rest
        /\ UNCHANGED <<puts, waitingGets, toServer, toClient>>
    BY <1>10 DEF RegistrationWritten, Checked, LinkOver
  <2>2. UnderWay(d)' = others \cup Named(rest)
    BY <2>1 DEF UnderWay, others
  <2>. QED
    BY <1>2, <2>2
<1>. QED
  BY <1>7, <1>8, <1>9, <1>10 DEF RunCallback

\* The step changes the stored list in no city but c.
SameBut(c) == CitiesIn(store') \ {c} = CitiesIn(store) \ {c}

LEMMA OneCityKept ==
  ASSUME Overlap = FALSE, \A d, e \in Devices : d = e,
         TypeOK, NEW d \in Devices, OrderInv(d), OneCityInv(d), [Next]_vars
  PROVE  \E c \in Cities \cup {NoCity} : For(d, c)' /\ SameBut(c)
<1>. DEFINE Goal == \E c \in Cities \cup {NoCity} : For(d, c)' /\ SameBut(c)
<1>1. PICK c \in Cities \cup {NoCity} : For(d, c)
  BY DEF OneCityInv
<1>2. LinkOver(Lists) /\ ViewOK /\ LinkOver(Around(c)) /\ UnderWay(d) \subseteq CallsFor(c)
  BY <1>1 DEF TypeOK, For
<1>3. CallsFor(c)' = CallsFor(c)
  BY DEF CallsFor
<1>4. ASSUME NEW x \in Cities, OpenCity(d, x)
      PROVE  Goal
  <2>. DEFINE call == [op |-> "check", city |-> x, visit |-> visit[d] + 1]
  <2>1. call \in ReadCalls /\ call.city = x
    BY <1>2, BoundsAssumption DEF ReadCalls, ViewOK
  <2>2. Idle(d) /\ GetData(d, call, main[d]) /\ screen'[d] = x /\ store' = store
    BY <1>2, <1>4 DEF OpenCity, GetData, ViewOK
  <2>. HIDE DEF call
  <2>3. LinkOver(Around(x)) /\ UnderWay(d) \subseteq CallsFor(x)
    BY <1>2, <2>2, NothingUnderWay, NamedEmpty DEF UnderWay, Idle
  <2>. QED
    BY <2>1, <2>2, <2>3, GetDataFor DEF SameBut
<1>5. CASE TapFavorite(d)
  <2>. DEFINE call == [op |-> IF isInFavorites[d] THEN "remove" ELSE "add",
                       city |-> screen[d], visit |-> visit[d]]
  <2>1. screen[d] = c /\ c \in Cities
    BY <1>1, <1>2, <1>5 DEF TapFavorite, For, ViewOK
  <2>2. call \in ReadCalls /\ call.city = c
    BY <1>2, <2>1, BoundsAssumption DEF ReadCalls, ViewOK
  <2>3. GetData(d, call, main[d]) /\ screen'[d] = c
    BY <1>5, <2>1 DEF TapFavorite
  <2>4. store' = store
    BY <1>5 DEF TapFavorite, GetData
  <2>. HIDE DEF call
  <2>. QED
    BY <1>1, <1>2, <2>1, <2>2, <2>3, <2>4, GetDataFor DEF SameBut
<1>6. ASSUME \A L : L = Around(c) => LinkOver(L)',
             UnderWay(d)' \subseteq CallsFor(c),
             screen'[d] = screen[d] \/ screen'[d] = NoCity
      PROVE  Goal
  <2>1. For(d, c)'
    BY <1>1, <1>3, <1>6, AroundKept DEF For
  <2>2. store' \in Around(c)
    BY <1>6 DEF LinkOver
  <2>. QED
    BY <2>1, <2>2 DEF Around, SameBut
<1>7. CASE CloseCity(d) \/ UNCHANGED vars
  <2>1. UNCHANGED linkVars /\ (screen'[d] = screen[d] \/ screen'[d] = NoCity)
    BY <1>2, <1>7 DEF CloseCity, vars, viewVars, ViewOK
  <2>2. UnderWay(d)' = UnderWay(d)
    BY <2>1 DEF linkVars, UnderWay
  <2>3. \A L : LinkOver(L) => LinkOver(L)'
    BY <2>1 DEF linkVars, LinkOver
  <2>. QED
    BY <1>2, <1>6, <2>1, <2>2, <2>3
<1>8. CASE RunCallback(d)
  <2>1. UnderWay(d)' \subseteq CallsFor(c)
    BY <1>2, <1>8, CallbackCalls
  <2>2. screen'[d] = screen[d]
    BY <1>8 DEF RunCallback, AddRead, RemoveRead, Written, RegistrationWritten, Checked, viewVars
  <2>3. Head(main[d]).call \in CallsFor(c)
    <3>1. main[d] # <<>> /\ main[d] \in Seq(Answers(Lists))
      BY <1>2, <1>8 DEF LinkOver, RunCallback, AddRead, RemoveRead, Written,
                        RegistrationWritten, Checked, Callback
    <3>2. Head(main[d]).call \in Named(main[d])
      BY <3>1, NamedTail
    <3>. QED
      BY <1>2, <3>2 DEF UnderWay
  <2>4. Head(main[d]).call.city \in Cities => Head(main[d]).call.city = c
    BY <2>3, NoCityAssumption DEF CallsFor, Registration
  <2>5. Head(main[d]).call.city \in Cities => ClosedFor(Around(c), Head(main[d]).call.city)
    BY <2>4, AroundClosed
  <2>6. ASSUME NEW L, L = Around(c) PROVE LinkOver(L)'
    BY <1>2, <1>8, <2>5, <2>6, CallbackKeeps
  <2>. QED
    BY <1>6, <2>1, <2>2, <2>6
<1>9. CASE Link(d)
  <2>1. UnderWay(d)' = UnderWay(d) /\ screen' = screen
    BY <1>2, <1>9, LinkCalls DEF Link, viewVars
  <2>2. ASSUME NEW L, L = Around(c) PROVE LinkOver(L)'
    BY <1>2, <1>9, <2>2, LinkStepKeeps DEF Link
  <2>. QED
    BY <1>2, <1>6, <2>1, <2>2
<1>10. CASE BreakConnection(d)
  <2>1. /\ puts' = puts /\ waitingGets' = waitingGets /\ main' = main /\ screen' = screen
        /\ toServer'[d] = <<>> /\ toClient'[d] = <<>>
    BY <1>2, <1>10 DEF BreakConnection, Disconnect, LinkOver
  <2>2. UnderWay(d)' \subseteq UnderWay(d)
    BY <2>1, NamedEmpty DEF UnderWay
  <2>3. ASSUME NEW L, L = Around(c) PROVE LinkOver(L)'
    BY <1>2, <1>10, <2>3, DisconnectKeeps DEF BreakConnection
  <2>. QED
    BY <1>2, <1>6, <2>1, <2>2, <2>3
<1>11. CASE KillAndRestart(d)
  <2>1. /\ Idle(d)' /\ screen'[d] = NoCity
    BY <1>2, <1>11 DEF KillAndRestart, KillApp, LinkOver, ViewOK, Idle
  <2>2. UnderWay(d)' = {}
    BY <2>1, NamedEmpty DEF UnderWay, Idle
  <2>3. ASSUME NEW L, L = Around(c) PROVE LinkOver(L)'
    BY <1>2, <1>11, <2>3, KillAppKeeps DEF KillAndRestart
  <2>. QED
    BY <1>6, <2>1, <2>2, <2>3
<1>. QED
  BY <1>4, <1>5, <1>7, <1>8, <1>9, <1>10, <1>11 DEF Next

LEMMA OneCityBegins ==
  ASSUME Init, NEW d \in Devices
  PROVE  OneCityInv(d)
<1>. DEFINE L == Around(NoCity)
<1>1. LinkOver(Lists) /\ screen[d] = NoCity /\ store \in L
  BY InitialTypes DEF TypeOK, Init, Around, LinkOver
<1>2. CASE SettledAccount
  <2>1. UnderWay(d) = {}
    BY <1>2, NamedEmpty DEF Init, SettledAccount, UnderWay
  <2>2. LinkOver(L)
    BY <1>1, <1>2, EmptySeq DEF Init, SettledAccount, LinkOver
  <2>. QED
    BY <1>1, <2>1, <2>2 DEF OneCityInv, For
<1>3. ASSUME ~SettledAccount, NEW r \in Devices, FreshAccount(r)
      PROVE  OneCityInv(d)
  <2>1. NoValue \in L /\ <<Placeholder>> \in L
    BY <1>3, BareLists DEF FreshAccount, Around, Bare, CitiesIn
  <2>2. LinkOver(L)
    <3>. HIDE DEF L
    <3>. QED
      BY <1>3, <2>1, InitOver
  <2>3. UnderWay(d) \subseteq {Registration}
    BY <1>3, NamedEmpty DEF Init, FreshAccount, UnderWay, Named, Asked, RegistrationWrites, PutRequest
  <2>4. Registration \in CallsFor(NoCity)
    BY DEF CallsFor, WriteCalls
  <2>. QED
    BY <1>1, <2>2, <2>3, <2>4 DEF OneCityInv, For
<1>. QED
  BY <1>2, <1>3 DEF Init

(* On the only device of the account the list implements a set of cities   *)
(* changed one city at a time, through repeated taps, refused writes,      *)
(* writes sent again and a registration still being written: as no screen  *)
(* is opened while answers are under way, all that is read and written     *)
(* differs from what is stored in the one city that is under way.          *)
THEOREM OneCityAtATimeHolds ==
  ASSUME Overlap = FALSE, \A d, e \in Devices : d = e
  PROVE  Spec => OneCityAtATime
<1>. DEFINE IInv == TypeOK /\ \A d \in Devices : OrderInv(d) /\ OneCityInv(d)
<1>1. Init => IInv /\ Abstract!Init
  BY InitialTypes, OrderBegins, OneCityBegins DEF Abstract!Init, CitiesIn
<1>2. IInv /\ [Next]_vars => IInv'
  BY TypesKept, OrderKept, OneCityKept DEF OneCityInv
<1>3. IInv /\ [Next]_vars => [Abstract!Next]_(CitiesIn(store))
  <2>. SUFFICES ASSUME IInv, [Next]_vars, CitiesIn(store') # CitiesIn(store)
                PROVE  Abstract!Next
    BY DEF CitiesIn
  <2>1. PICK d \in Devices : TRUE
    BY DEF Next, vars, linkVars
  <2>2. PICK c \in Cities \cup {NoCity} : For(d, c)' /\ SameBut(c)
    BY <2>1, OneCityKept
  <2>3. CitiesIn(store) \subseteq Cities /\ CitiesIn(store') \subseteq Cities
    BY DEF CitiesIn
  <2>4. c \in Cities
    BY <2>2, <2>3, NoCityAssumption DEF SameBut
  <2>5. \/ CitiesIn(store') = CitiesIn(store) \cup {c}
        \/ CitiesIn(store') = CitiesIn(store) \ {c}
    BY <2>2 DEF SameBut
  <2>. QED
    BY <2>4, <2>5 DEF Abstract!Next, Abstract!AddCity, Abstract!RemoveCity
<1>. QED
  BY <1>1, <1>2, <1>3, PTL DEF Spec, OneCityAtATime, Abstract!Spec
=============================================================================
