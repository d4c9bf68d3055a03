----------------------- MODULE FlutterFavorites_proofs -----------------------
(***************************************************************************)
(* Theorems about FlutterFavorites, for every set of cities and every      *)
(* bound; those about the button and about what the map implements are of  *)
(* an account used on one device, by a user who waits for answers.         *)
(***************************************************************************)
EXTENDS FlutterFavorites, SequenceFacts

-----------------------------------------------------------------------------
(* Types.                                                                  *)

LEMMA ViewTyped ==
  ASSUME TypeOK, NEW d \in Devices
  PROVE  View(d) \subseteq Entries
<1>1. writes[d] \in Seq(Writes) /\ store \subseteq Entries
  BY DEF TypeOK
<1>2. \A i \in DOMAIN writes[d] : writes[d][i] \in Writes
  BY <1>1, LenProperties, ElementOfSeq
<1>3. \A i \in DOMAIN writes[d] : writes[d][i].entries \subseteq Entries
  BY <1>2 DEF Writes
<1>4. ASSUME NEW e \in View(d)
      PROVE  e \in Entries
  <2>. DEFINE whole == {i \in DOMAIN writes[d] : writes[d][i].kind = "replace"}
              last == {i \in DOMAIN writes[d] : \A j \in whole : j <= i}
              sent == UNION {writes[d][i].entries : i \in last}
              below == IF whole = {} THEN store ELSE {}
  <2>1. View(d) = sent \cup below
    BY DEF View
  <2>2. below \subseteq store /\ last \subseteq DOMAIN writes[d]
    OBVIOUS
  <2>. HIDE DEF whole, last, below
  <2>3. e \in sent => \E i \in last : e \in writes[d][i].entries
    OBVIOUS
  <2>. HIDE DEF sent
  <2>4. e \in sent \/ e \in below
    BY <2>1
  <2>. QED
    BY <1>1, <1>3, <2>2, <2>3, <2>4
<1>. QED
  BY <1>4

LEMMA WithoutCityTyped ==
  ASSUME NEW entries \in SUBSET Entries, NEW c
  PROVE  WithoutCity(entries, c) \in SUBSET Entries
BY DEF WithoutCity

LEMMA WrittenTyped ==
  ASSUME NEW w \in Writes, NEW entries \in SUBSET Entries
  PROVE  Written(w, entries) \in SUBSET Entries
BY DEF Written, Writes

LEMMA AskTyped ==
  ASSUME TypeOK, NEW d \in Devices, NEW calls \in Seq(Calls), Ask(d, calls)
  PROVE  reads' \in [Devices -> Seq(Calls)]
BY ConcatProperties DEF TypeOK, Ask

LEMMA FinishTyped ==
  ASSUME TypeOK, NEW d \in Devices, NEW call \in Calls, Finish(d, call)
  PROVE  reads' \in [Devices -> Seq(Calls)] /\ _isAdding' \in [Devices -> BOOLEAN]
<1>1. <<[call EXCEPT !.op = "check"]>> \in Seq(Calls)
  BY DEF Calls
<1>2. reads' \in [Devices -> Seq(Calls)]
  BY <1>1, AskTyped DEF Finish
<1>3. (_isAdding[d] /\ ~OfThisPage(d, call)) \in BOOLEAN
  OBVIOUS
<1>4. _isAdding' = [_isAdding EXCEPT ![d] = _isAdding[d] /\ ~OfThisPage(d, call)]
  BY DEF Finish
<1>. QED
  BY <1>2, <1>3, <1>4 DEF TypeOK

LEMMA SendTyped ==
  ASSUME TypeOK, NEW d \in Devices, NEW kind \in {"push", "replace"},
         NEW entries \in SUBSET Entries, NEW call \in Calls, Send(d, kind, entries, call)
  PROVE  writes' \in [Devices -> Seq(Writes)]
<1>1. [kind |-> kind, entries |-> entries, call |-> call] \in Writes
  BY DEF Writes
<1>. QED
  BY <1>1 DEF TypeOK, Send

\* The answer the Dart code looks at.
LEMMA HeadTyped ==
  ASSUME TypeOK, NEW d \in Devices, inbox[d] # <<>>
  PROVE  /\ Head(inbox[d]) \in Answers /\ Head(inbox[d]).call \in Calls
         /\ Tail(inbox[d]) \in Seq(Answers)
         /\ Head(inbox[d]).type = "read" =>
              /\ Head(inbox[d]).entries \in SUBSET Entries
              /\ Head(inbox[d]).ok \in BOOLEAN
<1>1. Head(inbox[d]) \in Answers /\ Tail(inbox[d]) \in Seq(Answers)
  BY HeadTailIn DEF TypeOK
<1>. QED
  BY <1>1 DEF Answers

LEMMA UserTyped ==
  ASSUME TypeOK, NEW d \in Devices,
         (\E c \in Cities : OpenCity(d, c)) \/ CloseCity(d) \/ TapFavorite(d)
  PROVE  TypeOK'
<1>1. ASSUME NEW c \in Cities, OpenCity(d, c)
      PROVE  TypeOK'
  <2>1. visit[d] + 1 \in 0..MaxVisits /\ visit[d] + 1 \in Nat
    BY <1>1, BoundsAssumption DEF TypeOK, OpenCity
  <2>2. <<[op |-> "check", city |-> c, visit |-> visit[d] + 1]>> \in Seq(Calls)
    BY <2>1 DEF Calls
  <2>3. reads' \in [Devices -> Seq(Calls)]
    BY <1>1, <2>2, AskTyped DEF OpenCity
  <2>. QED
    BY <1>1, <2>1, <2>3 DEF TypeOK, OpenCity
<1>2. CASE CloseCity(d)
  BY <1>2 DEF TypeOK, CloseCity, linkVars
<1>3. CASE TapFavorite(d)
  <2>. DEFINE check == [op |-> "check", city |-> page[d], visit |-> visit[d]]
  <2>1. taps' \in 0..MaxTaps /\ taps' \in Nat /\ page[d] \in Cities /\ visit[d] \in Nat
    BY <1>3, BoundsAssumption DEF TypeOK, TapFavorite
  <2>2. check \in Calls /\ [check EXCEPT !.op = "remove"] \in Calls
        /\ [check EXCEPT !.op = "add"] \in Calls
    BY <2>1 DEF Calls
  <2>3. {[id |-> taps', city |-> page[d]]} \in SUBSET Entries
    BY <2>1 DEF Entries
  <2>. HIDE DEF check
  <2>4. CASE Ask(d, <<[check EXCEPT !.op = "remove"], check>>) /\ UNCHANGED writes
    <3>1. <<[check EXCEPT !.op = "remove"], check>> \in Seq(Calls)
      BY <2>2
    <3>2. reads' \in [Devices -> Seq(Calls)]
      BY <2>4, <3>1, AskTyped
    <3>. QED
      BY <1>3, <2>1, <2>4, <3>2 DEF TypeOK, TapFavorite
  <2>5. CASE /\ Send(d, "push", {[id |-> taps', city |-> page[d]]}, [check EXCEPT !.op = "add"])
             /\ Ask(d, <<check>>)
    <3>1. writes' \in [Devices -> Seq(Writes)]
      BY <2>2, <2>3, <2>5, SendTyped
    <3>2. <<check>> \in Seq(Calls)
      BY <2>2
    <3>3. reads' \in [Devices -> Seq(Calls)]
      BY <2>5, <3>2, AskTyped
    <3>. QED
      BY <1>3, <2>1, <3>1, <3>3 DEF TypeOK, TapFavorite
  <2>. QED
    BY <1>3, <2>4, <2>5 DEF TapFavorite, check
<1>. QED
  BY <1>1, <1>2, <1>3

LEMMA ContinueTyped ==
  ASSUME TypeOK, NEW d \in Devices, Continue(d)
  PROVE  TypeOK'
<1>. DEFINE answer == Head(inbox[d])
<1>1. /\ inbox[d] # <<>> /\ answer.call \in Calls /\ Tail(inbox[d]) \in Seq(Answers)
      /\ answer.type = "read" =>
           answer.entries \in SUBSET Entries /\ answer.ok \in BOOLEAN
  BY HeadTyped DEF Continue, RemoveRead, WriteReturns, CheckReturns, Answered
<1>2. inbox' \in [Devices -> Seq(Answers)]
  BY <1>1 DEF TypeOK, Continue, RemoveRead, WriteReturns, CheckReturns, Consume
<1>. HIDE DEF answer
<1>3. CASE RemoveRead(d)
  <2>1. answer.entries \in SUBSET Entries
    BY <1>1, <1>3 DEF RemoveRead, Answered, answer
  <2>2. CASE /\ Send(d, "replace", WithoutCity(answer.entries, answer.call.city), answer.call)
             /\ UNCHANGED <<reads, _isAdding>>
    <3>1. writes' \in [Devices -> Seq(Writes)]
      BY <1>1, <2>1, <2>2, SendTyped, WithoutCityTyped
    <3>. QED
      BY <1>2, <1>3, <2>2, <3>1 DEF TypeOK, RemoveRead
  <2>3. CASE Finish(d, answer.call) /\ UNCHANGED writes
    BY <1>1, <1>2, <1>3, <2>3, FinishTyped DEF TypeOK, RemoveRead
  <2>. QED
    BY <1>3, <2>2, <2>3 DEF RemoveRead, answer
<1>4. CASE WriteReturns(d)
  <2>1. Finish(d, answer.call)
    BY <1>4 DEF WriteReturns, answer
  <2>. QED
    BY <1>1, <1>2, <1>4, <2>1, FinishTyped DEF TypeOK, WriteReturns
<1>5. CASE CheckReturns(d)
  <2>. DEFINE shown == OfThisPage(d, answer.call)
              says == IF shown /\ answer.ok THEN HasCity(answer.entries, answer.call.city)
                      ELSE _isInFavorites[d]
              fails == unanswered[d] \/ (shown /\ ~answer.ok)
  <2>1. says \in BOOLEAN /\ fails \in BOOLEAN
    <3>1. _isInFavorites[d] \in BOOLEAN
      BY DEF TypeOK
    <3>2. HasCity(answer.entries, answer.call.city) \in BOOLEAN
      BY DEF HasCity
    <3>. QED
      BY <3>1, <3>2
  <2>2. /\ _isInFavorites' = [_isInFavorites EXCEPT ![d] = says]
        /\ unanswered' = [unanswered EXCEPT ![d] = fails]
    BY <1>5 DEF CheckReturns, answer
  <2>. HIDE DEF says, fails
  <2>. QED
    BY <1>2, <1>5, <2>1, <2>2 DEF TypeOK, CheckReturns
<1>. QED
  BY <1>3, <1>4, <1>5 DEF Continue

LEMMA LinkTyped ==
  ASSUME TypeOK, NEW d \in Devices, Link(d) \/ ConfirmationLost(d) \/ KillAndRestart(d)
  PROVE  TypeOK'
<1>1. CASE ReadAnswered(d)
  <2>1. Head(reads[d]) \in Calls /\ Tail(reads[d]) \in Seq(Calls)
    BY <1>1, HeadTailIn DEF TypeOK, ReadAnswered
  <2>2. PICK ok \in BOOLEAN :
          Tell(d, [type |-> "read", ok |-> ok, call |-> Head(reads[d]),
                   entries |-> IF ok THEN View(d) ELSE {}])
    BY <1>1 DEF ReadAnswered
  <2>3. [type |-> "read", ok |-> ok, call |-> Head(reads[d]),
         entries |-> IF ok THEN View(d) ELSE {}] \in Answers
    BY <2>1, ViewTyped DEF Answers
  <2>4. inbox' \in [Devices -> Seq(Answers)]
    BY <2>2, <2>3 DEF TypeOK, Tell
  <2>. QED
    BY <1>1, <2>1, <2>4 DEF TypeOK, ReadAnswered, pageVars
<1>2. ASSUME writes[d] # <<>>
      PROVE  /\ Head(writes[d]) \in Writes /\ Tail(writes[d]) \in Seq(Writes)
             /\ Written(Head(writes[d]), store) \in SUBSET Entries
             /\ [type |-> "written", call |-> Head(writes[d]).call] \in Answers
  <2>1. Head(writes[d]) \in Writes /\ Tail(writes[d]) \in Seq(Writes)
    BY <1>2, HeadTailIn DEF TypeOK
  <2>2. [type |-> "written", call |-> Head(writes[d]).call] \in Answers
    BY <2>1 DEF Writes, Answers
  <2>. QED
    BY <2>1, <2>2, WrittenTyped DEF TypeOK
<1>3. CASE WriteTaken(d)
  BY <1>2, <1>3 DEF TypeOK, WriteTaken, Tell, pageVars
<1>4. CASE WriteRefused(d)
  BY <1>2, <1>4 DEF TypeOK, WriteRefused, Tell, pageVars
<1>5. CASE ConfirmationLost(d)
  BY <1>2, <1>5, BoundsAssumption DEF TypeOK, ConfirmationLost, pageVars
<1>6. CASE KillAndRestart(d)
  BY <1>6, EmptySeq, BoundsAssumption DEF TypeOK, KillAndRestart
<1>. QED
  BY <1>1, <1>3, <1>4, <1>5, <1>6 DEF Link

LEMMA NextTyped ==
  ASSUME TypeOK, [Next]_vars
  PROVE  TypeOK'
<1>1. CASE UNCHANGED vars
  BY <1>1 DEF TypeOK, vars, linkVars, pageVars
<1>. QED
  BY <1>1, UserTyped, ContinueTyped, LinkTyped DEF Next

(* The variables keep their types.                                         *)
THEOREM TypeCorrect == Spec => []TypeOK
<1>1. Init => TypeOK
  BY EmptySeq, BoundsAssumption DEF Init, TypeOK, Entries
<1>2. TypeOK /\ [Next]_vars => TypeOK'
  BY NextTyped
<1>. QED
  BY <1>1, <1>2, PTL DEF Spec

-----------------------------------------------------------------------------
(* What a removal writes back holds no copy of its city.                   *)

CleanWrites ==
  {w \in Writes : w.call.op = "remove" =>
     w.kind = "replace" /\ ~HasCity(w.entries, w.call.city)}
RemovalInv == TypeOK /\ writes \in [Devices -> Seq(CleanWrites)]

LEMMA NextClean ==
  ASSUME RemovalInv, [Next]_vars
  PROVE  RemovalInv'
<1>1. TypeOK /\ TypeOK' /\ writes \in [Devices -> Seq(CleanWrites)]
  BY NextTyped DEF RemovalInv
<1>2. ASSUME NEW d \in Devices, NEW kind, NEW entries, NEW call, Send(d, kind, entries, call),
             [kind |-> kind, entries |-> entries, call |-> call] \in CleanWrites
      PROVE  writes' \in [Devices -> Seq(CleanWrites)]
  BY <1>1, <1>2 DEF Send
<1>3. ASSUME NEW d \in Devices, TapFavorite(d), writes' # writes
      PROVE  writes' \in [Devices -> Seq(CleanWrites)]
  <2>. DEFINE call == [op |-> "add", city |-> page[d], visit |-> visit[d]]
              entries == {[id |-> taps', city |-> page[d]]}
  <2>1. Send(d, "push", entries, call)
    BY <1>3 DEF TapFavorite
  <2>2. page[d] \in Cities /\ visit[d] \in Nat /\ taps' \in Nat
    BY <1>1, <1>3, BoundsAssumption DEF TypeOK, TapFavorite
  <2>3. [kind |-> "push", entries |-> entries, call |-> call] \in CleanWrites
    BY <2>2 DEF CleanWrites, Writes, Calls, Entries
  <2>. QED
    BY <1>2, <2>1, <2>3
<1>4. ASSUME NEW d \in Devices, RemoveRead(d), writes' # writes
      PROVE  writes' \in [Devices -> Seq(CleanWrites)]
  <2>. DEFINE answer == Head(inbox[d])
              left == WithoutCity(answer.entries, answer.call.city)
  <2>1. Send(d, "replace", left, answer.call)
    BY <1>4 DEF RemoveRead
  <2>2. /\ answer.call \in Calls /\ answer.call.op = "remove"
        /\ answer.entries \in SUBSET Entries
    BY <1>1, <1>4, HeadTyped DEF RemoveRead, Answered
  <2>3. left \in SUBSET Entries /\ ~HasCity(left, answer.call.city)
    BY <2>2 DEF WithoutCity, HasCity, CitiesOf
  <2>. HIDE DEF left, answer
  <2>4. [kind |-> "replace", entries |-> left, call |-> answer.call] \in CleanWrites
    BY <2>2, <2>3 DEF CleanWrites, Writes
  <2>. QED
    BY <1>2, <2>1, <2>4
<1>5. ASSUME NEW d \in Devices, WriteTaken(d) \/ WriteRefused(d) \/ KillAndRestart(d)
      PROVE  writes' \in [Devices -> Seq(CleanWrites)]
  <2>1. writes[d] # <<>> => Tail(writes[d]) \in Seq(CleanWrites)
    BY <1>1, HeadTailIn
  <2>. QED
    BY <1>1, <1>5, <2>1, EmptySeq DEF WriteTaken, WriteRefused, KillAndRestart
<1>. QED
  BY <1>1, <1>3, <1>4, <1>5
     DEF RemovalInv, Next, vars, linkVars, OpenCity, CloseCity, Continue, WriteReturns,
         CheckReturns, Link, ReadAnswered, ConfirmationLost

\* A write leaves the head of its queue only when it is taken or refused.
LEMMA TakenWrite ==
  ASSUME TypeOK, [Next]_vars, NEW d \in Devices, writes[d] # <<>>,
         writes'[d] = Tail(writes[d]), store' # store
  PROVE  store' = Written(Head(writes[d]), store)
<1>1. writes'[d] # writes[d]
  BY EmptySeq, HeadTailProperties DEF TypeOK
<1>2. PICK e \in Devices : WriteTaken(e) \/ ConfirmationLost(e)
  BY DEF Next, vars, linkVars, OpenCity, CloseCity, TapFavorite, Continue, RemoveRead,
         WriteReturns, CheckReturns, Link, ReadAnswered, WriteRefused, KillAndRestart
<1>3. WriteTaken(e) /\ e = d
  BY <1>1, <1>2 DEF WriteTaken, ConfirmationLost, TypeOK
<1>. QED
  BY <1>3 DEF WriteTaken

(* A removal that the database takes leaves no copy of its city there,     *)
(* whatever other devices have added or removed since it read the map.     *)
THEOREM RemovalIsCompleteHolds == Spec => RemovalIsComplete
<1>. DEFINE Complete == \A d \in Devices :
       /\ writes[d] # <<>> /\ store' # store
       /\ writes'[d] = Tail(writes[d])
       /\ Head(writes[d]).call.op = "remove"
       => ~HasCity(store', Head(writes[d]).call.city)
<1>1. Init => RemovalInv
  BY EmptySeq, BoundsAssumption DEF Init, RemovalInv, TypeOK, Entries
<1>2. RemovalInv /\ [Next]_vars => RemovalInv'
  BY NextClean
<1>3. RemovalInv /\ [Next]_vars => Complete
  <2>1. SUFFICES ASSUME RemovalInv, [Next]_vars, NEW d \in Devices, writes[d] # <<>>,
                        store' # store, writes'[d] = Tail(writes[d]),
                        Head(writes[d]).call.op = "remove"
                 PROVE  ~HasCity(store', Head(writes[d]).call.city)
    OBVIOUS
  <2>2. Head(writes[d]) \in CleanWrites
    BY <2>1, HeadTailIn DEF RemovalInv
  <2>3. store' = Written(Head(writes[d]), store)
    BY <2>1, TakenWrite DEF RemovalInv
  <2>. QED
    BY <2>1, <2>2, <2>3 DEF Written, CleanWrites
<1>4. RemovalInv /\ [Next]_vars => [Complete]_vars
  BY <1>3
<1>. QED
  BY <1>1, <1>2, <1>4, PTL DEF Spec, RemovalIsComplete

-----------------------------------------------------------------------------
(* One device, and a user who waits for answers before opening another     *)
(* page, but taps as often as he likes on the one that is open: then all   *)
(* that is under way is about one city, and every map under way agrees     *)
(* with the one in the database about the others.                          *)

ChangeAnswers == {a \in Answers : a.call.op # "check"}

\* The favourites but city c.
Others(entries, c) == CitiesOf(entries) \ {c}

\* What may be under way while only city c is changed.
CityCalls(d, c) == {call \in Calls : call.visit = visit[d] /\ call.city = c}
CityReads(d, c) == {call \in CityCalls(d, c) : call.op # "add"}
CityWrites(d, c) ==
  {w \in Writes : /\ w.call \in CityCalls(d, c) /\ w.call.op # "check"
                  /\ w.kind = "push" => CitiesOf(w.entries) = {c}
                  /\ w.kind = "replace" => CitiesOf(w.entries) = Others(store, c)}
CityAnswers(d, c) ==
  {a \in Answers : /\ a.call \in CityCalls(d, c)
                   /\ a.type = "written" => a.call.op # "check"
                   /\ a.type = "read" /\ a.ok => Others(a.entries, c) = Others(store, c)}

AboutCity(d, c) ==
  /\ page[d] # NoCity => page[d] = c
  /\ reads[d] \in Seq(CityReads(d, c))
  /\ writes[d] \in Seq(CityWrites(d, c))
  /\ inbox[d] \in Seq(CityAnswers(d, c))

\* Once no change is under way, the last check finds what is stored.
Over(d) ==
  /\ page[d] # NoCity /\ reads[d] = <<>> /\ writes[d] = <<>>
  /\ At(inbox[d], ChangeAnswers) = {}
LastWord(d) ==
  Over(d) =>
    /\ inbox[d] = <<>> =>
         unanswered[d] \/ (_isInFavorites[d] <=> HasCity(store, page[d]))
    /\ inbox[d] # <<>> /\ Last(inbox[d]).ok =>
         (HasCity(Last(inbox[d]).entries, page[d]) <=> HasCity(store, page[d]))

DeviceInv(d) == (\E c : AboutCity(d, c)) /\ LastWord(d)

\* What is under way stays about the city of the page.
LEMMA SameMessages ==
  ASSUME NEW d \in Devices, NEW c, visit'[d] = visit[d], Others(store, c)' = Others(store, c)
  PROVE  /\ CityReads(d, c)' = CityReads(d, c)
         /\ CityWrites(d, c)' = CityWrites(d, c)
         /\ CityAnswers(d, c)' = CityAnswers(d, c)
BY DEF CityReads, CityWrites, CityAnswers, CityCalls

\* Under the writes about city c, the device sees the other cities stored.
LEMMA ViewAgrees ==
  ASSUME TypeOK, NEW d \in Devices, NEW c, AboutCity(d, c)
  PROVE  Others(View(d), c) = Others(store, c)
<1>. DEFINE whole == {i \in DOMAIN writes[d] : writes[d][i].kind = "replace"}
            last == {i \in DOMAIN writes[d] : \A j \in whole : j <= i}
            sent == UNION {writes[d][i].entries : i \in last}
            below == IF whole = {} THEN store ELSE {}
<1>1. View(d) = sent \cup below
  BY DEF View
<1>2. /\ writes[d] \in Seq(CityWrites(d, c)) /\ Len(writes[d]) \in Nat
      /\ DOMAIN writes[d] = 1..Len(writes[d])
  BY LenProperties DEF AboutCity
<1>3. \A i \in DOMAIN writes[d] :
        /\ writes[d][i].kind \in {"push", "replace"}
        /\ writes[d][i].kind = "push" => CitiesOf(writes[d][i].entries) = {c}
        /\ writes[d][i].kind = "replace" => CitiesOf(writes[d][i].entries) = Others(store, c)
  <2>1. \A i \in DOMAIN writes[d] : writes[d][i] \in CityWrites(d, c)
    BY <1>2, ElementOfSeq
  <2>. QED
    BY <2>1 DEF CityWrites, Writes
<1>4. Others(View(d), c) = Others(sent, c) \cup Others(below, c)
  BY <1>1 DEF Others, CitiesOf
<1>5. \A x : x \in Others(sent, c) <=> \E i \in last : x \in Others(writes[d][i].entries, c)
  BY DEF Others, CitiesOf
<1>6. \A i \in last : Others(writes[d][i].entries, c) \subseteq Others(store, c)
  BY <1>3 DEF Others
<1>7. CASE whole = {}
  BY <1>4, <1>5, <1>6, <1>7
<1>8. CASE whole # {}
  <2>1. \E m \in whole : \A j \in whole : j <= m
    <3>1. whole \subseteq 1..Len(writes[d])
      BY <1>2
    <3>. HIDE DEF whole
    <3>2. IsFiniteSet(1..Len(writes[d])) /\ 1..Len(writes[d]) \subseteq Nat
      BY <1>2, FS_Interval
    <3>3. IsFiniteSet(whole) /\ whole \in SUBSET Nat
      BY <3>1, <3>2, FS_Subset
    <3>. QED
      BY <1>8, <3>3, HasGreatest
  <2>2. PICK m \in last : writes[d][m].kind = "replace"
    BY <2>1
  <2>3. Others(writes[d][m].entries, c) = Others(store, c)
    BY <1>3, <2>2 DEF Others
  <2>4. Others(below, c) = {}
    BY <1>8 DEF Others, CitiesOf
  <2>. HIDE DEF last, sent, below
  <2>. QED
    BY <1>4, <1>5, <1>6, <2>2, <2>3, <2>4
<1>. QED
  BY <1>7, <1>8

LEMMA OpenCityKeeps ==
  ASSUME TypeOK, TypeOK', Overlap = FALSE, NEW d \in Devices, NEW c \in Cities, OpenCity(d, c)
  PROVE  DeviceInv(d)'
<1>. DEFINE check == [op |-> "check", city |-> c, visit |-> visit[d] + 1]
<1>1. /\ reads[d] = <<>> /\ writes'[d] = <<>> /\ inbox'[d] = <<>>
      /\ page'[d] = c /\ visit'[d] = visit[d] + 1 /\ visit[d] + 1 \in Nat
  BY BoundsAssumption DEF TypeOK, OpenCity, Idle
<1>2. check \in CityReads(d, c)'
  BY <1>1 DEF CityReads, CityCalls, Calls
<1>3. reads'[d] = <<>> \o <<check>>
  BY <1>1 DEF TypeOK, OpenCity, Ask
<1>. HIDE DEF check
<1>4. reads'[d] = <<check>>
  BY <1>3
<1>5. reads'[d] \in Seq(CityReads(d, c)') /\ reads'[d] # <<>>
  BY <1>2, <1>4
<1>6. AboutCity(d, c)'
  BY <1>1, <1>5, EmptySeq DEF AboutCity
<1>. QED
  BY <1>5, <1>6 DEF DeviceInv, LastWord, Over

\* A tap adds to what is under way about the city of the page.
LEMMA TapFavoriteKeeps ==
  ASSUME TypeOK, TypeOK', NEW d \in Devices, DeviceInv(d), TapFavorite(d)
  PROVE  DeviceInv(d)'
<1>. DEFINE check == [op |-> "check", city |-> page[d], visit |-> visit[d]]
<1>1. PICK c : AboutCity(d, c)
  BY DEF DeviceInv
<1>2. /\ page[d] \in Cities /\ page[d] = c /\ UNCHANGED <<store, inbox, page, visit>>
      /\ visit[d] \in Nat /\ taps' \in Nat
  BY <1>1, BoundsAssumption DEF TypeOK, TapFavorite, AboutCity
<1>3. /\ CityReads(d, c)' = CityReads(d, c) /\ CityWrites(d, c)' = CityWrites(d, c)
      /\ CityAnswers(d, c)' = CityAnswers(d, c)
  BY <1>2, SameMessages
<1>4. /\ check \in CityReads(d, c) /\ [check EXCEPT !.op = "remove"] \in CityReads(d, c)
      /\ [check EXCEPT !.op = "add"] \in CityCalls(d, c) /\ [check EXCEPT !.op = "add"].op = "add"
  BY <1>2 DEF CityReads, CityCalls, Calls
<1>. HIDE DEF check
<1>5. ASSUME NEW calls \in Seq(CityReads(d, c)), calls # <<>>, Ask(d, calls)
      PROVE  reads'[d] \in Seq(CityReads(d, c)) /\ reads'[d] # <<>>
  <2>1. reads'[d] = reads[d] \o calls /\ reads[d] \in Seq(CityReads(d, c))
    BY <1>1, <1>5 DEF TypeOK, Ask, AboutCity
  <2>2. reads'[d] \in Seq(CityReads(d, c)) /\ Len(reads'[d]) = Len(reads[d]) + Len(calls)
    BY <1>5, <2>1, ConcatProperties
  <2>3. Len(reads[d]) \in Nat /\ Len(calls) \in Nat \ {0}
    BY <1>5, <2>1, EmptySeq
  <2>. QED
    BY <2>2, <2>3, EmptySeq
<1>6. CASE Ask(d, <<[check EXCEPT !.op = "remove"], check>>) /\ UNCHANGED writes
  <2>1. <<[check EXCEPT !.op = "remove"], check>> \in Seq(CityReads(d, c))
    BY <1>4
  <2>2. reads'[d] \in Seq(CityReads(d, c)) /\ reads'[d] # <<>>
    BY <1>5, <1>6, <2>1
  <2>3. AboutCity(d, c)'
    BY <1>1, <1>2, <1>3, <1>6, <2>2 DEF AboutCity
  <2>. QED
    BY <2>2, <2>3 DEF DeviceInv, LastWord, Over
<1>7. CASE /\ Send(d, "push", {[id |-> taps', city |-> page[d]]}, [check EXCEPT !.op = "add"])
           /\ Ask(d, <<check>>)
  <2>. DEFINE w == [kind |-> "push", entries |-> {[id |-> taps', city |-> page[d]]},
                    call |-> [check EXCEPT !.op = "add"]]
  <2>1. <<check>> \in Seq(CityReads(d, c))
    BY <1>4
  <2>2. reads'[d] \in Seq(CityReads(d, c)) /\ reads'[d] # <<>>
    BY <1>5, <1>7, <2>1
  <2>3. [id |-> taps', city |-> page[d]] \in Entries /\ [id |-> taps', city |-> page[d]].city = c
    BY <1>2 DEF Entries
  <2>4. w \in CityWrites(d, c)
    BY <1>2, <1>4, <2>3 DEF CityWrites, CityCalls, Writes, CitiesOf
  <2>5. writes'[d] = Append(writes[d], w)
    BY <1>7 DEF TypeOK, Send
  <2>. HIDE DEF w
  <2>6. writes'[d] \in Seq(CityWrites(d, c))
    BY <1>1, <2>4, <2>5, AppendProperties DEF AboutCity
  <2>7. AboutCity(d, c)'
    BY <1>1, <1>2, <1>3, <2>2, <2>6 DEF AboutCity
  <2>. QED
    BY <2>2, <2>7 DEF DeviceInv, LastWord, Over
<1>. QED
  BY <1>6, <1>7 DEF TapFavorite, check

\* The answer the Dart code looks at, and what is left of the others.
LEMMA HeadAbout ==
  ASSUME TypeOK, NEW d \in Devices, NEW c, AboutCity(d, c), inbox[d] # <<>>
  PROVE  Head(inbox[d]) \in CityAnswers(d, c) /\ Tail(inbox[d]) \in Seq(CityAnswers(d, c))
BY HeadTailIn DEF AboutCity

\* A change ends with one more check.
LEMMA FinishKeeps ==
  ASSUME TypeOK, TypeOK', NEW d \in Devices, DeviceInv(d), inbox[d] # <<>>,
         Finish(d, Head(inbox[d]).call), Consume(d), UNCHANGED <<store, writes, page, visit>>
  PROVE  DeviceInv(d)'
<1>. DEFINE call == Head(inbox[d]).call
            check == [call EXCEPT !.op = "check"]
<1>1. PICK c : AboutCity(d, c)
  BY DEF DeviceInv
<1>2. Head(inbox[d]) \in CityAnswers(d, c) /\ inbox'[d] \in Seq(CityAnswers(d, c))
  BY <1>1, HeadAbout DEF TypeOK, Consume
<1>3. /\ CityReads(d, c)' = CityReads(d, c) /\ CityWrites(d, c)' = CityWrites(d, c)
      /\ CityAnswers(d, c)' = CityAnswers(d, c)
  BY SameMessages
<1>4. check \in CityReads(d, c)
  BY <1>2 DEF CityAnswers, CityReads, CityCalls, Calls
<1>5. reads'[d] = reads[d] \o <<check>>
  BY DEF TypeOK, Finish, Ask
<1>. HIDE DEF call, check
<1>6. reads[d] \in Seq(CityReads(d, c)) /\ reads'[d] = Append(reads[d], check)
  BY <1>1, <1>4, <1>5, AppendOne DEF AboutCity
<1>7. reads'[d] \in Seq(CityReads(d, c)) /\ reads'[d] # <<>>
  BY <1>4, <1>6, AppendProperties
<1>8. AboutCity(d, c)'
  BY <1>1, <1>2, <1>3, <1>7 DEF AboutCity
<1>. QED
  BY <1>7, <1>8 DEF DeviceInv, LastWord, Over

LEMMA RemoveReadKeeps ==
  ASSUME TypeOK, TypeOK', NEW d \in Devices, DeviceInv(d), RemoveRead(d)
  PROVE  DeviceInv(d)'
<1>. DEFINE answer == Head(inbox[d])
            left == WithoutCity(answer.entries, answer.call.city)
            w == [kind |-> "replace", entries |-> left, call |-> answer.call]
<1>1. /\ inbox[d] # <<>> /\ answer.type = "read" /\ answer.call.op = "remove"
      /\ Consume(d) /\ UNCHANGED <<store, page, visit>>
  BY DEF RemoveRead, Answered
<1>2. CASE Finish(d, answer.call) /\ UNCHANGED writes
  BY <1>1, <1>2, FinishKeeps
<1>3. CASE /\ answer.ok /\ Send(d, "replace", left, answer.call)
           /\ UNCHANGED <<reads, _isAdding>>
  <2>1. PICK c : AboutCity(d, c)
    BY DEF DeviceInv
  <2>2. answer \in CityAnswers(d, c) /\ inbox'[d] \in Seq(CityAnswers(d, c))
    BY <1>1, <2>1, HeadAbout DEF TypeOK, Consume
  <2>3. /\ CityReads(d, c)' = CityReads(d, c) /\ CityWrites(d, c)' = CityWrites(d, c)
        /\ CityAnswers(d, c)' = CityAnswers(d, c)
    BY <1>1, SameMessages
  <2>4. /\ answer.call \in CityCalls(d, c) /\ answer.call.city = c /\ answer.call \in Calls
        /\ answer.entries \in SUBSET Entries
        /\ Others(answer.entries, c) = Others(store, c)
    BY <1>1, <1>3, <2>2 DEF CityAnswers, CityCalls, Answers
  <2>5. left \in SUBSET Entries /\ CitiesOf(left) = Others(answer.entries, c)
    BY <2>4 DEF WithoutCity, CitiesOf, Others
  <2>6. w \in CityWrites(d, c)
    BY <1>1, <2>4, <2>5 DEF CityWrites, Writes
  <2>7. writes'[d] = Append(writes[d], w)
    BY <1>3 DEF TypeOK, Send
  <2>. HIDE DEF w
  <2>8. writes'[d] \in Seq(CityWrites(d, c)) /\ writes'[d] # <<>>
    BY <2>1, <2>6, <2>7, AppendProperties DEF AboutCity
  <2>9. AboutCity(d, c)'
    BY <1>1, <1>3, <2>1, <2>2, <2>3, <2>8 DEF AboutCity
  <2>. QED
    BY <2>8, <2>9 DEF DeviceInv, LastWord, Over
<1>. QED
  BY <1>2, <1>3 DEF RemoveRead

LEMMA WriteReturnsKeeps ==
  ASSUME TypeOK, TypeOK', NEW d \in Devices, DeviceInv(d), WriteReturns(d)
  PROVE  DeviceInv(d)'
BY FinishKeeps DEF WriteReturns, Answered

LEMMA CheckReturnsKeeps ==
  ASSUME TypeOK, TypeOK', NEW d \in Devices, DeviceInv(d), CheckReturns(d)
  PROVE  DeviceInv(d)'
<1>. DEFINE answer == Head(inbox[d])
<1>1. /\ inbox[d] # <<>> /\ answer.type = "read" /\ answer.call.op = "check"
      /\ inbox'[d] = Tail(inbox[d]) /\ UNCHANGED <<store, reads, writes, page, visit>>
  BY DEF CheckReturns, Answered, Consume, TypeOK
<1>2. PICK c : AboutCity(d, c)
  BY DEF DeviceInv
<1>3. answer \in CityAnswers(d, c) /\ inbox'[d] \in Seq(CityAnswers(d, c))
  BY <1>1, <1>2, HeadAbout
<1>4. AboutCity(d, c)'
  BY <1>1, <1>2, <1>3, SameMessages DEF AboutCity
<1>5. inbox[d] \in Seq(CityAnswers(d, c)) /\ Len(inbox[d]) \in Nat \ {0}
  BY <1>1, <1>2, EmptySeq DEF AboutCity
<1>6. At(inbox'[d], ChangeAnswers) = {} => At(inbox[d], ChangeAnswers) = {}
  <2>1. 1 \notin At(inbox[d], ChangeAnswers)
    BY <1>1, <1>5, AtHead DEF ChangeAnswers
  <2>2. At(inbox'[d], ChangeAnswers)
          = {i \in 1..Len(inbox[d]) - 1 : i + 1 \in At(inbox[d], ChangeAnswers)}
    BY <1>1, <1>5, AtTail
  <2>3. ASSUME NEW i \in At(inbox[d], ChangeAnswers)
        PROVE  i - 1 \in At(inbox'[d], ChangeAnswers)
    <3>1. i \in 1..Len(inbox[d]) /\ i # 1
      BY <2>1 DEF At
    <3>2. i - 1 \in 1..Len(inbox[d]) - 1 /\ (i - 1) + 1 = i
      BY <1>5, <3>1
    <3>. QED
      BY <2>2, <3>2
  <2>. QED
    BY <2>3
<1>7. LastWord(d)'
  <2>1. SUFFICES ASSUME Over(d)'
                 PROVE  LastWord(d)'
    BY DEF LastWord
  <2>2. Over(d)
    BY <1>1, <1>6, <2>1 DEF Over
  <2>3. CASE inbox'[d] = <<>>
    <3>1. Len(inbox[d]) = 1 /\ Last(inbox[d]) = answer
      <4>1. Len(Tail(inbox[d])) = Len(inbox[d]) - 1
        BY <1>1, <1>5, HeadTailProperties
      <4>2. Tail(inbox[d]) = <<>>
        BY <1>1, <2>3
      <4>3. Len(Tail(inbox[d])) = 0
        BY <4>2, EmptySeq
      <4>4. Len(inbox[d]) = 1
        BY <1>5, <4>1, <4>3
      <4>. QED
        BY <4>4 DEF Last
    <3>2. answer.call.city = page[d] /\ OfThisPage(d, answer.call)
      BY <1>2, <1>3, <2>2 DEF CityAnswers, CityCalls, Over, OfThisPage, AboutCity
    <3>3. answer.ok => (_isInFavorites'[d] <=> HasCity(answer.entries, page[d]))
      BY <3>2 DEF CheckReturns, TypeOK
    <3>4. ~answer.ok => unanswered'[d]
      BY <3>2 DEF CheckReturns, TypeOK
    <3>5. answer.ok => (HasCity(answer.entries, page[d]) <=> HasCity(store, page[d]))
      BY <1>1, <2>2, <3>1 DEF DeviceInv, LastWord
    <3>. QED
      BY <1>1, <2>3, <3>3, <3>4, <3>5 DEF LastWord
  <2>4. CASE inbox'[d] # <<>>
    <3>1. Last(inbox'[d]) = Last(inbox[d])
      BY <1>1, <1>5, <1>3, <2>4, EmptySeq, HeadTailProperties DEF Last
    <3>. QED
      BY <1>1, <2>2, <2>4, <3>1 DEF DeviceInv, LastWord
  <2>. QED
    BY <2>3, <2>4
<1>. QED
  BY <1>4, <1>7 DEF DeviceInv

\* A read that is answered when no write is under way finds what is stored.
LEMMA ReadAnsweredKeeps ==
  ASSUME TypeOK, TypeOK', NEW d \in Devices, DeviceInv(d), ReadAnswered(d)
  PROVE  DeviceInv(d)'
<1>. DEFINE call == Head(reads[d])
<1>1. /\ reads[d] # <<>> /\ reads'[d] = Tail(reads[d])
      /\ UNCHANGED <<store, writes, page, visit, _isInFavorites, unanswered>>
  BY DEF ReadAnswered, TypeOK, pageVars
<1>2. PICK c : AboutCity(d, c)
  BY DEF DeviceInv
<1>3. call \in CityReads(d, c) /\ reads'[d] \in Seq(CityReads(d, c))
  BY <1>1, <1>2, HeadTailIn DEF AboutCity
<1>4. PICK a : /\ a \in CityAnswers(d, c)
               /\ a.ok => a.entries = View(d)
               /\ inbox'[d] = Append(inbox[d], a)
  <2>1. PICK ok \in BOOLEAN :
          Tell(d, [type |-> "read", ok |-> ok, call |-> call,
                   entries |-> IF ok THEN View(d) ELSE {}])
    BY DEF ReadAnswered
  <2>. DEFINE a == [type |-> "read", ok |-> ok, call |-> call,
                    entries |-> IF ok THEN View(d) ELSE {}]
  <2>2. a \in CityAnswers(d, c) /\ (a.ok => a.entries = View(d))
    BY <1>2, <1>3, ViewTyped, ViewAgrees DEF CityAnswers, CityReads, CityCalls, Answers
  <2>3. inbox'[d] = Append(inbox[d], a)
    BY <2>1 DEF Tell, TypeOK
  <2>. QED
    BY <2>2, <2>3
<1>5. /\ inbox'[d] \in Seq(CityAnswers(d, c)) /\ inbox'[d] # <<>> /\ Last(inbox'[d]) = a
  BY <1>2, <1>4, AppendLast, AppendProperties DEF AboutCity
<1>6. AboutCity(d, c)'
  BY <1>1, <1>2, <1>3, <1>5, SameMessages DEF AboutCity
<1>7. writes[d] = <<>> => View(d) = store
  BY DEF View
<1>. QED
  BY <1>1, <1>4, <1>5, <1>6, <1>7 DEF DeviceInv, LastWord, Over

\* What the database takes of a device changes the city its calls are about.
LEMMA TakesOneCity ==
  ASSUME TypeOK, NEW d \in Devices, NEW c, AboutCity(d, c), writes[d] # <<>>,
         store' = Written(Head(writes[d]), store)
  PROVE  /\ c \in Cities /\ Others(store, c)' = Others(store, c)
         /\ CitiesOf(store') = CitiesOf(store) \cup {c} \/ CitiesOf(store') = CitiesOf(store) \ {c}
<1>. DEFINE w == Head(writes[d])
<1>1. w \in CityWrites(d, c)
  BY HeadTailIn DEF AboutCity
<1>2. c \in Cities
  BY <1>1 DEF CityWrites, CityCalls, Calls
<1>3. CASE w.kind = "push"
  <2>1. CitiesOf(store') = CitiesOf(store) \cup CitiesOf(w.entries)
    BY <1>3 DEF Written, CitiesOf
  <2>2. CitiesOf(w.entries) = {c}
    BY <1>1, <1>3 DEF CityWrites
  <2>. QED
    BY <1>2, <2>1, <2>2 DEF Others
<1>4. CASE w.kind = "replace"
  <2>1. CitiesOf(store') = Others(store, c)
    BY <1>1, <1>4 DEF Written, CityWrites
  <2>. QED
    BY <1>2, <2>1 DEF Others
<1>. QED
  BY <1>1, <1>3, <1>4 DEF CityWrites, Writes

\* A write that is answered is followed by a check.
LEMMA WriteAnsweredKeeps ==
  ASSUME TypeOK, TypeOK', NEW d \in Devices, DeviceInv(d), WriteTaken(d) \/ WriteRefused(d)
  PROVE  DeviceInv(d)'
<1>. DEFINE w == Head(writes[d])
            a == [type |-> "written", call |-> w.call]
<1>1. /\ writes[d] # <<>> /\ writes'[d] = Tail(writes[d])
      /\ inbox'[d] = Append(inbox[d], a)
      /\ UNCHANGED <<reads, page, visit>>
  BY DEF WriteTaken, WriteRefused, Tell, TypeOK, pageVars
<1>2. PICK c : AboutCity(d, c)
  BY DEF DeviceInv
<1>3. store' = store \/ store' = Written(w, store)
  BY DEF WriteTaken, WriteRefused
<1>4. Others(store, c)' = Others(store, c)
  BY <1>1, <1>2, <1>3, TakesOneCity DEF Others
<1>5. w \in CityWrites(d, c) /\ writes'[d] \in Seq(CityWrites(d, c))
  BY <1>1, <1>2, HeadTailIn DEF AboutCity
<1>6. a \in CityAnswers(d, c) /\ a \in ChangeAnswers
  BY <1>5 DEF CityWrites, CityAnswers, CityCalls, Answers, ChangeAnswers
<1>. HIDE DEF a
<1>7. inbox'[d] \in Seq(CityAnswers(d, c)) /\ Len(inbox[d]) + 1 \in At(inbox'[d], ChangeAnswers)
  BY <1>1, <1>2, <1>6, AppendProperties, AtAppend DEF AboutCity
<1>8. AboutCity(d, c)'
  BY <1>1, <1>2, <1>4, <1>5, <1>7, SameMessages DEF AboutCity
<1>. QED
  BY <1>7, <1>8 DEF DeviceInv, LastWord, Over

LEMMA ConfirmationLostKeeps ==
  ASSUME TypeOK, TypeOK', NEW d \in Devices, DeviceInv(d), ConfirmationLost(d)
  PROVE  DeviceInv(d)'
<1>1. /\ writes[d] # <<>> /\ store' = Written(Head(writes[d]), store)
      /\ UNCHANGED <<reads, writes, inbox, page, visit>>
  BY DEF ConfirmationLost, pageVars
<1>2. PICK c : AboutCity(d, c)
  BY DEF DeviceInv
<1>3. AboutCity(d, c)'
  BY <1>1, <1>2, TakesOneCity, SameMessages DEF AboutCity
<1>. QED
  BY <1>1, <1>3 DEF DeviceInv, LastWord, Over

LEMMA ClosedKeeps ==
  ASSUME TypeOK, TypeOK', NEW d \in Devices, DeviceInv(d), CloseCity(d) \/ KillAndRestart(d)
  PROVE  DeviceInv(d)'
<1>1. page'[d] = NoCity /\ UNCHANGED <<visit, store>>
  BY DEF CloseCity, KillAndRestart, TypeOK, linkVars
<1>2. PICK c : AboutCity(d, c)
  BY DEF DeviceInv
<1>3. CASE UNCHANGED linkVars
  BY <1>1, <1>2, <1>3, SameMessages DEF AboutCity, DeviceInv, LastWord, Over, linkVars
<1>4. CASE reads'[d] = <<>> /\ writes'[d] = <<>> /\ inbox'[d] = <<>>
  BY <1>1, <1>4, EmptySeq DEF AboutCity, DeviceInv, LastWord, Over
<1>. QED
  BY <1>3, <1>4 DEF CloseCity, KillAndRestart, TypeOK

OneDeviceInv == TypeOK /\ \A d \in Devices : DeviceInv(d)

LEMMA InitOneDevice == Init => OneDeviceInv
<1>1. ASSUME Init, NEW d \in Devices
      PROVE  DeviceInv(d)
  <2>1. reads[d] = <<>> /\ writes[d] = <<>> /\ inbox[d] = <<>> /\ page[d] = NoCity
    BY <1>1 DEF Init
  <2>2. AboutCity(d, NoCity)
    BY <2>1, EmptySeq DEF AboutCity
  <2>. QED
    BY <2>1, <2>2 DEF DeviceInv, LastWord, Over
<1>2. Init => TypeOK
  BY EmptySeq, BoundsAssumption DEF Init, TypeOK, Entries
<1>. QED
  BY <1>1, <1>2 DEF OneDeviceInv

LEMMA NextOneDevice ==
  ASSUME Overlap = FALSE, \A d, e \in Devices : d = e, OneDeviceInv, [Next]_vars
  PROVE  OneDeviceInv'
<1>1. TypeOK /\ TypeOK'
  BY NextTyped DEF OneDeviceInv
<1>2. ASSUME NEW d \in Devices, UNCHANGED vars
      PROVE  DeviceInv(d)'
  <2>1. PICK c : AboutCity(d, c)
    BY DEF OneDeviceInv, DeviceInv
  <2>2. AboutCity(d, c)'
    BY <1>2, <2>1, SameMessages DEF AboutCity, vars, linkVars, pageVars
  <2>3. LastWord(d)'
    BY <1>2 DEF OneDeviceInv, DeviceInv, LastWord, Over, vars, linkVars, pageVars
  <2>. QED
    BY <2>2, <2>3 DEF DeviceInv
<1>3. ASSUME NEW d \in Devices, Next
      PROVE  DeviceInv(d)'
  <2>1. DeviceInv(d)
    BY DEF OneDeviceInv
  <2>2. \/ \E c \in Cities : OpenCity(d, c)
        \/ CloseCity(d) \/ TapFavorite(d) \/ RemoveRead(d) \/ WriteReturns(d)
        \/ CheckReturns(d) \/ ReadAnswered(d) \/ WriteTaken(d) \/ WriteRefused(d)
        \/ ConfirmationLost(d) \/ KillAndRestart(d)
    BY <1>3 DEF Next, Continue, Link
  <2>. QED
    BY <1>1, <2>1, <2>2, OpenCityKeeps, TapFavoriteKeeps, RemoveReadKeeps, WriteReturnsKeeps,
       CheckReturnsKeeps, ReadAnsweredKeeps, WriteAnsweredKeeps, ConfirmationLostKeeps,
       ClosedKeeps
<1>. QED
  BY <1>1, <1>2, <1>3 DEF OneDeviceInv

(* When everything has been delivered to the only device and no check of   *)
(* the open page was refused, its button says what the database holds,     *)
(* however often it was tapped before the answers came: although a check   *)
(* is asked for at every tap as well, the one asked for after the last     *)
(* change has the last word.                                               *)
THEOREM ButtonSettlesHolds ==
  ASSUME Overlap = FALSE, \A d, e \in Devices : d = e
  PROVE  Spec => []ButtonSettles
<1>1. Init => OneDeviceInv
  BY InitOneDevice
<1>2. OneDeviceInv /\ [Next]_vars => OneDeviceInv'
  BY NextOneDevice
<1>3. OneDeviceInv => ButtonSettles
  <2>1. SUFFICES ASSUME OneDeviceInv, NEW d \in Devices, Idle(d), page[d] # NoCity,
                        ~unanswered[d]
                 PROVE  _isInFavorites[d] <=> HasCity(store, page[d])
    BY DEF ButtonSettles
  <2>2. Over(d) /\ inbox[d] = <<>>
    BY <2>1, AtEmpty DEF Over, Idle
  <2>. QED
    BY <2>1, <2>2 DEF OneDeviceInv, DeviceInv, LastWord
<1>. QED
  BY <1>1, <1>2, <1>3, PTL DEF Spec

(* The map of entries implements a set of cities changed one city at a     *)
(* time: every step of the database adds the city of the open page or      *)
(* takes it out, all its copies at once, and no other, also when several   *)
(* additions and removals, some of them refused, are under way at once and *)
(* each removal writes back a map read before the others were taken.       *)
THEOREM OneCityAtATimeHolds ==
  ASSUME Overlap = FALSE, \A d, e \in Devices : d = e
  PROVE  Spec => OneCityAtATime
<1>1. Init => OneDeviceInv /\ Abstract!Init
  BY InitOneDevice DEF Init, Abstract!Init, CitiesOf
<1>2. OneDeviceInv /\ [Next]_vars => OneDeviceInv'
  BY NextOneDevice
<1>3. OneDeviceInv /\ [Next]_vars => [Abstract!Next]_(CitiesOf(store))
  <2>1. SUFFICES ASSUME OneDeviceInv, [Next]_vars, store' # store
                 PROVE  Abstract!Next
    BY DEF CitiesOf
  <2>2. PICK d \in Devices : WriteTaken(d) \/ ConfirmationLost(d)
    BY <2>1 DEF Next, vars, linkVars, OpenCity, CloseCity, TapFavorite, Continue, RemoveRead,
                WriteReturns, CheckReturns, Link, ReadAnswered, WriteRefused, KillAndRestart
  <2>3. writes[d] # <<>> /\ store' = Written(Head(writes[d]), store)
    BY <2>2 DEF WriteTaken, ConfirmationLost
  <2>4. PICK c : AboutCity(d, c)
    BY <2>1 DEF OneDeviceInv, DeviceInv
  <2>5. c \in Cities /\ \/ CitiesOf(store') = CitiesOf(store) \cup {c}
                        \/ CitiesOf(store') = CitiesOf(store) \ {c}
    BY <2>1, <2>3, <2>4, TakesOneCity DEF OneDeviceInv
  <2>. QED
    BY <2>5 DEF Abstract!Next, Abstract!AddCity, Abstract!RemoveCity
<1>. QED
  BY <1>1, <1>2, <1>3, PTL DEF Spec, OneCityAtATime, Abstract!Spec
=============================================================================
