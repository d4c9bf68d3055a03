--------------------------- MODULE SwiftFavorites ---------------------------
(***************************************************************************)
(* The favourites of one account of the iOS app, from the city screen      *)
(* (CityView) through FirebaseAppDataHandler to the database.              *)
(*                                                                         *)
(* The database holds one list per account.  The handler changes it by     *)
(* reading the list, editing its copy and writing the whole copy back, in  *)
(* three steps with other callbacks, other screens and other devices in    *)
(* between.  The location modelled by RtdbClient is                        *)
(* users/<uid>/favorites.                                                  *)
(***************************************************************************)
EXTENDS RtdbClient

CONSTANTS Cities,       \* ids of the cities in the catalogue
          Placeholder,  \* the entry "null" every new account starts with
          NoCity,       \* no city screen is open
          InitialLists, \* lists an account may already have
          Registering,  \* may the account have been registered just now
          Overlap,      \* may a screen open while answers are under way
          MaxVisits,    \* bound: city screens opened per device
          MaxTaps,      \* bound: taps on the favourites button, all devices
          MaxBreaks     \* bound: connections broken and apps killed

Lists == Seq(Cities \cup {Placeholder})
NoRepeats(list) ==
  \A i, j \in 1..Len(list) : list[i] = list[j] => i = j

ASSUME PlaceholderAssumption == Placeholder \notin Cities
ASSUME NoCityAssumption == NoCity \notin Cities
ASSUME InitialListsAssumption ==
  InitialLists \subseteq {list \in Lists : NoRepeats(list)}
ASSUME BoundsAssumption ==
  /\ Registering \in BOOLEAN /\ Overlap \in BOOLEAN
  /\ MaxVisits \in Nat /\ MaxTaps \in Nat /\ MaxBreaks \in Nat

VARIABLES screen,        \* device -> city whose screen is open
          visit,         \* device -> number of the screen opened last
          isAdding,      \* device -> the button shows a spinner
          isInFavorites, \* device -> the button says "Remove from favorites"
          unanswered,    \* device -> an answer for this screen failed or was lost
          lostAnswer,    \* device -> an answer for it was lost with a connection
          taps,          \* taps made so far
          breaks         \* connections broken and apps killed so far

viewVars == <<screen, visit, isAdding, isInFavorites, unanswered, lostAnswer>>
vars == <<linkVars, viewVars, taps, breaks>>

\* A completion closure: the operation under way, its city and the screen
\* whose state it updates at the end.
Registration == [op |-> "register", city |-> NoCity, visit |-> 0]
ReadCalls == [op : {"add", "remove", "check"}, city : Cities, visit : Nat]
WriteCalls == [op : {"add", "remove"}, city : Cities, visit : Nat]
                \cup {Registration}

HasCity(list, c) == Contains(list, c)
CitiesIn(list) == {c \in Cities : HasCity(list, c)}
WithCity(list, c) == Append(list, c)

\* Mutant: the occurrence is taken for the one before it.
WithoutOneBefore(list, c) ==
  LET i == CHOOSE j \in 1..Len(list) : list[j] = c
  IN  IF i = 1 THEN list ELSE RemoveAt(list, i - 1)
\* Mutant: the list is cut off where the city was.
WithoutTheRest(list, c) ==
  SubSeq(list, 1, (CHOOSE j \in 1..Len(list) : list[j] = c) - 1)

\* firstIndex(of:), remove(at:)
WithoutCity(list, c) == RemoveFirst(list, c)

-----------------------------------------------------------------------------
(* Registration writes users/<uid> twice without waiting in between: first *)
(* {email}, which leaves no favourites, then the rest with ["null"].       *)
RegistrationWrites ==
  << [val |-> NoValue, call |-> Registration],
     [val |-> <<Placeholder>>, call |-> Registration] >>

\* The account registered some time ago: its list is in the database.
SettledAccount ==
  /\ store \in InitialLists
  /\ puts = [d \in Devices |-> <<>>]
  /\ toServer = [d \in Devices |-> <<>>]

\* The account has just been registered on device r.
FreshAccount(r) ==
  /\ Registering
  /\ store = NoValue
  /\ puts = [d \in Devices |-> IF d = r THEN RegistrationWrites ELSE <<>>]
  /\ toServer = [d \in Devices |-> IF d # r THEN <<>> ELSE
       <<PutRequest(RegistrationWrites[1]), PutRequest(RegistrationWrites[2])>>]

Init ==
  /\ SettledAccount \/ \E r \in Devices : FreshAccount(r)
  /\ online = [d \in Devices |-> TRUE]
  /\ waitingGets = [d \in Devices |-> <<>>]
  /\ toClient = [d \in Devices |-> <<>>]
  /\ main = [d \in Devices |-> <<>>]
  /\ screen = [d \in Devices |-> NoCity]
  /\ visit = [d \in Devices |-> 0]
  /\ isAdding = [d \in Devices |-> FALSE]
  /\ isInFavorites = [d \in Devices |-> FALSE]
  /\ unanswered = [d \in Devices |-> FALSE]
  /\ lostAnswer = [d \in Devices |-> FALSE]
  /\ taps = 0
  /\ breaks = 0

-----------------------------------------------------------------------------
(* The user.                                                               *)

OpenCity(d, c) ==
  /\ screen[d] = NoCity /\ visit[d] < MaxVisits
  /\ Overlap \/ Idle(d)
  /\ screen' = [screen EXCEPT ![d] = c]
  /\ visit' = [visit EXCEPT ![d] = @ + 1]
  /\ isAdding' = [isAdding EXCEPT ![d] = FALSE]
  /\ isInFavorites' = [isInFavorites EXCEPT ![d] = FALSE]
  /\ unanswered' = [unanswered EXCEPT ![d] = FALSE]
  /\ lostAnswer' = [lostAnswer EXCEPT ![d] = FALSE]
  /\ GetData(d, [op |-> "check", city |-> c, visit |-> visit[d] + 1], main[d])
  /\ UNCHANGED <<taps, breaks>>

CloseCity(d) ==
  /\ screen[d] # NoCity
  /\ screen' = [screen EXCEPT ![d] = NoCity]
  /\ UNCHANGED <<linkVars, visit, isAdding, isInFavorites, unanswered, lostAnswer,
                 taps, breaks>>

TapFavorite(d) ==
  /\ screen[d] # NoCity /\ taps < MaxTaps
  /\ taps' = taps + 1
  /\ isAdding' = [isAdding EXCEPT ![d] = TRUE]
  /\ GetData(d, [op |-> IF isInFavorites[d] THEN "remove" ELSE "add",
                 city |-> screen[d], visit |-> visit[d]], main[d])
  /\ UNCHANGED <<screen, visit, isInFavorites, unanswered, lostAnswer, breaks>>

-----------------------------------------------------------------------------
(* Callbacks, run one at a time from the main queue.                       *)

Callback(d, type, ops) ==
  /\ main[d] # <<>>
  /\ Head(main[d]).type = type
  /\ Head(main[d]).call.op \in ops

\* The completion of an operation refreshes the button.
Refresh(d) == GetData(d, [Head(main[d]).call EXCEPT !.op = "check"], Tail(main[d]))

\* Mutant: the city is appended without a look at the list.
AddReadBlindly(d) ==
  /\ Callback(d, "get", {"add"})
  /\ LET answer == Head(main[d])
     IN  SetValue(d, WithCity(answer.val, answer.call.city), answer.call, Tail(main[d]))
  /\ UNCHANGED <<viewVars, taps, breaks>>

AddRead(d) ==
  /\ Callback(d, "get", {"add"})
  /\ LET answer == Head(main[d])
         c == answer.call.city
     IN  \/ /\ ~answer.ok \/ HasCity(answer.val, c)
            /\ Refresh(d)
         \/ /\ answer.ok /\ ~HasCity(answer.val, c)
            /\ SetValue(d, WithCity(answer.val, c), answer.call, Tail(main[d]))
  /\ UNCHANGED <<viewVars, taps, breaks>>

RemoveRead(d) ==
  /\ Callback(d, "get", {"remove"})
  /\ LET answer == Head(main[d])
         c == answer.call.city
     IN  \/ /\ ~answer.ok \/ ~HasCity(answer.val, c)
            /\ Refresh(d)
         \/ /\ answer.ok /\ HasCity(answer.val, c)
            /\ SetValue(d, WithoutCity(answer.val, c), answer.call, Tail(main[d]))
  /\ UNCHANGED <<viewVars, taps, breaks>>

\* Mutant: a write completes nothing.
WrittenSilently(d) ==
  /\ Callback(d, "put", {"add", "remove"})
  /\ main' = [main EXCEPT ![d] = Tail(@)]
  /\ UNCHANGED <<store, online, puts, waitingGets, toServer, toClient,
                 viewVars, taps, breaks>>

Written(d) ==
  /\ Callback(d, "put", {"add", "remove"})
  /\ Refresh(d)
  /\ UNCHANGED <<viewVars, taps, breaks>>

RegistrationWritten(d) ==
  /\ Callback(d, "put", {"register"})
  /\ main' = [main EXCEPT ![d] = Tail(@)]
  /\ UNCHANGED <<store, online, puts, waitingGets, toServer, toClient,
                 viewVars, taps, breaks>>

\* Only the screen the closure was made for has the state it sets.
OfThisScreen(d, call) == screen[d] # NoCity /\ call.visit = visit[d]

\* Mutant: a check that fails leaves the spinner.
CheckedWhenAnswered(d) ==
  /\ Callback(d, "get", {"check"})
  /\ main' = [main EXCEPT ![d] = Tail(@)]
  /\ LET answer == Head(main[d]) IN
     \/ /\ OfThisScreen(d, answer.call)
        /\ isAdding' = [isAdding EXCEPT ![d] = @ /\ ~answer.ok]
        /\ isInFavorites' = [isInFavorites EXCEPT ![d] =
             IF answer.ok THEN HasCity(answer.val, answer.call.city) ELSE @]
        /\ unanswered' = [unanswered EXCEPT ![d] = @ \/ ~answer.ok]
     \/ /\ ~OfThisScreen(d, answer.call)
        /\ UNCHANGED <<isAdding, isInFavorites, unanswered>>
  /\ UNCHANGED <<store, online, puts, waitingGets, toServer, toClient,
                 screen, visit, lostAnswer, taps, breaks>>

Checked(d) ==
  /\ Callback(d, "get", {"check"})
  /\ main' = [main EXCEPT ![d] = Tail(@)]
  /\ LET answer == Head(main[d]) IN
     \/ /\ OfThisScreen(d, answer.call)
        /\ isAdding' = [isAdding EXCEPT ![d] = FALSE]
        /\ isInFavorites' = [isInFavorites EXCEPT ![d] =
             IF answer.ok THEN HasCity(answer.val, answer.call.city) ELSE @]
        /\ unanswered' = [unanswered EXCEPT ![d] = @ \/ ~answer.ok]
     \/ /\ ~OfThisScreen(d, answer.call)
        /\ UNCHANGED <<isAdding, isInFavorites, unanswered>>
  /\ UNCHANGED <<store, online, puts, waitingGets, toServer, toClient,
                 screen, visit, lostAnswer, taps, breaks>>

RunCallback(d) ==
  \/ AddRead(d) \/ RemoveRead(d) \/ Written(d)
  \/ RegistrationWritten(d) \/ Checked(d)

-----------------------------------------------------------------------------
(* The platform.                                                           *)

Link(d) == LinkStep(d) /\ UNCHANGED <<viewVars, taps, breaks>>

BreakConnection(d) ==
  /\ breaks < MaxBreaks
  /\ breaks' = breaks + 1
  /\ Disconnect(d)
  /\ LET lost == {m \in ToSet(toServer[d]) \cup ToSet(toClient[d]) :
                      m.type = "get" /\ m.call.visit = visit[d]}
     IN  /\ unanswered' = [unanswered EXCEPT ![d] = @ \/ lost # {}]
         /\ lostAnswer' = [lostAnswer EXCEPT ![d] = @ \/ lost # {}]
  /\ UNCHANGED <<screen, visit, isAdding, isInFavorites, taps>>

KillAndRestart(d) ==
  /\ breaks < MaxBreaks
  /\ breaks' = breaks + 1
  /\ KillApp(d)
  /\ screen' = [screen EXCEPT ![d] = NoCity]
  /\ UNCHANGED <<visit, isAdding, isInFavorites, unanswered, lostAnswer, taps>>

Next == \E d \in Devices :
  \/ \E c \in Cities : OpenCity(d, c)
  \/ CloseCity(d) \/ TapFavorite(d)
  \/ RunCallback(d)
  \/ Link(d) \/ BreakConnection(d) \/ KillAndRestart(d)

Spec == Init /\ [][Next]_vars

\* The server, the client library and the main queue keep working; users
\* need do nothing, and nothing says a broken connection stays broken.
Fairness == \A d \in Devices : WF_vars(RunCallback(d)) /\ WF_vars(Link(d))

FairSpec == Spec /\ Fairness

-----------------------------------------------------------------------------
(* What the state looks like when every list in the database and under     *)
(* way is in L.                                                            *)
Requests(L) == [type : {"put"}, val : L, call : WriteCalls]
                 \cup [type : {"get"}, val : {NoValue}, call : ReadCalls]
Answers(L) ==
  [type : {"get"}, ok : {TRUE}, val : L, call : ReadCalls]
    \cup [type : {"get"}, ok : {FALSE}, val : {NoValue}, call : ReadCalls]
    \cup [type : {"put"}, ok : BOOLEAN, val : {NoValue}, call : WriteCalls]

LinkOver(L) ==
  /\ store \in L
  /\ online \in [Devices -> BOOLEAN]
  /\ puts \in [Devices -> Seq([val : L, call : WriteCalls])]
  /\ waitingGets \in [Devices -> Seq(ReadCalls)]
  /\ toServer \in [Devices -> Seq(Requests(L))]
  /\ toClient \in [Devices -> Seq(Answers(L))]
  /\ main \in [Devices -> Seq(Answers(L))]

ViewOK ==
  /\ screen \in [Devices -> Cities \cup {NoCity}]
  /\ visit \in [Devices -> 0..MaxVisits]
  /\ isAdding \in [Devices -> BOOLEAN]
  /\ isInFavorites \in [Devices -> BOOLEAN]
  /\ unanswered \in [Devices -> BOOLEAN]
  /\ lostAnswer \in [Devices -> BOOLEAN]
  /\ taps \in 0..MaxTaps
  /\ breaks \in 0..MaxBreaks

\* Type correctness: a failed read or a written value carries no list, every
\* list is one of cities and placeholders.
TypeOK == LinkOver(Lists) /\ ViewOK

(* A city is never twice in the list, in spite of taps repeated before the *)
(* first is done, lists edited on two devices at once and writes sent      *)
(* again after a broken connection (addToFavorites looks before it         *)
(* appends; removeFromFavorites removes one occurrence only, so a second   *)
(* one would leave the city in the list).                                  *)
NeverTwice == NoRepeats(store)

(* Once the entry "null" is in the database no device ever takes it out:   *)
(* the list never becomes empty, the database never drops the favorites    *)
(* key, and UserEntity.fromJson, which needs that key, can still decode    *)
(* the account.  (While a registration is still being written it may.)     *)
PlaceholderStays ==
  [][HasCity(store, Placeholder) => HasCity(store', Placeholder)]_vars

(* The list in the database changes by one city at a time, the one an      *)
(* operation is for: no operation undoes another one.                      *)
Abstract == INSTANCE Favorites WITH fav <- CitiesIn(store)
OneCityAtATime == Abstract!Spec

(* When nothing is under way on the only device and every answer came, the *)
(* button of the open screen says what the database holds.                 *)
ButtonSettles ==
  \A d \in Devices :
    (Idle(d) /\ screen[d] # NoCity /\ ~unanswered[d]) =>
       (isInFavorites[d] <=> HasCity(store, screen[d]))

(* A spinner on the button ends, through denied and unanswered reads,      *)
(* denied writes and a connection that breaks and comes back.  The one     *)
(* exemption: a connection that broke took an answer for this screen with  *)
(* it, for reads that had been sent are not sent again.                    *)
SpinnerEnds ==
  \A d \in Devices :
    isAdding[d] ~> (~isAdding[d] \/ lostAnswer[d] \/ screen[d] = NoCity)
=============================================================================
