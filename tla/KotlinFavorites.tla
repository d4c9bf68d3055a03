--------------------------- MODULE KotlinFavorites ---------------------------
(***************************************************************************)
(* The favourites of one account of the Android app: the lists of          *)
(* UserMainActivity and the button of CityActivity.                        *)
(*                                                                         *)
(* UserMainActivity never removes its listener on "Users", so the database *)
(* client keeps a copy of the user: a read is answered from that copy,     *)
(* under the writes the database has not confirmed, and a write is visible *)
(* at once on the device that made it.  The activities and the client run  *)
(* on two threads and talk through two queues.                             *)
(***************************************************************************)
EXTENDS Naturals, Sequences, SequencesExt

CONSTANTS Devices,
          Cities,       \* ids of the cities in the catalogue
          Placeholder,  \* the entry "NULL" every new account starts with
          NoCity,       \* CityActivity is not open
          NoDevice,     \* an update after a reconnection
          InitialLists, \* lists an account may already have, nothing in them twice
          MaxActs,      \* bound: what users do, all devices
          MaxBreaks     \* bound: connections broken, apps killed, writes refused

Lists == Seq(Cities \cup {Placeholder})

ASSUME PlaceholderAssumption == Placeholder \notin Cities
ASSUME NoCityAssumption == NoCity \notin Cities
ASSUME NoDeviceAssumption == NoDevice \notin Devices
ASSUME InitialListsAssumption ==
  \A l \in InitialLists : /\ l \in Lists /\ Contains(l, Placeholder)
                          /\ \A i, j \in 1..Len(l) : l[i] = l[j] => i = j
ASSUME BoundsAssumption == MaxActs \in Nat /\ MaxBreaks \in Nat

VARIABLES store,     \* favs in the database
          up,        \* device -> writes on their way to the database
          down,      \* device -> updates and answers on their way back
          known,     \* device -> the client's copy; <<>> before the first update
          pending,   \* device -> writes without an answer
          ready,     \* device -> the client has the catalogue
          loads,     \* device -> listeners that wait for the catalogue
          waiting,   \* device -> cities of reads that wait for the first update
          client,    \* device -> calls for the client's thread
          main,      \* device -> events for the main thread
          favorites, \* device -> favoritesArrayList of UserMainActivity
          showsFavs, \* device -> the button offers all cities: favs are listed
          list,      \* device -> cities in the list
          isFav,     \* device -> favorites as of when the list was built
          city,      \* device -> the city CityActivity shows
          saved,     \* device -> its button says "Remove from favorites"
          overtaken, \* device -> what it sees of that city has changed meanwhile,
                     \* for another device changed it or a write was refused
          acts,      \* what users have done so far
          breaks,    \* connections broken, apps killed, writes refused so far
          repeats,   \* device -> the first writes of up, which the database has
                     \* had before: their confirmations were lost (history)
          broken     \* device -> a write was refused, and lists built on it may
                     \* be on their way (history)

linkVars == <<store, up, down, known, pending>>
threadVars == <<ready, loads, waiting, client, main>>
mainScreenVars == <<favorites, showsFavs, list, isFav>>
cityScreenVars == <<city, saved, overtaken>>
vars == <<linkVars, threadVars, mainScreenVars, cityScreenVars, acts, breaks, repeats, broken>>

HasCity(favs, c) == Contains(favs, c)
CitiesIn(favs) == {c \in Cities : HasCity(favs, c)}

\* Mutant: the list is cut off where the city was.
ToggledCutting(favs, c) ==
  IF HasCity(favs, c) THEN SubSeq(favs, 1, (CHOOSE i \in DOMAIN favs : favs[i] = c) - 1)
  ELSE Append(favs, c)

\* addToFavorites: add(id), or remove(id) if it is there.
Toggled(favs, c) == IF HasCity(favs, c) THEN RemoveFirst(favs, c) ELSE Append(favs, c)

\* What device d sees.
View(d) == IF pending[d] = <<>> THEN known[d] ELSE Last(pending[d])

Update(val, from) == [type |-> "update", val |-> val, from |-> from]
Confirmation(d) == [type |-> "confirmation", val |-> <<>>, from |-> d]
Refusal(d) == [type |-> "refusal", val |-> <<>>, from |-> d]

LocalIdle(d) == client[d] = <<>> /\ main[d] = <<>>
\* Everything device d has done has been done in the database as well.
Through(d) ==
  LocalIdle(d) /\ waiting[d] = <<>> /\ up[d] = <<>> /\ pending[d] = <<>>
Quiet(d) == Through(d) /\ ready[d] /\ down[d] = <<>>

\* People are slower than their device, though not than the network: they
\* wait for the answer to a tap only as long as the client has nothing to
\* answer from.  They use the account on another device only when the last
\* one is through and the other one has heard of it, or will with the first
\* update it gets.
Turn(d) ==
  /\ acts < MaxActs
  /\ LocalIdle(d) /\ waiting[d] = <<>>
  /\ \A e \in Devices \ {d} : Through(e)
  /\ \A i \in DOMAIN down[d] :
       down[d][i].from = d \/ (known[d] = <<>> /\ down[d][i].from = NoDevice)

Call(d, call) == client' = [client EXCEPT ![d] = Append(@, call)]

-----------------------------------------------------------------------------
Init ==
  /\ store \in InitialLists
  /\ up = [d \in Devices |-> <<>>]
  /\ down = [d \in Devices |-> <<Update(store, NoDevice)>>]
  /\ known = [d \in Devices |-> <<>>]
  /\ pending = [d \in Devices |-> <<>>]
  /\ ready = [d \in Devices |-> FALSE]
  /\ loads = [d \in Devices |-> <<>>]
  /\ waiting = [d \in Devices |-> <<>>]
  /\ client = [d \in Devices |-> <<>>]
  /\ main = [d \in Devices |-> <<>>]
  /\ favorites = [d \in Devices |-> <<>>]
  /\ showsFavs = [d \in Devices |-> FALSE]
  /\ list = [d \in Devices |-> {}]
  /\ isFav = [d \in Devices |-> {}]
  /\ city = [d \in Devices |-> NoCity]
  /\ saved = [d \in Devices |-> FALSE]
  /\ overtaken = [d \in Devices |-> FALSE]
  /\ acts = 0
  /\ breaks = 0
  /\ repeats = [d \in Devices |-> 0]
  /\ broken = [d \in Devices |-> FALSE]

-----------------------------------------------------------------------------
(* The user                                                                *)

TapShow(d) ==
  /\ Turn(d) /\ city[d] = NoCity
  /\ acts' = acts + 1
  /\ showsFavs' = [showsFavs EXCEPT ![d] = ~@]
  /\ Call(d, [op |-> "loadCities", favsOnly |-> showsFavs'[d]])
  /\ UNCHANGED <<linkVars, ready, loads, waiting, main, favorites, list, isFav,
                 cityScreenVars, breaks, repeats, broken>>

\* The catalogue is in the client's copy by then: detail() is answered
\* before anything the user does on the new screen.
OpenCity(d, c) ==
  /\ Turn(d) /\ city[d] = NoCity /\ c \in list[d]
  /\ acts' = acts + 1
  /\ city' = [city EXCEPT ![d] = c]
  /\ saved' = [saved EXCEPT ![d] = c \in isFav[d]]
  /\ overtaken' = [overtaken EXCEPT ![d] = FALSE]
  /\ UNCHANGED <<linkVars, threadVars, mainScreenVars, breaks, repeats, broken>>

CloseCity(d) ==
  /\ city[d] # NoCity /\ LocalIdle(d)
  /\ city' = [city EXCEPT ![d] = NoCity]
  /\ UNCHANGED <<linkVars, threadVars, mainScreenVars, saved, overtaken, acts, breaks,
                 repeats, broken>>

TapFavorite(d) ==
  /\ Turn(d) /\ city[d] # NoCity
  /\ acts' = acts + 1
  /\ Call(d, [op |-> "read", city |-> city[d]])
  /\ UNCHANGED <<linkVars, ready, loads, waiting, main, mainScreenVars, cityScreenVars,
                 breaks, repeats, broken>>

-----------------------------------------------------------------------------
(* The main thread                                                         *)

Event(d, type) == main[d] # <<>> /\ Head(main[d]).type = type
Done(d) == main' = [main EXCEPT ![d] = Tail(@)]

\* Mutant: the favs are taken, the list is not loaded again.
FavsArriveUnseen(d) ==
  /\ Event(d, "favs")
  /\ favorites' = [favorites EXCEPT ![d] = Head(main[d]).val]
  /\ Done(d)
  /\ UNCHANGED <<linkVars, ready, loads, waiting, client, showsFavs, list, isFav,
                 cityScreenVars, acts, breaks, repeats, broken>>

\* The listener on "Users" takes the favs and loads the list again.
FavsArrive(d) ==
  /\ Event(d, "favs")
  /\ favorites' = [favorites EXCEPT ![d] = Head(main[d]).val]
  /\ Call(d, [op |-> "loadCities", favsOnly |-> showsFavs[d]])
  /\ Done(d)
  /\ UNCHANGED <<linkVars, ready, loads, waiting, showsFavs, list, isFav,
                 cityScreenVars, acts, breaks, repeats, broken>>

\* Mutant: the favs are listed as they are.
CitiesArriveUnfiltered(d) ==
  /\ Event(d, "cities")
  /\ list' = [list EXCEPT ![d] =
       IF Head(main[d]).favsOnly THEN ToSet(favorites[d]) ELSE Cities]
  /\ isFav' = [isFav EXCEPT ![d] = CitiesIn(favorites[d])]
  /\ Done(d)
  /\ UNCHANGED <<linkVars, ready, loads, waiting, client, favorites, showsFavs,
                 cityScreenVars, acts, breaks, repeats, broken>>

\* A listener on "Cities" builds the list it was made for.
CitiesArrive(d) ==
  /\ Event(d, "cities")
  /\ list' = [list EXCEPT ![d] =
       IF Head(main[d]).favsOnly THEN CitiesIn(favorites[d]) ELSE Cities]
  /\ isFav' = [isFav EXCEPT ![d] = CitiesIn(favorites[d])]
  /\ Done(d)
  /\ UNCHANGED <<linkVars, ready, loads, waiting, client, favorites, showsFavs,
                 cityScreenVars, acts, breaks, repeats, broken>>

\* Mutant: the label is left alone.
ReadArrivesUnlabelled(d) ==
  /\ Event(d, "read")
  /\ Call(d, [op |-> "write", val |-> Toggled(Head(main[d]).val, Head(main[d]).city)])
  /\ Done(d)
  /\ UNCHANGED <<linkVars, ready, loads, waiting, mainScreenVars, cityScreenVars, acts,
                 breaks, repeats, broken>>

\* addToFavorites adds or removes the city, sets the label and writes.
ReadArrives(d) ==
  /\ Event(d, "read")
  /\ LET favs == Head(main[d]).val
         c == Head(main[d]).city
     IN  /\ saved' = [saved EXCEPT ![d] = IF city[d] = c THEN ~HasCity(favs, c) ELSE @]
         /\ overtaken' = [overtaken EXCEPT ![d] = @ /\ city[d] # c]
         /\ Call(d, [op |-> "write", val |-> Toggled(favs, c)])
  /\ Done(d)
  /\ UNCHANGED <<linkVars, ready, loads, waiting, mainScreenVars, city, acts, breaks,
                 repeats, broken>>

-----------------------------------------------------------------------------
(* The client's thread                                                     *)

Calls(d, op) == client[d] # <<>> /\ Head(client[d]).op = op
Return(d) == client' = [client EXCEPT ![d] = Tail(@)]

\* The listener on "Users" is told when what the device sees changes.
FavsEvents(d) ==
  IF View(d)' = View(d) THEN <<>> ELSE <<[type |-> "favs", val |-> View(d)']>>
ReadEvent(d, c) == [type |-> "read", val |-> View(d)', city |-> c]

\* A read is answered at once, unless the client has nothing yet.
ReadRuns(d) ==
  /\ Calls(d, "read")
  /\ Return(d)
  /\ UNCHANGED linkVars
  /\ LET c == Head(client[d]).city
     IN  \/ /\ known[d] # <<>>
            /\ main' = [main EXCEPT ![d] = Append(@, ReadEvent(d, c))]
            /\ UNCHANGED waiting
         \/ /\ known[d] = <<>>
            /\ waiting' = [waiting EXCEPT ![d] = Append(@, c)]
            /\ UNCHANGED main
  /\ UNCHANGED <<ready, loads, mainScreenVars, cityScreenVars, acts, breaks, repeats, broken>>

WriteRuns(d) ==
  /\ Calls(d, "write")
  /\ Return(d)
  /\ pending' = [pending EXCEPT ![d] = Append(@, Head(client[d]).val)]
  /\ up' = [up EXCEPT ![d] = Append(@, Head(client[d]).val)]
  /\ UNCHANGED <<store, down, known>>
  /\ main' = [main EXCEPT ![d] = @ \o FavsEvents(d)]
  /\ UNCHANGED <<ready, loads, waiting, mainScreenVars, cityScreenVars, acts, breaks,
                 repeats, broken>>

CitiesEvent(favsOnly) == [type |-> "cities", favsOnly |-> favsOnly]

\* loadCities adds one more listener on "Cities".
LoadCitiesRuns(d) ==
  /\ Calls(d, "loadCities")
  /\ Return(d)
  /\ LET favsOnly == Head(client[d]).favsOnly
     IN  \/ /\ ready[d]
            /\ main' = [main EXCEPT ![d] = Append(@, CitiesEvent(favsOnly))]
            /\ UNCHANGED loads
         \/ /\ ~ready[d]
            /\ loads' = [loads EXCEPT ![d] = Append(@, favsOnly)]
            /\ UNCHANGED main
  /\ UNCHANGED <<linkVars, ready, waiting, mainScreenVars, cityScreenVars, acts, breaks,
                 repeats, broken>>

\* The catalogue comes: every listener is told, in the order they were added.
CatalogueComes(d) ==
  /\ ~ready[d] /\ loads[d] # <<>>
  /\ ready' = [ready EXCEPT ![d] = TRUE]
  /\ loads' = [loads EXCEPT ![d] = <<>>]
  /\ main' = [main EXCEPT ![d] =
       @ \o [i \in DOMAIN loads[d] |-> CitiesEvent(loads[d][i])]]
  /\ UNCHANGED <<linkVars, waiting, client, mainScreenVars, cityScreenVars, acts, breaks,
                 repeats, broken>>

\* A list the device saw earlier is being made into a write.
Unfinished(d) ==
  \/ \E i \in DOMAIN main[d] : main[d][i].type = "read"
  \/ \E i \in DOMAIN client[d] : client[d][i].op = "write"

\* The client hears from the database.  It drops a write that is confirmed,
\* which its copy holds by then, and takes back one that is refused; the
\* app is not told which, for it passes setValue no listener.
Hear(d) ==
  /\ down[d] # <<>>
  /\ down' = [down EXCEPT ![d] = Tail(@)]
  /\ LET message == Head(down[d])
     IN  \/ /\ message.type = "update"
            /\ known' = [known EXCEPT ![d] = message.val]
            /\ UNCHANGED pending
         \/ /\ message.type \in {"confirmation", "refusal"}
            /\ pending' = [pending EXCEPT ![d] = Tail(@)]
            /\ UNCHANGED known
  /\ UNCHANGED <<store, up>>
  /\ main' = [main EXCEPT ![d] =
       @ \o FavsEvents(d) \o [i \in DOMAIN waiting[d] |-> ReadEvent(d, waiting[d][i])]]
  /\ waiting' = [waiting EXCEPT ![d] = <<>>]
  /\ overtaken' = [overtaken EXCEPT ![d] =
       @ \/ (HasCity(View(d)', city[d]) # HasCity(View(d), city[d]))]
  /\ broken' = [broken EXCEPT ![d] = @ /\ (pending'[d] # <<>> \/ Unfinished(d))]
  /\ UNCHANGED <<ready, loads, client, mainScreenVars, city, saved, acts, breaks, repeats>>

\* The database takes a write and tells every device, the writer twice.
Take(d) ==
  /\ up[d] # <<>>
  /\ store' = Head(up[d])
  /\ up' = [up EXCEPT ![d] = Tail(@)]
  /\ down' = [e \in Devices |-> Append(down[e], Update(store', d))
                 \o IF e = d THEN <<Confirmation(d)>> ELSE <<>>]
  /\ repeats' = [repeats EXCEPT ![d] = IF @ = 0 THEN 0 ELSE @ - 1]
  /\ broken' = [broken EXCEPT ![d] = FALSE]
  /\ UNCHANGED <<known, pending, threadVars, mainScreenVars, cityScreenVars, acts, breaks>>

-----------------------------------------------------------------------------
(* Failures                                                                *)

\* The database refuses a write and tells only the writer, which has built
\* on it meanwhile.
Refuse(d) ==
  /\ breaks < MaxBreaks
  /\ breaks' = breaks + 1
  /\ up[d] # <<>>
  /\ up' = [up EXCEPT ![d] = Tail(@)]
  /\ down' = [down EXCEPT ![d] = Append(@, Refusal(d))]
  /\ repeats' = [repeats EXCEPT ![d] = 0]
  /\ broken' = [broken EXCEPT ![d] = TRUE]
  /\ UNCHANGED <<store, known, pending, threadVars, mainScreenVars, cityScreenVars, acts>>

\* The connection breaks and is made again: what was under way is lost,
\* the listeners are told the present state, unconfirmed writes are sent
\* again.
Reconnect(d) ==
  /\ breaks < MaxBreaks
  /\ breaks' = breaks + 1
  /\ up' = [up EXCEPT ![d] = pending[d]]
  /\ repeats' = [repeats EXCEPT ![d] =
       IF broken[d] THEN 0 ELSE @ + (Len(pending[d]) - Len(up[d]))]
  /\ down' = [down EXCEPT ![d] = <<Update(store, NoDevice)>>]
  /\ UNCHANGED <<store, known, pending, threadVars, mainScreenVars, cityScreenVars, acts,
                 broken>>

\* The process ends and is started again; nothing is kept on the device.
KillAndRestart(d) ==
  /\ breaks < MaxBreaks
  /\ breaks' = breaks + 1
  /\ up' = [up EXCEPT ![d] = <<>>]
  /\ repeats' = [repeats EXCEPT ![d] = 0]
  /\ broken' = [broken EXCEPT ![d] = FALSE]
  /\ down' = [down EXCEPT ![d] = <<Update(store, NoDevice)>>]
  /\ known' = [known EXCEPT ![d] = <<>>]
  /\ pending' = [pending EXCEPT ![d] = <<>>]
  /\ ready' = [ready EXCEPT ![d] = FALSE]
  /\ loads' = [loads EXCEPT ![d] = <<>>]
  /\ waiting' = [waiting EXCEPT ![d] = <<>>]
  /\ client' = [client EXCEPT ![d] = <<>>]
  /\ main' = [main EXCEPT ![d] = <<>>]
  /\ favorites' = [favorites EXCEPT ![d] = <<>>]
  /\ showsFavs' = [showsFavs EXCEPT ![d] = FALSE]
  /\ list' = [list EXCEPT ![d] = {}]
  /\ isFav' = [isFav EXCEPT ![d] = {}]
  /\ city' = [city EXCEPT ![d] = NoCity]
  /\ saved' = [saved EXCEPT ![d] = FALSE]
  /\ overtaken' = [overtaken EXCEPT ![d] = FALSE]
  /\ UNCHANGED <<store, acts>>

-----------------------------------------------------------------------------
MainThread(d) == FavsArrive(d) \/ CitiesArrive(d) \/ ReadArrives(d)
ClientThread(d) ==
  ReadRuns(d) \/ WriteRuns(d) \/ LoadCitiesRuns(d) \/ CatalogueComes(d) \/ Hear(d)

Next == \E d \in Devices :
  \/ TapShow(d) \/ CloseCity(d) \/ TapFavorite(d)
  \/ \E c \in Cities : OpenCity(d, c)
  \/ MainThread(d) \/ ClientThread(d) \/ Take(d)
  \/ Refuse(d) \/ Reconnect(d) \/ KillAndRestart(d)

Spec == Init /\ [][Next]_vars

-----------------------------------------------------------------------------
ClientCalls == [op : {"read"}, city : Cities] \cup [op : {"write"}, val : Lists]
                 \cup [op : {"loadCities"}, favsOnly : BOOLEAN]
Events == [type : {"favs"}, val : Lists] \cup [type : {"cities"}, favsOnly : BOOLEAN]
            \cup [type : {"read"}, val : Lists, city : Cities]
Messages == [type : {"update", "confirmation", "refusal"}, val : Lists,
             from : Devices \cup {NoDevice}]

TypeOK ==
  /\ store \in Lists
  /\ up \in [Devices -> Seq(Lists)]
  /\ down \in [Devices -> Seq(Messages)]
  /\ known \in [Devices -> Lists]
  /\ pending \in [Devices -> Seq(Lists)]
  /\ ready \in [Devices -> BOOLEAN]
  /\ loads \in [Devices -> Seq(BOOLEAN)]
  /\ waiting \in [Devices -> Seq(Cities)]
  /\ client \in [Devices -> Seq(ClientCalls)]
  /\ main \in [Devices -> Seq(Events)]
  /\ favorites \in [Devices -> Lists]
  /\ showsFavs \in [Devices -> BOOLEAN]
  /\ list \in [Devices -> SUBSET Cities]
  /\ isFav \in [Devices -> SUBSET Cities]
  /\ city \in [Devices -> Cities \cup {NoCity}]
  /\ saved \in [Devices -> BOOLEAN]
  /\ overtaken \in [Devices -> BOOLEAN]
  /\ acts \in 0..MaxActs
  /\ breaks \in 0..MaxBreaks
  /\ repeats \in [Devices -> Nat]
  /\ broken \in [Devices -> BOOLEAN]

\* The last list the database has had: while it is told again what it knows
\* already, it goes back to older ones.
Newest ==
  IF \E d \in Devices : repeats[d] > 0
  THEN LET d == CHOOSE e \in Devices : repeats[e] > 0 IN up[d][repeats[d]]
  ELSE store

\* Used on one device at a time, favs is a set of cities changed one city at
\* a time, however slow the network: a change made while earlier ones are
\* still unanswered is built on them, not on what the database holds.  A
\* broken connection takes the database back through older lists and leaves
\* it with the newest one, unless the app is killed, or a write is refused, on
\* that way.  The code does not look whether a write was refused: those that
\* were built on it go on, and the first of them that is taken brings its
\* change along (Resumes); the next ones change one city again.
Abstract == INSTANCE Favorites WITH fav <- CitiesIn(Newest)
Forgets(d) == repeats[d] > 0 /\ (KillAndRestart(d) \/ Refuse(d))
Resumes(d) == broken[d] /\ Take(d)
OneCityAtATime ==
  /\ Abstract!Init
  /\ [][Abstract!Next \/ \E d \in Devices : Forgets(d) \/ Resumes(d)]_(CitiesIn(Newest))

\* When all is delivered the list is the one the button tells of: loadCities
\* adds a listener with every call and every update of a user and never
\* removes one, and the one added last has the last word.
ListMatchesButton ==
  \A d \in Devices :
    Quiet(d) => list[d] = IF showsFavs[d] THEN CitiesIn(store) ELSE Cities

\* The button of the open city says what the next tap will do, as far as
\* the device can know, unless what it sees has changed but for its own taps:
\* the screen takes isFav from the list and its label from the tap, and is
\* told neither of another device's changes nor of a write that is refused
\* and taken back.
ButtonFollows ==
  \A d \in Devices :
    LocalIdle(d) /\ city[d] # NoCity /\ ~overtaken[d] =>
      (saved[d] <=> HasCity(View(d), city[d]))
=============================================================================
