------------------------ MODULE KotlinFavorites_proofs ------------------------
(***************************************************************************)
(* Proofs about KotlinFavorites, for every value of its constants.         *)
(***************************************************************************)
EXTENDS KotlinFavorites, SequenceFacts

-----------------------------------------------------------------------------
(* The lists that occur: the placeholder is never taken out, and no city   *)
(* is there twice.                                                         *)
Distinct(l) == \A i, j \in 1..Len(l) : l[i] = l[j] => i = j
FavLists == {l \in Lists : Distinct(l) /\ \E i \in 1..Len(l) : l[i] = Placeholder}
Views == FavLists \cup {<<>>}

ReadCalls == [op : {"read"}, city : Cities]
WriteCalls == [op : {"write"}, val : FavLists]
LoadCalls == [op : {"loadCities"}, favsOnly : BOOLEAN]
TapCalls == ReadCalls \cup WriteCalls
AllCalls == ReadCalls \cup WriteCalls \cup LoadCalls

FavsNews == [type : {"favs"}, val : Views]
CitiesNews == [type : {"cities"}, favsOnly : BOOLEAN]
ReadNews == [type : {"read"}, val : FavLists, city : Cities]
AllNews == FavsNews \cup CitiesNews \cup ReadNews

Updates == [type : {"update"}, val : FavLists, from : Devices \cup {NoDevice}]
Answers == [type : {"confirmation", "refusal"}, val : {<<>>}, from : Devices]
AllMessages == Updates \cup Answers

Typed ==
  /\ store \in FavLists
  /\ up \in [Devices -> Seq(FavLists)]
  /\ down \in [Devices -> Seq(AllMessages)]
  /\ known \in [Devices -> Views]
  /\ pending \in [Devices -> Seq(FavLists)]
  /\ ready \in [Devices -> BOOLEAN]
  /\ loads \in [Devices -> Seq(BOOLEAN)]
  /\ waiting \in [Devices -> Seq(Cities)]
  /\ client \in [Devices -> Seq(AllCalls)]
  /\ main \in [Devices -> Seq(AllNews)]
  /\ favorites \in [Devices -> Views]
  /\ showsFavs \in [Devices -> BOOLEAN]
  /\ list \in [Devices -> SUBSET Cities]
  /\ isFav \in [Devices -> SUBSET Cities]
  /\ city \in [Devices -> Cities \cup {NoCity}]
  /\ saved \in [Devices -> BOOLEAN]
  /\ overtaken \in [Devices -> BOOLEAN]
  /\ acts \in 0..MaxActs
  /\ breaks \in 0..MaxBreaks
  /\ repeats \in [Devices -> Nat]
  /\ broken \in [Devices -> BOOLEAN]

-----------------------------------------------------------------------------
(* The invariant of one device.                                            *)

\* Every write the client holds is on its way, or its confirmation is.
Owed(d) == CountOf(down[d], Answers)
LinkInv(d) ==
  /\ Len(pending[d]) = Owed(d) + Len(up[d])
  /\ \A i \in 1..Len(up[d]) : up[d][i] = pending[d][Owed(d) + i]

\* A device that knows nothing has answered nothing.
KnownInv(d) ==
  known[d] = <<>> =>
    /\ pending[d] = <<>>
    /\ Of(client[d], WriteCalls) = {}
    /\ Of(main[d], ReadNews) = {}

\* The news about the store is in the last update, or it has been heard.
NewsInv(d) ==
  /\ \A x : LastOf(down[d], Updates, x) => x.val = store
  /\ Of(down[d], Updates) = {} => known[d] = store

\* The last word of the favs listener is what the device sees.
FavsInv(d) ==
  /\ \A x : LastOf(main[d], FavsNews, x) => x.val = View(d)
  /\ Of(main[d], FavsNews) = {} => favorites[d] = View(d)

\* The listener on "Cities" that is added last is for what the button tells,
\* and it comes after all favs that have been taken.
Listed(d) == IF showsFavs[d] THEN CitiesIn(favorites[d]) ELSE Cities
ListInv(d) ==
  /\ \A x : LastOf(client[d], LoadCalls, x) => x.favsOnly = showsFavs[d]
  /\ Of(client[d], LoadCalls) = {} =>
       /\ loads[d] # <<>> => Last(loads[d]) = showsFavs[d]
       /\ \A x : LastOf(main[d], CitiesNews, x) => x.favsOnly = showsFavs[d]
       /\ ready[d] /\ Of(main[d], CitiesNews) = {} =>
            list[d] = Listed(d) /\ isFav[d] = CitiesIn(favorites[d])
  /\ ready[d] => loads[d] = <<>>
  /\ ~ready[d] => Of(main[d], CitiesNews) = {} /\ list[d] = {}

\* One tap at a time is under way, for the city that is open if one is.
Taps(d) == CountOf(client[d], TapCalls) + Len(waiting[d]) + CountOf(main[d], ReadNews)
TapInv(d) ==
  /\ Taps(d) <= 1
  /\ city[d] # NoCity =>
       /\ \A x \in Of(client[d], ReadCalls) : x.city = city[d]
       /\ \A i \in 1..Len(waiting[d]) : waiting[d][i] = city[d]
       /\ \A x \in Of(main[d], ReadNews) : x.city = city[d]

\* The button says what is being written, or else what the device sees.
ButtonInv(d) ==
  city[d] # NoCity /\ ~overtaken[d] =>
    /\ \A x \in Of(client[d], WriteCalls) : (saved[d] <=> HasCity(x.val, city[d]))
    /\ Of(client[d], WriteCalls) = {} => (saved[d] <=> HasCity(View(d), city[d]))

\* The part of the invariant that one device keeps for itself.
Own(d) ==
  /\ LinkInv(d) /\ KnownInv(d) /\ NewsInv(d)
  /\ FavsInv(d) /\ ListInv(d) /\ TapInv(d) /\ ButtonInv(d)

OneCity(l, m) ==
  \E c \in Cities : \/ CitiesIn(m) = CitiesIn(l) \cup {c}
                    \/ CitiesIn(m) = CitiesIn(l) \ {c}

Active(d) == Taps(d) > 0 \/ up[d] # <<>> \/ pending[d] # <<>>

\* Nothing is known yet, and only the first update is under way.
Fresh(d) ==
  /\ known[d] = <<>> /\ pending[d] = <<>> /\ up[d] = <<>>
  /\ Len(down[d]) = 1 /\ down[d][1] \in Updates

\* What the device sees is what the store will be when all has arrived.
Informed(d) == pending[d] = <<>> => known[d] = store

\* What is on its way to a device: the present state comes first, its own
\* updates come with a confirmation, and while it is active no others come.
DownInv(d) ==
  \A i \in 1..Len(down[d]) :
    /\ down[d][i].from = NoDevice => i = 1
    /\ down[d][i] \in Updates /\ down[d][i].from = d =>
         i < Len(down[d]) /\ down[d][i + 1] \in Answers
    /\ Active(d) => down[d][i].from \in {d, NoDevice}

\* Each write is built on the one before it.  Behind a refused write the
\* first one is not built on the store, and one that is still being made is
\* built on what has been taken back when no other is left.
Detached(d) == broken[d] /\ pending[d] = <<>>
ChainInv(d) ==
  /\ \A i \in 1..Len(pending[d]) - 1 : OneCity(pending[d][i], pending[d][i + 1])
  /\ repeats[d] <= Len(up[d])
  /\ up[d] # <<>> /\ repeats[d] = 0 /\ ~broken[d] => OneCity(store, up[d][1])
  /\ Owed(d) > 0 /\ ~broken[d] => store = pending[d][Owed(d)]
  /\ broken[d] => repeats[d] = 0
  /\ ~Detached(d) => \A x \in Of(client[d], WriteCalls) : OneCity(View(d), x.val)
  /\ ~Detached(d) => \A x \in Of(main[d], ReadNews) : x.val = View(d)
  /\ Active(d) => Informed(d) \/ Fresh(d)
  /\ waiting[d] # <<>> => Fresh(d)

OneActive == \A d, e \in Devices : Active(d) /\ Active(e) => d = e

-----------------------------------------------------------------------------
(* Lists.                                                                  *)

LEMMA FavListsFacts ==
  /\ \A l \in FavLists : l \in Lists /\ l # <<>> /\ l \in Views
  /\ \A l \in Views : l # <<>> => l \in FavLists
BY DEF FavLists, Views

\* addToFavorites changes one city, whichever way.
LEMMA TogglesOne ==
  ASSUME NEW l \in FavLists, NEW c \in Cities
  PROVE  /\ Toggled(l, c) \in FavLists
         /\ HasCity(Toggled(l, c), c) <=> ~HasCity(l, c)
         /\ OneCity(l, Toggled(l, c))
<1>1. l \in Seq(Cities \cup {Placeholder}) /\ Len(l) \in Nat
  BY DEF FavLists, Lists
<1>2. PICK p \in 1..Len(l) : l[p] = Placeholder
  BY DEF FavLists
<1>3. c # Placeholder
  BY PlaceholderAssumption
<1>4. CASE HasCity(l, c)
  <2>. DEFINE m == RemoveFirst(l, c)
  <2>1. PICK k \in 1..Len(l) : l[k] = c /\ m = RemoveAt(l, k)
    BY <1>1, <1>4, RemovesFirst DEF HasCity
  <2>2. /\ m \in Lists /\ Len(m) = Len(l) - 1
        /\ \A j \in 1..Len(l) - 1 : m[j] = IF j < k THEN l[j] ELSE l[j + 1]
    BY <1>1, <2>1, RemoveAtProperties DEF Lists
  <2>3. Toggled(l, c) = m
    BY <1>4 DEF Toggled
  <2>. HIDE DEF m
  <2>4. \A i, j \in 1..Len(l) : l[i] = l[j] => i = j
    BY DEF FavLists, Distinct
  <2>5. Distinct(m)
    BY <1>1, <2>2, <2>4 DEF Distinct
  <2>6. ASSUME NEW i \in 1..Len(l), i # k
        PROVE  \E j \in 1..Len(m) : m[j] = l[i]
    <3>1. CASE i < k
      BY <1>1, <2>2, <3>1
    <3>2. CASE ~(i < k)
      <4>1. i - 1 \in 1..Len(l) - 1 /\ ~(i - 1 < k) /\ (i - 1) + 1 = i
        BY <1>1, <2>6, <3>2
      <4>. QED
        BY <2>2, <4>1
    <3>. QED
      BY <3>1, <3>2
  <2>7. ASSUME NEW j \in 1..Len(m)
        PROVE  \E i \in 1..Len(l) : i # k /\ m[j] = l[i]
    BY <1>1, <2>2
  <2>8. m \in FavLists
    BY <1>2, <1>3, <2>1, <2>2, <2>5, <2>6 DEF FavLists
  <2>9. \A x : HasCity(m, x) <=> HasCity(l, x) /\ x # c
    <3>1. \A x : HasCity(m, x) => HasCity(l, x) /\ x # c
      BY <2>1, <2>4, <2>7 DEF HasCity, Contains
    <3>2. \A x : HasCity(l, x) /\ x # c => HasCity(m, x)
      BY <2>1, <2>6 DEF HasCity, Contains
    <3>. QED
      BY <3>1, <3>2
  <2>10. CitiesIn(m) = CitiesIn(l) \ {c}
    BY <2>9 DEF CitiesIn
  <2>. QED
    BY <1>4, <2>3, <2>8, <2>9, <2>10 DEF OneCity
<1>5. CASE ~HasCity(l, c)
  <2>. DEFINE m == Append(l, c)
  <2>1. /\ m \in Lists /\ Len(m) = Len(l) + 1
        /\ \A i \in 1..Len(l) : m[i] = l[i]
        /\ m[Len(l) + 1] = c
    BY <1>1, AppendProperties DEF Lists
  <2>2. Toggled(l, c) = m
    BY <1>5 DEF Toggled
  <2>. HIDE DEF m
  <2>3. \A i \in 1..Len(l) : i \in 1..Len(m)
    BY <1>1, <2>1
  <2>4. \A i \in 1..Len(l) : l[i] # c
    BY <1>5 DEF HasCity, Contains
  <2>5. Distinct(m)
    <3>1. \A i, j \in 1..Len(l) : l[i] = l[j] => i = j
      BY DEF FavLists, Distinct
    <3>2. \A i \in 1..Len(m) : i \in 1..Len(l) \/ i = Len(l) + 1
      BY <1>1, <2>1
    <3>. QED
      BY <2>1, <2>4, <3>1, <3>2 DEF Distinct
  <2>6. m \in FavLists
    BY <1>2, <2>1, <2>3, <2>5 DEF FavLists
  <2>7. Len(m) \in 1..Len(m)
    BY <1>1, <2>1
  <2>8. HasCity(m, c)
    BY <2>1, <2>7 DEF HasCity, Contains
  <2>9. \A x : HasCity(m, x) <=> HasCity(l, x) \/ x = c
    BY <1>1, <2>1, <2>3, <2>8 DEF HasCity, Contains
  <2>10. CitiesIn(m) = CitiesIn(l) \cup {c}
    BY <2>9 DEF CitiesIn
  <2>. QED
    BY <1>5, <2>2, <2>6, <2>8, <2>10 DEF OneCity
<1>. QED
  BY <1>4, <1>5

-----------------------------------------------------------------------------
(* What is in the queues, by what is put in and taken out.                 *)

LEMMA CallKinds ==
  ASSUME NEW x \in AllCalls
  PROVE  /\ x \in ReadCalls <=> x.op = "read"
         /\ x \in WriteCalls <=> x.op = "write"
         /\ x \in LoadCalls <=> x.op = "loadCities"
         /\ x \in TapCalls <=> x.op # "loadCities"
BY DEF AllCalls, TapCalls, ReadCalls, WriteCalls, LoadCalls

LEMMA NewsKinds ==
  ASSUME NEW x \in AllNews
  PROVE  /\ x \in FavsNews <=> x.type = "favs"
         /\ x \in CitiesNews <=> x.type = "cities"
         /\ x \in ReadNews <=> x.type = "read"
BY DEF AllNews, FavsNews, CitiesNews, ReadNews

LEMMA MessageKinds ==
  ASSUME NEW x \in AllMessages
  PROVE  /\ x \in Updates <=> x.type = "update"
         /\ x \in Answers <=> x.type \in {"confirmation", "refusal"}
         /\ x \in Updates => x.val \in FavLists
BY DEF AllMessages, Updates, Answers

LEMMA ClientGets ==
  ASSUME Typed, NEW d \in Devices, NEW x \in AllCalls, client' = [client EXCEPT ![d] = Append(@, x)]
  PROVE  /\ client' \in [Devices -> Seq(AllCalls)]
         /\ x.op = "read" =>
              /\ Of(client'[d], ReadCalls) = Of(client[d], ReadCalls) \cup {x}
              /\ Of(client'[d], WriteCalls) = Of(client[d], WriteCalls)
              /\ Of(client'[d], LoadCalls) = Of(client[d], LoadCalls)
              /\ \A y : LastOf(client'[d], LoadCalls, y) <=> LastOf(client[d], LoadCalls, y)
              /\ CountOf(client'[d], TapCalls) = CountOf(client[d], TapCalls) + 1
         /\ x.op = "write" =>
              /\ Of(client'[d], ReadCalls) = Of(client[d], ReadCalls)
              /\ Of(client'[d], WriteCalls) = Of(client[d], WriteCalls) \cup {x}
              /\ Of(client'[d], LoadCalls) = Of(client[d], LoadCalls)
              /\ \A y : LastOf(client'[d], LoadCalls, y) <=> LastOf(client[d], LoadCalls, y)
              /\ CountOf(client'[d], TapCalls) = CountOf(client[d], TapCalls) + 1
         /\ x.op = "loadCities" =>
              /\ Of(client'[d], ReadCalls) = Of(client[d], ReadCalls)
              /\ Of(client'[d], WriteCalls) = Of(client[d], WriteCalls)
              /\ x \in Of(client'[d], LoadCalls)
              /\ \A y : LastOf(client'[d], LoadCalls, y) <=> y = x
              /\ CountOf(client'[d], TapCalls) = CountOf(client[d], TapCalls)
<1>1. client[d] \in Seq(AllCalls) /\ client'[d] = Append(client[d], x)
  BY DEF Typed
<1>2. client' \in [Devices -> Seq(AllCalls)]
  BY <1>1 DEF Typed
<1>. DEFINE P(C) == /\ Of(client'[d], C) = Of(client[d], C) \cup (IF x \in C THEN {x} ELSE {})
                    /\ CountOf(client'[d], C) =
                         IF x \in C THEN CountOf(client[d], C) + 1 ELSE CountOf(client[d], C)
                    /\ \A y : LastOf(client'[d], C, y) <=>
                         IF x \in C THEN y = x ELSE LastOf(client[d], C, y)
<1>3. P(ReadCalls) /\ P(WriteCalls) /\ P(LoadCalls) /\ P(TapCalls)
  BY <1>1, KindsAppend
<1>4. /\ x \in ReadCalls <=> x.op = "read"
      /\ x \in WriteCalls <=> x.op = "write"
      /\ x \in LoadCalls <=> x.op = "loadCities"
      /\ x \in TapCalls <=> x.op # "loadCities"
  BY CallKinds
<1>. QED
  BY <1>2, <1>3, <1>4

LEMMA ClientLoses ==
  ASSUME Typed, NEW d \in Devices, client[d] # <<>>, client' = [client EXCEPT ![d] = Tail(@)]
  PROVE  LET x == Head(client[d]) IN
         /\ client' \in [Devices -> Seq(AllCalls)]
         /\ x \in AllCalls
         /\ \A y : LastOf(client'[d], LoadCalls, y) => LastOf(client[d], LoadCalls, y)
         /\ x.op = "read" =>
              /\ x \in ReadCalls
              /\ Of(client[d], ReadCalls) = Of(client'[d], ReadCalls) \cup {x}
              /\ Of(client'[d], WriteCalls) = Of(client[d], WriteCalls)
              /\ Of(client'[d], LoadCalls) = Of(client[d], LoadCalls)
              /\ CountOf(client[d], TapCalls) = CountOf(client'[d], TapCalls) + 1
         /\ x.op = "write" =>
              /\ x \in WriteCalls
              /\ Of(client'[d], ReadCalls) = Of(client[d], ReadCalls)
              /\ Of(client[d], WriteCalls) = Of(client'[d], WriteCalls) \cup {x}
              /\ Of(client'[d], LoadCalls) = Of(client[d], LoadCalls)
              /\ CountOf(client[d], TapCalls) = CountOf(client'[d], TapCalls) + 1
         /\ x.op = "loadCities" =>
              /\ x \in LoadCalls
              /\ Of(client'[d], ReadCalls) = Of(client[d], ReadCalls)
              /\ Of(client'[d], WriteCalls) = Of(client[d], WriteCalls)
              /\ Of(client'[d], LoadCalls) = {} => LastOf(client[d], LoadCalls, x)
              /\ CountOf(client'[d], TapCalls) = CountOf(client[d], TapCalls)
<1>. DEFINE x == Head(client[d])
<1>1. client[d] \in Seq(AllCalls) /\ client'[d] = Tail(client[d])
  BY DEF Typed
<1>2. x \in AllCalls /\ client'[d] \in Seq(AllCalls)
  BY <1>1, HeadTailIn
<1>3. client' \in [Devices -> Seq(AllCalls)]
  BY <1>2 DEF Typed
<1>. DEFINE P(C) == /\ Of(client[d], C) = Of(client'[d], C) \cup (IF x \in C THEN {x} ELSE {})
                    /\ CountOf(client[d], C) =
                         IF x \in C THEN CountOf(client'[d], C) + 1 ELSE CountOf(client'[d], C)
                    /\ \A y : LastOf(client'[d], C, y) => LastOf(client[d], C, y)
                    /\ Of(client'[d], C) = {} /\ x \in C => LastOf(client[d], C, x)
<1>4. P(ReadCalls) /\ P(WriteCalls) /\ P(LoadCalls) /\ P(TapCalls)
  <2>1. ASSUME NEW K PROVE P(K)
    BY <1>1, KindsTail
  <2>. QED
    BY <2>1
<1>. HIDE DEF x
<1>5. /\ x \in ReadCalls <=> x.op = "read"
      /\ x \in WriteCalls <=> x.op = "write"
      /\ x \in LoadCalls <=> x.op = "loadCities"
      /\ x \in TapCalls <=> x.op # "loadCities"
  BY <1>2, CallKinds
<1>. QED
  BY <1>2, <1>3, <1>4, <1>5 DEF x

LEMMA MainLoses ==
  ASSUME Typed, NEW d \in Devices, main[d] # <<>>, main' = [main EXCEPT ![d] = Tail(@)]
  PROVE  LET x == Head(main[d]) IN
         /\ main' \in [Devices -> Seq(AllNews)]
         /\ x \in AllNews
         /\ \A y : LastOf(main'[d], FavsNews, y) => LastOf(main[d], FavsNews, y)
         /\ \A y : LastOf(main'[d], CitiesNews, y) => LastOf(main[d], CitiesNews, y)
         /\ x.type = "favs" =>
              /\ x \in FavsNews
              /\ Of(main'[d], FavsNews) = {} => LastOf(main[d], FavsNews, x)
              /\ Of(main'[d], CitiesNews) = Of(main[d], CitiesNews)
              /\ Of(main'[d], ReadNews) = Of(main[d], ReadNews)
              /\ CountOf(main'[d], ReadNews) = CountOf(main[d], ReadNews)
         /\ x.type = "cities" =>
              /\ x \in CitiesNews
              /\ Of(main[d], CitiesNews) # {}
              /\ Of(main'[d], FavsNews) = Of(main[d], FavsNews)
              /\ Of(main'[d], CitiesNews) = {} => LastOf(main[d], CitiesNews, x)
              /\ Of(main'[d], ReadNews) = Of(main[d], ReadNews)
              /\ CountOf(main'[d], ReadNews) = CountOf(main[d], ReadNews)
         /\ x.type = "read" =>
              /\ x \in ReadNews
              /\ Of(main'[d], FavsNews) = Of(main[d], FavsNews)
              /\ Of(main'[d], CitiesNews) = Of(main[d], CitiesNews)
              /\ Of(main[d], ReadNews) = Of(main'[d], ReadNews) \cup {x}
              /\ CountOf(main[d], ReadNews) = CountOf(main'[d], ReadNews) + 1
<1>. DEFINE x == Head(main[d])
<1>1. main[d] \in Seq(AllNews) /\ main'[d] = Tail(main[d])
  BY DEF Typed
<1>2. x \in AllNews /\ main'[d] \in Seq(AllNews)
  BY <1>1, HeadTailIn
<1>3. main' \in [Devices -> Seq(AllNews)]
  BY <1>2 DEF Typed
<1>. DEFINE P(C) == /\ Of(main[d], C) = Of(main'[d], C) \cup (IF x \in C THEN {x} ELSE {})
                    /\ CountOf(main[d], C) =
                         IF x \in C THEN CountOf(main'[d], C) + 1 ELSE CountOf(main'[d], C)
                    /\ \A y : LastOf(main'[d], C, y) => LastOf(main[d], C, y)
                    /\ Of(main'[d], C) = {} /\ x \in C => LastOf(main[d], C, x)
<1>4. P(FavsNews) /\ P(CitiesNews) /\ P(ReadNews)
  <2>1. ASSUME NEW K PROVE P(K)
    BY <1>1, KindsTail
  <2>. QED
    BY <2>1
<1>. HIDE DEF x
<1>5. /\ x \in FavsNews <=> x.type = "favs"
      /\ x \in CitiesNews <=> x.type = "cities"
      /\ x \in ReadNews <=> x.type = "read"
  BY <1>2, NewsKinds
<1>. QED
  BY <1>2, <1>3, <1>4, <1>5 DEF x

\* s is the queue of the main thread before, t after the event x.
LEMMA MainGets ==
  ASSUME NEW s \in Seq(AllNews), NEW x \in AllNews
  PROVE  LET t == Append(s, x) IN
         /\ t \in Seq(AllNews)
         /\ x.type = "favs" =>
              /\ \A y : LastOf(t, FavsNews, y) <=> y = x
              /\ x \in Of(t, FavsNews)
              /\ \A y : LastOf(t, CitiesNews, y) <=> LastOf(s, CitiesNews, y)
              /\ Of(t, CitiesNews) = Of(s, CitiesNews)
              /\ Of(t, ReadNews) = Of(s, ReadNews)
              /\ CountOf(t, ReadNews) = CountOf(s, ReadNews)
         /\ x.type = "cities" =>
              /\ \A y : LastOf(t, FavsNews, y) <=> LastOf(s, FavsNews, y)
              /\ Of(t, FavsNews) = Of(s, FavsNews)
              /\ \A y : LastOf(t, CitiesNews, y) <=> y = x
              /\ x \in Of(t, CitiesNews)
              /\ Of(t, ReadNews) = Of(s, ReadNews)
              /\ CountOf(t, ReadNews) = CountOf(s, ReadNews)
         /\ x.type = "read" =>
              /\ \A y : LastOf(t, FavsNews, y) <=> LastOf(s, FavsNews, y)
              /\ Of(t, FavsNews) = Of(s, FavsNews)
              /\ \A y : LastOf(t, CitiesNews, y) <=> LastOf(s, CitiesNews, y)
              /\ Of(t, CitiesNews) = Of(s, CitiesNews)
              /\ Of(t, ReadNews) = Of(s, ReadNews) \cup {x}
              /\ CountOf(t, ReadNews) = CountOf(s, ReadNews) + 1
<1>. DEFINE t == Append(s, x)
<1>1. t \in Seq(AllNews)
  OBVIOUS
<1>. DEFINE P(C) == /\ Of(t, C) = Of(s, C) \cup (IF x \in C THEN {x} ELSE {})
                    /\ CountOf(t, C) = IF x \in C THEN CountOf(s, C) + 1 ELSE CountOf(s, C)
                    /\ \A y : LastOf(t, C, y) <=> IF x \in C THEN y = x ELSE LastOf(s, C, y)
<1>2. P(FavsNews) /\ P(CitiesNews) /\ P(ReadNews)
  BY KindsAppend
<1>. HIDE DEF t
<1>3. /\ x \in FavsNews <=> x.type = "favs"
      /\ x \in CitiesNews <=> x.type = "cities"
      /\ x \in ReadNews <=> x.type = "read"
  BY NewsKinds
<1>. QED
  BY <1>1, <1>2, <1>3 DEF t

-----------------------------------------------------------------------------
(* Every step of a device keeps the types and its own invariant.           *)

\* What a step of d may leave alone, and what it may do to the queues.
LinkSame(d) ==
  /\ store' = store /\ up'[d] = up[d] /\ down'[d] = down[d]
  /\ known'[d] = known[d] /\ pending'[d] = pending[d] /\ repeats'[d] = repeats[d]
  /\ broken'[d] = broken[d]

TapsSame(d) ==
  /\ waiting'[d] = waiting[d]
  /\ Of(client'[d], WriteCalls) = Of(client[d], WriteCalls)
  /\ Of(main'[d], ReadNews) = Of(main[d], ReadNews)
  /\ CountOf(client'[d], TapCalls) = CountOf(client[d], TapCalls)
  /\ CountOf(main'[d], ReadNews) = CountOf(main[d], ReadNews)

Calm(d) == LinkSame(d) /\ TapsSame(d)

\* Another tap, while none is under way.
Tapped(d) ==
  /\ LinkSame(d) /\ waiting'[d] = <<>> /\ Taps(d) = 0
  /\ Of(client'[d], WriteCalls) = {} /\ Of(main'[d], ReadNews) = {}

\* A read is answered, or has to wait.
Asked(d) ==
  /\ LinkSame(d) /\ Taps(d) > 0
  /\ Of(client'[d], WriteCalls) = Of(client[d], WriteCalls)
  /\ \/ waiting'[d] = <<>> /\ \A y \in Of(main'[d], ReadNews) : y.val = View(d)
     \/ known[d] = <<>> /\ Of(main'[d], ReadNews) = {}

\* The answer is made into a write.
Answered(d) ==
  /\ LinkSame(d) /\ Taps(d) > 0
  /\ waiting'[d] = <<>> /\ Of(main'[d], ReadNews) = {}
  /\ \E x \in Of(main[d], ReadNews) :
       /\ x.val \in FavLists /\ x.city \in Cities
       /\ \A y \in Of(client'[d], WriteCalls) : y.val = Toggled(x.val, x.city)

\* The write is on its way.
Wrote(d) ==
  /\ store' = store /\ down'[d] = down[d] /\ known'[d] = known[d]
  /\ repeats'[d] = repeats[d] /\ broken'[d] = broken[d]
  /\ Taps(d) > 0 /\ known[d] # <<>>
  /\ waiting'[d] = <<>> /\ Of(main'[d], ReadNews) = {}
  /\ Of(client'[d], WriteCalls) = {}
  /\ \E x \in Of(client[d], WriteCalls) :
       /\ x.val \in FavLists
       /\ pending'[d] = Append(pending[d], x.val) /\ up'[d] = Append(up[d], x.val)

\* Something has come back.
Heard(d) ==
  /\ store' = store /\ up'[d] = up[d] /\ repeats'[d] = repeats[d]
  /\ down[d] # <<>> /\ down'[d] = Tail(down[d])
  /\ \/ /\ Head(down[d]) \in Updates
        /\ known'[d] = Head(down[d]).val /\ pending'[d] = pending[d]
        /\ Owed(d)' = Owed(d)
     \/ /\ Head(down[d]) \in Answers
        /\ known'[d] = known[d] /\ pending'[d] = Tail(pending[d]) /\ pending[d] # <<>>
        /\ Owed(d) = Owed(d)' + 1
  /\ Owed(d)' \in Nat
  /\ broken'[d] => broken[d]
  /\ broken[d] /\ ~broken'[d] =>
       pending'[d] = <<>> /\ Of(client[d], WriteCalls) = {} /\ Of(main[d], ReadNews) = {}
  /\ waiting'[d] = <<>> /\ Taps(d)' = Taps(d)
  /\ Of(client'[d], WriteCalls) = Of(client[d], WriteCalls)
  /\ waiting[d] = <<>> => Of(main'[d], ReadNews) = Of(main[d], ReadNews)
  /\ \A y \in Of(main'[d], ReadNews) : y \in Of(main[d], ReadNews) \/ y.val = View(d)'

LEMMA BooleanSet ==
  ASSUME NEW f \in [Devices -> BOOLEAN], NEW d \in Devices, NEW b \in BOOLEAN
  PROVE  [f EXCEPT ![d] = b] \in [Devices -> BOOLEAN]
OBVIOUS

LEMMA TapShowKeeps ==
  ASSUME Typed, NEW d \in Devices, Own(d), TapShow(d)
  PROVE  Typed' /\ Own(d)' /\ Calm(d)
<1>. DEFINE load == [op |-> "loadCities", favsOnly |-> showsFavs'[d]]
<1>1. /\ showsFavs' = [showsFavs EXCEPT ![d] = ~@]
      /\ client' = [client EXCEPT ![d] = Append(@, load)]
      /\ acts' = acts + 1 /\ acts < MaxActs
      /\ UNCHANGED <<store, up, down, known, pending, ready, loads, waiting, main,
                     favorites, list, isFav, city, saved, overtaken, breaks, repeats, broken>>
  BY DEF TapShow, Call, Turn, linkVars, cityScreenVars
<1>2. showsFavs' \in [Devices -> BOOLEAN] /\ load \in AllCalls /\ load.op = "loadCities"
  BY <1>1 DEF Typed, AllCalls, LoadCalls
<1>. HIDE DEF load
<1>3. /\ client' \in [Devices -> Seq(AllCalls)]
      /\ Of(client'[d], ReadCalls) = Of(client[d], ReadCalls)
      /\ Of(client'[d], WriteCalls) = Of(client[d], WriteCalls)
      /\ load \in Of(client'[d], LoadCalls)
      /\ \A y : LastOf(client'[d], LoadCalls, y) <=> y = load
      /\ CountOf(client'[d], TapCalls) = CountOf(client[d], TapCalls)
  BY <1>1, <1>2, ClientGets
<1>4. Typed'
  BY <1>1, <1>2, <1>3, BoundsAssumption DEF Typed
<1>5. LinkInv(d)' /\ KnownInv(d)' /\ NewsInv(d)' /\ FavsInv(d)'
  BY <1>1, <1>3 DEF Own, LinkInv, Owed, KnownInv, NewsInv, FavsInv, View
<1>6. ListInv(d)'
  <2>1. load.favsOnly = showsFavs'[d]
    BY DEF load
  <2>. QED
    BY <1>1, <1>3, <2>1 DEF Own, ListInv
<1>7. TapInv(d)' /\ ButtonInv(d)'
  BY <1>1, <1>3 DEF Own, TapInv, Taps, ButtonInv, View
<1>8. Calm(d)
  BY <1>1, <1>3 DEF Calm, LinkSame, TapsSame
<1>. QED
  BY <1>8, <1>4, <1>5, <1>6, <1>7 DEF Own

LEMMA OpenCityKeeps ==
  ASSUME Typed, NEW d \in Devices, Own(d), NEW c \in Cities, OpenCity(d, c)
  PROVE  Typed' /\ Own(d)' /\ Calm(d)
<1>1. /\ city' = [city EXCEPT ![d] = c]
      /\ saved' = [saved EXCEPT ![d] = c \in isFav[d]]
      /\ overtaken' = [overtaken EXCEPT ![d] = FALSE]
      /\ acts' = acts + 1 /\ acts < MaxActs /\ c \in list[d]
      /\ client[d] = <<>> /\ main[d] = <<>> /\ waiting[d] = <<>>
      /\ UNCHANGED <<store, up, down, known, pending, ready, loads, waiting, client, main,
                     favorites, showsFavs, list, isFav, breaks, repeats, broken>>
  BY DEF OpenCity, Turn, LocalIdle, linkVars, threadVars, mainScreenVars
<1>2. Typed'
  <2>1. (c \in isFav[d]) \in BOOLEAN
    OBVIOUS
  <2>2. saved' \in [Devices -> BOOLEAN]
    BY <1>1, <2>1, BooleanSet DEF Typed
  <2>. QED
    BY <1>1, <2>2, BoundsAssumption DEF Typed
<1>3. LinkInv(d)' /\ KnownInv(d)' /\ NewsInv(d)' /\ FavsInv(d)' /\ ListInv(d)'
  BY <1>1 DEF Own, LinkInv, Owed, KnownInv, NewsInv, FavsInv, View, ListInv, Listed
<1>4. \A C : Of(client[d], C) = {} /\ Of(main[d], C) = {}
  BY <1>1, KindsEmpty
<1>5. TapInv(d)'
  BY <1>1, <1>4, EmptySeq DEF Own, TapInv, Taps
<1>6. ready[d] = TRUE /\ isFav[d] = CitiesIn(View(d))
  BY <1>1, <1>4 DEF Own, ListInv, FavsInv, Typed
<1>7. ButtonInv(d)'
  <2>1. saved'[d] = (c \in CitiesIn(View(d))) /\ city'[d] = c /\ View(d)' = View(d)
    BY <1>1, <1>6 DEF Typed, View
  <2>2. c \in CitiesIn(View(d)) <=> HasCity(View(d), c)
    BY DEF CitiesIn
  <2>. QED
    BY <1>1, <1>4, <2>1, <2>2 DEF ButtonInv
<1>8. Calm(d)
  BY <1>1 DEF Calm, LinkSame, TapsSame
<1>. QED
  BY <1>8, <1>2, <1>3, <1>5, <1>7 DEF Own

LEMMA CloseCityKeeps ==
  ASSUME Typed, NEW d \in Devices, Own(d), CloseCity(d)
  PROVE  Typed' /\ Own(d)' /\ Calm(d)
<1>1. /\ city' = [city EXCEPT ![d] = NoCity]
      /\ UNCHANGED <<store, up, down, known, pending, ready, loads, waiting, client, main,
                     favorites, showsFavs, list, isFav, saved, overtaken, acts, breaks, repeats, broken>>
  BY DEF CloseCity, linkVars, threadVars, mainScreenVars
<1>2. Typed' /\ city'[d] = NoCity
  BY <1>1 DEF Typed
<1>3. LinkInv(d)' /\ KnownInv(d)' /\ NewsInv(d)' /\ FavsInv(d)' /\ ListInv(d)'
  BY <1>1 DEF Own, LinkInv, Owed, KnownInv, NewsInv, FavsInv, View, ListInv, Listed
<1>4. TapInv(d)' /\ ButtonInv(d)'
  BY <1>1, <1>2 DEF Own, TapInv, Taps, ButtonInv
<1>5. Calm(d)
  BY <1>1 DEF Calm, LinkSame, TapsSame
<1>. QED
  BY <1>5, <1>2, <1>3, <1>4 DEF Own

LEMMA TapFavoriteKeeps ==
  ASSUME Typed, NEW d \in Devices, Own(d), TapFavorite(d)
  PROVE  Typed' /\ Own(d)' /\ Tapped(d)
<1>. DEFINE read == [op |-> "read", city |-> city[d]]
<1>1. /\ client' = [client EXCEPT ![d] = Append(@, read)]
      /\ acts' = acts + 1 /\ acts < MaxActs /\ city[d] # NoCity
      /\ client[d] = <<>> /\ main[d] = <<>> /\ waiting[d] = <<>>
      /\ UNCHANGED <<store, up, down, known, pending, ready, loads, waiting, main, favorites,
                     showsFavs, list, isFav, city, saved, overtaken, breaks, repeats, broken>>
  BY DEF TapFavorite, Call, Turn, LocalIdle, linkVars, mainScreenVars, cityScreenVars
<1>2. read \in AllCalls /\ read.op = "read" /\ read.city = city[d]
  BY <1>1 DEF Typed, AllCalls, ReadCalls
<1>. HIDE DEF read
<1>3. /\ client' \in [Devices -> Seq(AllCalls)]
      /\ Of(client'[d], ReadCalls) = Of(client[d], ReadCalls) \cup {read}
      /\ Of(client'[d], WriteCalls) = Of(client[d], WriteCalls)
      /\ Of(client'[d], LoadCalls) = Of(client[d], LoadCalls)
      /\ \A y : LastOf(client'[d], LoadCalls, y) <=> LastOf(client[d], LoadCalls, y)
      /\ CountOf(client'[d], TapCalls) = CountOf(client[d], TapCalls) + 1
  BY <1>1, <1>2, ClientGets
<1>4. Typed'
  BY <1>1, <1>3, BoundsAssumption DEF Typed
<1>5. LinkInv(d)' /\ KnownInv(d)' /\ NewsInv(d)' /\ FavsInv(d)' /\ ListInv(d)'
  BY <1>1, <1>3 DEF Own, LinkInv, Owed, KnownInv, NewsInv, FavsInv, View, ListInv, Listed
<1>6. \A C : /\ Of(client[d], C) = {} /\ Of(main[d], C) = {}
             /\ CountOf(client[d], C) = 0 /\ CountOf(main[d], C) = 0
  BY <1>1, KindsEmpty
<1>7. TapInv(d)'
  BY <1>1, <1>2, <1>3, <1>6, EmptySeq DEF TapInv, Taps
<1>8. ButtonInv(d)'
  BY <1>1, <1>3 DEF Own, ButtonInv, View
<1>9. Tapped(d)
  BY <1>1, <1>3, <1>6, EmptySeq DEF Tapped, LinkSame, Taps
<1>. QED
  BY <1>9, <1>4, <1>5, <1>7, <1>8 DEF Own

LEMMA FavsArriveKeeps ==
  ASSUME Typed, NEW d \in Devices, Own(d), FavsArrive(d)
  PROVE  Typed' /\ Own(d)' /\ Calm(d)
<1>. DEFINE load == [op |-> "loadCities", favsOnly |-> showsFavs[d]]
            x == Head(main[d])
<1>1. /\ main[d] # <<>> /\ x.type = "favs"
      /\ favorites' = [favorites EXCEPT ![d] = x.val]
      /\ client' = [client EXCEPT ![d] = Append(@, load)]
      /\ main' = [main EXCEPT ![d] = Tail(@)]
      /\ UNCHANGED <<store, up, down, known, pending, ready, loads, waiting, showsFavs,
                     list, isFav, city, saved, overtaken, acts, breaks, repeats, broken>>
  BY DEF FavsArrive, Event, Done, Call, linkVars, cityScreenVars
<1>2. load \in AllCalls /\ load.op = "loadCities" /\ load.favsOnly = showsFavs[d]
  BY DEF Typed, AllCalls, LoadCalls
<1>. HIDE DEF load
<1>3. /\ client' \in [Devices -> Seq(AllCalls)]
      /\ Of(client'[d], ReadCalls) = Of(client[d], ReadCalls)
      /\ Of(client'[d], WriteCalls) = Of(client[d], WriteCalls)
      /\ load \in Of(client'[d], LoadCalls)
      /\ \A y : LastOf(client'[d], LoadCalls, y) <=> y = load
      /\ CountOf(client'[d], TapCalls) = CountOf(client[d], TapCalls)
  BY <1>1, <1>2, ClientGets
<1>4. /\ main' \in [Devices -> Seq(AllNews)]
      /\ x \in FavsNews
      /\ \A y : LastOf(main'[d], FavsNews, y) => LastOf(main[d], FavsNews, y)
      /\ Of(main'[d], FavsNews) = {} => LastOf(main[d], FavsNews, x)
      /\ Of(main'[d], CitiesNews) = Of(main[d], CitiesNews)
      /\ Of(main'[d], ReadNews) = Of(main[d], ReadNews)
      /\ CountOf(main'[d], ReadNews) = CountOf(main[d], ReadNews)
  BY <1>1, MainLoses
<1>. HIDE DEF x
<1>5. x.val \in Views
  BY <1>4 DEF FavsNews
<1>6. Typed'
  BY <1>1, <1>3, <1>4, <1>5 DEF Typed
<1>7. LinkInv(d)' /\ KnownInv(d)' /\ NewsInv(d)'
  BY <1>1, <1>3, <1>4 DEF Own, LinkInv, Owed, KnownInv, NewsInv
<1>8. FavsInv(d)'
  <2>1. View(d)' = View(d) /\ favorites'[d] = x.val
    BY <1>1 DEF View, Typed
  <2>. QED
    BY <1>4, <2>1 DEF Own, FavsInv
<1>9. ListInv(d)'
  BY <1>1, <1>2, <1>3, <1>4 DEF Own, ListInv
<1>10. TapInv(d)' /\ ButtonInv(d)'
  BY <1>1, <1>3, <1>4 DEF Own, TapInv, Taps, ButtonInv, View
<1>11. Calm(d)
  BY <1>1, <1>3, <1>4 DEF Calm, LinkSame, TapsSame
<1>. QED
  BY <1>11, <1>6, <1>7, <1>8, <1>9, <1>10 DEF Own

LEMMA CitiesArriveKeeps ==
  ASSUME Typed, NEW d \in Devices, Own(d), CitiesArrive(d)
  PROVE  Typed' /\ Own(d)' /\ Calm(d)
<1>. DEFINE x == Head(main[d])
            shown == IF x.favsOnly THEN CitiesIn(favorites[d]) ELSE Cities
<1>1. /\ main[d] # <<>> /\ x.type = "cities"
      /\ list' = [list EXCEPT ![d] = shown]
      /\ isFav' = [isFav EXCEPT ![d] = CitiesIn(favorites[d])]
      /\ main' = [main EXCEPT ![d] = Tail(@)]
      /\ UNCHANGED <<store, up, down, known, pending, ready, loads, waiting, client,
                     favorites, showsFavs, city, saved, overtaken, acts, breaks, repeats, broken>>
  BY DEF CitiesArrive, Event, Done, linkVars, cityScreenVars
<1>2. /\ main' \in [Devices -> Seq(AllNews)]
      /\ \A y : LastOf(main'[d], FavsNews, y) => LastOf(main[d], FavsNews, y)
      /\ \A y : LastOf(main'[d], CitiesNews, y) => LastOf(main[d], CitiesNews, y)
      /\ Of(main[d], CitiesNews) # {}
      /\ Of(main'[d], FavsNews) = Of(main[d], FavsNews)
      /\ Of(main'[d], CitiesNews) = {} => LastOf(main[d], CitiesNews, x)
      /\ Of(main'[d], ReadNews) = Of(main[d], ReadNews)
      /\ CountOf(main'[d], ReadNews) = CountOf(main[d], ReadNews)
  BY <1>1, MainLoses
<1>3. CitiesIn(favorites[d]) \subseteq Cities
  BY DEF CitiesIn
<1>. HIDE DEF x
<1>4. Typed'
  BY <1>1, <1>2, <1>3 DEF Typed
<1>5. LinkInv(d)' /\ KnownInv(d)' /\ NewsInv(d)' /\ FavsInv(d)'
  BY <1>1, <1>2 DEF Own, LinkInv, Owed, KnownInv, NewsInv, FavsInv, View
<1>6. ListInv(d)'
  <2>1. list'[d] = shown /\ isFav'[d] = CitiesIn(favorites[d])
    BY <1>1 DEF Typed
  <2>2. ready[d] = TRUE
    BY <1>2 DEF Own, ListInv, Typed
  <2>3. Of(client[d], LoadCalls) = {} /\ Of(main'[d], CitiesNews) = {} => shown = Listed(d)
    BY <1>2 DEF Own, ListInv, Listed
  <2>. HIDE DEF shown
  <2>. QED
    BY <1>1, <1>2, <2>1, <2>2, <2>3 DEF Own, ListInv, Listed
<1>7. TapInv(d)' /\ ButtonInv(d)'
  BY <1>1, <1>2 DEF Own, TapInv, Taps, ButtonInv, View
<1>8. Calm(d)
  BY <1>1, <1>2 DEF Calm, LinkSame, TapsSame
<1>. QED
  BY <1>8, <1>4, <1>5, <1>6, <1>7 DEF Own

\* When the answer to a read is taken, or the client is writing, nothing else
\* of the taps is under way.
LEMMA OneTap ==
  ASSUME Typed, NEW d \in Devices, TapInv(d)
  PROVE  /\ CountOf(client[d], TapCalls) \in Nat /\ CountOf(main[d], ReadNews) \in Nat
         /\ Len(waiting[d]) \in Nat /\ (Len(waiting[d]) = 0 <=> waiting[d] = <<>>)
         /\ CountOf(client[d], TapCalls) = 0 <=>
              Of(client[d], ReadCalls) = {} /\ Of(client[d], WriteCalls) = {}
         /\ CountOf(main[d], ReadNews) = 0 <=> Of(main[d], ReadNews) = {}
         /\ CountOf(client[d], TapCalls) + Len(waiting[d]) + CountOf(main[d], ReadNews) <= 1
<1>1. /\ client[d] \in Seq(AllCalls) /\ main[d] \in Seq(AllNews) /\ waiting[d] \in Seq(Cities)
  BY DEF Typed
<1>2. Of(client[d], TapCalls) = Of(client[d], ReadCalls) \cup Of(client[d], WriteCalls)
  BY DEF Of, At, TapCalls
<1>3. /\ CountOf(client[d], TapCalls) \in Nat
      /\ (CountOf(client[d], TapCalls) = 0 <=> Of(client[d], TapCalls) = {})
  BY <1>1, KindsNone
<1>4. /\ CountOf(main[d], ReadNews) \in Nat
      /\ (CountOf(main[d], ReadNews) = 0 <=> Of(main[d], ReadNews) = {})
  BY <1>1, KindsNone
<1>5. Len(waiting[d]) \in Nat /\ (Len(waiting[d]) = 0 <=> waiting[d] = <<>>)
  BY <1>1, EmptySeq, LenProperties
<1>. QED
  BY <1>2, <1>3, <1>4, <1>5 DEF TapInv, Taps

LEMMA ReadArrivesKeeps ==
  ASSUME Typed, NEW d \in Devices, Own(d), ReadArrives(d)
  PROVE  Typed' /\ Own(d)' /\ Answered(d)
<1>. DEFINE x == Head(main[d])
            write == [op |-> "write", val |-> Toggled(x.val, x.city)]
<1>1. /\ main[d] # <<>> /\ x.type = "read"
      /\ saved' = [saved EXCEPT ![d] = IF city[d] = x.city THEN ~HasCity(x.val, x.city) ELSE @]
      /\ overtaken' = [overtaken EXCEPT ![d] = @ /\ city[d] # x.city]
      /\ client' = [client EXCEPT ![d] = Append(@, write)]
      /\ main' = [main EXCEPT ![d] = Tail(@)]
      /\ UNCHANGED <<store, up, down, known, pending, ready, loads, waiting, favorites,
                     showsFavs, list, isFav, city, acts, breaks, repeats, broken>>
  BY DEF ReadArrives, Event, Done, Call, linkVars, mainScreenVars
<1>2. /\ main' \in [Devices -> Seq(AllNews)]
      /\ x \in ReadNews
      /\ \A y : LastOf(main'[d], FavsNews, y) => LastOf(main[d], FavsNews, y)
      /\ \A y : LastOf(main'[d], CitiesNews, y) => LastOf(main[d], CitiesNews, y)
      /\ Of(main'[d], FavsNews) = Of(main[d], FavsNews)
      /\ Of(main'[d], CitiesNews) = Of(main[d], CitiesNews)
      /\ Of(main[d], ReadNews) = Of(main'[d], ReadNews) \cup {x}
      /\ CountOf(main[d], ReadNews) = CountOf(main'[d], ReadNews) + 1
  BY <1>1, MainLoses
<1>. HIDE DEF x
<1>3. x.val \in FavLists /\ x.city \in Cities
  BY <1>2 DEF ReadNews
<1>4. /\ Toggled(x.val, x.city) \in FavLists
      /\ HasCity(Toggled(x.val, x.city), x.city) <=> ~HasCity(x.val, x.city)
  BY <1>3, TogglesOne
<1>5. write \in AllCalls /\ write.op = "write" /\ write.val = Toggled(x.val, x.city)
  BY <1>4 DEF AllCalls, WriteCalls
<1>. HIDE DEF write
<1>6. /\ client' \in [Devices -> Seq(AllCalls)]
      /\ Of(client'[d], ReadCalls) = Of(client[d], ReadCalls)
      /\ Of(client'[d], WriteCalls) = Of(client[d], WriteCalls) \cup {write}
      /\ Of(client'[d], LoadCalls) = Of(client[d], LoadCalls)
      /\ \A y : LastOf(client'[d], LoadCalls, y) <=> LastOf(client[d], LoadCalls, y)
      /\ CountOf(client'[d], TapCalls) = CountOf(client[d], TapCalls) + 1
  BY <1>1, <1>5, ClientGets
<1>7. Typed'
  <2>1. (IF city[d] = x.city THEN ~HasCity(x.val, x.city) ELSE saved[d]) \in BOOLEAN
    BY DEF Typed
  <2>2. (overtaken[d] /\ city[d] # x.city) \in BOOLEAN
    OBVIOUS
  <2>3. saved' \in [Devices -> BOOLEAN]
    BY <1>1, <2>1, BooleanSet DEF Typed
  <2>4. overtaken' \in [Devices -> BOOLEAN]
    BY <1>1, <2>2, BooleanSet DEF Typed
  <2>. QED
    BY <1>1, <1>2, <1>6, <2>3, <2>4 DEF Typed
<1>8. LinkInv(d)' /\ NewsInv(d)' /\ FavsInv(d)'
  BY <1>1, <1>2 DEF Own, LinkInv, Owed, NewsInv, FavsInv, View
<1>9. KnownInv(d)'
  BY <1>1, <1>2 DEF Own, KnownInv
<1>10. ListInv(d)'
  BY <1>1, <1>2, <1>6 DEF Own, ListInv, Listed
<1>11. /\ CountOf(main'[d], ReadNews) = 0 /\ Of(main'[d], ReadNews) = {}
       /\ waiting[d] = <<>> /\ Of(client[d], WriteCalls) = {} /\ Of(client[d], ReadCalls) = {}
       /\ CountOf(client[d], TapCalls) = 0
  <2>1. CountOf(main'[d], ReadNews) \in Nat /\ main'[d] \in Seq(AllNews)
    BY <1>2, KindsNone
  <2>2. CountOf(main'[d], ReadNews) = 0 /\ CountOf(client[d], TapCalls) = 0 /\ waiting[d] = <<>>
    BY <1>2, <2>1, OneTap DEF Own
  <2>. QED
    BY <2>1, <2>2, OneTap, KindsNone DEF Own
<1>12. TapInv(d)'
  BY <1>1, <1>6, <1>11, EmptySeq DEF TapInv, Taps
<1>13. ButtonInv(d)'
  <2>1. city[d] # NoCity => city[d] = x.city
    BY <1>2 DEF Own, TapInv
  <2>2. city[d] = x.city => (saved'[d] <=> ~HasCity(x.val, x.city))
    BY <1>1 DEF Typed
  <2>3. Of(client'[d], WriteCalls) = {write}
    BY <1>6, <1>11
  <2>. QED
    BY <1>1, <1>4, <1>5, <2>1, <2>2, <2>3 DEF ButtonInv
<1>14. Answered(d)
  <2>1. x \in Of(main[d], ReadNews)
    BY <1>2
  <2>2. Of(client'[d], WriteCalls) = {write}
    BY <1>6, <1>11
  <2>3. Taps(d) > 0
    BY <1>2, <1>11, EmptySeq DEF Taps
  <2>. QED
    BY <1>1, <1>3, <1>5, <1>11, <2>1, <2>2, <2>3 DEF Answered, LinkSame
<1>. QED
  BY <1>14, <1>7, <1>8, <1>9, <1>10, <1>12, <1>13 DEF Own

LEMMA ViewIn ==
  ASSUME NEW known_d \in Views, NEW pending_d \in Seq(FavLists)
  PROVE  /\ pending_d # <<>> => Last(pending_d) \in FavLists
         /\ (IF pending_d = <<>> THEN known_d ELSE Last(pending_d)) \in Views
BY LastIn, FavListsFacts

LEMMA ReadRunsKeeps ==
  ASSUME Typed, NEW d \in Devices, Own(d), ReadRuns(d)
  PROVE  Typed' /\ Own(d)' /\ Asked(d)
<1>. DEFINE x == Head(client[d])
            news == [type |-> "read", val |-> View(d), city |-> x.city]
<1>1. /\ client[d] # <<>> /\ x.op = "read"
      /\ client' = [client EXCEPT ![d] = Tail(@)]
      /\ UNCHANGED <<store, up, down, known, pending, ready, loads, favorites, showsFavs,
                     list, isFav, city, saved, overtaken, acts, breaks, repeats, broken>>
      /\ \/ /\ known[d] # <<>>
            /\ main' = [main EXCEPT ![d] = Append(@, news)]
            /\ UNCHANGED waiting
         \/ /\ known[d] = <<>>
            /\ waiting' = [waiting EXCEPT ![d] = Append(@, x.city)]
            /\ UNCHANGED main
  BY DEF ReadRuns, Calls, Return, ReadEvent, View, linkVars, mainScreenVars, cityScreenVars
<1>2. /\ client' \in [Devices -> Seq(AllCalls)]
      /\ x \in ReadCalls
      /\ \A y : LastOf(client'[d], LoadCalls, y) => LastOf(client[d], LoadCalls, y)
      /\ Of(client[d], ReadCalls) = Of(client'[d], ReadCalls) \cup {x}
      /\ Of(client'[d], WriteCalls) = Of(client[d], WriteCalls)
      /\ Of(client'[d], LoadCalls) = Of(client[d], LoadCalls)
      /\ CountOf(client[d], TapCalls) = CountOf(client'[d], TapCalls) + 1
  BY <1>1, ClientLoses
<1>3. View(d)' = View(d)
  BY <1>1 DEF View
<1>. HIDE DEF x
<1>4. x.city \in Cities /\ (city[d] # NoCity => x.city = city[d])
  BY <1>2 DEF ReadCalls, Own, TapInv
<1>5. /\ CountOf(client'[d], TapCalls) = 0 /\ Of(client'[d], ReadCalls) = {}
      /\ waiting[d] = <<>> /\ Len(waiting[d]) = 0
      /\ CountOf(main[d], ReadNews) = 0 /\ Of(main[d], ReadNews) = {}
  <2>1. CountOf(client'[d], TapCalls) \in Nat /\ client'[d] \in Seq(AllCalls)
    BY <1>2, KindsNone
  <2>2. CountOf(client'[d], TapCalls) = 0
    BY <1>2, <2>1, OneTap DEF Own
  <2>3. Of(client'[d], TapCalls) = {}
    BY <2>1, <2>2, KindsNone
  <2>4. Of(client'[d], ReadCalls) = {}
    BY <2>3 DEF Of, At, TapCalls
  <2>5. Len(waiting[d]) = 0 /\ CountOf(main[d], ReadNews) = 0
    BY <1>2, <2>2, OneTap DEF Own
  <2>. QED
    BY <2>2, <2>4, <2>5, OneTap DEF Own
<1>6. Taps(d) > 0
  BY <1>2, <1>5 DEF Taps
<1>7. CASE /\ known[d] # <<>>
           /\ main' = [main EXCEPT ![d] = Append(@, news)]
           /\ UNCHANGED waiting
  <2>1. View(d) \in FavLists
    BY <1>7, ViewIn, FavListsFacts DEF View, Typed
  <2>2. news \in AllNews /\ news.type = "read" /\ news.city = x.city
    BY <1>4, <2>1 DEF AllNews, ReadNews
  <2>. HIDE DEF news
  <2>3. main[d] \in Seq(AllNews) /\ main'[d] = Append(main[d], news)
    BY <1>7 DEF Typed
  <2>4. /\ main'[d] \in Seq(AllNews)
        /\ \A y : LastOf(main'[d], FavsNews, y) <=> LastOf(main[d], FavsNews, y)
        /\ Of(main'[d], FavsNews) = Of(main[d], FavsNews)
        /\ \A y : LastOf(main'[d], CitiesNews, y) <=> LastOf(main[d], CitiesNews, y)
        /\ Of(main'[d], CitiesNews) = Of(main[d], CitiesNews)
        /\ Of(main'[d], ReadNews) = {news}
        /\ CountOf(main'[d], ReadNews) = 1
    BY <1>5, <2>2, <2>3, MainGets
  <2>5. Typed'
    <3>1. main' \in [Devices -> Seq(AllNews)]
      BY <1>7, <2>2 DEF Typed
    <3>. QED
      BY <1>1, <1>2, <1>7, <3>1 DEF Typed
  <2>6. LinkInv(d)' /\ KnownInv(d)' /\ NewsInv(d)' /\ FavsInv(d)'
    BY <1>1, <1>3, <1>7, <2>4 DEF Own, LinkInv, Owed, KnownInv, NewsInv, FavsInv
  <2>7. ListInv(d)'
    <3>1. Listed(d)' = Listed(d) /\ CitiesIn(favorites[d])' = CitiesIn(favorites[d])
      BY <1>1 DEF Listed
    <3>. QED
      BY <1>1, <1>2, <2>4, <3>1 DEF Own, ListInv
  <2>8. TapInv(d)'
    BY <1>1, <1>4, <1>5, <1>7, <2>2, <2>4, EmptySeq DEF TapInv, Taps
  <2>9. ButtonInv(d)'
    BY <1>1, <1>2, <1>3 DEF Own, ButtonInv
  <2>10. Asked(d)
    BY <1>1, <1>2, <1>5, <1>7, <1>6, <2>4 DEF Asked, LinkSame, news
  <2>. QED
    BY <2>5, <2>6, <2>7, <2>8, <2>9, <2>10 DEF Own
<1>8. CASE /\ known[d] = <<>>
           /\ waiting' = [waiting EXCEPT ![d] = Append(@, x.city)]
           /\ UNCHANGED main
  <2>1. Typed'
    <3>1. waiting' \in [Devices -> Seq(Cities)]
      BY <1>4, <1>8 DEF Typed
    <3>. QED
      BY <1>1, <1>2, <1>8, <3>1 DEF Typed
  <2>2. LinkInv(d)' /\ KnownInv(d)' /\ NewsInv(d)' /\ FavsInv(d)'
    BY <1>1, <1>2, <1>3, <1>8 DEF Own, LinkInv, Owed, KnownInv, NewsInv, FavsInv
  <2>3. ListInv(d)'
    BY <1>1, <1>2, <1>8 DEF Own, ListInv, Listed
  <2>4. Len(waiting'[d]) = 1 /\ waiting'[d][1] = x.city
    BY <1>5, <1>8, AppendProperties DEF Typed
  <2>5. TapInv(d)'
    BY <1>1, <1>4, <1>5, <1>8, <2>4 DEF TapInv, Taps
  <2>6. ButtonInv(d)'
    BY <1>1, <1>2, <1>3 DEF Own, ButtonInv
  <2>7. Asked(d)
    BY <1>1, <1>2, <1>5, <1>8, <1>6 DEF Asked, LinkSame
  <2>. QED
    BY <2>1, <2>2, <2>3, <2>5, <2>6, <2>7 DEF Own
<1>. QED
  BY <1>1, <1>7, <1>8

\* The listener on "Users" is told what the device sees.
LEMMA FavsTold ==
  ASSUME Typed, NEW d \in Devices, FavsInv(d), View(d)' \in Views
  PROVE  LET t == main[d] \o FavsEvents(d) IN
         /\ t \in Seq(AllNews)
         /\ \A y : LastOf(t, FavsNews, y) => y.val = View(d)'
         /\ Of(t, FavsNews) = {} => favorites[d] = View(d)'
         /\ \A y : LastOf(t, CitiesNews, y) <=> LastOf(main[d], CitiesNews, y)
         /\ Of(t, CitiesNews) = Of(main[d], CitiesNews)
         /\ Of(t, ReadNews) = Of(main[d], ReadNews)
         /\ CountOf(t, ReadNews) = CountOf(main[d], ReadNews)
<1>. DEFINE t == main[d] \o FavsEvents(d)
            news == [type |-> "favs", val |-> View(d)']
<1>1. main[d] \in Seq(AllNews)
  BY DEF Typed
<1>2. CASE View(d)' = View(d)
  <2>1. t = main[d]
    BY <1>1, <1>2, ConcatEmptySeq DEF FavsEvents
  <2>. HIDE DEF t
  <2>. QED
    BY <1>1, <1>2, <2>1 DEF FavsInv, t
<1>3. CASE View(d)' # View(d)
  <2>1. news \in AllNews /\ news.type = "favs" /\ news.val = View(d)'
    BY DEF AllNews, FavsNews
  <2>2. t = Append(main[d], news)
    BY <1>1, <1>3, <2>1, AppendOne DEF FavsEvents
  <2>. HIDE DEF t, news
  <2>3. /\ t \in Seq(AllNews)
        /\ \A y : LastOf(t, FavsNews, y) <=> y = news
        /\ news \in Of(t, FavsNews)
        /\ \A y : LastOf(t, CitiesNews, y) <=> LastOf(main[d], CitiesNews, y)
        /\ Of(t, CitiesNews) = Of(main[d], CitiesNews)
        /\ Of(t, ReadNews) = Of(main[d], ReadNews)
        /\ CountOf(t, ReadNews) = CountOf(main[d], ReadNews)
    BY <1>1, <2>1, <2>2, MainGets
  <2>. QED
    BY <2>1, <2>3 DEF t
<1>. QED
  BY <1>2, <1>3

LEMMA WriteRunsKeeps ==
  ASSUME Typed, NEW d \in Devices, Own(d), WriteRuns(d)
  PROVE  Typed' /\ Own(d)' /\ Wrote(d)
<1>. DEFINE x == Head(client[d])
            t == main[d] \o FavsEvents(d)
<1>1. /\ client[d] # <<>> /\ x.op = "write"
      /\ client' = [client EXCEPT ![d] = Tail(@)]
      /\ pending' = [pending EXCEPT ![d] = Append(@, x.val)]
      /\ up' = [up EXCEPT ![d] = Append(@, x.val)]
      /\ main' = [main EXCEPT ![d] = t]
      /\ UNCHANGED <<store, down, known, ready, loads, waiting, favorites, showsFavs,
                     list, isFav, city, saved, overtaken, acts, breaks, repeats, broken>>
  BY DEF WriteRuns, Calls, Return, mainScreenVars, cityScreenVars
<1>2. /\ client' \in [Devices -> Seq(AllCalls)]
      /\ x \in WriteCalls
      /\ \A y : LastOf(client'[d], LoadCalls, y) => LastOf(client[d], LoadCalls, y)
      /\ Of(client'[d], ReadCalls) = Of(client[d], ReadCalls)
      /\ Of(client[d], WriteCalls) = Of(client'[d], WriteCalls) \cup {x}
      /\ Of(client'[d], LoadCalls) = Of(client[d], LoadCalls)
      /\ CountOf(client[d], TapCalls) = CountOf(client'[d], TapCalls) + 1
  BY <1>1, ClientLoses
<1>. HIDE DEF x
<1>3. x.val \in FavLists
  BY <1>2 DEF WriteCalls
<1>4. /\ pending[d] \in Seq(FavLists) /\ pending'[d] = Append(pending[d], x.val)
      /\ up[d] \in Seq(FavLists) /\ up'[d] = Append(up[d], x.val)
  BY <1>1 DEF Typed
<1>5. View(d)' = x.val
  BY <1>3, <1>4, AppendLast DEF View
<1>6. View(d)' \in Views
  BY <1>3, <1>5, FavListsFacts
<1>7. main'[d] = t
  BY <1>1 DEF Typed
<1>8. /\ main'[d] \in Seq(AllNews)
      /\ \A y : LastOf(main'[d], FavsNews, y) => y.val = View(d)'
      /\ Of(main'[d], FavsNews) = {} => favorites[d] = View(d)'
      /\ \A y : LastOf(main'[d], CitiesNews, y) <=> LastOf(main[d], CitiesNews, y)
      /\ Of(main'[d], CitiesNews) = Of(main[d], CitiesNews)
      /\ Of(main'[d], ReadNews) = Of(main[d], ReadNews)
      /\ CountOf(main'[d], ReadNews) = CountOf(main[d], ReadNews)
  BY <1>6, <1>7, FavsTold DEF Own
<1>. HIDE DEF t
<1>9. Typed'
  <2>1. main' \in [Devices -> Seq(AllNews)]
    BY <1>1, <1>7, <1>8 DEF Typed
  <2>2. pending' \in [Devices -> Seq(FavLists)] /\ up' \in [Devices -> Seq(FavLists)]
    BY <1>1, <1>3 DEF Typed
  <2>. QED
    BY <1>1, <1>2, <2>1, <2>2 DEF Typed
<1>10. LinkInv(d)'
  <2>1. /\ Len(pending[d]) \in Nat /\ Len(up[d]) \in Nat
        /\ Len(pending'[d]) = Len(pending[d]) + 1 /\ Len(up'[d]) = Len(up[d]) + 1
        /\ \A i \in 1..Len(pending[d]) : pending'[d][i] = pending[d][i]
        /\ pending'[d][Len(pending[d]) + 1] = x.val
        /\ \A i \in 1..Len(up[d]) : up'[d][i] = up[d][i]
        /\ up'[d][Len(up[d]) + 1] = x.val
    BY <1>3, <1>4, AppendProperties, LenProperties
  <2>2. Owed(d)' = Owed(d) /\ Owed(d) \in Nat
    BY <1>1, KindsNone DEF Owed, Typed
  <2>3. Len(pending[d]) = Owed(d) + Len(up[d])
    BY DEF Own, LinkInv
  <2>4. ASSUME NEW i \in 1..Len(up[d]) + 1
        PROVE  up'[d][i] = pending'[d][Owed(d) + i]
    <3>1. CASE i = Len(up[d]) + 1
      <4>1. Owed(d) + i = Len(pending[d]) + 1
        BY <2>1, <2>2, <2>3, <3>1
      <4>. QED
        BY <2>1, <3>1, <4>1
    <3>2. CASE i # Len(up[d]) + 1
      <4>. DEFINE n == Len(up[d])
      <4>1. n \in Nat /\ i \in 1..n + 1 /\ i # n + 1
        BY <2>1, <3>2
      <4>2. i \in 1..n
        BY <4>1
      <4>3. Owed(d) + i \in 1..Owed(d) + n
        BY <2>2, <4>1, <4>2
      <4>4. i \in 1..Len(up[d]) /\ Owed(d) + i \in 1..Len(pending[d])
        BY <2>3, <4>2, <4>3
      <4>. QED
        BY <2>1, <4>4 DEF Own, LinkInv
    <3>. QED
      BY <3>1, <3>2
  <2>5. Len(pending'[d]) = Owed(d) + (Len(up[d]) + 1)
    BY <2>1, <2>2, <2>3
  <2>. QED
    BY <2>1, <2>2, <2>4, <2>5 DEF LinkInv
<1>11. known[d] # <<>>
  BY <1>2 DEF Own, KnownInv
<1>12. KnownInv(d)' /\ NewsInv(d)' /\ FavsInv(d)'
  BY <1>1, <1>8, <1>11 DEF Own, KnownInv, NewsInv, FavsInv
<1>13. ListInv(d)'
  BY <1>1, <1>2, <1>8 DEF Own, ListInv, Listed
<1>14. CountOf(client'[d], TapCalls) = 0 /\ Of(client'[d], WriteCalls) = {}
       /\ waiting[d] = <<>> /\ Len(waiting[d]) = 0
       /\ CountOf(main[d], ReadNews) = 0 /\ Of(main[d], ReadNews) = {}
       /\ Of(client'[d], ReadCalls) = {}
  <2>1. CountOf(client'[d], TapCalls) \in Nat /\ client'[d] \in Seq(AllCalls)
    BY <1>2, KindsNone
  <2>2. CountOf(client'[d], TapCalls) = 0
    BY <1>2, <2>1, OneTap DEF Own
  <2>3. Of(client'[d], TapCalls) = {}
    BY <2>1, <2>2, KindsNone
  <2>4. Of(client'[d], ReadCalls) = {} /\ Of(client'[d], WriteCalls) = {}
    BY <2>3 DEF Of, At, TapCalls
  <2>5. Len(waiting[d]) = 0 /\ CountOf(main[d], ReadNews) = 0
    BY <1>2, <2>2, OneTap DEF Own
  <2>. QED
    BY <2>2, <2>4, <2>5, OneTap DEF Own
<1>15. TapInv(d)'
  BY <1>1, <1>8, <1>14, EmptySeq DEF TapInv, Taps
<1>16. ButtonInv(d)'
  BY <1>1, <1>2, <1>5, <1>14 DEF Own, ButtonInv
<1>17. Wrote(d)
  <2>1. Taps(d) > 0
    BY <1>2, <1>14, EmptySeq DEF Taps
  <2>2. x \in Of(client[d], WriteCalls)
    BY <1>2
  <2>. QED
    BY <1>1, <1>3, <1>4, <1>8, <1>11, <1>14, <2>1, <2>2 DEF Wrote
<1>. QED
  BY <1>17, <1>9, <1>10, <1>12, <1>13, <1>15, <1>16 DEF Own

LEMMA LoadCitiesRunsKeeps ==
  ASSUME Typed, NEW d \in Devices, Own(d), LoadCitiesRuns(d)
  PROVE  Typed' /\ Own(d)' /\ Calm(d)
<1>. DEFINE x == Head(client[d])
            news == [type |-> "cities", favsOnly |-> x.favsOnly]
<1>1. /\ client[d] # <<>> /\ x.op = "loadCities"
      /\ client' = [client EXCEPT ![d] = Tail(@)]
      /\ UNCHANGED <<store, up, down, known, pending, ready, waiting, favorites, showsFavs,
                     list, isFav, city, saved, overtaken, acts, breaks, repeats, broken>>
      /\ \/ /\ ready[d]
            /\ main' = [main EXCEPT ![d] = Append(@, news)]
            /\ UNCHANGED loads
         \/ /\ ~ready[d]
            /\ loads' = [loads EXCEPT ![d] = Append(@, x.favsOnly)]
            /\ UNCHANGED main
  BY DEF LoadCitiesRuns, Calls, Return, CitiesEvent, linkVars, mainScreenVars, cityScreenVars
<1>2. /\ client' \in [Devices -> Seq(AllCalls)]
      /\ x \in LoadCalls
      /\ \A y : LastOf(client'[d], LoadCalls, y) => LastOf(client[d], LoadCalls, y)
      /\ Of(client'[d], ReadCalls) = Of(client[d], ReadCalls)
      /\ Of(client'[d], WriteCalls) = Of(client[d], WriteCalls)
      /\ Of(client'[d], LoadCalls) = {} => LastOf(client[d], LoadCalls, x)
      /\ CountOf(client'[d], TapCalls) = CountOf(client[d], TapCalls)
  BY <1>1, ClientLoses
<1>. HIDE DEF x
<1>3. x.favsOnly \in BOOLEAN
  BY <1>2 DEF LoadCalls
<1>4. Of(client'[d], LoadCalls) = {} => x.favsOnly = showsFavs[d]
  BY <1>2 DEF Own, ListInv
<1>5. CASE /\ ready[d]
           /\ main' = [main EXCEPT ![d] = Append(@, news)]
           /\ UNCHANGED loads
  <2>1. news \in AllNews /\ news.type = "cities" /\ news.favsOnly = x.favsOnly
    BY <1>3 DEF AllNews, CitiesNews
  <2>. HIDE DEF news
  <2>2. main[d] \in Seq(AllNews) /\ main'[d] = Append(main[d], news)
    BY <1>5 DEF Typed
  <2>3. /\ \A y : LastOf(main'[d], FavsNews, y) <=> LastOf(main[d], FavsNews, y)
        /\ Of(main'[d], FavsNews) = Of(main[d], FavsNews)
        /\ \A y : LastOf(main'[d], CitiesNews, y) <=> y = news
        /\ news \in Of(main'[d], CitiesNews)
        /\ Of(main'[d], ReadNews) = Of(main[d], ReadNews)
        /\ CountOf(main'[d], ReadNews) = CountOf(main[d], ReadNews)
    BY <2>1, <2>2, MainGets
  <2>4. Typed'
    <3>1. main' \in [Devices -> Seq(AllNews)]
      BY <1>5, <2>1, <2>2 DEF Typed
    <3>. QED
      BY <1>1, <1>2, <1>5, <3>1 DEF Typed
  <2>5. LinkInv(d)' /\ KnownInv(d)' /\ NewsInv(d)' /\ FavsInv(d)'
    BY <1>1, <1>2, <2>3 DEF Own, LinkInv, Owed, KnownInv, NewsInv, FavsInv, View
  <2>6. ListInv(d)'
    BY <1>1, <1>2, <1>4, <1>5, <2>1, <2>3 DEF Own, ListInv, Listed
  <2>7. TapInv(d)' /\ ButtonInv(d)'
    BY <1>1, <1>2, <2>3 DEF Own, TapInv, Taps, ButtonInv, View
  <2>8. Calm(d)
    BY <1>1, <1>2, <2>3 DEF Calm, LinkSame, TapsSame
  <2>. QED
    BY <2>4, <2>5, <2>6, <2>7, <2>8 DEF Own
<1>6. CASE /\ ~ready[d]
           /\ loads' = [loads EXCEPT ![d] = Append(@, x.favsOnly)]
           /\ UNCHANGED main
  <2>1. loads[d] \in Seq(BOOLEAN) /\ loads'[d] = Append(loads[d], x.favsOnly)
    BY <1>6 DEF Typed
  <2>2. Last(loads'[d]) = x.favsOnly
    BY <1>3, <2>1, AppendLast
  <2>3. Typed'
    BY <1>1, <1>2, <1>3, <1>6 DEF Typed
  <2>4. LinkInv(d)' /\ KnownInv(d)' /\ NewsInv(d)' /\ FavsInv(d)'
    BY <1>1, <1>2, <1>6 DEF Own, LinkInv, Owed, KnownInv, NewsInv, FavsInv, View
  <2>5. ListInv(d)'
    <3>1. ~ready[d] /\ \A y : ~LastOf(main[d], CitiesNews, y)
      BY <1>6, LastOfIn DEF Own, ListInv
    <3>. QED
      BY <1>1, <1>2, <1>4, <1>6, <2>2, <3>1 DEF Own, ListInv
  <2>6. TapInv(d)' /\ ButtonInv(d)'
    BY <1>1, <1>2, <1>6 DEF Own, TapInv, Taps, ButtonInv, View
  <2>7. Calm(d)
    BY <1>1, <1>2, <1>6 DEF Calm, LinkSame, TapsSame
  <2>. QED
    BY <2>3, <2>4, <2>5, <2>6, <2>7 DEF Own
<1>. QED
  BY <1>1, <1>5, <1>6

LEMMA CatalogueComesKeeps ==
  ASSUME Typed, NEW d \in Devices, Own(d), CatalogueComes(d)
  PROVE  Typed' /\ Own(d)' /\ Calm(d)
<1>. DEFINE n == Len(loads[d])
            told == [i \in 1..n |-> [type |-> "cities", favsOnly |-> loads[d][i]]]
<1>1. /\ ~ready[d] /\ loads[d] # <<>>
      /\ ready' = [ready EXCEPT ![d] = TRUE]
      /\ loads' = [loads EXCEPT ![d] = <<>>]
      /\ main' = [main EXCEPT ![d] = @ \o told]
      /\ UNCHANGED <<store, up, down, known, pending, waiting, client, favorites, showsFavs,
                     list, isFav, city, saved, overtaken, acts, breaks, repeats, broken>>
  <2>1. DOMAIN loads[d] = 1..n
    BY DEF Typed
  <2>. QED
    BY <2>1 DEF CatalogueComes, CitiesEvent, linkVars, mainScreenVars, cityScreenVars
<1>2. n \in Nat \ {0} /\ \A i \in 1..n : loads[d][i] \in BOOLEAN
  BY <1>1, EmptySeq, LenProperties, ElementOfSeq DEF Typed
<1>3. /\ told \in Seq(CitiesNews) /\ told # <<>> /\ Last(told).favsOnly = Last(loads[d])
  <2>1. told \in Seq(CitiesNews) /\ Len(told) = n
    BY <1>2 DEF CitiesNews
  <2>2. Last(told).favsOnly = loads[d][n]
    BY <1>2, <2>1 DEF Last
  <2>. HIDE DEF told, n
  <2>3. told # <<>>
    BY <1>2, <2>1, EmptySeq
  <2>. QED
    BY <2>1, <2>2, <2>3 DEF Last, n
<1>. HIDE DEF told, n
<1>4. main[d] \in Seq(AllNews) /\ main'[d] = main[d] \o told
  BY <1>1 DEF Typed
<1>5. CitiesNews \cap FavsNews = {} /\ CitiesNews \cap ReadNews = {}
  BY DEF CitiesNews, FavsNews, ReadNews
<1>6. /\ \A y : LastOf(main'[d], FavsNews, y) <=> LastOf(main[d], FavsNews, y)
      /\ Of(main'[d], FavsNews) = Of(main[d], FavsNews)
  BY <1>3, <1>4, <1>5, KindsConcat
<1>7. /\ Of(main'[d], ReadNews) = Of(main[d], ReadNews)
      /\ CountOf(main'[d], ReadNews) = CountOf(main[d], ReadNews)
  BY <1>3, <1>4, <1>5, KindsConcat
<1>8. /\ \A y : LastOf(main'[d], CitiesNews, y) <=> y = Last(told)
      /\ Of(main'[d], CitiesNews) # {}
  <2>1. /\ \A y : LastOf(main'[d], CitiesNews, y) <=> y = Last(told)
        /\ At(main'[d], CitiesNews) # {}
    BY <1>3, <1>4, LastOfConcatIn
  <2>. QED
    BY <2>1 DEF Of
<1>9. Typed'
  <2>1. told \in Seq(AllNews)
    BY <1>3, SeqMonotonic DEF AllNews
  <2>2. main'[d] \in Seq(AllNews)
    BY <1>4, <2>1, ConcatProperties
  <2>3. main' \in [Devices -> Seq(AllNews)]
    BY <1>1, <2>2, <1>4 DEF Typed
  <2>4. loads' \in [Devices -> Seq(BOOLEAN)]
    BY <1>1, EmptySeq DEF Typed
  <2>. QED
    BY <1>1, <2>3, <2>4 DEF Typed
<1>10. LinkInv(d)' /\ KnownInv(d)' /\ NewsInv(d)' /\ FavsInv(d)'
  BY <1>1, <1>6, <1>7 DEF Own, LinkInv, Owed, KnownInv, NewsInv, FavsInv, View
<1>11. ListInv(d)'
  <2>1. ready'[d] = TRUE /\ loads'[d] = <<>>
    BY <1>1 DEF Typed
  <2>. QED
    BY <1>1, <1>3, <1>8, <2>1 DEF Own, ListInv
<1>12. TapInv(d)' /\ ButtonInv(d)'
  BY <1>1, <1>7 DEF Own, TapInv, Taps, ButtonInv, View
<1>13. Calm(d)
  BY <1>1, <1>7 DEF Calm, LinkSame, TapsSame
<1>. QED
  BY <1>13, <1>9, <1>10, <1>11, <1>12 DEF Own

\* After an update or a confirmation the reads that waited are answered.
LEMMA WaitingAnswered ==
  ASSUME NEW d \in Devices, NEW s \in Seq(AllNews), NEW w \in Seq(Cities), Len(w) <= 1,
         w # <<>> => View(d)' \in FavLists
  PROVE  LET t == s \o [i \in DOMAIN w |-> ReadEvent(d, w[i])] IN
         /\ t \in Seq(AllNews)
         /\ \A y : LastOf(t, FavsNews, y) <=> LastOf(s, FavsNews, y)
         /\ Of(t, FavsNews) = Of(s, FavsNews)
         /\ \A y : LastOf(t, CitiesNews, y) <=> LastOf(s, CitiesNews, y)
         /\ Of(t, CitiesNews) = Of(s, CitiesNews)
         /\ CountOf(t, ReadNews) = CountOf(s, ReadNews) + Len(w)
         /\ w = <<>> => Of(t, ReadNews) = Of(s, ReadNews)
         /\ w # <<>> => Of(t, ReadNews) = Of(s, ReadNews)
              \cup {[type |-> "read", val |-> View(d)', city |-> w[1]]}
<1>. DEFINE told == [i \in DOMAIN w |-> ReadEvent(d, w[i])]
            t == s \o told
            news == [type |-> "read", val |-> View(d)', city |-> w[1]]
<1>1. DOMAIN w = 1..Len(w) /\ Len(w) \in Nat /\ (Len(w) = 0 <=> w = <<>>)
  BY EmptySeq, LenProperties
<1>2. CASE w = <<>>
  <2>1. told = <<>>
    BY <1>1, <1>2
  <2>2. t = s
    BY <2>1, ConcatEmptySeq
  <2>3. CountOf(s, ReadNews) \in Nat
    BY KindsNone
  <2>. HIDE DEF t
  <2>. QED
    BY <1>1, <1>2, <2>2, <2>3 DEF t
<1>3. CASE w # <<>>
  <2>1. Len(w) = 1 /\ w[1] \in Cities /\ DOMAIN w = 1..1
    BY <1>1, <1>3, ElementOfSeq
  <2>2. news \in AllNews /\ news.type = "read"
    BY <1>3, <2>1 DEF AllNews, ReadNews
  <2>3. told = <<news>>
    <3>1. told = [i \in 1..1 |-> ReadEvent(d, w[i])]
      BY <2>1
    <3>2. ReadEvent(d, w[1]) = news
      BY DEF ReadEvent
    <3>. QED
      BY <3>1, <3>2
  <2>4. t = Append(s, news)
    BY <2>2, <2>3, AppendOne
  <2>. HIDE DEF t, told
  <2>5. /\ t \in Seq(AllNews)
        /\ \A y : LastOf(t, FavsNews, y) <=> LastOf(s, FavsNews, y)
        /\ Of(t, FavsNews) = Of(s, FavsNews)
        /\ \A y : LastOf(t, CitiesNews, y) <=> LastOf(s, CitiesNews, y)
        /\ Of(t, CitiesNews) = Of(s, CitiesNews)
        /\ Of(t, ReadNews) = Of(s, ReadNews) \cup {news}
        /\ CountOf(t, ReadNews) = CountOf(s, ReadNews) + 1
    BY <2>2, <2>4, MainGets
  <2>. QED
    BY <1>3, <2>1, <2>5 DEF t, told
<1>. QED
  BY <1>2, <1>3

LEMMA QueuesEmpty ==
  ASSUME Typed, NEW d \in Devices, ~Unfinished(d)
  PROVE  Of(client[d], WriteCalls) = {} /\ Of(main[d], ReadNews) = {}
<1>1. client[d] \in Seq(AllCalls) /\ main[d] \in Seq(AllNews)
  BY DEF Typed
<1>2. /\ \A i \in 1..Len(client[d]) : client[d][i].op # "write"
      /\ \A i \in 1..Len(main[d]) : main[d][i].type # "read"
  BY <1>1, LenProperties DEF Unfinished
<1>3. /\ \A i \in 1..Len(client[d]) : client[d][i] \notin WriteCalls
      /\ \A i \in 1..Len(main[d]) : main[d][i] \notin ReadNews
  BY <1>2 DEF WriteCalls, ReadNews
<1>. QED
  BY <1>3 DEF Of, At

LEMMA HearKeeps ==
  ASSUME Typed, NEW d \in Devices, Own(d), Hear(d)
  PROVE  Typed' /\ Own(d)' /\ Heard(d)
<1>. DEFINE x == Head(down[d])
            s == main[d] \o FavsEvents(d)
            t == s \o [i \in DOMAIN waiting[d] |-> ReadEvent(d, waiting[d][i])]
            differs == HasCity(View(d)', city[d]) # HasCity(View(d), city[d])
<1>1. /\ down[d] # <<>>
      /\ down' = [down EXCEPT ![d] = Tail(@)]
      /\ main' = [main EXCEPT ![d] = t]
      /\ waiting' = [waiting EXCEPT ![d] = <<>>]
      /\ overtaken' = [overtaken EXCEPT ![d] = @ \/ differs]
      /\ UNCHANGED <<store, up, ready, loads, client, favorites, showsFavs,
                     list, isFav, city, saved, acts, breaks, repeats>>
      /\ broken' = [broken EXCEPT ![d] = @ /\ (pending'[d] # <<>> \/ Unfinished(d))]
      /\ \/ /\ x.type = "update"
            /\ known' = [known EXCEPT ![d] = x.val]
            /\ UNCHANGED pending
         \/ /\ x.type \in {"confirmation", "refusal"}
            /\ pending' = [pending EXCEPT ![d] = Tail(@)]
            /\ UNCHANGED known
  BY DEF Hear, mainScreenVars
<1>2. down[d] \in Seq(AllMessages) /\ down'[d] = Tail(down[d])
  BY <1>1 DEF Typed
<1>3. x \in AllMessages /\ down'[d] \in Seq(AllMessages)
  BY <1>1, <1>2, HeadTailIn
<1>4. /\ Of(down[d], Updates) = Of(down'[d], Updates) \cup (IF x \in Updates THEN {x} ELSE {})
      /\ \A y : LastOf(down'[d], Updates, y) => LastOf(down[d], Updates, y)
      /\ Of(down'[d], Updates) = {} /\ x \in Updates => LastOf(down[d], Updates, x)
  BY <1>1, <1>2, KindsTail
<1>. DEFINE n == Len(up[d])
            k == CountOf(down'[d], Answers)
<1>5. /\ Owed(d) = IF x \in Answers THEN k + 1 ELSE k
      /\ k \in Nat /\ Owed(d)' = k
  <2>1. CountOf(down[d], Answers) = IF x \in Answers THEN k + 1 ELSE k
    BY <1>1, <1>2, KindsTail
  <2>2. k \in Nat
    BY <1>3, KindsNone
  <2>. QED
    BY <2>1, <2>2 DEF Owed
<1>. HIDE DEF k
<1>6. /\ x \in Updates <=> x.type = "update"
      /\ x \in Answers <=> x.type \in {"confirmation", "refusal"}
      /\ x \in Updates => x.val \in FavLists
  BY <1>3, MessageKinds
<1>. HIDE DEF x, t, s
<1>7. pending[d] \in Seq(FavLists) /\ known[d] \in Views /\ up[d] \in Seq(FavLists)
  BY DEF Typed
<1>8. x \in Answers => pending[d] # <<>>
  <2>1. Len(pending[d]) = Owed(d) + n /\ n \in Nat
    BY <1>7, LenProperties DEF Own, LinkInv
  <2>. HIDE DEF n
  <2>2. x \in Answers => Len(pending[d]) # 0
    <3>1. ASSUME x \in Answers
          PROVE  Len(pending[d]) = k + 1 + n
      BY <1>5, <2>1, <3>1
    <3>. QED
      BY <1>5, <2>1, <3>1
  <2>. QED
    BY <2>2, EmptySeq
<1>9. /\ known' \in [Devices -> Views] /\ pending' \in [Devices -> Seq(FavLists)]
      /\ x \in Updates => known'[d] = x.val /\ pending'[d] = pending[d]
      /\ x \in Answers => known'[d] = known[d] /\ pending'[d] = Tail(pending[d])
  <2>1. x \in Answers => Tail(pending[d]) \in Seq(FavLists)
    BY <1>7, <1>8, HeadTailIn
  <2>2. known \in [Devices -> Views] /\ pending \in [Devices -> Seq(FavLists)]
    BY DEF Typed
  <2>3. CASE x.type = "update"
    BY <1>1, <1>6, <2>2, <2>3, FavListsFacts
  <2>4. CASE x.type \in {"confirmation", "refusal"}
    BY <1>1, <1>6, <2>1, <2>2, <2>4
  <2>. QED
    BY <1>1, <2>3, <2>4
<1>10. known'[d] # <<>> /\ known'[d] \in FavLists
  <2>1. x \in Answers => known[d] # <<>>
    BY <1>8 DEF Own, KnownInv
  <2>. QED
    BY <1>1, <1>6, <1>7, <1>9, <2>1, FavListsFacts
<1>11. View(d)' \in FavLists /\ View(d)' \in Views
  <2>1. pending'[d] \in Seq(FavLists)
    BY <1>9
  <2>2. pending'[d] # <<>> => Last(pending'[d]) \in FavLists
    BY <2>1, LastIn
  <2>3. View(d)' = IF pending'[d] = <<>> THEN known'[d] ELSE Last(pending'[d])
    BY DEF View
  <2>4. View(d)' \in FavLists
    BY <1>10, <2>2, <2>3
  <2>. QED
    BY <2>4, FavListsFacts
<1>12. waiting[d] \in Seq(Cities) /\ Len(waiting[d]) <= 1 /\ Len(waiting[d]) \in Nat
  BY OneTap DEF Own, Typed
<1>13. main'[d] = t
  BY <1>1 DEF Typed
<1>14. /\ s \in Seq(AllNews)
       /\ \A y : LastOf(s, FavsNews, y) => y.val = View(d)'
       /\ Of(s, FavsNews) = {} => favorites[d] = View(d)'
       /\ \A y : LastOf(s, CitiesNews, y) <=> LastOf(main[d], CitiesNews, y)
       /\ Of(s, CitiesNews) = Of(main[d], CitiesNews)
       /\ Of(s, ReadNews) = Of(main[d], ReadNews)
       /\ CountOf(s, ReadNews) = CountOf(main[d], ReadNews)
  BY <1>11, FavsTold DEF s, Own
<1>15. /\ main'[d] \in Seq(AllNews)
       /\ \A y : LastOf(main'[d], FavsNews, y) => y.val = View(d)'
       /\ Of(main'[d], FavsNews) = {} => favorites[d] = View(d)'
       /\ \A y : LastOf(main'[d], CitiesNews, y) <=> LastOf(main[d], CitiesNews, y)
       /\ Of(main'[d], CitiesNews) = Of(main[d], CitiesNews)
       /\ CountOf(main'[d], ReadNews) = CountOf(main[d], ReadNews) + Len(waiting[d])
       /\ waiting[d] = <<>> => Of(main'[d], ReadNews) = Of(main[d], ReadNews)
       /\ waiting[d] # <<>> => Of(main'[d], ReadNews) = Of(main[d], ReadNews)
            \cup {[type |-> "read", val |-> View(d)', city |-> waiting[d][1]]}
  BY <1>11, <1>12, <1>13, <1>14, WaitingAnswered DEF t
<1>16. Typed'
  <2>1. differs \in BOOLEAN
    OBVIOUS
  <2>2. (overtaken[d] \/ differs) \in BOOLEAN
    OBVIOUS
  <2>. HIDE DEF differs
  <2>3. overtaken' \in [Devices -> BOOLEAN]
    BY <1>1, <2>2, BooleanSet DEF Typed
  <2>4. main' \in [Devices -> Seq(AllNews)]
    BY <1>1, <1>13, <1>15 DEF Typed
  <2>5. down' \in [Devices -> Seq(AllMessages)]
    BY <1>1, <1>2, <1>3 DEF Typed
  <2>6. waiting' \in [Devices -> Seq(Cities)]
    BY <1>1, EmptySeq DEF Typed
  <2>7. broken' \in [Devices -> BOOLEAN]
    <3>1. (broken[d] /\ (pending'[d] # <<>> \/ Unfinished(d))) \in BOOLEAN
      OBVIOUS
    <3>. QED
      BY <1>1, <3>1, BooleanSet DEF Typed
  <2>. QED
    BY <1>1, <1>9, <2>3, <2>4, <2>5, <2>6, <2>7 DEF Typed
<1>17. LinkInv(d)'
  <2>1. CASE x \in Updates
    <3>1. x \notin Answers
      BY <1>6, <2>1
    <3>. QED
      BY <1>1, <1>5, <1>9, <2>1, <3>1 DEF Own, LinkInv
  <2>2. CASE x \in Answers
    <3>1. /\ Len(pending[d]) = Owed(d) + n /\ n \in Nat
          /\ \A i \in 1..n : up[d][i] = pending[d][Owed(d) + i]
      BY <1>7, LenProperties DEF Own, LinkInv
    <3>2. /\ Len(pending'[d]) = Len(pending[d]) - 1
          /\ \A i \in 1..Len(pending[d]) - 1 : pending'[d][i] = pending[d][i + 1]
      <4>1. pending[d] \in Seq(FavLists) /\ pending[d] # <<>> /\ pending'[d] = Tail(pending[d])
        BY <1>7, <1>8, <1>9, <2>2
      <4>. QED
        BY <4>1, TailProperties
    <3>3. Owed(d) = k + 1 /\ k \in Nat
      BY <1>5, <2>2
    <3>. HIDE DEF n
    <3>4. Len(pending[d]) - 1 = k + n
      BY <3>1, <3>3
    <3>5. ASSUME NEW i \in 1..n
          PROVE  up[d][i] = pending'[d][k + i]
      <4>1. k + i \in 1..k + n /\ (k + i) + 1 = Owed(d) + i
        BY <3>1, <3>3
      <4>. QED
        BY <3>1, <3>2, <3>4, <4>1
    <3>. QED
      BY <1>1, <1>5, <3>2, <3>4, <3>5 DEF LinkInv, n
  <2>. QED
    BY <1>1, <1>6, <2>1, <2>2
<1>18. KnownInv(d)' /\ FavsInv(d)'
  BY <1>1, <1>10, <1>15 DEF KnownInv, FavsInv
<1>19. NewsInv(d)'
  BY <1>1, <1>4, <1>6, <1>9 DEF Own, NewsInv
<1>20. ListInv(d)'
  BY <1>1, <1>15 DEF Own, ListInv, Listed
<1>21. TapInv(d)'
  <2>1. waiting'[d] = <<>> /\ Len(waiting'[d]) = 0
    BY <1>1, EmptySeq DEF Typed
  <2>2. Taps(d)' <= 1
    BY <1>1, <1>12, <1>15, <2>1, OneTap DEF Taps, Own
  <2>3. city[d] # NoCity => \A y \in Of(main'[d], ReadNews) : y.city = city[d]
    BY <1>12, <1>15, EmptySeq DEF Own, TapInv
  <2>. QED
    BY <1>1, <2>1, <2>2, <2>3 DEF Own, TapInv
<1>22. ButtonInv(d)'
  <2>1. ~overtaken'[d] => ~overtaken[d] /\ ~differs
    BY <1>1 DEF Typed
  <2>2. ~differs => (HasCity(View(d)', city[d]) <=> HasCity(View(d), city[d]))
    OBVIOUS
  <2>. HIDE DEF differs
  <2>. QED
    BY <1>1, <2>1, <2>2 DEF Own, ButtonInv
<1>23. Heard(d)
  <2>1. Taps(d)' = Taps(d)
    <3>1. waiting'[d] = <<>> /\ Len(waiting'[d]) = 0
      BY <1>1, EmptySeq DEF Typed
    <3>. QED
      BY <1>1, <1>12, <1>15, <3>1, OneTap DEF Taps, Own
  <2>2. \A y \in Of(main'[d], ReadNews) : y \in Of(main[d], ReadNews) \/ y.val = View(d)'
    BY <1>15
  <2>3. \/ x \in Updates /\ known'[d] = x.val /\ pending'[d] = pending[d] /\ Owed(d)' = Owed(d)
        \/ /\ x \in Answers /\ known'[d] = known[d] /\ pending'[d] = Tail(pending[d])
           /\ pending[d] # <<>> /\ Owed(d) = Owed(d)' + 1
    BY <1>1, <1>5, <1>6, <1>8, <1>9
  <2>4. /\ broken'[d] => broken[d]
        /\ broken[d] /\ ~broken'[d] => pending'[d] = <<>> /\ ~Unfinished(d)
    BY <1>1 DEF Typed
  <2>5. ~Unfinished(d) => Of(client[d], WriteCalls) = {} /\ Of(main[d], ReadNews) = {}
    BY QueuesEmpty
  <2>. QED
    BY <1>1, <1>2, <1>5, <1>15, <2>1, <2>2, <2>3, <2>4, <2>5 DEF Heard, Typed, x
<1>. QED
  BY <1>23, <1>16, <1>17, <1>18, <1>19, <1>20, <1>21, <1>22 DEF Own

\* The database: Take disturbs the links of all devices.
LEMMA TakeDoes ==
  ASSUME Typed, NEW d \in Devices, Take(d)
  PROVE  /\ up[d] # <<>> /\ store' = Head(up[d]) /\ store' \in FavLists
         /\ up' = [up EXCEPT ![d] = Tail(@)] /\ Tail(up[d]) \in Seq(FavLists)
         /\ down'[d] = Append(Append(down[d], Update(store', d)), Confirmation(d))
         /\ \A e \in Devices \ {d} : down'[e] = Append(down[e], Update(store', d))
         /\ repeats' = [repeats EXCEPT ![d] = IF @ = 0 THEN 0 ELSE @ - 1]
         /\ broken' = [broken EXCEPT ![d] = FALSE]
         /\ Update(store', d) \in Updates /\ Update(store', d).val = store'
         /\ Confirmation(d) \in Answers
         /\ Update(store', d) \in AllMessages /\ Confirmation(d) \in AllMessages
         /\ Update(store', d) \notin Answers /\ Confirmation(d) \notin Updates
         /\ UNCHANGED <<known, pending, ready, loads, waiting, client, main, favorites,
                        showsFavs, list, isFav, city, saved, overtaken, acts, breaks>>
<1>. DEFINE u == Update(store', d)
            c == Confirmation(d)
<1>1. /\ up[d] # <<>> /\ store' = Head(up[d])
      /\ up' = [up EXCEPT ![d] = Tail(@)]
      /\ down' = [e \in Devices |-> Append(down[e], u) \o IF e = d THEN <<c>> ELSE <<>>]
      /\ repeats' = [repeats EXCEPT ![d] = IF @ = 0 THEN 0 ELSE @ - 1]
      /\ broken' = [broken EXCEPT ![d] = FALSE]
      /\ UNCHANGED <<known, pending, ready, loads, waiting, client, main, favorites,
                     showsFavs, list, isFav, city, saved, overtaken, acts, breaks>>
  BY DEF Take, threadVars, mainScreenVars, cityScreenVars
<1>2. store' \in FavLists /\ Tail(up[d]) \in Seq(FavLists)
  BY <1>1, HeadTailIn DEF Typed
<1>3. u \in Updates /\ u.val = store' /\ u.type = "update"
  BY <1>2 DEF Update, Updates
<1>4. c \in Answers /\ c.type = "confirmation"
  BY DEF Confirmation, Answers
<1>5. u \in AllMessages /\ c \in AllMessages
  BY <1>3, <1>4 DEF AllMessages
<1>6. u \notin Answers /\ c \notin Updates
  BY <1>3, <1>4, <1>5, MessageKinds
<1>. HIDE DEF u, c
<1>7. down'[d] = Append(Append(down[d], u), c)
  <2>1. Append(down[d], u) \in Seq(AllMessages)
    BY <1>5 DEF Typed
  <2>2. down'[d] = Append(down[d], u) \o <<c>>
    BY <1>1
  <2>. QED
    BY <1>5, <2>1, <2>2, AppendOne
<1>8. ASSUME NEW e \in Devices \ {d}
      PROVE  down'[e] = Append(down[e], u)
  <2>1. Append(down[e], u) \in Seq(AllMessages)
    BY <1>5 DEF Typed
  <2>2. down'[e] = Append(down[e], u) \o <<>>
    BY <1>1
  <2>. QED
    BY <2>1, <2>2, ConcatEmptySeq
<1>. QED
  BY <1>1, <1>2, <1>3, <1>4, <1>5, <1>6, <1>7, <1>8 DEF u, c

LEMMA TakeKeepsTypes ==
  ASSUME Typed, NEW d \in Devices, Take(d)
  PROVE  Typed'
<1>1. ASSUME NEW e \in Devices
      PROVE  down'[e] \in Seq(AllMessages)
  <2>1. down[e] \in Seq(AllMessages)
    BY DEF Typed
  <2>2. \A x \in AllMessages : Append(down[e], x) \in Seq(AllMessages)
    BY <2>1
  <2>3. \A x, y \in AllMessages : Append(Append(down[e], x), y) \in Seq(AllMessages)
    BY <2>2
  <2>4. e = d => down'[e] = Append(Append(down[e], Update(store', d)), Confirmation(d))
    BY TakeDoes
  <2>5. e # d => down'[e] = Append(down[e], Update(store', d))
    BY TakeDoes
  <2>6. Update(store', d) \in AllMessages /\ Confirmation(d) \in AllMessages
    BY TakeDoes
  <2>. QED
    BY <2>2, <2>3, <2>4, <2>5, <2>6
<1>2. down' \in [Devices -> Seq(AllMessages)]
  <2>1. down' = [e \in Devices |-> down'[e]]
    BY DEF Take
  <2>. QED
    BY <1>1, <2>1
<1>3. repeats' \in [Devices -> Nat]
  <2>1. repeats' = [repeats EXCEPT ![d] = IF @ = 0 THEN 0 ELSE @ - 1]
    BY TakeDoes
  <2>. QED
    BY <2>1 DEF Typed
<1>4. store' \in FavLists
  BY TakeDoes
<1>5. up' \in [Devices -> Seq(FavLists)]
  <2>1. up' = [up EXCEPT ![d] = Tail(up[d])] /\ Tail(up[d]) \in Seq(FavLists)
    BY TakeDoes
  <2>2. up \in [Devices -> Seq(FavLists)]
    BY DEF Typed
  <2>. QED
    BY <2>1, <2>2
<1>6. UNCHANGED <<known, pending, ready, loads, waiting, client, main, favorites,
                  showsFavs, list, isFav, city, saved, overtaken, acts, breaks>>
  BY TakeDoes
<1>7. broken' \in [Devices -> BOOLEAN]
  BY TakeDoes DEF Typed
<1>. QED
  BY <1>2, <1>3, <1>4, <1>5, <1>6, <1>7 DEF Typed

LEMMA TakeKeepsOwn ==
  ASSUME Typed, NEW d \in Devices, Take(d), Own(d)
  PROVE  Own(d)'
<1>. DEFINE u == Update(store', d)
            c == Confirmation(d)
            k == Owed(d)
            n == Len(up[d])
<1>1. /\ down[d] \in Seq(AllMessages) /\ pending[d] \in Seq(FavLists) /\ up[d] \in Seq(FavLists)
      /\ up[d] # <<>> /\ up'[d] = Tail(up[d])
      /\ pending' = pending /\ known' = known
  BY TakeDoes DEF Typed
<1>2. /\ down'[d] = Append(Append(down[d], u), c)
      /\ u \in AllMessages /\ u \in Updates /\ u \notin Answers /\ u.val = store'
      /\ c \in AllMessages /\ c \in Answers /\ c \notin Updates
  BY TakeDoes
<1>. HIDE DEF u, c, k
<1>. DEFINE s == Append(down[d], u)
<1>3. s \in Seq(AllMessages)
  BY <1>1, <1>2
<1>4. CountOf(down'[d], Answers) = k + 1 /\ k \in Nat
  <2>1. CountOf(s, Answers) = CountOf(down[d], Answers)
    BY <1>1, <1>2, KindsAppend
  <2>. HIDE DEF s
  <2>2. CountOf(Append(s, c), Answers) = CountOf(s, Answers) + 1
    BY <1>2, <1>3, KindsAppend
  <2>3. k \in Nat
    BY <1>1, KindsNone DEF k, Owed
  <2>. QED
    BY <1>2, <2>1, <2>2, <2>3 DEF k, Owed, s
<1>5. /\ u \in Of(down'[d], Updates)
      /\ \A y : LastOf(down'[d], Updates, y) <=> y = u
  <2>1. /\ u \in Of(s, Updates)
        /\ \A y : LastOf(s, Updates, y) <=> y = u
    BY <1>1, <1>2, KindsAppend
  <2>. HIDE DEF s
  <2>2. Of(Append(s, c), Updates) = Of(s, Updates)
    BY <1>2, <1>3, OfAppend
  <2>3. \A y : LastOf(Append(s, c), Updates, y) <=> LastOf(s, Updates, y)
    BY <1>2, <1>3, LastOfAppend
  <2>. QED
    BY <1>2, <2>1, <2>2, <2>3 DEF s
<1>6. NewsInv(d)'
  BY <1>2, <1>5 DEF NewsInv
<1>7. LinkInv(d)'
  <2>1. /\ Len(pending[d]) = k + n /\ n \in Nat \ {0}
        /\ \A i \in 1..n : up[d][i] = pending[d][k + i]
    BY <1>1, EmptySeq, LenProperties DEF Own, LinkInv, k
  <2>2. Len(up'[d]) = n - 1 /\ \A i \in 1..n - 1 : up'[d][i] = up[d][i + 1]
    BY <1>1, HeadTailProperties
  <2>. HIDE DEF n
  <2>3. ASSUME NEW i \in 1..n - 1
        PROVE  up'[d][i] = pending[d][(k + 1) + i]
    <3>1. i + 1 \in 1..n /\ k + (i + 1) = (k + 1) + i
      BY <1>4, <2>1
    <3>. QED
      BY <2>1, <2>2, <3>1
  <2>4. k + n = (k + 1) + (n - 1)
    BY <1>4, <2>1
  <2>. QED
    BY <1>1, <1>4, <2>1, <2>2, <2>3, <2>4 DEF LinkInv, Owed
<1>8. UNCHANGED <<known, pending, ready, loads, waiting, client, main, favorites,
                  showsFavs, list, isFav, city, saved, overtaken>>
  BY TakeDoes
<1>9. KnownInv(d)' /\ FavsInv(d)'
  BY <1>8 DEF Own, KnownInv, FavsInv, View
<1>10. ListInv(d)'
  <2>1. Listed(d)' = Listed(d) /\ CitiesIn(favorites[d])' = CitiesIn(favorites[d])
    BY <1>8 DEF Listed
  <2>. QED
    BY <1>8, <2>1 DEF Own, ListInv
<1>11. TapInv(d)'
  BY <1>8 DEF Own, TapInv, Taps
<1>12. ButtonInv(d)'
  BY <1>8 DEF Own, ButtonInv, View
<1>. QED
  BY <1>6, <1>7, <1>9, <1>10, <1>11, <1>12 DEF Own

LEMMA TakeKeepsOthers ==
  ASSUME Typed, NEW d \in Devices, Take(d), NEW e \in Devices, e # d, Own(e)
  PROVE  Own(e)'
<1>. DEFINE u == Update(store', d)
<1>1. /\ down[e] \in Seq(AllMessages) /\ up'[e] = up[e]
      /\ pending' = pending /\ known' = known
  <2>1. up' = [up EXCEPT ![d] = Tail(@)] /\ pending' = pending /\ known' = known
    BY TakeDoes
  <2>2. up \in [Devices -> Seq(FavLists)] /\ down[e] \in Seq(AllMessages)
    BY DEF Typed
  <2>. QED
    BY <2>1, <2>2
<1>2. /\ down'[e] = Append(down[e], u)
      /\ u \in AllMessages /\ u \in Updates /\ u \notin Answers /\ u.val = store'
  BY TakeDoes
<1>. HIDE DEF u
<1>3. /\ CountOf(down'[e], Answers) = CountOf(down[e], Answers)
      /\ u \in Of(down'[e], Updates)
      /\ \A y : LastOf(down'[e], Updates, y) <=> y = u
  BY <1>1, <1>2, KindsAppend
<1>4. NewsInv(e)'
  BY <1>2, <1>3 DEF NewsInv
<1>5. LinkInv(e)'
  BY <1>1, <1>3 DEF Own, LinkInv, Owed
<1>6. KnownInv(e)' /\ FavsInv(e)' /\ ListInv(e)' /\ TapInv(e)' /\ ButtonInv(e)'
  <2>1. UNCHANGED <<known, pending, ready, loads, waiting, client, main, favorites,
                    showsFavs, list, isFav, city, saved, overtaken>>
    BY TakeDoes
  <2>. QED
    BY <2>1 DEF Own, KnownInv, FavsInv, View, ListInv, Listed, TapInv, Taps, ButtonInv
<1>. QED
  BY <1>4, <1>5, <1>6 DEF Own

\* The database refuses a write.
LEMMA RefuseDoes ==
  ASSUME Typed, NEW d \in Devices, Refuse(d)
  PROVE  /\ up[d] # <<>> /\ Tail(up[d]) \in Seq(FavLists)
         /\ up' = [up EXCEPT ![d] = Tail(up[d])]
         /\ Refusal(d) \in AllMessages /\ Refusal(d) \in Answers
         /\ Refusal(d) \notin Updates /\ Refusal(d).from = d
         /\ down' = [down EXCEPT ![d] = Append(down[d], Refusal(d))]
         /\ repeats' = [repeats EXCEPT ![d] = 0]
         /\ broken' = [broken EXCEPT ![d] = TRUE]
         /\ breaks < MaxBreaks /\ breaks' = breaks + 1
         /\ UNCHANGED <<store, known, pending, ready, loads, waiting, client, main, favorites,
                        showsFavs, list, isFav, city, saved, overtaken, acts>>
<1>1. Refusal(d) \in Answers /\ Refusal(d).type = "refusal" /\ Refusal(d).from = d
  BY DEF Refusal, Answers
<1>2. Refusal(d) \in AllMessages /\ Refusal(d) \notin Updates
  BY <1>1 DEF AllMessages, Updates
<1>3. up[d] # <<>> => Tail(up[d]) \in Seq(FavLists)
  BY HeadTailIn DEF Typed
<1>. QED
  BY <1>1, <1>2, <1>3 DEF Refuse, threadVars, mainScreenVars, cityScreenVars

LEMMA RefuseKeeps ==
  ASSUME Typed, NEW d \in Devices, Own(d), Refuse(d)
  PROVE  Typed' /\ Own(d)' /\ Owed(d)' = Owed(d) + 1
<1>. DEFINE x == Refusal(d)
            k == Owed(d)
            n == Len(up[d])
<1>1. /\ down[d] \in Seq(AllMessages) /\ pending[d] \in Seq(FavLists)
      /\ up[d] \in Seq(FavLists) /\ up[d] # <<>> /\ up'[d] = Tail(up[d])
      /\ down'[d] = Append(down[d], x)
      /\ x \in AllMessages /\ x \in Answers /\ x \notin Updates
  BY RefuseDoes DEF Typed
<1>2. UNCHANGED <<store, known, pending, ready, loads, waiting, client, main, favorites,
                  showsFavs, list, isFav, city, saved, overtaken>>
  BY RefuseDoes
<1>. HIDE DEF x, k
<1>3. /\ CountOf(down'[d], Answers) = k + 1 /\ k \in Nat
      /\ Of(down'[d], Updates) = Of(down[d], Updates)
      /\ \A y : LastOf(down'[d], Updates, y) <=> LastOf(down[d], Updates, y)
  <2>1. CountOf(down'[d], Answers) = CountOf(down[d], Answers) + 1
    BY <1>1, KindsAppend
  <2>2. /\ Of(down'[d], Updates) = Of(down[d], Updates)
        /\ \A y : LastOf(down'[d], Updates, y) <=> LastOf(down[d], Updates, y)
    BY <1>1, OfAppend, LastOfAppend
  <2>3. k \in Nat
    BY <1>1, KindsNone DEF k, Owed
  <2>. QED
    BY <2>1, <2>2, <2>3 DEF k, Owed
<1>4. LinkInv(d)'
  <2>1. /\ Len(pending[d]) = k + n /\ n \in Nat \ {0}
        /\ \A i \in 1..n : up[d][i] = pending[d][k + i]
    BY <1>1, EmptySeq, LenProperties DEF Own, LinkInv, k
  <2>2. Len(up'[d]) = n - 1 /\ \A i \in 1..n - 1 : up'[d][i] = up[d][i + 1]
    BY <1>1, HeadTailProperties
  <2>. HIDE DEF n
  <2>3. ASSUME NEW i \in 1..n - 1
        PROVE  up'[d][i] = pending[d][(k + 1) + i]
    <3>1. i + 1 \in 1..n /\ k + (i + 1) = (k + 1) + i
      BY <1>3, <2>1
    <3>. QED
      BY <2>1, <2>2, <3>1
  <2>4. k + n = (k + 1) + (n - 1)
    BY <1>3, <2>1
  <2>. QED
    BY <1>2, <1>3, <2>1, <2>2, <2>3, <2>4 DEF LinkInv, Owed
<1>5. NewsInv(d)'
  BY <1>2, <1>3 DEF Own, NewsInv
<1>6. KnownInv(d)' /\ FavsInv(d)' /\ ListInv(d)' /\ TapInv(d)' /\ ButtonInv(d)'
  BY <1>2 DEF Own, KnownInv, FavsInv, View, ListInv, Listed, TapInv, Taps, ButtonInv
<1>7. Typed'
  <2>1. down' \in [Devices -> Seq(AllMessages)] /\ up' \in [Devices -> Seq(FavLists)]
    <3>1. Append(down[d], x) \in Seq(AllMessages)
      BY <1>1
    <3>2. down' = [down EXCEPT ![d] = Append(down[d], x)]
      BY RefuseDoes DEF x
    <3>3. up' = [up EXCEPT ![d] = Tail(up[d])] /\ Tail(up[d]) \in Seq(FavLists)
      BY RefuseDoes
    <3>. QED
      BY <3>1, <3>2, <3>3 DEF Typed
  <2>2. repeats' \in [Devices -> Nat] /\ broken' \in [Devices -> BOOLEAN]
    <3>1. /\ repeats' = [repeats EXCEPT ![d] = 0]
          /\ broken' = [broken EXCEPT ![d] = TRUE]
      BY RefuseDoes
    <3>. QED
      BY <3>1 DEF Typed
  <2>3. breaks' \in 0..MaxBreaks /\ acts' = acts
    <3>1. breaks < MaxBreaks /\ breaks' = breaks + 1 /\ acts' = acts
      BY RefuseDoes
    <3>. QED
      BY <3>1, BoundsAssumption DEF Typed
  <2>. QED
    BY <1>2, <2>1, <2>2, <2>3 DEF Typed
<1>. QED
  BY <1>3, <1>4, <1>5, <1>6, <1>7 DEF Own, Owed, k

\* A queue that holds one update and nothing else.
LEMMA FirstUpdate ==
  ASSUME Typed
  PROVE  LET u == Update(store, NoDevice) IN
         /\ <<u>> \in Seq(AllMessages) /\ u \in Updates /\ u.val = store
         /\ CountOf(<<u>>, Answers) = 0
         /\ u \in Of(<<u>>, Updates)
         /\ \A y : LastOf(<<u>>, Updates, y) <=> y = u
<1>. DEFINE u == Update(store, NoDevice)
<1>1. u \in Updates /\ u.val = store /\ u.type = "update"
  BY DEF Update, Updates, Typed
<1>. HIDE DEF u
<1>2. u \in AllMessages /\ u \notin Answers
  BY <1>1, MessageKinds DEF AllMessages
<1>3. <<>> \in Seq(AllMessages) /\ Append(<<>>, u) = <<u>>
  BY <1>2, EmptySeq
<1>4. /\ CountOf(Append(<<>>, u), Answers) = 0
      /\ u \in Of(Append(<<>>, u), Updates)
      /\ \A y : LastOf(Append(<<>>, u), Updates, y) <=> y = u
  <2>1. CountOf(Append(<<>>, u), Answers) = CountOf(<<>>, Answers)
    BY <1>2, <1>3, KindsAppend
  <2>2. CountOf(<<>>, Answers) = 0
    BY KindsEmpty
  <2>3. u \in Of(Append(<<>>, u), Updates)
    <3>1. \A s \in Seq(AllMessages) : Of(Append(s, u), Updates) = Of(s, Updates) \cup {u}
      BY <1>1, <1>2, OfAppend
    <3>2. Of(Append(<<>>, u), Updates) = Of(<<>>, Updates) \cup {u}
      BY <1>3, <3>1
    <3>. QED
      BY <3>2
  <2>4. \A y : LastOf(Append(<<>>, u), Updates, y) <=> y = u
    BY <1>1, <1>2, <1>3, LastOfAppend
  <2>. QED
    BY <2>1, <2>2, <2>3, <2>4
<1>. QED
  BY <1>1, <1>2, <1>3, <1>4 DEF u

LEMMA ReconnectKeeps ==
  ASSUME Typed, NEW d \in Devices, Own(d), Reconnect(d)
  PROVE  Typed' /\ Own(d)'
<1>. DEFINE u == Update(store, NoDevice)
<1>1. /\ breaks' = breaks + 1 /\ breaks < MaxBreaks
      /\ up' = [up EXCEPT ![d] = pending[d]]
      /\ repeats' = [repeats EXCEPT ![d] =
           IF broken[d] THEN 0 ELSE @ + (Len(pending[d]) - Len(up[d]))]
      /\ down' = [down EXCEPT ![d] = <<u>>]
      /\ UNCHANGED <<store, known, pending, ready, loads, waiting, client, main, favorites,
                     showsFavs, list, isFav, city, saved, overtaken, acts, broken>>
  BY DEF Reconnect, threadVars, mainScreenVars, cityScreenVars
<1>2. /\ <<u>> \in Seq(AllMessages) /\ u.val = store
      /\ CountOf(<<u>>, Answers) = 0
      /\ u \in Of(<<u>>, Updates)
      /\ \A y : LastOf(<<u>>, Updates, y) <=> y = u
  BY FirstUpdate
<1>. HIDE DEF u
<1>3. up'[d] = pending[d] /\ down'[d] = <<u>> /\ pending[d] \in Seq(FavLists)
  BY <1>1 DEF Typed
<1>4. Len(pending[d]) - Len(up[d]) \in Nat
  <2>1. CountOf(down[d], Answers) \in Nat
    BY KindsNone DEF Typed
  <2>2. Len(up[d]) \in Nat
    BY LenProperties DEF Typed
  <2>. QED
    BY <2>1, <2>2 DEF Own, LinkInv, Owed
<1>5. Typed'
  <2>1. repeats' \in [Devices -> Nat]
    <3>1. repeats[d] + (Len(pending[d]) - Len(up[d])) \in Nat
      BY <1>4 DEF Typed
    <3>. QED
      BY <1>1, <3>1 DEF Typed
  <2>2. down' \in [Devices -> Seq(AllMessages)] /\ up' \in [Devices -> Seq(FavLists)]
    BY <1>1, <1>2, <1>3 DEF Typed
  <2>. QED
    BY <1>1, <2>1, <2>2, BoundsAssumption DEF Typed
<1>6. NewsInv(d)'
  BY <1>1, <1>2, <1>3 DEF NewsInv
<1>7. LinkInv(d)'
  <2>1. Len(pending[d]) \in Nat
    BY <1>3, LenProperties
  <2>. QED
    BY <1>1, <1>2, <1>3, <2>1 DEF LinkInv, Owed
<1>8. KnownInv(d)' /\ FavsInv(d)' /\ ListInv(d)' /\ TapInv(d)' /\ ButtonInv(d)'
  BY <1>1 DEF Own, KnownInv, FavsInv, View, ListInv, Listed, TapInv, Taps, ButtonInv
<1>. QED
  BY <1>5, <1>6, <1>7, <1>8 DEF Own

\* What a device is like when the app has just been started.
Started(d) ==
  /\ up[d] = <<>> /\ down[d] = <<Update(store, NoDevice)>>
  /\ known[d] = <<>> /\ pending[d] = <<>> /\ ready[d] = FALSE /\ loads[d] = <<>>
  /\ waiting[d] = <<>> /\ client[d] = <<>> /\ main[d] = <<>>
  /\ favorites[d] = <<>> /\ list[d] = {} /\ city[d] = NoCity

LEMMA StartedOwn == Typed => \A d \in Devices : Started(d) => Own(d)
<1>. SUFFICES ASSUME Typed, NEW d \in Devices, Started(d)
              PROVE  Own(d)
  OBVIOUS
<1>. DEFINE u == Update(store, NoDevice)
<1>1. /\ u.val = store
      /\ CountOf(<<u>>, Answers) = 0
      /\ u \in Of(<<u>>, Updates)
      /\ \A y : LastOf(<<u>>, Updates, y) <=> y = u
  BY FirstUpdate
<1>2. down[d] = <<u>>
  BY DEF Started
<1>. HIDE DEF u
<1>3. NewsInv(d)
  BY <1>1, <1>2 DEF NewsInv
<1>4. LinkInv(d)
  BY <1>1, <1>2, EmptySeq DEF Started, LinkInv, Owed
<1>5. KnownInv(d) /\ FavsInv(d) /\ ListInv(d) /\ ButtonInv(d)
  BY KindsEmpty DEF Started, KnownInv, FavsInv, View, ListInv, ButtonInv
<1>6. TapInv(d)
  BY KindsEmpty, EmptySeq DEF Started, TapInv, Taps
<1>. QED
  BY <1>3, <1>4, <1>5, <1>6 DEF Own
LEMMA StartedOwnNext == Typed' => \A d \in Devices : Started(d)' => Own(d)'
<1>1. (Typed => \A d \in Devices : Started(d) => Own(d))'
  BY StartedOwn, PTL
<1>. QED
  BY <1>1

\* The app is started again.
LEMMA KillKeeps ==
  ASSUME Typed, NEW d \in Devices, KillAndRestart(d)
  PROVE  Typed' /\ Own(d)' /\ Started(d)' /\ repeats'[d] = 0 /\ ~broken'[d]
<1>. DEFINE u == Update(store, NoDevice)
<1>1. /\ breaks < MaxBreaks /\ breaks' = breaks + 1 /\ store' = store /\ acts' = acts
      /\ up' = [up EXCEPT ![d] = <<>>]
      /\ repeats' = [repeats EXCEPT ![d] = 0]
      /\ broken' = [broken EXCEPT ![d] = FALSE]
      /\ down' = [down EXCEPT ![d] = <<u>>]
      /\ known' = [known EXCEPT ![d] = <<>>]
      /\ pending' = [pending EXCEPT ![d] = <<>>]
      /\ ready' = [ready EXCEPT ![d] = FALSE]
      /\ loads' = [loads EXCEPT ![d] = <<>>]
      /\ waiting' = [waiting EXCEPT ![d] = <<>>]
      /\ client' = [client EXCEPT ![d] = <<>>]
      /\ main' = [main EXCEPT ![d] = <<>>]
  BY DEF KillAndRestart
<1>2. /\ favorites' = [favorites EXCEPT ![d] = <<>>]
      /\ showsFavs' = [showsFavs EXCEPT ![d] = FALSE]
      /\ list' = [list EXCEPT ![d] = {}]
      /\ isFav' = [isFav EXCEPT ![d] = {}]
      /\ city' = [city EXCEPT ![d] = NoCity]
      /\ saved' = [saved EXCEPT ![d] = FALSE]
      /\ overtaken' = [overtaken EXCEPT ![d] = FALSE]
  BY DEF KillAndRestart
<1>3. <<u>> \in Seq(AllMessages)
  BY FirstUpdate
<1>. HIDE DEF u
<1>4. /\ up' \in [Devices -> Seq(FavLists)] /\ down' \in [Devices -> Seq(AllMessages)]
      /\ known' \in [Devices -> Views] /\ pending' \in [Devices -> Seq(FavLists)]
      /\ repeats' \in [Devices -> Nat] /\ broken' \in [Devices -> BOOLEAN]
  BY <1>1, <1>3, EmptySeq DEF Typed, Views
<1>5. /\ ready' \in [Devices -> BOOLEAN] /\ loads' \in [Devices -> Seq(BOOLEAN)]
      /\ waiting' \in [Devices -> Seq(Cities)] /\ client' \in [Devices -> Seq(AllCalls)]
      /\ main' \in [Devices -> Seq(AllNews)]
  BY <1>1, EmptySeq DEF Typed
<1>6. /\ favorites' \in [Devices -> Views] /\ showsFavs' \in [Devices -> BOOLEAN]
      /\ list' \in [Devices -> SUBSET Cities] /\ isFav' \in [Devices -> SUBSET Cities]
      /\ city' \in [Devices -> Cities \cup {NoCity}]
      /\ saved' \in [Devices -> BOOLEAN] /\ overtaken' \in [Devices -> BOOLEAN]
  BY <1>2 DEF Typed, Views
<1>7. Typed'
  <2>1. breaks' \in 0..MaxBreaks
    BY <1>1, BoundsAssumption DEF Typed
  <2>. QED
    BY <1>1, <1>4, <1>5, <1>6, <2>1 DEF Typed
<1>8. Started(d)'
  BY <1>1, <1>2 DEF Typed, Started, u
<1>9. Own(d)'
  BY <1>7, <1>8, StartedOwnNext
<1>10. repeats'[d] = 0 /\ ~broken'[d]
  BY <1>1 DEF Typed
<1>. QED
  BY <1>7, <1>8, <1>9, <1>10

\* What device e keeps for itself.
Kept(e) ==
  /\ up'[e] = up[e] /\ down'[e] = down[e] /\ known'[e] = known[e]
  /\ pending'[e] = pending[e] /\ ready'[e] = ready[e] /\ loads'[e] = loads[e]
  /\ waiting'[e] = waiting[e] /\ client'[e] = client[e] /\ main'[e] = main[e]
  /\ favorites'[e] = favorites[e] /\ showsFavs'[e] = showsFavs[e]
  /\ list'[e] = list[e] /\ isFav'[e] = isFav[e] /\ city'[e] = city[e]
  /\ saved'[e] = saved[e] /\ overtaken'[e] = overtaken[e]
  /\ repeats'[e] = repeats[e] /\ broken'[e] = broken[e]

LEMMA KeptKeepsOwn ==
  ASSUME NEW e, Own(e), Kept(e), store' = store
  PROVE  Own(e)'
<1>1. LinkInv(e)' /\ KnownInv(e)' /\ NewsInv(e)'
  BY DEF Own, Kept, LinkInv, Owed, KnownInv, NewsInv
<1>2. FavsInv(e)' /\ TapInv(e)'
  BY DEF Own, Kept, FavsInv, View, TapInv, Taps
<1>3. ListInv(e)'
  BY DEF Own, Kept, ListInv, Listed
<1>4. ButtonInv(e)'
  BY DEF Own, Kept, ButtonInv, View
<1>. QED
  BY <1>1, <1>2, <1>3, <1>4 DEF Own
\* Every step but Take leaves the store and the other devices alone.
LEMMA OthersKept ==
  ASSUME Typed, NEW d \in Devices, NEW e \in Devices, e # d,
         \/ TapShow(d) \/ CloseCity(d) \/ TapFavorite(d)
         \/ \E c \in Cities : OpenCity(d, c)
         \/ MainThread(d) \/ ClientThread(d)
         \/ Refuse(d) \/ Reconnect(d) \/ KillAndRestart(d)
  PROVE  Kept(e) /\ store' = store
<1>. USE DEF Kept, Typed, linkVars, threadVars, mainScreenVars, cityScreenVars
<1>1. CASE TapShow(d)
  BY <1>1 DEF TapShow, Call
<1>2. CASE CloseCity(d)
  BY <1>2 DEF CloseCity
<1>3. CASE TapFavorite(d)
  BY <1>3 DEF TapFavorite, Call
<1>4. CASE FavsArrive(d)
  BY <1>4 DEF FavsArrive, Call, Done
<1>5. CASE CitiesArrive(d)
  BY <1>5 DEF CitiesArrive, Done
<1>6. CASE ReadArrives(d)
  BY <1>6 DEF ReadArrives, Call, Done
<1>7. CASE ReadRuns(d)
  BY <1>7 DEF ReadRuns, Return
<1>8. CASE WriteRuns(d)
  BY <1>8 DEF WriteRuns, Return
<1>9. CASE LoadCitiesRuns(d)
  BY <1>9 DEF LoadCitiesRuns, Return
<1>10. CASE CatalogueComes(d)
  BY <1>10 DEF CatalogueComes
<1>11. CASE Hear(d)
  BY <1>11 DEF Hear
<1>12. CASE Reconnect(d)
  BY <1>12 DEF Reconnect
<1>13. CASE KillAndRestart(d)
  BY <1>13 DEF KillAndRestart
<1>15. CASE Refuse(d)
  BY <1>15 DEF Refuse
<1>14. CASE \E c \in Cities : OpenCity(d, c)
  BY <1>14 DEF OpenCity
<1>. QED
  BY <1>1, <1>2, <1>3, <1>4, <1>5, <1>6, <1>7, <1>8, <1>9, <1>10, <1>11,
     <1>12, <1>13, <1>14, <1>15 DEF MainThread, ClientThread

-----------------------------------------------------------------------------
(* The invariant of the first three theorems.                              *)
Kind == Typed /\ \A d \in Devices : Own(d)

LEMMA KindInit == Init => Kind
<1>. SUFFICES ASSUME Init
              PROVE  Kind
  OBVIOUS
<1>1. store \in FavLists
  BY InitialListsAssumption DEF Init, FavLists, Distinct, Contains
<1>2. down = [d \in Devices |-> <<Update(store, NoDevice)>>]
  BY DEF Init
<1>3. <<Update(store, NoDevice)>> \in Seq(AllMessages)
  BY <1>1 DEF Update, AllMessages, Updates
<1>4. down \in [Devices -> Seq(AllMessages)]
  BY <1>2, <1>3
<1>5. Typed
  <2>1. /\ up \in [Devices -> Seq(FavLists)] /\ known \in [Devices -> Views]
        /\ pending \in [Devices -> Seq(FavLists)] /\ repeats \in [Devices -> Nat]
        /\ broken \in [Devices -> BOOLEAN]
        /\ acts \in 0..MaxActs /\ breaks \in 0..MaxBreaks
    BY EmptySeq, BoundsAssumption DEF Init, Views
  <2>2. /\ ready \in [Devices -> BOOLEAN] /\ loads \in [Devices -> Seq(BOOLEAN)]
        /\ waiting \in [Devices -> Seq(Cities)] /\ client \in [Devices -> Seq(AllCalls)]
        /\ main \in [Devices -> Seq(AllNews)]
    BY EmptySeq DEF Init
  <2>3. /\ favorites \in [Devices -> Views] /\ showsFavs \in [Devices -> BOOLEAN]
        /\ list \in [Devices -> SUBSET Cities] /\ isFav \in [Devices -> SUBSET Cities]
        /\ city \in [Devices -> Cities \cup {NoCity}]
        /\ saved \in [Devices -> BOOLEAN] /\ overtaken \in [Devices -> BOOLEAN]
    BY DEF Init, Views
  <2>. QED
    BY <1>1, <1>4, <2>1, <2>2, <2>3 DEF Typed
<1>6. \A d \in Devices : Started(d)
  BY DEF Init, Started
<1>. QED
  BY <1>5, <1>6, StartedOwn DEF Kind

LEMMA KindNext == Kind /\ [Next]_vars => Kind'
<1>. SUFFICES ASSUME Kind, [Next]_vars
              PROVE  Kind'
  OBVIOUS
<1>1. CASE UNCHANGED vars
  <2>1. store' = store /\ \A e \in Devices : Kept(e)
    BY <1>1 DEF vars, linkVars, threadVars, mainScreenVars, cityScreenVars, Kept
  <2>2. Typed'
    BY <1>1 DEF Kind, Typed, vars, linkVars, threadVars, mainScreenVars, cityScreenVars
  <2>. QED
    BY <2>1, <2>2, KeptKeepsOwn DEF Kind
<1>2. ASSUME NEW d \in Devices, Take(d)
      PROVE  Kind'
  <2>1. Typed'
    BY <1>2, TakeKeepsTypes DEF Kind
  <2>2. Own(d)'
    BY <1>2, TakeKeepsOwn DEF Kind
  <2>3. ASSUME NEW e \in Devices, e # d
        PROVE  Own(e)'
    BY <1>2, <2>3, TakeKeepsOthers DEF Kind
  <2>. QED
    BY <2>1, <2>2, <2>3 DEF Kind
<1>3. ASSUME NEW d \in Devices,
             \/ TapShow(d) \/ CloseCity(d) \/ TapFavorite(d)
             \/ \E c \in Cities : OpenCity(d, c)
             \/ MainThread(d) \/ ClientThread(d)
             \/ Refuse(d) \/ Reconnect(d) \/ KillAndRestart(d)
      PROVE  Kind'
  <2>. Typed /\ Own(d)
    BY DEF Kind
  <2>1. Typed' /\ Own(d)'
    <3>1. CASE TapShow(d) \/ CloseCity(d) \/ TapFavorite(d)
      BY <3>1, TapShowKeeps, CloseCityKeeps, TapFavoriteKeeps
    <3>2. CASE \E c \in Cities : OpenCity(d, c)
      BY <3>2, OpenCityKeeps
    <3>3. CASE MainThread(d)
      BY <3>3, FavsArriveKeeps, CitiesArriveKeeps, ReadArrivesKeeps DEF MainThread
    <3>4. CASE ClientThread(d)
      BY <3>4, ReadRunsKeeps, WriteRunsKeeps, LoadCitiesRunsKeeps,
         CatalogueComesKeeps, HearKeeps DEF ClientThread
    <3>5. CASE Refuse(d) \/ Reconnect(d) \/ KillAndRestart(d)
      BY <3>5, RefuseKeeps, ReconnectKeeps, KillKeeps
    <3>. QED
      BY <1>3, <3>1, <3>2, <3>3, <3>4, <3>5
  <2>2. ASSUME NEW e \in Devices, e # d
        PROVE  Own(e)'
    <3>1. Kept(e) /\ store' = store
      BY <1>3, <2>2, OthersKept
    <3>. QED
      BY <3>1, KeptKeepsOwn DEF Kind
  <2>. QED
    BY <2>1, <2>2 DEF Kind
<1>. QED
  BY <1>1, <1>2, <1>3 DEF Next

LEMMA KindAlways == Spec => []Kind
BY KindInit, KindNext, PTL DEF Spec

LEMMA TypedTypeOK == Typed => TypeOK
<1>1. FavLists \subseteq Lists /\ Views \subseteq Lists
  BY EmptySeq DEF FavLists, Views, Lists
<1>2. AllCalls \subseteq ClientCalls
  BY <1>1 DEF AllCalls, ReadCalls, WriteCalls, LoadCalls, ClientCalls
<1>3. AllNews \subseteq Events
  BY <1>1 DEF AllNews, FavsNews, CitiesNews, ReadNews, Events
<1>4. AllMessages \subseteq Messages
  <2>1. <<>> \in Lists
    BY EmptySeq DEF Lists
  <2>. QED
    BY <1>1, <2>1 DEF AllMessages, Updates, Answers, Messages
<1>5. /\ Seq(FavLists) \subseteq Seq(Lists) /\ Seq(AllCalls) \subseteq Seq(ClientCalls)
      /\ Seq(AllNews) \subseteq Seq(Events) /\ Seq(AllMessages) \subseteq Seq(Messages)
  BY <1>1, <1>2, <1>3, <1>4, SeqMonotonic
<1>. QED
  BY <1>1, <1>5 DEF Typed, TypeOK

\* Queues, the client's copy, the lists on the screens and the button keep
\* to their types, whatever happens.
THEOREM TypeCorrect == Spec => []TypeOK
<1>1. Kind => TypeOK
  BY TypedTypeOK DEF Kind
<1>. QED
  BY <1>1, KindAlways, PTL

\* The list is the one the button tells of when all is delivered, although
\* every update and every loadCities adds one more listener.
THEOREM ListMatchesButtonHolds == Spec => []ListMatchesButton
<1>1. Kind => ListMatchesButton
  <2>. SUFFICES ASSUME Kind, NEW d \in Devices, Quiet(d)
                PROVE  list[d] = IF showsFavs[d] THEN CitiesIn(store) ELSE Cities
    BY DEF ListMatchesButton
  <2>1. /\ client[d] = <<>> /\ main[d] = <<>> /\ down[d] = <<>>
        /\ pending[d] = <<>> /\ ready[d]
    BY DEF Quiet, Through, LocalIdle
  <2>2. Of(client[d], LoadCalls) = {} /\ Of(main[d], CitiesNews) = {}
    BY <2>1, KindsEmpty
  <2>3. Of(main[d], FavsNews) = {} /\ Of(down[d], Updates) = {}
    BY <2>1, KindsEmpty
  <2>4. known[d] = store
    BY <2>3 DEF Kind, Own, NewsInv
  <2>5. favorites[d] = store
    BY <2>1, <2>3, <2>4 DEF Kind, Own, FavsInv, View
  <2>6. list[d] = Listed(d)
    BY <2>1, <2>2 DEF Kind, Own, ListInv
  <2>. QED
    BY <2>5, <2>6 DEF Listed
<1>. QED
  BY <1>1, KindAlways, PTL

\* The button says what the next tap will do, unless another device has
\* changed that city meanwhile.
THEOREM ButtonFollowsHolds == Spec => []ButtonFollows
<1>1. Kind => ButtonFollows
  <2>. SUFFICES ASSUME Kind, NEW d \in Devices, LocalIdle(d), city[d] # NoCity, ~overtaken[d]
                PROVE  saved[d] <=> HasCity(View(d), city[d])
    BY DEF ButtonFollows
  <2>1. Of(client[d], WriteCalls) = {}
    BY KindsEmpty DEF LocalIdle
  <2>. QED
    BY <2>1 DEF Kind, Own, ButtonInv
<1>. QED
  BY <1>1, KindAlways, PTL
-----------------------------------------------------------------------------
(* One city at a time: each write is built on the one before it, and the   *)
(* device that is used hears of nothing but its own writes.                *)

LEMMA IdleDevice ==
  ASSUME Typed, NEW d \in Devices, LinkInv(d), TapInv(d), ~Active(d)
  PROVE  /\ waiting[d] = <<>> /\ up[d] = <<>> /\ pending[d] = <<>>
         /\ Of(client[d], WriteCalls) = {} /\ Of(main[d], ReadNews) = {}
         /\ Owed(d) = 0
<1>1. up[d] = <<>> /\ pending[d] = <<>>
  BY DEF Active
<1>2. Owed(d) \in Nat
  BY KindsNone DEF Owed, Typed
<1>3. Owed(d) = 0
  BY <1>1, <1>2, EmptySeq DEF LinkInv
<1>4. ~(CountOf(client[d], TapCalls) + Len(waiting[d]) + CountOf(main[d], ReadNews) > 0)
  BY DEF Active, Taps
<1>5. /\ CountOf(client[d], TapCalls) = 0 /\ Len(waiting[d]) = 0
      /\ CountOf(main[d], ReadNews) = 0
  BY <1>4, OneTap
<1>. QED
  BY <1>1, <1>3, <1>5, OneTap

LEMMA Lengths ==
  ASSUME Typed, NEW d \in Devices, LinkInv(d)
  PROVE  /\ Owed(d) \in Nat /\ Len(up[d]) \in Nat /\ Len(pending[d]) \in Nat
         /\ Len(pending[d]) = Owed(d) + Len(up[d])
         /\ Len(pending[d]) = 0 <=> pending[d] = <<>>
         /\ Len(up[d]) = 0 <=> up[d] = <<>>
<1>1. up[d] \in Seq(FavLists) /\ pending[d] \in Seq(FavLists) /\ down[d] \in Seq(AllMessages)
  BY DEF Typed
<1>2. Owed(d) \in Nat
  BY <1>1, KindsNone DEF Owed
<1>3. Len(pending[d]) = Owed(d) + Len(up[d])
  BY DEF LinkInv
<1>. QED
  BY <1>1, <1>2, <1>3, EmptySeq, LenProperties

\* Without confirmations under way there are no updates of its own either.
LEMMA FirstOnly ==
  ASSUME Typed, NEW d \in Devices, DownInv(d), Owed(d) = 0,
         \A i \in 1..Len(down[d]) : down[d][i].from \in {d, NoDevice}
  PROVE  /\ Len(down[d]) <= 1
         /\ \A i \in 1..Len(down[d]) :
              i = 1 /\ down[d][i] \in Updates /\ down[d][i].from = NoDevice
<1>1. down[d] \in Seq(AllMessages) /\ Len(down[d]) \in Nat
  BY LenProperties DEF Typed
<1>2. Of(down[d], Answers) = {}
  BY <1>1, KindsNone DEF Owed
<1>3. \A i \in 1..Len(down[d]) : down[d][i] \notin Answers
  BY <1>2 DEF Of, At
<1>4. \A i \in 1..Len(down[d]) : down[d][i] \in Updates
  BY <1>1, <1>3, ElementOfSeq DEF AllMessages
<1>5. ASSUME NEW i \in 1..Len(down[d])
      PROVE  down[d][i].from # d
  <2>1. i < Len(down[d]) => i + 1 \in 1..Len(down[d])
    BY <1>1
  <2>. QED
    BY <1>3, <1>4, <2>1 DEF DownInv
<1>6. \A i \in 1..Len(down[d]) : i = 1 /\ down[d][i].from = NoDevice
  BY <1>5 DEF DownInv
<1>7. Len(down[d]) <= 1
  <2>1. Len(down[d]) > 1 => 2 \in 1..Len(down[d])
    BY <1>1
  <2>. QED
    BY <1>1, <1>6, <2>1
<1>. QED
  BY <1>4, <1>6, <1>7

LEMMA NothingPending ==
  Typed => \A d \in Devices : LinkInv(d) /\ pending[d] = <<>> => up[d] = <<>> /\ Owed(d) = 0
<1>. SUFFICES ASSUME Typed, NEW d \in Devices, LinkInv(d), pending[d] = <<>>
              PROVE  up[d] = <<>> /\ Owed(d) = 0
  OBVIOUS
<1>. DEFINE k == Owed(d)
            m == Len(up[d])
<1>1. k \in Nat /\ m \in Nat /\ 0 = k + m /\ (m = 0 <=> up[d] = <<>>)
  BY Lengths
<1>. HIDE DEF k, m
<1>2. k = 0 /\ m = 0
  BY <1>1
<1>. QED
  BY <1>1, <1>2 DEF k

LEMMA NothingPendingNext ==
  Typed' => \A d \in Devices : LinkInv(d)' /\ pending'[d] = <<>> => up'[d] = <<>> /\ Owed(d)' = 0
<1>1. (Typed => \A d \in Devices :
         LinkInv(d) /\ pending[d] = <<>> => up[d] = <<>> /\ Owed(d) = 0)'
  BY NothingPending, PTL
<1>. QED
  BY <1>1

LEMMA KeptKeepsChain ==
  ASSUME NEW d, DownInv(d), ChainInv(d), Kept(d), store' = store
  PROVE  DownInv(d)' /\ ChainInv(d)' /\ (Active(d)' <=> Active(d))
<1>1. Active(d)' <=> Active(d)
  BY DEF Active, Taps, Kept
<1>2. DownInv(d)'
  BY <1>1 DEF DownInv, Kept
<1>3. ChainInv(d)'
  BY <1>1 DEF ChainInv, Kept, Owed, View, Informed, Fresh, Detached
<1>. QED
  BY <1>1, <1>2, <1>3

LEMMA CalmKeepsChain ==
  ASSUME NEW d, DownInv(d), ChainInv(d), Calm(d)
  PROVE  DownInv(d)' /\ ChainInv(d)' /\ (Active(d)' <=> Active(d))
<1>1. Active(d)' <=> Active(d)
  BY DEF Active, Taps, Calm, LinkSame, TapsSame
<1>2. DownInv(d)'
  BY <1>1 DEF DownInv, Calm, LinkSame
<1>3. ChainInv(d)'
  BY <1>1 DEF ChainInv, Calm, LinkSame, TapsSame, Owed, View, Informed, Fresh, Detached
<1>. QED
  BY <1>1, <1>2, <1>3

\* The turn is the device's: either the client knows what the store holds,
\* or it will with the first update.
LEMMA TappedKeepsChain ==
  ASSUME Typed, NEW d \in Devices, Own(d), DownInv(d), ChainInv(d), Tapped(d), Turn(d)
  PROVE  DownInv(d)' /\ ChainInv(d)'
<1>1. down[d] \in Seq(AllMessages) /\ Len(down[d]) \in Nat /\ DOMAIN down[d] = 1..Len(down[d])
  BY LenProperties DEF Typed
<1>2. \A i \in 1..Len(down[d]) :
        down[d][i].from = d \/ (known[d] = <<>> /\ down[d][i].from = NoDevice)
  BY <1>1 DEF Turn
<1>3. DownInv(d)'
  BY <1>2 DEF DownInv, Tapped, LinkSame
<1>4. Informed(d) \/ Fresh(d)
  <2>1. SUFFICES ASSUME pending[d] = <<>>
                 PROVE  known[d] = store \/ Fresh(d)
    BY DEF Informed
  <2>2. Len(up[d]) \in Nat /\ Owed(d) \in Nat /\ (Len(up[d]) = 0 <=> up[d] = <<>>)
    BY KindsNone, EmptySeq, LenProperties DEF Owed, Typed
  <2>3. Owed(d) = 0 /\ up[d] = <<>>
    BY <2>1, <2>2, EmptySeq DEF Own, LinkInv
  <2>4. /\ Len(down[d]) <= 1
        /\ \A i \in 1..Len(down[d]) : down[d][i] \in Updates /\ down[d][i].from = NoDevice
    BY <1>2, <2>3, FirstOnly
  <2>5. CASE Len(down[d]) = 0
    <3>1. Of(down[d], Updates) = {}
      BY <2>5, KindsEmpty, <1>1, EmptySeq
    <3>. QED
      BY <3>1 DEF Own, NewsInv
  <2>6. CASE Len(down[d]) = 1
    <3>1. 1 \in 1..Len(down[d])
      BY <2>6
    <3>2. known[d] = <<>>
      BY <1>2, <2>4, <3>1, NoDeviceAssumption
    <3>. QED
      BY <2>1, <2>3, <2>4, <2>6, <3>1, <3>2 DEF Fresh
  <2>7. Len(down[d]) = 0 \/ Len(down[d]) = 1
    <3>. DEFINE n == Len(down[d])
    <3>1. n <= 1 /\ n \in Nat
      BY <1>1, <2>4
    <3>. HIDE DEF n
    <3>2. n = 0 \/ n = 1
      BY <3>1
    <3>. QED
      BY <3>2 DEF n
  <2>. QED
    BY <2>5, <2>6, <2>7
<1>5. Informed(d)' \/ Fresh(d)'
  BY <1>4 DEF Informed, Fresh, Tapped, LinkSame
<1>6. ChainInv(d)'
  BY <1>5 DEF ChainInv, Tapped, LinkSame, Owed
<1>. QED
  BY <1>3, <1>6

LEMMA AskedKeepsChain ==
  ASSUME Typed, NEW d \in Devices, Own(d), DownInv(d), ChainInv(d), Asked(d)
  PROVE  DownInv(d)' /\ ChainInv(d)' /\ Active(d)
<1>1. Active(d)
  BY DEF Active, Asked
<1>2. DownInv(d)'
  BY <1>1 DEF DownInv, Asked, LinkSame
<1>3. Informed(d)' \/ Fresh(d)'
  BY <1>1 DEF ChainInv, Informed, Fresh, Asked, LinkSame
<1>4. known[d] = <<>> => Fresh(d)
  <2>1. store # <<>>
    BY FavListsFacts DEF Typed
  <2>. QED
    BY <1>1, <2>1 DEF ChainInv, Informed, Own, KnownInv
<1>5. /\ View(d)' = View(d) /\ Owed(d)' = Owed(d) /\ (Fresh(d)' <=> Fresh(d))
      /\ Detached(d)' <=> Detached(d)
  BY DEF View, Owed, Fresh, Asked, LinkSame, Detached
<1>6. ChainInv(d)'
  BY <1>3, <1>4, <1>5 DEF ChainInv, Asked, LinkSame
<1>. QED
  BY <1>1, <1>2, <1>6

LEMMA AnsweredKeepsChain ==
  ASSUME Typed, NEW d \in Devices, Own(d), DownInv(d), ChainInv(d), Answered(d)
  PROVE  DownInv(d)' /\ ChainInv(d)' /\ Active(d)
<1>1. Active(d)
  BY DEF Active, Answered
<1>2. DownInv(d)'
  BY <1>1 DEF DownInv, Answered, LinkSame
<1>3. Informed(d)' \/ Fresh(d)'
  BY <1>1 DEF ChainInv, Informed, Fresh, Answered, LinkSame
<1>4. PICK x \in Of(main[d], ReadNews) :
        /\ x.val \in FavLists /\ x.city \in Cities
        /\ \A y \in Of(client'[d], WriteCalls) : y.val = Toggled(x.val, x.city)
  BY DEF Answered
<1>5. /\ OneCity(x.val, Toggled(x.val, x.city))
      /\ ~Detached(d) => x.val = View(d)
  BY <1>4, TogglesOne DEF ChainInv
<1>6. View(d)' = View(d) /\ Owed(d)' = Owed(d) /\ (Detached(d)' <=> Detached(d))
  BY DEF View, Owed, Answered, LinkSame, Detached
<1>7. ~Detached(d) => \A y \in Of(client'[d], WriteCalls) : OneCity(View(d)', y.val)
  BY <1>4, <1>5, <1>6
<1>8. ChainInv(d)'
  BY <1>3, <1>6, <1>7 DEF ChainInv, Answered, LinkSame
<1>. QED
  BY <1>1, <1>2, <1>8

LEMMA WroteKeepsChain ==
  ASSUME Typed, NEW d \in Devices, Own(d), DownInv(d), ChainInv(d), Wrote(d)
  PROVE  DownInv(d)' /\ ChainInv(d)' /\ Active(d)
<1>. DEFINE n == Len(pending[d])
            m == Len(up[d])
            k == Owed(d)
<1>1. Active(d)
  BY DEF Active, Wrote
<1>2. DownInv(d)'
  BY <1>1 DEF DownInv, Wrote
<1>3. PICK x \in Of(client[d], WriteCalls) :
        /\ x.val \in FavLists
        /\ pending'[d] = Append(pending[d], x.val) /\ up'[d] = Append(up[d], x.val)
  BY DEF Wrote
<1>4. /\ n \in Nat /\ Len(pending'[d]) = n + 1
      /\ \A i \in 1..n : pending'[d][i] = pending[d][i]
      /\ pending'[d][n + 1] = x.val
  BY <1>3, AppendProperties, LenProperties DEF Typed
<1>5. /\ m \in Nat /\ Len(up'[d]) = m + 1
      /\ \A i \in 1..m : up'[d][i] = up[d][i]
      /\ up'[d][m + 1] = x.val
  BY <1>3, AppendProperties, LenProperties DEF Typed
<1>6. k \in Nat /\ n = k + m /\ Owed(d)' = k
  <2>1. k \in Nat
    BY KindsNone DEF Owed, Typed
  <2>2. Owed(d)' = k
    BY DEF Owed, Wrote
  <2>. QED
    BY <2>1, <2>2 DEF Own, LinkInv
<1>7. (n = 0 <=> pending[d] = <<>>) /\ (m = 0 <=> up[d] = <<>>)
  BY EmptySeq DEF Typed
<1>8. pending[d] = <<>> => known[d] = store
  BY <1>1 DEF ChainInv, Informed, Fresh, Wrote
<1>9. n > 0 => View(d) = pending[d][n]
  BY <1>7 DEF View, Last
<1>10. ~Detached(d) => OneCity(View(d), x.val)
  BY DEF ChainInv
<1>11. k > 0 /\ ~broken[d] => store = pending[d][k]
  BY DEF ChainInv
<1>12. \A i \in 1..n - 1 : OneCity(pending[d][i], pending[d][i + 1])
  BY DEF ChainInv
<1>13. /\ repeats[d] <= m /\ (broken[d] => repeats[d] = 0)
       /\ m > 0 /\ repeats[d] = 0 /\ ~broken[d] => OneCity(store, up[d][1])
  BY <1>5, <1>7 DEF ChainInv
<1>14. /\ repeats[d] \in Nat /\ repeats'[d] = repeats[d] /\ store' = store
       /\ broken'[d] = broken[d]
  BY DEF Typed, Wrote
<1>21. n > 0 \/ ~broken[d] => OneCity(View(d), x.val)
  BY <1>7, <1>10 DEF Detached
<1>15. Len(pending'[d]) # 0 /\ pending'[d] # <<>>
  BY <1>4, EmptySeq
<1>. HIDE DEF n, m, k
<1>16. \A i \in 1..Len(pending'[d]) - 1 : OneCity(pending'[d][i], pending'[d][i + 1])
  <2>1. SUFFICES ASSUME NEW i \in 1..n
                 PROVE  OneCity(pending'[d][i], pending'[d][i + 1])
    BY <1>4
  <2>2. CASE i = n
    BY <1>4, <1>9, <1>21, <2>2
  <2>3. CASE i # n
    <3>1. i \in 1..n - 1 /\ i + 1 \in 1..n
      BY <1>4, <2>3
    <3>. QED
      BY <1>4, <1>12, <3>1
  <2>. QED
    BY <2>2, <2>3
<1>17. repeats'[d] <= Len(up'[d])
  BY <1>5, <1>13, <1>14
<1>18. repeats'[d] = 0 /\ ~broken'[d] => OneCity(store', up'[d][1])
  <2>. SUFFICES ASSUME repeats'[d] = 0, ~broken[d]
                PROVE  OneCity(store', up'[d][1])
    BY <1>14
  <2>1. CASE m > 0
    <3>1. 1 \in 1..m
      BY <1>5, <2>1
    <3>. QED
      BY <1>5, <1>13, <1>14, <2>1, <3>1
  <2>2. CASE m = 0
    <3>1. up'[d][1] = x.val /\ n = k
      BY <1>5, <1>6, <2>2
    <3>2. View(d) = store
      <4>1. CASE n = 0
        BY <1>7, <1>8, <4>1 DEF View
      <4>2. CASE n > 0
        BY <1>9, <1>11, <3>1, <4>2
      <4>. QED
        BY <1>4, <4>1, <4>2
    <3>. QED
      BY <1>14, <1>21, <3>1, <3>2
  <2>. QED
    BY <1>5, <2>1, <2>2
<1>19. k > 0 /\ ~broken'[d] => store' = pending'[d][k]
  <2>1. k > 0 => k \in 1..n
    BY <1>5, <1>6
  <2>. QED
    BY <1>4, <1>11, <1>14, <2>1
<1>20. ChainInv(d)'
  BY <1>6, <1>13, <1>14, <1>15, <1>16, <1>17, <1>18, <1>19 DEF ChainInv, Wrote, Informed
<1>. QED
  BY <1>1, <1>2, <1>20
\* What is told of the store on the way back comes in the order it happened.
LEMMA HeardKeepsDown ==
  ASSUME Typed, NEW d \in Devices, DownInv(d), Heard(d), Active(d)' => Active(d)
  PROVE  DownInv(d)'
<1>. DEFINE n == Len(down[d]) - 1
<1>1. /\ n \in Nat /\ Len(down'[d]) = n /\ Len(down[d]) = n + 1
      /\ \A i \in 1..n : down'[d][i] = down[d][i + 1]
  BY EmptySeq, HeadTailProperties DEF Typed, Heard
<1>. HIDE DEF n
<1>2. ASSUME NEW i \in 1..n
      PROVE  /\ down'[d][i].from # NoDevice
             /\ down'[d][i] \in Updates /\ down'[d][i].from = d =>
                  i < n /\ down'[d][i + 1] \in Answers
             /\ Active(d)' => down'[d][i].from \in {d, NoDevice}
  <2>1. i + 1 \in 1..n + 1 /\ i + 1 # 1
    BY <1>1
  <2>2. /\ down[d][i + 1].from # NoDevice
        /\ down[d][i + 1] \in Updates /\ down[d][i + 1].from = d =>
             i + 1 < n + 1 /\ down[d][(i + 1) + 1] \in Answers
        /\ Active(d) => down[d][i + 1].from \in {d, NoDevice}
    BY <1>1, <2>1 DEF DownInv
  <2>3. i + 1 < n + 1 => i < n /\ i + 1 \in 1..n
    BY <1>1
  <2>. QED
    BY <1>1, <2>2, <2>3
<1>. QED
  BY <1>1, <1>2 DEF DownInv

LEMMA HeardKeepsActive ==
  ASSUME Typed, NEW d \in Devices, Heard(d), Active(d)'
  PROVE  Active(d)
<1>1. pending[d] = <<>> => pending'[d] = <<>>
  BY DEF Heard
<1>. QED
  BY <1>1 DEF Active, Heard

LEMMA NoneLeft ==
  ASSUME NEW q \in Seq(AllMessages), CountOf(q, Answers) = 0,
         \A i \in 1..Len(q) :
           q[i] \in Updates => i < Len(q) /\ q[i + 1] \in Answers
  PROVE  Of(q, Updates) = {}
<1>1. Of(q, Answers) = {} /\ Len(q) \in Nat
  BY KindsNone, LenProperties
<1>2. \A i \in 1..Len(q) : q[i] \notin Answers
  BY <1>1 DEF Of, At
<1>3. \A i \in 1..Len(q) : i < Len(q) => i + 1 \in 1..Len(q)
  BY <1>1
<1>4. \A i \in 1..Len(q) : q[i] \notin Updates
  BY <1>2, <1>3
<1>. QED
  BY <1>4 DEF Of, At

\* While the device is active it hears what it sees already, unless it
\* knows nothing at all.
LEMMA HeardKeepsView ==
  ASSUME Typed, NEW d \in Devices, Own(d), DownInv(d), ChainInv(d), Heard(d), Active(d),
         NewsInv(d)', DownInv(d)', Typed'
  PROVE  /\ Informed(d)'
         /\ ~Fresh(d) /\ (~broken[d] \/ pending'[d] # <<>>) => View(d)' = View(d)
<1>1. /\ Owed(d) \in Nat /\ Len(up[d]) \in Nat /\ Len(pending[d]) \in Nat
      /\ Len(pending[d]) = Owed(d) + Len(up[d])
      /\ (Len(pending[d]) = 0 <=> pending[d] = <<>>) /\ (Len(up[d]) = 0 <=> up[d] = <<>>)
  BY Lengths DEF Own
<1>2. \A i \in 1..Len(down[d]) : down[d][i].from \in {d, NoDevice}
  BY DEF DownInv
<1>3. down[d] \in Seq(AllMessages) /\ down[d] # <<>> /\ down'[d] = Tail(down[d])
  BY DEF Typed, Heard
<1>4. CASE /\ Head(down[d]) \in Updates
           /\ known'[d] = Head(down[d]).val /\ pending'[d] = pending[d]
  <2>1. CASE pending[d] # <<>>
    BY <1>4, <2>1 DEF Informed, View
  <2>2. CASE pending[d] = <<>>
    <3>1. Owed(d) = 0
      BY <1>1, <2>2
    <3>2. Len(down[d]) <= 1
      BY <1>2, <3>1, FirstOnly
    <3>3. Len(down[d]) = 1
      <4>. DEFINE m == Len(down[d])
      <4>1. m \in Nat /\ m # 0 /\ m <= 1
        BY <1>3, <3>2, EmptySeq, LenProperties
      <4>. HIDE DEF m
      <4>2. m = 1
        BY <4>1
      <4>. QED
        BY <4>2 DEF m
    <3>4. LastOf(down[d], Updates, Head(down[d]))
      <4>1. down[d][1] = Head(down[d])
        BY <1>3, HeadTailProperties, EmptySeq
      <4>2. 1 \in At(down[d], Updates) /\ \A j \in At(down[d], Updates) : j <= 1
        BY <1>4, <3>3, <4>1 DEF At
      <4>. QED
        BY <4>1, <4>2 DEF LastOf
    <3>5. known'[d] = store
      BY <1>4, <3>4 DEF Own, NewsInv
    <3>. QED
      BY <1>4, <2>2, <3>5 DEF ChainInv, Informed, View, Heard
  <2>. QED
    BY <2>1, <2>2
<1>5. CASE /\ Head(down[d]) \in Answers
           /\ known'[d] = known[d] /\ pending'[d] = Tail(pending[d]) /\ pending[d] # <<>>
           /\ Owed(d) = Owed(d)' + 1
  <2>. DEFINE n == Len(pending[d])
              k == Owed(d)'
  <2>1. k \in Nat /\ n = (k + 1) + Len(up[d])
    <3>1. k \in Nat /\ Owed(d) = k + 1
      BY <1>5 DEF Heard
    <3>. HIDE DEF k
    <3>. QED
      BY <1>1, <3>1
  <2>2. /\ n \in Nat \ {0} /\ Len(pending'[d]) = n - 1
        /\ \A i \in 1..n - 1 : pending'[d][i] = pending[d][i + 1]
    <3>1. pending[d] \in Seq(FavLists) /\ pending[d] # <<>> /\ pending'[d] = Tail(pending[d])
      BY <1>5 DEF Typed
    <3>. QED
      BY <3>1, TailProperties
  <2>3. pending'[d] \in Seq(FavLists) /\ (n - 1 = 0 <=> pending'[d] = <<>>)
    BY <1>1, <1>5, <2>2, HeadTailIn, EmptySeq DEF Typed
  <2>4. View(d) = pending[d][n]
    BY <1>5 DEF View, Last
  <2>5. k + 1 > 0 /\ ~broken[d] => store = pending[d][k + 1]
    BY <1>5 DEF ChainInv
  <2>6. CASE n - 1 # 0
    <3>1. View(d)' = pending'[d][n - 1]
      BY <2>2, <2>3, <2>6 DEF View, Last
    <3>. HIDE DEF n, k
    <3>2. n - 1 \in 1..n - 1 /\ (n - 1) + 1 = n
      BY <2>2, <2>6
    <3>3. pending'[d][n - 1] = pending[d][n]
      BY <2>2, <3>2
    <3>. QED
      BY <2>3, <2>4, <2>6, <3>1, <3>3 DEF Informed
  <2>7. CASE n - 1 = 0
    <3>. HIDE DEF n
    <3>1. k = 0 /\ n = k + 1
      <4>. DEFINE m == Len(up[d])
      <4>1. k \in Nat /\ n = (k + 1) + m /\ m \in Nat /\ n - 1 = 0
        BY <1>1, <2>1, <2>7
      <4>. HIDE DEF k, m
      <4>. QED
        BY <4>1
    <3>2. ~broken[d] => store = View(d)
      BY <2>2, <2>4, <2>5, <3>1
    <3>3. Of(down'[d], Updates) = {}
      <4>. DEFINE m == Len(down[d]) - 1
      <4>1. /\ m \in Nat /\ Len(down'[d]) = m /\ Len(down[d]) = m + 1
            /\ \A i \in 1..m : down'[d][i] = down[d][i + 1]
        BY <1>3, EmptySeq, HeadTailProperties
      <4>. HIDE DEF m
      <4>2. ASSUME NEW i \in 1..m
            PROVE  down'[d][i].from = d
        <5>1. i + 1 \in 1..m + 1 /\ i + 1 # 1
          BY <4>1
        <5>2. down'[d][i] = down[d][i + 1] /\ i + 1 \in 1..Len(down[d])
          BY <4>1, <5>1
        <5>3. down[d][i + 1].from # NoDevice
          BY <5>1, <5>2 DEF DownInv
        <5>. QED
          BY <1>2, <5>2, <5>3
      <4>3. down'[d] \in Seq(AllMessages) /\ CountOf(down'[d], Answers) = 0
        BY <3>1 DEF Typed, Owed, k
      <4>4. \A i \in 1..Len(down'[d]) :
              /\ down'[d][i].from = d
              /\ down'[d][i] \in Updates =>
                   i < Len(down'[d]) /\ down'[d][i + 1] \in Answers
        BY <4>1, <4>2 DEF DownInv
      <4>. QED
        BY <4>3, <4>4, NoneLeft
    <3>4. known'[d] = store'
      BY <3>3 DEF NewsInv
    <3>. QED
      BY <2>3, <2>7, <3>2, <3>4 DEF Informed, View, Heard
  <2>. QED
    BY <2>6, <2>7
<1>. QED
  BY <1>4, <1>5 DEF Heard
LEMMA HeardKeepsChain ==
  ASSUME Typed, NEW d \in Devices, Own(d), DownInv(d), ChainInv(d), Heard(d), Typed', Own(d)'
  PROVE  DownInv(d)' /\ ChainInv(d)' /\ (Active(d)' => Active(d))
<1>1. Active(d)' => Active(d)
  BY HeardKeepsActive
<1>2. DownInv(d)'
  BY <1>1, HeardKeepsDown
<1>3. /\ repeats'[d] <= Len(up'[d])
      /\ up'[d] # <<>> /\ repeats'[d] = 0 /\ ~broken'[d] => OneCity(store', up'[d][1])
      /\ broken'[d] => repeats'[d] = 0
      /\ broken[d] /\ ~broken'[d] => pending'[d] = <<>> /\ up'[d] = <<>> /\ Owed(d)' = 0
  <2>1. broken[d] /\ ~broken'[d] => pending'[d] = <<>>
    BY DEF Heard
  <2>2. pending'[d] = <<>> => up'[d] = <<>> /\ Owed(d)' = 0
    BY NothingPendingNext DEF Own
  <2>. QED
    BY <2>1, <2>2 DEF ChainInv, Heard
<1>4. CASE ~Active(d)
  <2>1. /\ waiting[d] = <<>> /\ up[d] = <<>> /\ pending[d] = <<>>
        /\ Of(client[d], WriteCalls) = {} /\ Of(main[d], ReadNews) = {}
        /\ Owed(d) = 0
    BY <1>4, IdleDevice DEF Own
  <2>2. pending'[d] = <<>> /\ Owed(d)' = 0
    BY <2>1 DEF Heard
  <2>3. \A i \in 1..Len(pending'[d]) - 1 : OneCity(pending'[d][i], pending'[d][i + 1])
    BY <2>2, EmptySeq
  <2>. QED
    BY <1>1, <1>2, <1>3, <1>4, <2>1, <2>2, <2>3 DEF ChainInv, Heard
<1>5. CASE Active(d)
  <2>1. /\ Informed(d)'
        /\ ~Fresh(d) /\ (~broken[d] \/ pending'[d] # <<>>) => View(d)' = View(d)
    BY <1>2, <1>5, HeardKeepsView DEF Own
  <2>2. Fresh(d) => Of(client[d], WriteCalls) = {} /\ Of(main[d], ReadNews) = {}
    BY DEF Fresh, Own, KnownInv
  <2>3. waiting[d] # <<>> => Fresh(d)
    BY DEF ChainInv
  <2>8. ASSUME ~Detached(d)', ~Fresh(d), Of(client[d], WriteCalls) # {} \/ Of(main[d], ReadNews) # {}
        PROVE  View(d)' = View(d) /\ ~Detached(d)
    <3>1. ~broken[d] \/ pending'[d] # <<>>
      BY <2>8 DEF Detached, Heard
    <3>2. pending'[d] # <<>> => pending[d] # <<>>
      BY DEF Heard
    <3>. QED
      BY <2>1, <2>8, <3>1, <3>2 DEF Detached
  <2>4. ~Detached(d)' => \A x \in Of(client'[d], WriteCalls) : OneCity(View(d)', x.val)
    BY <2>2, <2>8 DEF ChainInv, Heard
  <2>5. ~Detached(d)' => \A x \in Of(main'[d], ReadNews) : x.val = View(d)'
    BY <2>2, <2>8 DEF ChainInv, Heard
  <2>6. waiting'[d] = <<>>
    BY DEF Heard
  <2>7. /\ \A i \in 1..Len(pending'[d]) - 1 : OneCity(pending'[d][i], pending'[d][i + 1])
        /\ Owed(d)' > 0 /\ ~broken[d] => store' = pending'[d][Owed(d)']
    <3>1. CASE pending'[d] = pending[d] /\ Owed(d)' = Owed(d)
      BY <3>1 DEF ChainInv, Heard
    <3>2. CASE pending'[d] = Tail(pending[d]) /\ pending[d] # <<>> /\ Owed(d) = Owed(d)' + 1
      <4>. DEFINE n == Len(pending[d])
                  k == Owed(d)'
      <4>1. /\ n \in Nat \ {0} /\ Len(pending'[d]) = n - 1
            /\ \A i \in 1..n - 1 : pending'[d][i] = pending[d][i + 1]
        <5>1. pending[d] \in Seq(FavLists)
          BY DEF Typed
        <5>. QED
          BY <3>2, <5>1, TailProperties
      <4>2. /\ \A i \in 1..n - 1 : OneCity(pending[d][i], pending[d][i + 1])
            /\ Owed(d) > 0 /\ ~broken[d] => store = pending[d][Owed(d)]
        BY DEF ChainInv
      <4>3. k \in Nat /\ Owed(d) = k + 1 /\ store' = store
        BY <3>2 DEF Heard
      <4>4. k < n
        <5>1. Owed(d) <= n
          <6>. HIDE DEF n
          <6>1. n = Owed(d) + Len(up[d]) /\ Len(up[d]) \in Nat /\ Owed(d) \in Nat
            BY Lengths DEF Own, n
          <6>. QED
            BY <6>1
        <5>. HIDE DEF k, n
        <5>. QED
          BY <4>1, <4>3, <5>1
      <4>. HIDE DEF k, n
      <4>5. ASSUME NEW i \in 1..(n - 1) - 1
            PROVE  OneCity(pending'[d][i], pending'[d][i + 1])
        <5>1. i \in 1..n - 1 /\ i + 1 \in 1..n - 1
          BY <4>1
        <5>. QED
          BY <4>1, <4>2, <5>1
      <4>6. k > 0 /\ ~broken[d] => store' = pending'[d][k]
        <5>1. k > 0 => k \in 1..n - 1 /\ Owed(d) > 0
          BY <4>1, <4>3, <4>4
        <5>. QED
          BY <4>1, <4>2, <4>3, <5>1
      <4>. QED
        BY <4>1, <4>5, <4>6 DEF k
    <3>. QED
      BY <3>1, <3>2 DEF Heard
  <2>. QED
    <3>1. Owed(d)' > 0 /\ ~broken'[d] => store' = pending'[d][Owed(d)']
      <4>1. Owed(d)' = 0 => ~(Owed(d)' > 0)
        OBVIOUS
      <4>. QED
        BY <1>3, <2>7, <4>1
    <3>. QED
      BY <1>1, <1>2, <1>3, <2>1, <2>4, <2>5, <2>6, <2>7, <3>1 DEF ChainInv
<1>. QED
  BY <1>4, <1>5

LEMMA TakeOwes ==
  ASSUME Typed, NEW d \in Devices, Take(d)
  PROVE  Owed(d)' = Owed(d) + 1
<1>. DEFINE u == Update(store', d)
            c == Confirmation(d)
            s == Append(down[d], u)
<1>1. /\ down'[d] = Append(s, c)
      /\ u \in AllMessages /\ u \notin Answers
      /\ c \in AllMessages /\ c \in Answers
  BY TakeDoes
<1>. HIDE DEF u, c
<1>2. down[d] \in Seq(AllMessages) /\ s \in Seq(AllMessages)
  BY <1>1 DEF Typed
<1>3. CountOf(s, Answers) = CountOf(down[d], Answers)
  BY <1>1, <1>2, KindsAppend
<1>. HIDE DEF s
<1>4. CountOf(Append(s, c), Answers) = CountOf(s, Answers) + 1
  BY <1>1, <1>2, KindsAppend
<1>. QED
  BY <1>1, <1>3, <1>4 DEF Owed

LEMMA TakeKeepsDown ==
  ASSUME Typed, NEW d \in Devices, DownInv(d), Active(d), Take(d)
  PROVE  DownInv(d)'
<1>. DEFINE u == Update(store', d)
            c == Confirmation(d)
            s == Append(down[d], u)
            n == Len(down[d])
<1>1. /\ down'[d] = Append(s, c) /\ u.from = d /\ c.from = d
      /\ u \in AllMessages /\ c \in AllMessages
      /\ c \in Answers /\ c \notin Updates
  BY TakeDoes DEF Update, Confirmation
<1>. HIDE DEF u, c
<1>2. /\ s \in Seq(AllMessages) /\ n \in Nat /\ Len(s) = n + 1 /\ s[n + 1] = u
      /\ \A i \in 1..n : s[i] = down[d][i]
  BY <1>1, AppendProperties, LenProperties DEF Typed
<1>. HIDE DEF s, n
<1>3. /\ Len(down'[d]) = (n + 1) + 1 /\ down'[d][(n + 1) + 1] = c
      /\ \A i \in 1..n + 1 : down'[d][i] = s[i]
  BY <1>1, <1>2, AppendProperties
<1>4. ASSUME NEW i \in 1..(n + 1) + 1
      PROVE  /\ down'[d][i].from = NoDevice => i = 1
             /\ down'[d][i] \in Updates /\ down'[d][i].from = d =>
                  i < (n + 1) + 1 /\ down'[d][i + 1] \in Answers
             /\ down'[d][i].from \in {d, NoDevice}
  <2>1. CASE i = (n + 1) + 1
    BY <1>1, <1>3, <2>1, NoDeviceAssumption
  <2>2. CASE i = n + 1
    <3>1. down'[d][i] = u
      BY <1>2, <1>3, <2>2
    <3>2. i < (n + 1) + 1 /\ down'[d][i + 1] = c
      BY <1>2, <1>3, <2>2
    <3>. QED
      BY <1>1, <3>1, <3>2, NoDeviceAssumption
  <2>3. CASE i \in 1..n
    <3>1. i \in 1..n + 1 /\ i < (n + 1) + 1
      BY <1>2, <2>3
    <3>2. down'[d][i] = down[d][i]
      BY <1>2, <1>3, <2>3, <3>1
    <3>3. /\ down[d][i].from = NoDevice => i = 1
          /\ down[d][i] \in Updates /\ down[d][i].from = d =>
               i < n /\ down[d][i + 1] \in Answers
          /\ down[d][i].from \in {d, NoDevice}
      BY <2>3 DEF DownInv, n
    <3>4. i < n => i + 1 \in 1..n /\ i + 1 \in 1..n + 1
      BY <1>2, <2>3
    <3>5. i < n => down'[d][i + 1] = down[d][i + 1]
      BY <1>2, <1>3, <3>4
    <3>. QED
      BY <3>1, <3>2, <3>3, <3>5
  <2>. QED
    BY <1>2, <2>1, <2>2, <2>3
<1>. QED
  BY <1>3, <1>4 DEF DownInv

\* The database takes the first write: it is the next of the chain.
LEMMA TakeKeepsChain ==
  ASSUME Typed, NEW d \in Devices, Own(d), DownInv(d), ChainInv(d), Take(d)
  PROVE  /\ DownInv(d)' /\ ChainInv(d)' /\ Active(d)
         /\ repeats[d] = 0 /\ ~broken[d] => OneCity(store, store')
<1>. DEFINE k == Owed(d)
            m == Len(up[d])
            q == down[d]
<1>1. /\ up[d] # <<>> /\ store' = Head(up[d]) /\ up' = [up EXCEPT ![d] = Tail(@)]
      /\ repeats' = [repeats EXCEPT ![d] = IF @ = 0 THEN 0 ELSE @ - 1]
      /\ broken' = [broken EXCEPT ![d] = FALSE]
  BY DEF Take
<1>2. UNCHANGED <<known, pending, waiting, client, main>>
  BY TakeDoes
<1>3. Active(d)
  BY <1>1 DEF Active
<1>4. /\ m \in Nat \ {0} /\ store' = up[d][1] /\ Len(up'[d]) = m - 1
      /\ \A i \in 1..m - 1 : up'[d][i] = up[d][i + 1]
  <2>1. up[d] \in Seq(FavLists) /\ up'[d] = Tail(up[d])
    BY <1>1 DEF Typed
  <2>. QED
    BY <1>1, <2>1, TailProperties
<1>5. /\ k \in Nat /\ Len(pending[d]) = k + m /\ pending[d] # <<>>
      /\ \A i \in 1..m : up[d][i] = pending[d][k + i]
  <2>1. k \in Nat /\ Len(pending[d]) \in Nat /\ Len(pending[d]) = k + m
    BY Lengths DEF Own
  <2>2. Len(pending[d]) = 0 <=> pending[d] = <<>>
    BY Lengths DEF Own
  <2>. HIDE DEF k, m
  <2>3. k + m # 0
    BY <1>4, <2>1
  <2>. QED
    BY <2>1, <2>2, <2>3 DEF Own, LinkInv, k, m
<1>6. Owed(d)' = k + 1
  BY TakeOwes
<1>7. /\ \A i \in 1..Len(pending[d]) - 1 : OneCity(pending[d][i], pending[d][i + 1])
      /\ repeats[d] <= m /\ repeats[d] \in Nat
      /\ repeats[d] = 0 /\ ~broken[d] => OneCity(store, up[d][1])
  BY <1>1 DEF ChainInv, Typed
<1>. HIDE DEF k, m
<1>8. repeats[d] = 0 /\ ~broken[d] => OneCity(store, store')
  BY <1>4, <1>7
<1>9. repeats'[d] <= Len(up'[d])
  <2>1. repeats'[d] = IF repeats[d] = 0 THEN 0 ELSE repeats[d] - 1
    BY <1>1 DEF Typed
  <2>. QED
    BY <1>4, <1>7, <2>1
<1>10. up'[d] # <<>> => OneCity(store', up'[d][1])
  <2>1. up'[d] # <<>> => m - 1 # 0
    <3>1. up'[d] \in Seq(FavLists)
      BY <1>1, HeadTailIn DEF Typed
    <3>. QED
      BY <1>4, <3>1, EmptySeq
  <2>2. ASSUME m - 1 # 0
        PROVE  OneCity(store', up'[d][1])
    <3>1. 1 \in 1..m - 1 /\ 1 \in 1..m /\ 2 \in 1..m /\ 1 + 1 = 2
      BY <1>4, <2>2
    <3>2. up'[d][1] = pending[d][k + 2] /\ store' = pending[d][k + 1]
      BY <1>4, <1>5, <3>1
    <3>3. k + 1 \in 1..(k + m) - 1 /\ (k + 1) + 1 = k + 2
      BY <1>4, <1>5, <2>2
    <3>. QED
      BY <1>5, <1>7, <3>2, <3>3
  <2>. QED
    BY <2>1, <2>2
<1>11. store' = pending[d][k + 1]
  <2>1. 1 \in 1..m
    BY <1>4
  <2>. QED
    BY <1>4, <1>5, <2>1
<1>12. waiting[d] = <<>>
  BY <1>1 DEF ChainInv, Fresh
<1>13. ChainInv(d)'
  <2>1. View(d)' = View(d) /\ Informed(d)' /\ ~Detached(d) /\ ~broken'[d]
    BY <1>1, <1>2, <1>5 DEF View, Informed, Detached, Typed
  <2>. QED
    BY <1>2, <1>6, <1>7, <1>9, <1>10, <1>11, <1>12, <2>1 DEF ChainInv
<1>14. DownInv(d)'
  BY <1>3, TakeKeepsDown
<1>. QED
  BY <1>3, <1>8, <1>13, <1>14
\* The other devices are at rest, and hear of it.
LEMMA TakeKeepsOthersChain ==
  ASSUME Typed, NEW d \in Devices, Take(d), NEW e \in Devices, e # d,
         Own(e), DownInv(e), ChainInv(e), ~Active(e), Typed', Own(e)'
  PROVE  DownInv(e)' /\ ChainInv(e)' /\ ~Active(e)'
<1>. DEFINE u == Update(store', d)
            n == Len(down[e])
<1>1. /\ up'[e] = up[e] /\ pending'[e] = pending[e] /\ waiting'[e] = waiting[e]
      /\ client'[e] = client[e] /\ main'[e] = main[e] /\ repeats'[e] = repeats[e]
      /\ broken'[e] = broken[e]
  BY DEF Take, threadVars, Typed
<1>2. ~Active(e)'
  BY <1>1 DEF Active, Taps
<1>3. /\ waiting[e] = <<>> /\ up[e] = <<>> /\ pending[e] = <<>>
      /\ Of(client[e], WriteCalls) = {} /\ Of(main[e], ReadNews) = {}
      /\ Owed(e) = 0
  BY IdleDevice DEF Own
<1>4. down'[e] = Append(down[e], u) /\ u \in AllMessages /\ u.from = d
      /\ u \notin Answers
  BY TakeDoes DEF Update
<1>. HIDE DEF u
<1>5. down[e] \in Seq(AllMessages)
  BY DEF Typed
<1>6. Owed(e)' = 0
  BY <1>3, <1>4, <1>5, KindsAppend DEF Owed
<1>7. ChainInv(e)'
  <2>1. Len(pending[e]) = 0 /\ 1..Len(pending[e]) - 1 = {}
    BY <1>3, EmptySeq
  <2>. QED
    BY <1>1, <1>2, <1>3, <1>6, <2>1 DEF ChainInv
<1>8. /\ n \in Nat /\ Len(down'[e]) = n + 1 /\ down'[e][n + 1] = u
      /\ \A i \in 1..n : down'[e][i] = down[e][i]
  BY <1>4, <1>5, AppendProperties, LenProperties
<1>9. DownInv(e)'
  <2>. HIDE DEF n
  <2>1. ASSUME NEW i \in 1..n + 1
        PROVE  /\ down'[e][i].from = NoDevice => i = 1
               /\ down'[e][i] \in Updates /\ down'[e][i].from = e =>
                    i < n + 1 /\ down'[e][i + 1] \in Answers
    <3>1. CASE i = n + 1
      BY <1>4, <1>8, <3>1, NoDeviceAssumption
    <3>2. CASE i \in 1..n
      <4>1. /\ down[e][i].from = NoDevice => i = 1
            /\ down[e][i] \in Updates /\ down[e][i].from = e =>
                 i < n /\ down[e][i + 1] \in Answers
        BY <3>2 DEF DownInv, n
      <4>2. i < n + 1 /\ (i < n => i + 1 \in 1..n)
        BY <1>8, <3>2
      <4>. QED
        BY <1>8, <3>2, <4>1, <4>2
    <3>. QED
      BY <1>8, <3>1, <3>2
  <2>. QED
    BY <1>2, <1>8, <2>1 DEF DownInv
<1>. QED
  BY <1>2, <1>7, <1>9

\* The writes that are sent again start the chain anew.
LEMMA ReconnectKeepsChain ==
  ASSUME Typed, NEW d \in Devices, Own(d), DownInv(d), ChainInv(d), Reconnect(d), Typed', Own(d)'
  PROVE  DownInv(d)' /\ ChainInv(d)' /\ (Active(d)' <=> Active(d))
<1>. DEFINE u == Update(store, NoDevice)
            k == Owed(d)
            m == Len(up[d])
            n == Len(pending[d])
<1>1. /\ store' = store /\ known' = known /\ pending' = pending
      /\ waiting' = waiting /\ client' = client /\ main' = main
      /\ up'[d] = pending[d] /\ down'[d] = <<u>>
      /\ repeats'[d] = IF broken[d] THEN 0 ELSE repeats[d] + (n - m)
      /\ broken' = broken
  BY DEF Reconnect, threadVars, Typed
<1>2. /\ k \in Nat /\ m \in Nat /\ n \in Nat /\ n = k + m
      /\ (n = 0 <=> pending[d] = <<>>) /\ (m = 0 <=> up[d] = <<>>)
      /\ \A i \in 1..m : up[d][i] = pending[d][k + i]
  <2>1. \A i \in 1..m : up[d][i] = pending[d][k + i]
    BY DEF Own, LinkInv
  <2>. QED
    BY <2>1, Lengths DEF Own
<1>3. u \in Updates /\ u.from = NoDevice /\ CountOf(<<u>>, Answers) = 0
  <2>1. u \in Updates /\ CountOf(<<u>>, Answers) = 0
    BY FirstUpdate
  <2>. QED
    BY <2>1 DEF Update
<1>4. /\ \A i \in 1..n - 1 : OneCity(pending[d][i], pending[d][i + 1])
      /\ repeats[d] <= m /\ repeats[d] \in Nat
      /\ up[d] # <<>> /\ repeats[d] = 0 /\ ~broken[d] => OneCity(store, up[d][1])
  BY DEF ChainInv, Typed
<1>. HIDE DEF u, k, m, n
<1>5. up[d] # <<>> => pending[d] # <<>>
  BY <1>2
<1>6. Active(d)' <=> Active(d)
  BY <1>1, <1>5 DEF Active, Taps
<1>7. Len(down'[d]) = 1 /\ down'[d][1] = u
  BY <1>1
<1>8. DownInv(d)'
  BY <1>3, <1>7, NoDeviceAssumption DEF DownInv
<1>9. Owed(d)' = 0
  BY <1>1, <1>3 DEF Owed
<1>10. repeats'[d] <= n
  BY <1>1, <1>2, <1>4
<1>11. up'[d] # <<>> /\ repeats'[d] = 0 /\ ~broken[d] => OneCity(store, up'[d][1])
  <2>. SUFFICES ASSUME up'[d] # <<>>, repeats'[d] = 0, ~broken[d]
                PROVE  OneCity(store, up'[d][1])
    OBVIOUS
  <2>1. k = 0 /\ repeats[d] = 0 /\ m # 0
    BY <1>1, <1>2, <1>4
  <2>2. 1 \in 1..m /\ 0 + 1 = 1
    BY <1>2, <2>1
  <2>3. up[d][1] = pending[d][1]
    BY <1>2, <2>1, <2>2
  <2>. QED
    BY <1>1, <1>2, <1>4, <2>1, <2>3
<1>12. Fresh(d) => Fresh(d)'
  BY <1>1, <1>3, <1>7 DEF Fresh
<1>13. Informed(d) => Informed(d)'
  BY <1>1 DEF Informed
<1>14. View(d)' = View(d) /\ (Detached(d)' <=> Detached(d))
  BY <1>1 DEF View, Detached
<1>16. broken'[d] => repeats'[d] = 0
  BY <1>1
<1>15. ChainInv(d)'
  BY <1>1, <1>16, <1>4, <1>6, <1>9, <1>10, <1>11, <1>12, <1>13, <1>14 DEF ChainInv, n
<1>. QED
  BY <1>6, <1>8, <1>15

\* Behind a refused write the chain goes on from the write after it.
LEMMA RefuseKeepsChain ==
  ASSUME Typed, NEW d \in Devices, Own(d), DownInv(d), ChainInv(d), Refuse(d), Own(d)'
  PROVE  DownInv(d)' /\ ChainInv(d)' /\ Active(d)
<1>. DEFINE x == Refusal(d)
            n == Len(down[d])
<1>1. /\ up[d] # <<>> /\ repeats'[d] = 0 /\ broken'[d] /\ down'[d] = Append(down[d], x)
      /\ x \in AllMessages /\ x \notin Updates /\ x.from = d
      /\ up'[d] \in Seq(FavLists)
      /\ UNCHANGED <<store, known, pending, waiting, client, main>>
  <2>1. /\ x \in AllMessages /\ x \notin Updates /\ x.from = d
        /\ down' = [down EXCEPT ![d] = Append(down[d], x)]
    BY RefuseDoes
  <2>2. /\ up[d] # <<>> /\ Tail(up[d]) \in Seq(FavLists)
        /\ up' = [up EXCEPT ![d] = Tail(up[d])]
        /\ repeats' = [repeats EXCEPT ![d] = 0]
        /\ broken' = [broken EXCEPT ![d] = TRUE]
        /\ UNCHANGED <<store, known, pending, waiting, client, main>>
    BY RefuseDoes
  <2>. HIDE DEF x
  <2>3. down'[d] = Append(down[d], x) /\ up'[d] = Tail(up[d])
    BY <2>1, <2>2 DEF Typed
  <2>4. repeats'[d] = 0 /\ broken'[d]
    BY <2>2 DEF Typed
  <2>. QED
    BY <2>1, <2>2, <2>3, <2>4
<1>. HIDE DEF x
<1>2. Active(d)
  BY <1>1 DEF Active
<1>3. pending[d] # <<>>
  <2>1. pending[d] = <<>> => up[d] = <<>>
    BY NothingPending DEF Own
  <2>. QED
    BY <1>1, <2>1
<1>4. waiting[d] = <<>>
  BY <1>1 DEF ChainInv, Fresh
<1>5. View(d)' = View(d) /\ Informed(d)' /\ ~Detached(d)
  BY <1>1, <1>3 DEF View, Informed, Detached
<1>6. 0 <= Len(up'[d])
  BY <1>1, LenProperties
<1>7. ChainInv(d)'
  BY <1>1, <1>4, <1>5, <1>6 DEF ChainInv
<1>8. /\ n \in Nat /\ Len(down'[d]) = n + 1 /\ down'[d][n + 1] = x
      /\ \A i \in 1..n : down'[d][i] = down[d][i]
  BY <1>1, AppendProperties, LenProperties DEF Typed
<1>9. DownInv(d)'
  <2>. HIDE DEF n
  <2>1. ASSUME NEW i \in 1..n + 1
        PROVE  /\ down'[d][i].from = NoDevice => i = 1
               /\ down'[d][i] \in Updates /\ down'[d][i].from = d =>
                    i < n + 1 /\ down'[d][i + 1] \in Answers
               /\ down'[d][i].from \in {d, NoDevice}
    <3>1. CASE i = n + 1
      BY <1>1, <1>8, <3>1, NoDeviceAssumption
    <3>2. CASE i \in 1..n
      <4>1. /\ down[d][i].from = NoDevice => i = 1
            /\ down[d][i] \in Updates /\ down[d][i].from = d =>
                 i < n /\ down[d][i + 1] \in Answers
            /\ down[d][i].from \in {d, NoDevice}
        BY <1>2, <3>2 DEF DownInv, n
      <4>2. i < n + 1 /\ (i < n => i + 1 \in 1..n)
        BY <1>8, <3>2
      <4>. QED
        BY <1>8, <3>2, <4>1, <4>2
    <3>. QED
      BY <1>8, <3>1, <3>2
  <2>. QED
    BY <1>8, <2>1 DEF DownInv
<1>. QED
  BY <1>2, <1>7, <1>9

\* A device on which the app has just been started is at rest.
LEMMA StartedChain ==
  Typed => \A d \in Devices :
    Started(d) /\ repeats[d] = 0 /\ ~broken[d] => DownInv(d) /\ ChainInv(d) /\ ~Active(d)
<1>. SUFFICES ASSUME Typed, NEW d \in Devices, Started(d), repeats[d] = 0, ~broken[d]
              PROVE  DownInv(d) /\ ChainInv(d) /\ ~Active(d)
  OBVIOUS
<1>. DEFINE u == Update(store, NoDevice)
<1>1. /\ up[d] = <<>> /\ pending[d] = <<>> /\ waiting[d] = <<>>
      /\ client[d] = <<>> /\ main[d] = <<>> /\ down[d] = <<u>>
  BY DEF Started
<1>2. u.from = NoDevice /\ CountOf(<<u>>, Answers) = 0
  <2>1. CountOf(<<u>>, Answers) = 0
    BY FirstUpdate
  <2>. QED
    BY <2>1 DEF Update
<1>. HIDE DEF u
<1>3. Of(client[d], WriteCalls) = {} /\ CountOf(client[d], TapCalls) = 0
  BY <1>1, KindsEmpty
<1>4. Of(main[d], ReadNews) = {} /\ CountOf(main[d], ReadNews) = 0
  BY <1>1, KindsEmpty
<1>5. Len(up[d]) = 0 /\ Len(pending[d]) = 0 /\ Len(waiting[d]) = 0
  BY <1>1, EmptySeq
<1>6. ~Active(d)
  BY <1>1, <1>3, <1>4, <1>5 DEF Active, Taps
<1>7. DownInv(d)
  BY <1>1, <1>2, <1>6, NoDeviceAssumption DEF DownInv
<1>8. Owed(d) = 0
  BY <1>1, <1>2 DEF Owed
<1>9. ChainInv(d)
  <2>1. 1..Len(pending[d]) - 1 = {}
    BY <1>5
  <2>. QED
    BY <1>1, <1>3, <1>4, <1>5, <1>6, <1>8, <2>1 DEF ChainInv
<1>. QED
  BY <1>6, <1>7, <1>9

LEMMA StartedChainNext ==
  Typed' => \A d \in Devices :
    Started(d)' /\ repeats'[d] = 0 /\ ~broken'[d] =>
      DownInv(d)' /\ ChainInv(d)' /\ ~Active(d)'
<1>1. (Typed => \A d \in Devices :
         Started(d) /\ repeats[d] = 0 /\ ~broken[d] =>
           DownInv(d) /\ ChainInv(d) /\ ~Active(d))'
  BY StartedChain, PTL
<1>. QED
  BY <1>1
-----------------------------------------------------------------------------
(* The invariant of the refinement.                                        *)
Chain == Kind /\ OneActive /\ \A d \in Devices : DownInv(d) /\ ChainInv(d)

LEMMA ChainInit == Init => Chain
<1>. SUFFICES ASSUME Init
              PROVE  Chain
  OBVIOUS
<1>1. Kind
  BY KindInit
<1>2. \A d \in Devices : Started(d) /\ repeats[d] = 0 /\ ~broken[d]
  BY DEF Init, Started
<1>3. \A d \in Devices : DownInv(d) /\ ChainInv(d) /\ ~Active(d)
  BY <1>1, <1>2, StartedChain DEF Kind
<1>. QED
  BY <1>1, <1>3 DEF Chain, OneActive

\* What every other device is like when one takes its turn.
LEMMA ThroughNotActive ==
  ASSUME NEW e, Through(e)
  PROVE  ~Active(e)
<1>1. CountOf(client[e], TapCalls) = 0 /\ CountOf(main[e], ReadNews) = 0 /\ Len(waiting[e]) = 0
  BY KindsEmpty, EmptySeq DEF Through, LocalIdle
<1>. QED
  BY <1>1 DEF Active, Taps, Through

LEMMA OwnStepKeepsChain ==
  ASSUME Chain, NEW d \in Devices, Kind',
         \/ TapShow(d) \/ CloseCity(d) \/ TapFavorite(d)
         \/ \E c \in Cities : OpenCity(d, c)
         \/ MainThread(d) \/ ClientThread(d)
         \/ Refuse(d) \/ Reconnect(d) \/ KillAndRestart(d)
  PROVE  /\ DownInv(d)' /\ ChainInv(d)'
         /\ Active(d)' => Active(d) \/ \A e \in Devices \ {d} : ~Active(e)
<1>1. Typed /\ Own(d) /\ DownInv(d) /\ ChainInv(d) /\ Typed' /\ Own(d)'
  BY DEF Chain, Kind
<1>2. CASE Calm(d)
  BY <1>1, <1>2, CalmKeepsChain
<1>3. CASE TapShow(d) \/ CloseCity(d)
  BY <1>1, <1>2, <1>3, TapShowKeeps, CloseCityKeeps
<1>4. CASE \E c \in Cities : OpenCity(d, c)
  BY <1>1, <1>2, <1>4, OpenCityKeeps
<1>5. CASE TapFavorite(d)
  <2>1. Tapped(d) /\ Turn(d)
    BY <1>1, <1>5, TapFavoriteKeeps DEF TapFavorite
  <2>2. \A e \in Devices \ {d} : ~Active(e)
    BY <2>1, ThroughNotActive DEF Turn
  <2>. QED
    BY <1>1, <2>1, <2>2, TappedKeepsChain
<1>6. CASE FavsArrive(d) \/ CitiesArrive(d)
  BY <1>1, <1>2, <1>6, FavsArriveKeeps, CitiesArriveKeeps
<1>7. CASE ReadArrives(d)
  BY <1>1, <1>7, ReadArrivesKeeps, AnsweredKeepsChain
<1>8. CASE ReadRuns(d)
  BY <1>1, <1>8, ReadRunsKeeps, AskedKeepsChain
<1>9. CASE WriteRuns(d)
  BY <1>1, <1>9, WriteRunsKeeps, WroteKeepsChain
<1>10. CASE LoadCitiesRuns(d) \/ CatalogueComes(d)
  BY <1>1, <1>2, <1>10, LoadCitiesRunsKeeps, CatalogueComesKeeps
<1>11. CASE Hear(d)
  BY <1>1, <1>11, HearKeeps, HeardKeepsChain
<1>12. CASE Reconnect(d)
  BY <1>1, <1>12, ReconnectKeepsChain
<1>13. CASE KillAndRestart(d)
  BY <1>1, <1>13, KillKeeps, StartedChainNext
<1>14. CASE Refuse(d)
  BY <1>1, <1>14, RefuseKeepsChain
<1>. QED
  BY <1>3, <1>14, <1>4, <1>5, <1>6, <1>7, <1>8, <1>9, <1>10, <1>11, <1>12, <1>13
  DEF MainThread, ClientThread

LEMMA ChainNext == Chain /\ [Next]_vars => Chain'
<1>. SUFFICES ASSUME Chain, [Next]_vars
              PROVE  Chain'
  OBVIOUS
<1>1. Kind'
  BY KindNext DEF Chain
<1>2. CASE UNCHANGED vars
  <2>1. store' = store /\ \A e \in Devices : Kept(e)
    BY <1>2 DEF vars, linkVars, threadVars, mainScreenVars, cityScreenVars, Kept
  <2>2. \A e \in Devices : DownInv(e)' /\ ChainInv(e)' /\ (Active(e)' <=> Active(e))
    BY <2>1, KeptKeepsChain DEF Chain
  <2>. QED
    BY <1>1, <2>2 DEF Chain, OneActive
<1>3. ASSUME NEW d \in Devices, Take(d)
      PROVE  Chain'
  <2>1. DownInv(d)' /\ ChainInv(d)' /\ Active(d)
    BY <1>3, TakeKeepsChain DEF Chain, Kind
  <2>2. ASSUME NEW e \in Devices, e # d
        PROVE  DownInv(e)' /\ ChainInv(e)' /\ ~Active(e)'
    <3>1. ~Active(e)
      BY <2>1, <2>2 DEF Chain, OneActive
    <3>. QED
      BY <1>1, <1>3, <2>2, <3>1, TakeKeepsOthersChain DEF Chain, Kind
  <2>. QED
    BY <1>1, <2>1, <2>2 DEF Chain, OneActive
<1>4. ASSUME NEW d \in Devices,
             \/ TapShow(d) \/ CloseCity(d) \/ TapFavorite(d)
             \/ \E c \in Cities : OpenCity(d, c)
             \/ MainThread(d) \/ ClientThread(d)
             \/ Refuse(d) \/ Reconnect(d) \/ KillAndRestart(d)
      PROVE  Chain'
  <2>1. /\ DownInv(d)' /\ ChainInv(d)'
        /\ Active(d)' => Active(d) \/ \A e \in Devices \ {d} : ~Active(e)
    BY <1>1, <1>4, OwnStepKeepsChain
  <2>2. ASSUME NEW e \in Devices, e # d
        PROVE  DownInv(e)' /\ ChainInv(e)' /\ (Active(e)' <=> Active(e))
    <3>1. Kept(e) /\ store' = store
      BY <1>4, <2>2, OthersKept DEF Chain, Kind
    <3>. QED
      BY <3>1, KeptKeepsChain DEF Chain
  <2>3. OneActive'
    BY <2>1, <2>2 DEF Chain, OneActive
  <2>. QED
    BY <1>1, <2>1, <2>2, <2>3 DEF Chain
<1>. QED
  BY <1>2, <1>3, <1>4 DEF Next

\* While the database is told again what it has had, one device does it.
LEMMA NewestIs ==
  Chain => /\ \A d \in Devices : repeats[d] > 0 => Newest = up[d][repeats[d]]
           /\ (\A d \in Devices : ~(repeats[d] > 0)) => Newest = store
           /\ \A d, e \in Devices : Active(d) /\ repeats[e] > 0 => e = d
<1>. SUFFICES ASSUME Chain
              PROVE  /\ \A d \in Devices : repeats[d] > 0 => Newest = up[d][repeats[d]]
                     /\ (\A d \in Devices : ~(repeats[d] > 0)) => Newest = store
                     /\ \A d, e \in Devices : Active(d) /\ repeats[e] > 0 => e = d
  OBVIOUS
<1>1. ASSUME NEW d \in Devices, repeats[d] > 0
      PROVE  Active(d)
  <2>1. up[d] # <<>>
    <3>1. repeats[d] \in Nat /\ up[d] \in Seq(FavLists) /\ repeats[d] <= Len(up[d])
      BY DEF Chain, Kind, Typed, ChainInv
    <3>2. up[d] = <<>> => Len(up[d]) = 0
      BY EmptySeq
    <3>. QED
      BY <1>1, <3>1, <3>2
  <2>. QED
    BY <2>1 DEF Active
<1>2. \A d, e \in Devices : Active(d) /\ repeats[e] > 0 => e = d
  BY <1>1 DEF Chain, OneActive
<1>3. ASSUME NEW d \in Devices, repeats[d] > 0
      PROVE  Newest = up[d][repeats[d]]
  <2>1. \A e \in Devices : repeats[e] > 0 <=> e = d
    BY <1>1, <1>2, <1>3
  <2>2. (CHOOSE e \in Devices : repeats[e] > 0) = d
    BY <2>1
  <2>. QED
    BY <1>3, <2>2 DEF Newest
<1>4. (\A d \in Devices : ~(repeats[d] > 0)) => Newest = store
  BY DEF Newest
<1>. QED
  BY <1>2, <1>3, <1>4

LEMMA NewestIsNext ==
  Chain' => /\ \A d \in Devices : repeats'[d] > 0 => Newest' = up'[d][repeats'[d]]
            /\ (\A d \in Devices : ~(repeats'[d] > 0)) => Newest' = store'
<1>1. (Chain => /\ \A d \in Devices : repeats[d] > 0 => Newest = up[d][repeats[d]]
                /\ (\A d \in Devices : ~(repeats[d] > 0)) => Newest = store
                /\ \A d, e \in Devices : Active(d) /\ repeats[e] > 0 => e = d)'
  BY NewestIs, PTL
<1>. QED
  BY <1>1

\* Only taking a write for the first time changes the newest list, and
\* killing the app on the way through older ones.
LEMMA NewestStep ==
  ASSUME Chain, Chain', [Next]_vars
  PROVE  \/ Newest' = Newest
         \/ OneCity(Newest, Newest')
         \/ \E d \in Devices : Forgets(d) \/ Resumes(d)
<1>1. CASE store' = store /\ up' = up /\ repeats' = repeats
  BY <1>1 DEF Newest
<1>2. ASSUME NEW d \in Devices, WriteRuns(d)
      PROVE  Newest' = Newest
  <2>1. /\ store' = store /\ repeats' = repeats /\ up' = [up EXCEPT ![d] = Append(@, Head(client[d]).val)]
    BY <1>2 DEF WriteRuns
  <2>2. CASE \A e \in Devices : ~(repeats[e] > 0)
    BY <2>1, <2>2, NewestIs, NewestIsNext
  <2>3. ASSUME NEW e \in Devices, repeats[e] > 0
        PROVE  Newest' = Newest
    <3>1. Newest = up[e][repeats[e]] /\ Newest' = up'[e][repeats[e]]
      BY <2>1, <2>3, NewestIs, NewestIsNext
    <3>2. CASE e # d
      BY <2>1, <3>1, <3>2 DEF Chain, Kind, Typed
    <3>3. CASE e = d
      <4>1. up[d] \in Seq(FavLists) /\ up'[d] \in Seq(FavLists)
        BY DEF Chain, Kind, Typed
      <4>2. PICK v \in FavLists : up'[d] = Append(up[d], v)
        <5>1. Wrote(d)
          BY <1>2, WriteRunsKeeps DEF Chain, Kind
        <5>. QED
          BY <5>1 DEF Wrote
      <4>3. repeats[d] \in 1..Len(up[d])
        <5>1. repeats[d] \in Nat /\ repeats[d] <= Len(up[d]) /\ Len(up[d]) \in Nat
          BY LenProperties DEF Chain, Kind, Typed, ChainInv
        <5>. QED
          BY <2>3, <3>3, <5>1
      <4>4. up'[d][repeats[d]] = up[d][repeats[d]]
        BY <4>1, <4>2, <4>3, AppendProperties
      <4>. QED
        BY <3>1, <3>3, <4>4
    <3>. QED
      BY <3>2, <3>3
  <2>. QED
    BY <2>2, <2>3
<1>3. ASSUME NEW d \in Devices, Take(d)
      PROVE  Newest' = Newest \/ OneCity(Newest, Newest') \/ Resumes(d)
  <2>. SUFFICES ASSUME ~broken[d]
                PROVE  Newest' = Newest \/ OneCity(Newest, Newest')
    BY <1>3 DEF Resumes
  <2>1. /\ up[d] # <<>> /\ store' = Head(up[d]) /\ up' = [up EXCEPT ![d] = Tail(@)]
        /\ repeats' = [repeats EXCEPT ![d] = IF @ = 0 THEN 0 ELSE @ - 1]
    BY <1>3 DEF Take
  <2>2. Active(d) /\ (repeats[d] = 0 => OneCity(store, store'))
    BY <1>3, TakeKeepsChain DEF Chain, Kind
  <2>3. \A e \in Devices : e # d => ~(repeats[e] > 0)
    BY <2>2, NewestIs
  <2>4. \A e \in Devices : e # d => ~(repeats'[e] > 0)
    BY <2>1, <2>3 DEF Chain, Kind, Typed
  <2>5. repeats[d] \in Nat /\ repeats'[d] = IF repeats[d] = 0 THEN 0 ELSE repeats[d] - 1
    BY <2>1 DEF Chain, Kind, Typed
  <2>6. CASE repeats[d] = 0
    <3>1. Newest = store
      BY <2>3, <2>6, NewestIs
    <3>2. Newest' = store'
      BY <2>4, <2>5, <2>6, NewestIsNext
    <3>. QED
      BY <2>2, <2>6, <3>1, <3>2
  <2>7. CASE repeats[d] # 0
    <3>1. up[d] \in Seq(FavLists) /\ up'[d] = Tail(up[d])
      BY <2>1 DEF Chain, Kind, Typed
    <3>2. /\ Len(up[d]) \in Nat \ {0} /\ store' = up[d][1]
          /\ \A i \in 1..Len(up[d]) - 1 : up'[d][i] = up[d][i + 1]
      BY <2>1, <3>1, TailProperties
    <3>3. Newest = up[d][repeats[d]]
      BY <2>5, <2>7, NewestIs
    <3>4. CASE repeats[d] = 1
      <4>1. ~(repeats'[d] > 0)
        BY <2>5, <3>4
      <4>2. Newest' = store'
        BY <2>4, <4>1, NewestIsNext
      <4>. QED
        BY <3>2, <3>3, <3>4, <4>2
    <3>5. CASE repeats[d] # 1
      <4>. DEFINE r == repeats[d]
                  m == Len(up[d])
      <4>1. r \in Nat /\ r <= m /\ m \in Nat /\ r # 0 /\ r # 1
        BY <2>5, <2>7, <3>2, <3>5 DEF Chain, ChainInv
      <4>2. repeats'[d] = r - 1
        BY <2>5, <2>7
      <4>. HIDE DEF r, m
      <4>3. r - 1 \in 1..m - 1 /\ (r - 1) + 1 = r /\ r - 1 > 0
        BY <4>1
      <4>4. Newest' = up'[d][r - 1]
        BY <4>2, <4>3, NewestIsNext
      <4>5. up'[d][r - 1] = up[d][r]
        BY <3>2, <4>3 DEF m
      <4>. QED
        BY <3>3, <4>4, <4>5 DEF r
    <3>. QED
      BY <3>4, <3>5
  <2>. QED
    BY <2>6, <2>7
<1>4. ASSUME NEW d \in Devices, Reconnect(d)
      PROVE  Newest' = Newest
  <2>. DEFINE k == Owed(d)
              r == repeats[d]
              m == Len(up[d])
  <2>1. /\ store' = store /\ up' = [up EXCEPT ![d] = pending[d]]
        /\ repeats' = [repeats EXCEPT ![d] =
             IF broken[d] THEN 0 ELSE @ + (Len(pending[d]) - Len(up[d]))]
    BY <1>4 DEF Reconnect
  <2>2. /\ k \in Nat /\ m \in Nat /\ Len(pending[d]) = k + m
        /\ (Len(pending[d]) = 0 <=> pending[d] = <<>>)
    BY Lengths DEF Chain, Kind, Own
  <2>3. /\ \A i \in 1..m : up[d][i] = pending[d][k + i]
        /\ r \in Nat /\ r <= m
        /\ k > 0 /\ ~broken[d] => store = pending[d][k]
        /\ broken[d] => r = 0
    BY DEF Chain, Kind, Own, LinkInv, ChainInv, Typed
  <2>4. /\ repeats'[d] = IF broken[d] THEN 0 ELSE r + (Len(pending[d]) - m)
        /\ up'[d] = pending[d]
        /\ \A e \in Devices : e # d => repeats'[e] = repeats[e] /\ up'[e] = up[e]
    BY <2>1 DEF Chain, Kind, Typed
  <2>. HIDE DEF k, r, m
  <2>5. ~broken[d] => repeats'[d] = r + k
    BY <2>2, <2>3, <2>4
  <2>6. CASE r + k = 0 \/ broken[d]
    <3>1. r = 0 /\ repeats'[d] = 0
      BY <2>2, <2>3, <2>4, <2>5, <2>6
    <3>2. \A e \in Devices : repeats'[e] > 0 <=> repeats[e] > 0
      BY <2>4, <3>1 DEF r
    <3>3. CASE \A e \in Devices : ~(repeats[e] > 0)
      BY <2>1, <3>2, <3>3, NewestIs, NewestIsNext
    <3>4. ASSUME NEW e \in Devices, repeats[e] > 0
          PROVE  Newest' = Newest
      <4>1. e # d
        BY <3>1, <3>4 DEF r
      <4>. QED
        BY <2>4, <3>2, <3>4, <4>1, NewestIs, NewestIsNext
    <3>. QED
      BY <3>3, <3>4
  <2>7. CASE r + k # 0 /\ ~broken[d]
    <3>1. r + k > 0
      BY <2>2, <2>3, <2>7
    <3>2. Newest' = pending[d][r + k]
      BY <2>4, <2>5, <2>7, <3>1, NewestIsNext
    <3>3. pending[d] # <<>>
      BY <2>2, <2>3, <2>7
    <3>4. Active(d)
      BY <3>3 DEF Active
    <3>5. CASE r = 0
      <4>1. \A e \in Devices : ~(repeats[e] > 0)
        BY <3>4, <3>5, NewestIs DEF r
      <4>2. Newest = store
        BY <4>1, NewestIs
      <4>3. k > 0 /\ r + k = k
        BY <2>2, <3>1, <3>5
      <4>. QED
        BY <2>3, <2>7, <3>2, <4>2, <4>3
    <3>6. CASE r # 0
      <4>1. r \in 1..m /\ r > 0 /\ r + k = k + r
        BY <2>2, <2>3, <3>6
      <4>2. Newest = up[d][r]
        BY <4>1, NewestIs DEF r
      <4>. QED
        BY <2>3, <3>2, <4>1, <4>2
    <3>. QED
      BY <3>5, <3>6
  <2>. QED
    BY <2>6, <2>7
<1>5. ASSUME NEW d \in Devices, KillAndRestart(d) \/ Refuse(d)
      PROVE  Newest' = Newest \/ Forgets(d)
  <2>1. CASE repeats[d] > 0
    BY <1>5, <2>1 DEF Forgets
  <2>2. CASE ~(repeats[d] > 0)
    <3>1. /\ store' = store
          /\ up' = [up EXCEPT ![d] = <<>>] \/ up' = [up EXCEPT ![d] = Tail(@)]
          /\ repeats' = [repeats EXCEPT ![d] = 0]
      BY <1>5 DEF KillAndRestart, Refuse
    <3>2. \A e \in Devices : repeats'[e] > 0 <=> repeats[e] > 0
      BY <2>2, <3>1 DEF Chain, Kind, Typed
    <3>3. CASE \A e \in Devices : ~(repeats[e] > 0)
      BY <3>1, <3>2, <3>3, NewestIs, NewestIsNext
    <3>4. ASSUME NEW e \in Devices, repeats[e] > 0
          PROVE  Newest' = Newest
      <4>1. e # d
        BY <2>2, <3>4
      <4>2. up'[e] = up[e] /\ repeats'[e] = repeats[e]
        BY <3>1, <4>1 DEF Chain, Kind, Typed
      <4>. QED
        BY <3>4, <4>2, NewestIs, NewestIsNext
    <3>. QED
      BY <3>3, <3>4
  <2>. QED
    BY <2>1, <2>2
<1>6. ASSUME NEW d \in Devices,
             \/ TapShow(d) \/ CloseCity(d) \/ TapFavorite(d)
             \/ \E c \in Cities : OpenCity(d, c)
             \/ MainThread(d)
             \/ ReadRuns(d) \/ LoadCitiesRuns(d) \/ CatalogueComes(d) \/ Hear(d)
      PROVE  store' = store /\ up' = up /\ repeats' = repeats
  BY <1>6 DEF TapShow, CloseCity, TapFavorite, OpenCity, MainThread, FavsArrive,
     CitiesArrive, ReadArrives, ReadRuns, LoadCitiesRuns, CatalogueComes, Hear, linkVars
<1>7. CASE UNCHANGED vars
  BY <1>1, <1>7 DEF vars, linkVars
<1>. QED
  BY <1>1, <1>2, <1>3, <1>4, <1>5, <1>6, <1>7 DEF Next, ClientThread

\* Favs is a set of cities changed one city at a time, however slow the
\* network, as long as one device is used at a time.
THEOREM OneCityAtATimeHolds == Spec => OneCityAtATime
<1>1. Init => Chain /\ Abstract!Init
  BY ChainInit DEF Abstract!Init, CitiesIn
<1>2. Chain /\ [Next]_vars => Chain'
  BY ChainNext
<1>3. Chain /\ Chain' /\ [Next]_vars
        => [Abstract!Next \/ \E d \in Devices : Forgets(d) \/ Resumes(d)]_(CitiesIn(Newest))
  <2>. SUFFICES ASSUME Chain, Chain', [Next]_vars
                PROVE  \/ Abstract!Next
                       \/ \E d \in Devices : Forgets(d) \/ Resumes(d)
                       \/ CitiesIn(Newest)' = CitiesIn(Newest)
    OBVIOUS
  <2>1. CASE Newest' = Newest
    BY <2>1 DEF CitiesIn
  <2>2. CASE OneCity(Newest, Newest')
    <3>1. PICK c \in Cities : \/ CitiesIn(Newest)' = CitiesIn(Newest) \cup {c}
                              \/ CitiesIn(Newest)' = CitiesIn(Newest) \ {c}
      BY <2>2 DEF OneCity, CitiesIn
    <3>. QED
      BY <3>1 DEF Abstract!Next, Abstract!AddCity, Abstract!RemoveCity
  <2>. QED
    BY <2>1, <2>2, NewestStep
<1>. QED
  BY <1>1, <1>2, <1>3, PTL DEF Spec, OneCityAtATime
=============================================================================
