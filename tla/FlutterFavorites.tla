-------------------------- MODULE FlutterFavorites --------------------------
(***************************************************************************)
(* The favourites of one account of the Flutter app, from CityPage through *)
(* FirebaseAppDataHandler to the database.                                 *)
(*                                                                         *)
(* users/<uid>/favorites is a map from push ids to copies of cities.  An   *)
(* add puts a copy under a new push id without a look at the map; a        *)
(* removal reads the map, takes every copy of the city out of its own copy *)
(* of it and writes that back.  Dart code and the Firebase client talk     *)
(* through messages, so what a read returns is old when Dart uses it.      *)
(***************************************************************************)
EXTENDS Naturals, Sequences

CONSTANTS Devices,
          Cities,     \* ids of the cities in the catalogue
          NoCity,     \* no city page is open
          Overlap,    \* may a page open while answers are under way
          Refusals,   \* what the database may refuse: reads, writes
          MaxVisits,  \* bound: city pages opened per device
          MaxTaps,    \* bound: taps on the favourites button, all devices
          MaxBreaks   \* bound: acknowledgements lost and apps killed

ASSUME NoCityAssumption == NoCity \notin Cities
ASSUME SwitchesAssumption ==
  Overlap \in BOOLEAN /\ Refusals \subseteq {"reads", "writes"}
ASSUME BoundsAssumption ==
  MaxVisits \in Nat /\ MaxTaps \in Nat /\ MaxBreaks \in Nat

VARIABLES store,          \* the favorites map in the database, as pairs
          reads,          \* device -> once() calls without an answer, in order
          writes,         \* device -> writes the database has not confirmed
          inbox,          \* device -> answers on their way to the Dart code
          page,           \* device -> the city whose page is open
          visit,          \* device -> number of the page opened last
          _isAdding,      \* device -> the button shows a spinner
          _isInFavorites, \* device -> the button says "Remove from favorites"
          unanswered,     \* device -> a check for this page was refused
          taps,           \* taps made so far
          breaks          \* acknowledgements lost and apps killed so far

linkVars == <<store, reads, writes, inbox>>
pageVars == <<page, visit, _isAdding, _isInFavorites, unanswered>>
vars == <<linkVars, pageVars, taps, breaks>>

\* An async call: what it does, for which city, and the page that awaits it.
Calls == [op : {"add", "remove", "check"}, city : Cities, visit : Nat]
\* Push ids are unique; the number of the tap stands for the id it makes.
Entries == [id : Nat, city : Cities]
Writes == [kind : {"push", "replace"}, entries : SUBSET Entries, call : Calls]
Answers == [type : {"read"}, ok : BOOLEAN, entries : SUBSET Entries, call : Calls]
             \cup [type : {"written"}, call : Calls]

CitiesOf(entries) == {e.city : e \in entries}
HasCity(entries, c) == c \in CitiesOf(entries)

\* Mutant: one copy of the city is taken out.
WithoutOneCopy(entries, c) ==
  IF HasCity(entries, c) THEN entries \ {CHOOSE e \in entries : e.city = c} ELSE entries
\* Mutant: the test of removeWhere finds every copy equal to the city.
WithoutAny(entries, c) == {e \in entries : e.city # e.city}

\* removeWhere((key, value) => city == value)
WithoutCity(entries, c) == {e \in entries : e.city # c}

Written(w, entries) == IF w.kind = "push" THEN entries \cup w.entries ELSE w.entries

\* What device d sees: the database, under its own unconfirmed writes.  A
\* write of the whole map hides everything before it.
View(d) ==
  LET whole == {i \in DOMAIN writes[d] : writes[d][i].kind = "replace"}
      last == {i \in DOMAIN writes[d] : \A j \in whole : j <= i}
  IN  (UNION {writes[d][i].entries : i \in last}) \cup (IF whole = {} THEN store ELSE {})

Idle(d) == reads[d] = <<>> /\ writes[d] = <<>> /\ inbox[d] = <<>>

Ask(d, calls) == reads' = [reads EXCEPT ![d] = @ \o calls]
Send(d, kind, entries, call) ==
  writes' = [writes EXCEPT ![d] =
    Append(@, [kind |-> kind, entries |-> entries, call |-> call])]
Tell(d, answer) == inbox' = [inbox EXCEPT ![d] = Append(@, answer)]

-----------------------------------------------------------------------------
Init ==
  /\ store \in SUBSET [id : {0}, city : Cities]
  /\ reads = [d \in Devices |-> <<>>]
  /\ writes = [d \in Devices |-> <<>>]
  /\ inbox = [d \in Devices |-> <<>>]
  /\ page = [d \in Devices |-> NoCity]
  /\ visit = [d \in Devices |-> 0]
  /\ _isAdding = [d \in Devices |-> FALSE]
  /\ _isInFavorites = [d \in Devices |-> FALSE]
  /\ unanswered = [d \in Devices |-> FALSE]
  /\ taps = 0
  /\ breaks = 0

-----------------------------------------------------------------------------
(* The user                                                                *)

\* initState calls _updateInFavoritesState.
OpenCity(d, c) ==
  /\ page[d] = NoCity /\ visit[d] < MaxVisits
  /\ Overlap \/ Idle(d)
  /\ page' = [page EXCEPT ![d] = c]
  /\ visit' = [visit EXCEPT ![d] = @ + 1]
  /\ _isAdding' = [_isAdding EXCEPT ![d] = FALSE]
  /\ _isInFavorites' = [_isInFavorites EXCEPT ![d] = FALSE]
  /\ unanswered' = [unanswered EXCEPT ![d] = FALSE]
  /\ Ask(d, <<[op |-> "check", city |-> c, visit |-> visit[d] + 1]>>)
  /\ UNCHANGED <<store, writes, inbox, taps, breaks>>

CloseCity(d) ==
  /\ page[d] # NoCity
  /\ page' = [page EXCEPT ![d] = NoCity]
  /\ UNCHANGED <<linkVars, visit, _isAdding, _isInFavorites, unanswered, taps, breaks>>

\* Mutant: the button can be tapped when its page is gone.
TapWithoutPage(d) ==
  /\ taps < MaxTaps
  /\ taps' = taps + 1
  /\ Send(d, "push", {[id |-> taps', city |-> page[d]]},
          [op |-> "add", city |-> page[d], visit |-> visit[d]])
  /\ UNCHANGED <<store, reads, inbox, pageVars, breaks>>

\* onTap starts _addToFavorites, which runs up to its first await, and
\* then _updateInFavoritesState.  Nothing disables the button: an earlier tap
\* may still be under way.
TapFavorite(d) ==
  /\ page[d] # NoCity /\ taps < MaxTaps
  /\ taps' = taps + 1
  /\ _isAdding' = [_isAdding EXCEPT ![d] = TRUE]
  /\ LET check == [op |-> "check", city |-> page[d], visit |-> visit[d]]
     IN  \/ /\ _isInFavorites[d]
            /\ Ask(d, <<[check EXCEPT !.op = "remove"], check>>)
            /\ UNCHANGED writes
         \/ /\ ~_isInFavorites[d]
            /\ Send(d, "push", {[id |-> taps', city |-> page[d]]},
                    [check EXCEPT !.op = "add"])
            /\ Ask(d, <<check>>)
  /\ UNCHANGED <<store, inbox, page, visit, _isInFavorites, unanswered, breaks>>

-----------------------------------------------------------------------------
(* The Dart code, continued by one answer at a time                        *)

Answered(d, type, op) ==
  /\ inbox[d] # <<>>
  /\ Head(inbox[d]).type = type
  /\ Head(inbox[d]).call.op = op

Consume(d) == inbox' = [inbox EXCEPT ![d] = Tail(@)]

\* setState of a page that is gone throws, and changes nothing.
OfThisPage(d, call) == page[d] # NoCity /\ call.visit = visit[d]

\* The rest of _addToFavorites: check again, stop the spinner.
Finish(d, call) ==
  /\ Ask(d, <<[call EXCEPT !.op = "check"]>>)
  /\ _isAdding' = [_isAdding EXCEPT ![d] = @ /\ ~OfThisPage(d, call)]

\* Mutant: a removal that fails does not come back.
RemoveReadThrows(d) ==
  /\ Answered(d, "read", "remove")
  /\ LET answer == Head(inbox[d])
     IN  \/ /\ answer.ok /\ answer.entries # {}
            /\ Send(d, "replace", WithoutCity(answer.entries, answer.call.city), answer.call)
            /\ UNCHANGED <<reads, _isAdding>>
         \/ /\ ~answer.ok \/ answer.entries = {}
            /\ UNCHANGED <<reads, _isAdding, writes>>
  /\ Consume(d)
  /\ UNCHANGED <<store, page, visit, _isInFavorites, unanswered, taps, breaks>>

\* removeFromFavorites writes back what its read left, and returns false if
\* there are no favorites or the read failed.
RemoveRead(d) ==
  /\ Answered(d, "read", "remove")
  /\ LET answer == Head(inbox[d])
     IN  \/ /\ answer.ok /\ answer.entries # {}
            /\ Send(d, "replace", WithoutCity(answer.entries, answer.call.city), answer.call)
            /\ UNCHANGED <<reads, _isAdding>>
         \/ /\ ~answer.ok \/ answer.entries = {}
            /\ Finish(d, answer.call)
            /\ UNCHANGED writes
  /\ Consume(d)
  /\ UNCHANGED <<store, page, visit, _isInFavorites, unanswered, taps, breaks>>

\* Mutant: nothing is checked after the write.
WriteReturnsUnchecked(d) ==
  /\ Answered(d, "written", "add") \/ Answered(d, "written", "remove")
  /\ _isAdding' = [_isAdding EXCEPT ![d] = @ /\ ~OfThisPage(d, Head(inbox[d]).call)]
  /\ Consume(d)
  /\ UNCHANGED <<store, reads, writes, page, visit, _isInFavorites, unanswered, taps, breaks>>

\* A write returns, confirmed or refused.
WriteReturns(d) ==
  /\ Answered(d, "written", "add") \/ Answered(d, "written", "remove")
  /\ Finish(d, Head(inbox[d]).call)
  /\ Consume(d)
  /\ UNCHANGED <<store, writes, page, visit, _isInFavorites, unanswered, taps, breaks>>

\* A check that is refused throws in _updateInFavoritesState.
CheckReturns(d) ==
  /\ Answered(d, "read", "check")
  /\ LET answer == Head(inbox[d])
         shown == OfThisPage(d, answer.call)
     IN  /\ _isInFavorites' = [_isInFavorites EXCEPT ![d] =
              IF shown /\ answer.ok THEN HasCity(answer.entries, answer.call.city) ELSE @]
         /\ unanswered' = [unanswered EXCEPT ![d] = @ \/ (shown /\ ~answer.ok)]
  /\ Consume(d)
  /\ UNCHANGED <<store, reads, writes, page, visit, _isAdding, taps, breaks>>

Continue(d) == RemoveRead(d) \/ WriteReturns(d) \/ CheckReturns(d)

-----------------------------------------------------------------------------
(* The Firebase client and the database                                    *)

ReadAnswered(d) ==
  /\ reads[d] # <<>>
  /\ \E ok \in BOOLEAN :
       /\ ok \/ "reads" \in Refusals
       /\ Tell(d, [type |-> "read", ok |-> ok, call |-> Head(reads[d]),
                   entries |-> IF ok THEN View(d) ELSE {}])
  /\ reads' = [reads EXCEPT ![d] = Tail(@)]
  /\ UNCHANGED <<store, writes, pageVars, taps, breaks>>

WriteTaken(d) ==
  /\ writes[d] # <<>>
  /\ store' = Written(Head(writes[d]), store)
  /\ writes' = [writes EXCEPT ![d] = Tail(@)]
  /\ Tell(d, [type |-> "written", call |-> Head(writes[d]).call])
  /\ UNCHANGED <<reads, pageVars, taps, breaks>>

WriteRefused(d) ==
  /\ writes[d] # <<>> /\ "writes" \in Refusals
  /\ writes' = [writes EXCEPT ![d] = Tail(@)]
  /\ Tell(d, [type |-> "written", call |-> Head(writes[d]).call])
  /\ UNCHANGED <<store, reads, pageVars, taps, breaks>>

\* The connection breaks between a write and its confirmation: the client
\* will send the write again.
ConfirmationLost(d) ==
  /\ breaks < MaxBreaks
  /\ breaks' = breaks + 1
  /\ writes[d] # <<>>
  /\ store' = Written(Head(writes[d]), store)
  /\ UNCHANGED <<reads, writes, inbox, pageVars, taps>>

KillAndRestart(d) ==
  /\ breaks < MaxBreaks
  /\ breaks' = breaks + 1
  /\ reads' = [reads EXCEPT ![d] = <<>>]
  /\ writes' = [writes EXCEPT ![d] = <<>>]
  /\ inbox' = [inbox EXCEPT ![d] = <<>>]
  /\ page' = [page EXCEPT ![d] = NoCity]
  /\ UNCHANGED <<store, visit, _isAdding, _isInFavorites, unanswered, taps>>

Link(d) == ReadAnswered(d) \/ WriteTaken(d) \/ WriteRefused(d)

Next == \E d \in Devices :
  \/ \E c \in Cities : OpenCity(d, c)
  \/ CloseCity(d) \/ TapFavorite(d)
  \/ Continue(d) \/ Link(d)
  \/ ConfirmationLost(d) \/ KillAndRestart(d)

Spec == Init /\ [][Next]_vars

\* Dart's event loop, the client and the database keep working.  The
\* client asks and writes independently, so each must get its turn.
Fairness == \A d \in Devices :
  WF_vars(Continue(d)) /\ WF_vars(ReadAnswered(d)) /\ WF_vars(WriteTaken(d))

FairSpec == Spec /\ Fairness

-----------------------------------------------------------------------------
TypeOK ==
  /\ store \subseteq Entries
  /\ reads \in [Devices -> Seq(Calls)]
  /\ writes \in [Devices -> Seq(Writes)]
  /\ inbox \in [Devices -> Seq(Answers)]
  /\ page \in [Devices -> Cities \cup {NoCity}]
  /\ visit \in [Devices -> 0..MaxVisits]
  /\ _isAdding \in [Devices -> BOOLEAN]
  /\ _isInFavorites \in [Devices -> BOOLEAN]
  /\ unanswered \in [Devices -> BOOLEAN]
  /\ taps \in 0..MaxTaps
  /\ breaks \in 0..MaxBreaks

\* When nothing is under way on the only device and every check was
\* answered, the button of the open page says what the database holds:
\* the check started before an add or a removal never has the last word.
ButtonSettles ==
  \A d \in Devices :
    Idle(d) /\ page[d] # NoCity /\ ~unanswered[d] =>
      (_isInFavorites[d] <=> HasCity(store, page[d]))

\* The map implements a set of cities changed one city at a time.
Abstract == INSTANCE Favorites WITH fav <- CitiesOf(store)
OneCityAtATime == Abstract!Spec

\* A removal that gets to the database leaves no copy of its city there,
\* whatever other devices have added since it read the map.
RemovalIsComplete ==
  [][\A d \in Devices :
       /\ writes[d] # <<>> /\ store' # store
       /\ writes'[d] = Tail(writes[d])
       /\ Head(writes[d]).call.op = "remove"
       => ~HasCity(store', Head(writes[d]).call.city)]_vars

\* A spinner on the button ends, whatever is refused.
SpinnerEnds ==
  \A d \in Devices : _isAdding[d] ~> ~_isAdding[d] \/ page[d] = NoCity
=============================================================================
