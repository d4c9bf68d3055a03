------------------------ MODULE KotlinSession_proofs ------------------------
(***************************************************************************)
(* Theorems about KotlinSession, for every set of users and every bound.   *)
(***************************************************************************)
EXTENDS KotlinSession, SequenceFacts

Screens == PublicScreens \cup PrivateScreens

-----------------------------------------------------------------------------
(* What the operators on the task return.                                  *)

\* finish() takes an activity out and leaves the others as they are.
LEMMA WithoutIn ==
  ASSUME NEW S, NEW s \in Seq(S), NEW id
  PROVE  Without(s, id) \in Seq(S)
<1>1. CASE \E i \in DOMAIN s : s[i].id = id
  <2>. DEFINE k == CHOOSE i \in DOMAIN s : s[i].id = id
  <2>1. k \in 1..Len(s)
    BY <1>1, LenProperties
  <2>. HIDE DEF k
  <2>2. RemoveAt(s, k) \in Seq(S)
    BY <2>1, RemoveAtProperties
  <2>. QED
    BY <1>1, <2>2 DEF Without, k
<1>2. CASE ~\E i \in DOMAIN s : s[i].id = id
  BY <1>2 DEF Without
<1>. QED
  BY <1>1, <1>2

\* A set of activities that does not tell dialogs apart.
DialogsAside(S) ==
  S \subseteq Activities /\ \A a \in S, b \in BOOLEAN : [a EXCEPT !.dialog = b] \in S

LEMMA WithDialogIn ==
  ASSUME NEW S, DialogsAside(S), NEW s \in Seq(S), NEW id, NEW b \in BOOLEAN
  PROVE  /\ WithDialog(s, id, b) \in Seq(S)
         /\ s # <<>> => /\ WithDialog(s, id, b) # <<>>
                        /\ Last(WithDialog(s, id, b)).screen = Last(s).screen
                        /\ id = Last(s).id => Last(WithDialog(s, id, b)).dialog = b
<1>. DEFINE e(i) == IF s[i].id = id THEN [s[i] EXCEPT !.dialog = b] ELSE s[i]
            t == [i \in 1..Len(s) |-> e(i)]
<1>1. Len(s) \in Nat /\ \A i \in 1..Len(s) : s[i] \in S
  BY LenProperties, ElementOfSeq
<1>2. \A i \in 1..Len(s) : e(i) \in S
  BY <1>1 DEF DialogsAside
<1>3. WithDialog(s, id, b) = t
  BY DEF WithDialog
<1>. HIDE DEF e
<1>4. t \in Seq(S) /\ Len(t) = Len(s)
  BY <1>1, <1>2, IsASeq
<1>5. ASSUME s # <<>>
      PROVE  /\ t # <<>>
             /\ Last(t).screen = Last(s).screen
             /\ id = Last(s).id => Last(t).dialog = b
  <2>1. Len(s) \in 1..Len(s)
    BY <1>1, <1>5, EmptySeq
  <2>2. Last(t) = e(Len(s)) /\ Last(s) = s[Len(s)]
    BY <1>4, <2>1 DEF Last
  <2>3. s[Len(s)] \in Activities
    BY <1>1, <2>1 DEF DialogsAside
  <2>4. t # <<>>
    BY <1>4, <2>1, EmptySeq
  <2>. QED
    BY <2>2, <2>3, <2>4 DEF e, Activities
<1>. QED
  BY <1>3, <1>4, <1>5

-----------------------------------------------------------------------------
(* What startActivity does.                                                *)

LEMMA StartOpens ==
  ASSUME NEW S, NEW screen \in Screens, NEW below \in Seq(S), NEW asked,
         S \subseteq Activities, starts \in Nat, user' \in Users \cup {Nobody},
         Start(screen, below, asked)
  PROVE  \E a \in Activities :
           /\ a.screen = screen /\ ~a.dialog
           /\ a.uid = IF screen = "UserMain" THEN user' ELSE Nobody
           /\ stack' = Append(below, a)
           /\ stack' \in Seq(S \cup {a})
           /\ Running' /\ Top' = a
           /\ starts' \in Nat /\ crash' = "none"
<1>. DEFINE a == [screen |-> screen, id |-> starts + 1, dialog |-> FALSE,
                  uid |-> IF screen = "UserMain" THEN user' ELSE Nobody]
<1>1. a \in Activities
  BY DEF Activities, Screens
<1>2. stack' = Append(below, a) /\ starts' \in Nat /\ crash' = "none"
  BY DEF Start
<1>3. below \in Seq(S \cup {a})
  BY SeqMonotonic
<1>. HIDE DEF a
<1>4. stack' \in Seq(S \cup {a}) /\ stack' # <<>> /\ Last(stack') = a
  BY <1>2, <1>3, AppendLast
<1>5. a.screen = screen /\ a.dialog = FALSE
      /\ a.uid = IF screen = "UserMain" THEN user' ELSE Nobody
  BY DEF a
<1>. QED
  BY <1>1, <1>2, <1>4, <1>5 DEF Running, Top

\* Only MainActivity and UserMainActivity ask something when they are
\* created, and only if somebody is signed in.
LEMMA StartAsks ==
  ASSUME NEW screen \in Screens, NEW below, NEW asked, starts \in Nat,
         user' \in Users \cup {Nobody}, Start(screen, below, asked)
  PROVE  \A r \in requests' :
           r \in asked \/ /\ r \in Requests /\ r.uid = user'
                          /\ \/ screen = "Main" /\ r.kind = "mainCheck"
                             \/ screen = "UserMain" /\ r.kind = "favs"
<1>. DEFINE more == IF user' = Nobody THEN {}
                    ELSE CASE screen = "Main" -> {Request("mainCheck", starts + 1, user')}
                           [] screen = "UserMain" -> {Request("favs", starts + 1, user')}
                           [] OTHER -> {}
<1>1. requests' = asked \cup more
  BY DEF Start
<1>2. CASE user' = Nobody
  BY <1>1, <1>2
<1>3. CASE user' # Nobody /\ screen = "Main"
  <2>1. more = {Request("mainCheck", starts + 1, user')}
    BY <1>3
  <2>. QED
    BY <1>1, <1>3, <2>1 DEF Request, Requests
<1>4. CASE user' # Nobody /\ screen = "UserMain"
  <2>1. more = {Request("favs", starts + 1, user')}
    BY <1>4
  <2>. QED
    BY <1>1, <1>4, <2>1 DEF Request, Requests
<1>5. CASE screen \notin {"Main", "UserMain"}
  <2>1. more = {}
    BY <1>5
  <2>. QED
    BY <1>1, <2>1
<1>. QED
  BY <1>2, <1>3, <1>4, <1>5

-----------------------------------------------------------------------------
(* Types.                                                                  *)

LEMMA StartTyped ==
  ASSUME TypeOK, NEW screen \in Screens, NEW below \in Seq(Activities),
         NEW asked \in SUBSET Requests, account' \in [Users -> AccountStates],
         user' \in Users \cup {Nobody},
         Start(screen, below, asked) \/ StartAsserting(screen, below, asked)
  PROVE  TypeOK'
<1>1. CASE Start(screen, below, asked)
  <2>1. stack' \in Seq(Activities) /\ starts' \in Nat /\ crash' = "none"
    <3>1. PICK a \in Activities :
            stack' \in Seq(Activities \cup {a}) /\ starts' \in Nat /\ crash' = "none"
      BY <1>1, StartOpens DEF TypeOK
    <3>2. Activities \cup {a} = Activities
      OBVIOUS
    <3>. QED
      BY <3>1, <3>2
  <2>2. requests' \subseteq Requests
    BY <1>1, StartAsks DEF TypeOK
  <2>. QED
    BY <2>1, <2>2 DEF TypeOK, Crashes
<1>2. CASE Crash("noUser") /\ UNCHANGED starts
  BY <1>2, EmptySeq DEF TypeOK, Crash, Crashes
<1>. QED
  BY <1>1, <1>2 DEF StartAsserting

LEMMA ActivitiesAside == DialogsAside(Activities)
BY DEF DialogsAside, Activities

LEMMA AnswerTyped ==
  ASSUME TypeOK, NEW r \in requests, Answer(r)
  PROVE  TypeOK'
<1>1. /\ r \in Requests /\ r.uid \in Users
      /\ requests \ {r} \in SUBSET Requests
      /\ Without(stack, r.id) \in Seq(Activities)
      /\ \A b \in BOOLEAN : WithDialog(stack, r.id, b) \in Seq(Activities)
  BY WithoutIn, WithDialogIn, ActivitiesAside DEF TypeOK, Requests
<1>2. \A kind \in {"loginCheck", "created", "save", "saved"} : Becomes(r, kind) \subseteq Requests
  BY <1>1 DEF TypeOK, Becomes, Requests
<1>3. CASE MainCheckAnswered(r)
  <2>1. CASE StartAsserting("UserMain", Without(stack, r.id), requests \ {r})
    BY <1>1, <1>3, <2>1, StartTyped DEF TypeOK, MainCheckAnswered, Screens, PrivateScreens
  <2>2. CASE requests' = requests \ {r} /\ UNCHANGED <<stack, starts, crash>>
    BY <1>1, <1>3, <2>2 DEF TypeOK, MainCheckAnswered
  <2>. QED
    BY <1>3, <2>1, <2>2 DEF MainCheckAnswered
<1>4. CASE MainCheckRefused(r)
  BY <1>4, EmptySeq DEF TypeOK, MainCheckRefused, Crash, Crashes
<1>5. CASE SignInSucceeds(r)
  BY <1>1, <1>2, <1>5 DEF TypeOK, SignInSucceeds
<1>6. CASE SignInFails(r)
  BY <1>1, <1>6 DEF TypeOK, SignInFails
<1>7. CASE LoginCheckAnswered(r)
  <2>1. CASE StartAsserting("UserMain", Without(stack, r.id), requests \ {r})
    BY <1>1, <1>7, <2>1, StartTyped DEF TypeOK, LoginCheckAnswered, Screens, PrivateScreens
  <2>2. CASE /\ stack' = WithDialog(stack, r.id, FALSE)
             /\ requests' = requests \ {r}
             /\ UNCHANGED <<starts, crash>>
    BY <1>1, <1>7, <2>2 DEF TypeOK, LoginCheckAnswered
  <2>. QED
    BY <1>7, <2>1, <2>2 DEF LoginCheckAnswered
<1>8. CASE LoginCheckRefused(r)
  BY <1>1, <1>8 DEF TypeOK, LoginCheckRefused
<1>9. CASE AccountCreated(r)
  BY <1>1, <1>2, <1>9 DEF TypeOK, AccountCreated, AccountStates
<1>10. CASE CreateSucceeds(r)
  BY <1>1, <1>2, <1>10 DEF TypeOK, CreateSucceeds
<1>11. CASE RecordSaved(r)
  BY <1>1, <1>2, <1>11 DEF TypeOK, RecordSaved, AccountStates
<1>12. CASE SaveSucceeds(r)
  BY <1>1, <1>12, StartTyped DEF TypeOK, SaveSucceeds, Screens, PrivateScreens
<1>13. CASE RegistrationFails(r)
  BY <1>1, <1>13 DEF TypeOK, RegistrationFails
<1>14. CASE FavsMissing(r)
  BY <1>14, EmptySeq DEF TypeOK, FavsMissing, Crash, Crashes
<1>15. CASE FavsRefused(r)
  BY <1>1, <1>15 DEF TypeOK, FavsRefused
<1>. QED
  BY <1>3, <1>4, <1>5, <1>6, <1>7, <1>8, <1>9, <1>10, <1>11, <1>12, <1>13, <1>14, <1>15
     DEF Answer

LEMMA TopTyped ==
  ASSUME TypeOK, Running
  PROVE  Top \in Activities /\ Front(stack) \in Seq(Activities)
BY LastIn, FrontProperties DEF TypeOK, Running, Top

LEMMA UserStepTyped ==
  ASSUME TypeOK, UserStep
  PROVE  TypeOK'
<1>1. requests \in SUBSET Requests /\ stack \in Seq(Activities) /\ <<>> \in Seq(Activities)
  BY EmptySeq DEF TypeOK
<1>2. CASE Launch
  BY <1>1, <1>2, StartTyped DEF TypeOK, Launch, Screens, PublicScreens
<1>3. CASE Back
  BY <1>3, TopTyped DEF TypeOK, Back
<1>4. CASE BackCancelsDialog
  BY <1>1, <1>4, WithDialogIn, ActivitiesAside DEF TypeOK, BackCancelsDialog
<1>5. CASE MainTapLogin
  BY <1>1, <1>5, TopTyped, StartTyped DEF TypeOK, MainTapLogin, TopIs, Screens, PublicScreens
<1>6. CASE LoginTapRegister
  BY <1>1, <1>6, StartTyped DEF TypeOK, LoginTapRegister, Screens, PublicScreens
<1>7. ASSUME NEW u \in Users, LoginTapLogin(u)
      PROVE  TypeOK'
  <2>1. Request("signIn", Top.id, u) \in Requests
    BY <1>7, TopTyped DEF LoginTapLogin, TopIs, Request, Requests, Activities
  <2>2. WithDialog(stack, Top.id, TRUE) \in Seq(Activities)
    BY <1>1, WithDialogIn, ActivitiesAside
  <2>. QED
    BY <1>7, <2>1, <2>2 DEF TypeOK, LoginTapLogin
<1>8. ASSUME NEW u \in Users, RegisterTapRegister(u)
      PROVE  TypeOK'
  <2>1. Request("create", Top.id, u) \in Requests
    BY <1>8, TopTyped DEF RegisterTapRegister, TopIs, Request, Requests, Activities
  <2>2. WithDialog(stack, Top.id, TRUE) \in Seq(Activities)
    BY <1>1, WithDialogIn, ActivitiesAside
  <2>. QED
    BY <1>8, <2>1, <2>2 DEF TypeOK, RegisterTapRegister
<1>9. CASE OpenCity
  BY <1>1, <1>9, StartTyped DEF TypeOK, OpenCity, Screens, PrivateScreens
<1>10. CASE CityTapFavorite
  BY <1>1, <1>10 DEF TypeOK, CityTapFavorite, Crash, Crashes
<1>11. CASE OpenUserInfo
  BY <1>1, <1>11, StartTyped DEF TypeOK, OpenUserInfo, Screens, PrivateScreens
<1>12. CASE LogOut
  BY <1>1, <1>12, TopTyped, StartTyped DEF TypeOK, LogOut, TopIs, Screens, PublicScreens
<1>. QED
  BY <1>2, <1>3, <1>4, <1>5, <1>6, <1>7, <1>8, <1>9, <1>10, <1>11, <1>12 DEF UserStep

LEMMA NextTyped ==
  ASSUME TypeOK, [Next]_vars
  PROVE  TypeOK'
<1>1. CASE Kill
  BY <1>1, EmptySeq DEF TypeOK, Kill
<1>2. CASE UNCHANGED vars
  BY <1>2 DEF TypeOK, vars
<1>. QED
  BY <1>1, <1>2, UserStepTyped, AnswerTyped DEF Next

(* The variables keep their types: an account, the task, what is asked and *)
(* why the process died are never anything else (all activities).          *)
THEOREM TypeCorrect == Spec => []TypeOK
<1>1. Init => TypeOK
  BY EmptySeq DEF Init, TypeOK, AccountStates, Crashes
<1>2. TypeOK /\ [Next]_vars => TypeOK'
  BY NextTyped
<1>. QED
  BY <1>1, <1>2, PTL DEF Spec

-----------------------------------------------------------------------------
(* A registration that was cut off.                                        *)

Unfinished(r) == r.kind \in {"created", "save"}

\* Registrations come one step further only from the step before.
LEMMA NoNewRegistration ==
  ASSUME TypeOK, [Next]_vars, NEW u \in Users, Stranded(u), NEW q \in requests',
         Unfinished(q), q.uid = u
  PROVE  FALSE
<1>1. q \notin requests
  BY DEF Stranded, Unfinished
<1>2. ASSUME NEW screen \in Screens, NEW below, NEW asked \in SUBSET requests,
             UNCHANGED user \/ user' = Nobody,
             Start(screen, below, asked) \/ StartAsserting(screen, below, asked)
      PROVE  FALSE
  <2>1. CASE Start(screen, below, asked)
    BY <1>1, <1>2, <2>1, StartAsks DEF TypeOK, Unfinished
  <2>2. CASE Crash("noUser")
    BY <2>2 DEF Crash
  <2>. QED
    BY <1>2, <2>1, <2>2 DEF StartAsserting
<1>3. ASSUME NEW r \in requests, Answer(r)
      PROVE  FALSE
  <2>1. r.uid = u => ~Unfinished(r)
    BY DEF Stranded, Unfinished
  <2>2. ASSUME NEW kind, requests' = Becomes(r, kind), r.uid = u => kind \notin {"created", "save"}
        PROVE  FALSE
    BY <1>1, <2>2 DEF Becomes, TypeOK, Requests, Unfinished
  <2>3. requests' \subseteq requests => FALSE
    BY <1>1
  <2>4. CASE MainCheckAnswered(r)
    BY <1>2, <2>3, <2>4 DEF MainCheckAnswered, Screens, PrivateScreens
  <2>5. CASE LoginCheckAnswered(r)
    BY <1>2, <2>3, <2>5 DEF LoginCheckAnswered, Screens, PrivateScreens
  <2>6. CASE SaveSucceeds(r)
    BY <1>2, <2>3, <2>6 DEF SaveSucceeds, Screens, PrivateScreens
  <2>7. CASE SignInSucceeds(r)
    BY <2>2, <2>7 DEF SignInSucceeds
  <2>8. CASE AccountCreated(r)
    BY <2>2, <2>8 DEF AccountCreated, Stranded
  <2>9. CASE CreateSucceeds(r)
    BY <2>1, <2>2, <2>9 DEF CreateSucceeds, Unfinished
  <2>10. CASE RecordSaved(r)
    BY <2>1, <2>2, <2>10 DEF RecordSaved, Unfinished
  <2>11. CASE \/ MainCheckRefused(r) \/ SignInFails(r) \/ LoginCheckRefused(r)
              \/ RegistrationFails(r) \/ FavsMissing(r) \/ FavsRefused(r)
    BY <2>3, <2>11 DEF MainCheckRefused, SignInFails, LoginCheckRefused, RegistrationFails,
                       FavsMissing, FavsRefused, Crash
  <2>. QED
    BY <1>3, <2>4, <2>5, <2>6, <2>7, <2>8, <2>9, <2>10, <2>11 DEF Answer
<1>4. ASSUME UserStep
      PROVE  FALSE
  <2>1. requests' \subseteq requests => FALSE
    BY <1>1
  <2>2. CASE Launch \/ MainTapLogin \/ LoginTapRegister \/ OpenCity \/ OpenUserInfo \/ LogOut
    BY <1>2, <2>2 DEF Launch, MainTapLogin, LoginTapRegister, OpenCity, OpenUserInfo, LogOut,
                      Screens, PublicScreens, PrivateScreens
  <2>3. CASE Back \/ BackCancelsDialog \/ CityTapFavorite
    BY <2>1, <2>3 DEF Back, BackCancelsDialog, CityTapFavorite, Crash
  <2>4. ASSUME NEW v \in Users, LoginTapLogin(v) \/ RegisterTapRegister(v)
        PROVE  FALSE
    <3>1. q = Request("signIn", Top.id, v) \/ q = Request("create", Top.id, v)
      BY <1>1, <2>4 DEF LoginTapLogin, RegisterTapRegister
    <3>. QED
      BY <3>1 DEF Request, Unfinished
  <2>. QED
    BY <1>4, <2>2, <2>3, <2>4 DEF UserStep
<1>5. CASE Kill \/ UNCHANGED vars
  BY <1>1, <1>5 DEF Kill, vars
<1>. QED
  BY <1>3, <1>4, <1>5 DEF Next

\* What the services hold of an account only changes in its registration.
LEMMA AccountStays ==
  ASSUME TypeOK, [Next]_vars, NEW u \in Users, Stranded(u)
  PROVE  account'[u] = "halfway"
<1>1. ASSUME NEW r \in requests, Answer(r)
      PROVE  account'[u] = "halfway"
  <2>1. CASE AccountCreated(r)
    BY <2>1 DEF AccountCreated, Stranded, TypeOK
  <2>2. CASE RecordSaved(r)
    BY <2>2 DEF RecordSaved, Stranded, TypeOK
  <2>3. CASE UNCHANGED account
    BY <2>3 DEF Stranded
  <2>. QED
    BY <1>1, <2>1, <2>2, <2>3
       DEF Answer, MainCheckAnswered, MainCheckRefused, SignInSucceeds, SignInFails,
           LoginCheckAnswered, LoginCheckRefused, CreateSucceeds, SaveSucceeds,
           RegistrationFails, FavsMissing, FavsRefused
<1>2. UserStep \/ Kill \/ UNCHANGED vars => UNCHANGED account
  BY DEF UserStep, Launch, Back, BackCancelsDialog, MainTapLogin, LoginTapRegister,
         LoginTapLogin, RegisterTapRegister, OpenCity, CityTapFavorite, OpenUserInfo,
         LogOut, Kill, vars
<1>. QED
  BY <1>1, <1>2 DEF Next, Stranded

(* A registration cut off between its two steps is never completed: no     *)
(* login and no second registration gives the account its record, however  *)
(* hasty the user and whatever the database refuses.                       *)
THEOREM StrandedForGoodHolds == Spec => StrandedForGood
<1>1. TypeOK /\ [Next]_vars => \A u \in Users : Stranded(u) => Stranded(u)'
  <2>1. SUFFICES ASSUME TypeOK, [Next]_vars, NEW u \in Users, Stranded(u)
                 PROVE  Stranded(u)'
    OBVIOUS
  <2>2. account'[u] = "halfway"
    BY <2>1, AccountStays
  <2>3. \A q \in requests' : q.uid = u => q.kind \notin {"created", "save"}
    BY <2>1, NoNewRegistration DEF Unfinished
  <2>. QED
    BY <2>2, <2>3 DEF Stranded
<1>2. TypeOK /\ [Next]_vars => [\A u \in Users : Stranded(u) => Stranded(u)']_vars
  BY <1>1
<1>. QED
  BY <1>2, TypeCorrect, PTL DEF Spec, StrandedForGood

-----------------------------------------------------------------------------
(* Only accounts with a record are let in.  The code checks the record of  *)
(* one user and opens the screen of whoever is signed in when the answer   *)
(* comes.  What makes the two the same is that there is one login or one   *)
(* registration at a time, in the visible activity and under its dialog,   *)
(* and none at all while MainActivity's check is under way.                *)

WithRecord ==
  {a \in Activities : a.screen = "UserMain" => a.uid \in Users /\ account[a.uid] = "complete"}
PastForms == {a \in Activities : a.screen \notin {"Login", "Register"}}

\* A login or a registration under way.
Busy == {r \in requests : r.kind \notin {"favs", "mainCheck"}}
AtWork(r) ==
  /\ Running /\ Top.dialog
  /\ Top.screen = IF r.kind \in {"signIn", "loginCheck"} THEN "Login" ELSE "Register"
  /\ r.kind \in {"loginCheck", "save", "saved"} => user = r.uid
  /\ r.kind = "saved" => account[r.uid] = "complete"
OneAtWork == \A r \in Busy : AtWork(r) /\ \A q \in Busy : q = r

\* MainActivity's check is of the user, who may have left since.
CheckAlone(r) == Busy = {} /\ user \in {r.uid, Nobody} /\ stack \in Seq(PastForms)
ChecksAlone == \A r \in requests : r.kind = "mainCheck" => CheckAlone(r)

SessionInv == TypeOK /\ stack \in Seq(WithRecord) /\ OneAtWork /\ ChecksAlone

LEMMA SetsAside == DialogsAside(WithRecord) /\ DialogsAside(PastForms)
BY DEF DialogsAside, WithRecord, PastForms, Activities

\* A record that is there stays.
LEMMA RecordsStay ==
  ASSUME TypeOK, [Next]_vars
  PROVE  WithRecord \subseteq WithRecord'
<1>1. ASSUME NEW u \in Users, account[u] = "complete"
      PROVE  account'[u] = "complete"
  <2>1. ASSUME NEW r \in requests, AccountCreated(r) \/ RecordSaved(r)
        PROVE  account'[u] = "complete"
    BY <1>1, <2>1 DEF AccountCreated, RecordSaved, TypeOK
  <2>2. UNCHANGED account => account'[u] = "complete"
    BY <1>1
  <2>. QED
    BY <2>1, <2>2
       DEF Next, vars, Kill, Answer, MainCheckAnswered, MainCheckRefused, SignInSucceeds,
           SignInFails, LoginCheckAnswered, LoginCheckRefused, CreateSucceeds, SaveSucceeds,
           RegistrationFails, FavsMissing, FavsRefused, UserStep, Launch, Back,
           BackCancelsDialog, MainTapLogin, LoginTapRegister, LoginTapLogin,
           RegisterTapRegister, OpenCity, CityTapFavorite, OpenUserInfo, LogOut
<1>. QED
  BY <1>1 DEF WithRecord

\* A screen is opened for a user with a record, or is not UserMainActivity.
LEMMA StartRecorded ==
  ASSUME TypeOK, NEW screen \in Screens, NEW below \in Seq(WithRecord), NEW asked,
         user' \in Users \cup {Nobody}, WithRecord \subseteq WithRecord',
         \/ /\ screen # "UserMain"
            /\ Start(screen, below, asked)
         \/ /\ screen = "UserMain" => user' = Nobody \/ account'[user'] = "complete"
            /\ StartAsserting(screen, below, asked)
  PROVE  stack' \in Seq(WithRecord')
<1>1. CASE Start(screen, below, asked) /\ (screen = "UserMain" => user' # Nobody)
  <2>1. WithRecord \subseteq Activities
    BY DEF WithRecord
  <2>2. PICK a \in Activities :
          /\ a.screen = screen
          /\ a.uid = IF screen = "UserMain" THEN user' ELSE Nobody
          /\ stack' \in Seq(WithRecord \cup {a})
    BY <1>1, <2>1, StartOpens DEF TypeOK
  <2>3. a \in WithRecord'
    BY <1>1, <2>2 DEF WithRecord, StartAsserting, Activities
  <2>4. WithRecord \cup {a} \subseteq WithRecord'
    BY <2>3
  <2>. QED
    BY <2>2, <2>4, SeqMonotonic
<1>2. CASE Crash("noUser")
  BY <1>2, EmptySeq DEF Crash
<1>. QED
  BY <1>1, <1>2 DEF StartAsserting

LEMMA BusyOnce ==
  ASSUME SessionInv, NEW r \in Busy
  PROVE  /\ AtWork(r) /\ \A q \in Busy : q = r
         /\ \A q \in requests : q.kind # "mainCheck"
BY DEF SessionInv, OneAtWork, ChecksAlone, CheckAlone

\* Nothing is under way unless a form waits under its dialog.
LEMMA NotBusy ==
  ASSUME SessionInv, ~Running \/ ~Top.dialog \/ Top.screen \notin {"Login", "Register"}
  PROVE  Busy = {}
BY DEF SessionInv, OneAtWork, AtWork

LEMMA NoCheckOnForms ==
  ASSUME SessionInv, Running, Top.screen \in {"Login", "Register"}
  PROVE  \A r \in requests : r.kind # "mainCheck"
<1>1. stack \in Seq(PastForms) => FALSE
  BY LastIn DEF Running, Top, PastForms
<1>. QED
  BY <1>1 DEF SessionInv, ChecksAlone, CheckAlone

\* What is left to show of a step that ends with nothing under way.
LEMMA BecomesIdle ==
  ASSUME TypeOK', stack' \in Seq(WithRecord'), Busy' = {},
         \A r \in requests' : r.kind = "mainCheck" =>
           user' \in {r.uid, Nobody} /\ stack' \in Seq(PastForms)
  PROVE  SessionInv'
<1>1. PastForms' = PastForms
  BY DEF PastForms, Activities, PublicScreens, PrivateScreens
<1>. QED
  BY <1>1 DEF SessionInv, OneAtWork, ChecksAlone, CheckAlone

\* Of a screen opened while nothing is under way.
LEMMA IdleStart ==
  ASSUME SessionInv, Busy = {}, TypeOK', NEW screen \in Screens,
         NEW below \in Seq(Activities), NEW asked \in SUBSET requests,
         stack' \in Seq(WithRecord'), UNCHANGED user \/ user' = Nobody,
         (\E r \in requests' : r.kind = "mainCheck") =>
           below \in Seq(PastForms) /\ screen \notin {"Login", "Register"},
         Start(screen, below, asked) \/ StartAsserting(screen, below, asked)
  PROVE  SessionInv'
<1>1. CASE Crash("noUser")
  BY <1>1, BecomesIdle DEF Crash, Busy
<1>2. CASE Start(screen, below, asked)
  <2>1. \A r \in requests' :
           r \in requests \/ (r.uid = user' /\ r.kind \in {"mainCheck", "favs"})
    BY <1>2, StartAsks DEF SessionInv, TypeOK
  <2>2. Busy' = {}
    BY <2>1 DEF Busy
  <2>3. ASSUME NEW r \in requests', r.kind = "mainCheck"
        PROVE  user' \in {r.uid, Nobody} /\ stack' \in Seq(PastForms)
    <3>1. user' \in {r.uid, Nobody}
      BY <2>1, <2>3 DEF SessionInv, ChecksAlone, CheckAlone
    <3>2. PICK a \in Activities : a.screen = screen /\ stack' \in Seq(PastForms \cup {a})
      BY <1>2, <2>3, StartOpens DEF SessionInv, TypeOK, PastForms
    <3>3. PastForms \cup {a} = PastForms
      BY <2>3, <3>2 DEF PastForms
    <3>. QED
      BY <3>1, <3>2, <3>3
  <2>. QED
    BY <2>2, <2>3, BecomesIdle
<1>. QED
  BY <1>1, <1>2 DEF StartAsserting

\* The one login or registration comes a step further.
LEMMA WorkGoesOn ==
  ASSUME SessionInv, TypeOK', stack' \in Seq(WithRecord'), UNCHANGED stack,
         NEW r \in Busy, NEW kind \in {"loginCheck", "created", "save", "saved"},
         requests' = Becomes(r, kind),
         kind = "loginCheck" <=> r.kind = "signIn",
         r.kind # "loginCheck",
         kind \in {"loginCheck", "save", "saved"} => user' = r.uid,
         kind = "saved" => account'[r.uid] = "complete"
  PROVE  SessionInv'
<1>. DEFINE q == [r EXCEPT !.kind = kind]
<1>1. r \in Requests /\ q \in Requests /\ q.kind = kind /\ q.uid = r.uid
  BY DEF SessionInv, TypeOK, Busy, Requests
<1>2. AtWork(r) /\ (\A p \in Busy : p = r) /\ \A p \in requests : p.kind # "mainCheck"
  BY BusyOnce
<1>3. requests' = (requests \ {r}) \cup {q}
  BY DEF Becomes
<1>. HIDE DEF q
<1>4. Busy' = {q}
  BY <1>1, <1>2, <1>3 DEF Busy
<1>5. AtWork(q)'
  BY <1>1, <1>2 DEF AtWork, Running, Top
<1>6. \A p \in requests' : p.kind # "mainCheck"
  BY <1>1, <1>2, <1>3
<1>. QED
  BY <1>4, <1>5, <1>6 DEF SessionInv, OneAtWork, ChecksAlone

\* The one login or registration ends on its form.
LEMMA WorkEnds ==
  ASSUME SessionInv, TypeOK', stack' \in Seq(WithRecord'), NEW r \in Busy,
         requests' = requests \ {r}
  PROVE  SessionInv'
BY BusyOnce, BecomesIdle DEF Busy

\* The one login or registration lets its user in.
LEMMA WorkLetsIn ==
  ASSUME SessionInv, TypeOK', WithRecord \subseteq WithRecord', NEW r \in Busy,
         UNCHANGED <<account, user>>,
         r.kind \in {"loginCheck", "saved"}, account[r.uid] = "complete",
         StartAsserting("UserMain", Without(stack, r.id), requests \ {r})
  PROVE  SessionInv'
<1>1. user = r.uid /\ (\A q \in Busy : q = r) /\ \A q \in requests : q.kind # "mainCheck"
  BY BusyOnce DEF AtWork
<1>2. stack' \in Seq(WithRecord')
  <2>1. Without(stack, r.id) \in Seq(WithRecord)
    BY WithoutIn DEF SessionInv
  <2>. QED
    BY <1>1, <2>1, StartRecorded DEF SessionInv, TypeOK, Screens, PrivateScreens
<1>3. \A q \in requests' : q.kind = "favs"
  <2>1. CASE Start("UserMain", Without(stack, r.id), requests \ {r})
    <3>1. \A q \in requests' : q \in requests \ {r} \/ q.kind = "favs"
      <4>1. starts \in Nat /\ user' \in Users \cup {Nobody} /\ "UserMain" \in Screens
        BY DEF SessionInv, TypeOK, Screens, PrivateScreens
      <4>. QED
        BY <2>1, <4>1, StartAsks
    <3>. QED
      BY <1>1, <3>1 DEF Busy
  <2>2. CASE Crash("noUser")
    BY <2>2 DEF Crash
  <2>. QED
    BY <2>1, <2>2 DEF StartAsserting
<1>. QED
  BY <1>2, <1>3, BecomesIdle DEF Busy

LEMMA AnswerRecorded ==
  ASSUME SessionInv, TypeOK', WithRecord \subseteq WithRecord', NEW r \in requests, Answer(r)
  PROVE  SessionInv'
<1>1. /\ r \in Requests /\ r.uid \in Users
      /\ TypeOK /\ stack \in Seq(WithRecord) /\ stack \in Seq(Activities)
  BY DEF SessionInv, TypeOK, Requests
<1>2. stack \in Seq(WithRecord') /\ WithDialog(stack, r.id, FALSE) \in Seq(WithRecord')
  BY <1>1, WithDialogIn, SetsAside, SeqMonotonic
<1>3. r.kind \notin {"favs", "mainCheck"} => r \in Busy
  BY DEF Busy
<1>4. ASSUME NEW why, Crash(why)
      PROVE  SessionInv'
  BY <1>4, EmptySeq, BecomesIdle DEF Crash, Busy
<1>5. r \in Busy /\ HasRecord(r.uid) /\ r.kind # "save" => account[r.uid] = "complete"
  BY BusyOnce DEF HasRecord, Busy
<1>6. CASE MainCheckAnswered(r)
  <2>1. Busy = {} /\ user \in {r.uid, Nobody} /\ stack \in Seq(PastForms)
    BY <1>6 DEF SessionInv, ChecksAlone, CheckAlone, MainCheckAnswered
  <2>2. CASE HasRecord(r.uid) /\ StartAsserting("UserMain", Without(stack, r.id), requests \ {r})
    <3>1. account[r.uid] = "complete"
      BY <2>1, <2>2 DEF HasRecord, Busy
    <3>2. /\ Without(stack, r.id) \in Seq(WithRecord)
          /\ Without(stack, r.id) \in Seq(PastForms)
          /\ Without(stack, r.id) \in Seq(Activities)
      BY <1>1, <2>1, WithoutIn
    <3>3. stack' \in Seq(WithRecord')
      BY <1>1, <1>6, <2>1, <2>2, <3>1, <3>2, StartRecorded
         DEF TypeOK, Screens, PrivateScreens, MainCheckAnswered
    <3>4. requests \ {r} \in SUBSET requests /\ UNCHANGED user
      BY <1>6 DEF MainCheckAnswered
    <3>. QED
      BY <2>1, <2>2, <3>2, <3>3, <3>4, IdleStart DEF Screens, PrivateScreens
  <2>3. CASE requests' = requests \ {r} /\ UNCHANGED <<stack, starts, crash>>
    BY <1>2, <1>6, <2>1, <2>3, BecomesIdle
       DEF SessionInv, ChecksAlone, CheckAlone, Busy, MainCheckAnswered
  <2>. QED
    BY <1>6, <2>2, <2>3 DEF MainCheckAnswered
<1>7. CASE MainCheckRefused(r)
  BY <1>4, <1>7 DEF MainCheckRefused
<1>8. CASE SignInSucceeds(r)
  BY <1>2, <1>3, <1>8, WorkGoesOn DEF SignInSucceeds
<1>9. CASE SignInFails(r)
  BY <1>2, <1>3, <1>9, WorkEnds DEF SignInFails
<1>10. CASE LoginCheckAnswered(r)
  <2>1. CASE HasRecord(r.uid) /\ StartAsserting("UserMain", Without(stack, r.id), requests \ {r})
    BY <1>3, <1>5, <1>10, <2>1, WorkLetsIn DEF LoginCheckAnswered
  <2>2. CASE stack' = WithDialog(stack, r.id, FALSE) /\ requests' = requests \ {r}
    BY <1>2, <1>3, <1>10, <2>2, WorkEnds DEF LoginCheckAnswered
  <2>. QED
    BY <1>10, <2>1, <2>2 DEF LoginCheckAnswered
<1>11. CASE LoginCheckRefused(r)
  BY <1>2, <1>3, <1>11, WorkEnds DEF LoginCheckRefused
<1>12. CASE AccountCreated(r)
  BY <1>2, <1>3, <1>12, WorkGoesOn DEF AccountCreated
<1>13. CASE CreateSucceeds(r)
  BY <1>2, <1>3, <1>13, WorkGoesOn DEF CreateSucceeds
<1>14. CASE RecordSaved(r)
  <2>1. user' = r.uid
    BY <1>3, <1>14, BusyOnce DEF RecordSaved, AtWork
  <2>2. account'[r.uid] = "complete"
    BY <1>1, <1>14 DEF RecordSaved, TypeOK
  <2>. QED
    BY <1>2, <1>3, <1>14, <2>1, <2>2, WorkGoesOn DEF RecordSaved
<1>15. CASE SaveSucceeds(r)
  <2>1. account[r.uid] = "complete"
    BY <1>3, <1>15, BusyOnce DEF SaveSucceeds, AtWork
  <2>. QED
    BY <1>3, <1>15, <2>1, WorkLetsIn DEF SaveSucceeds
<1>16. CASE RegistrationFails(r)
  BY <1>2, <1>3, <1>16, WorkEnds DEF RegistrationFails
<1>17. CASE FavsMissing(r)
  BY <1>4, <1>17 DEF FavsMissing
<1>18. CASE FavsRefused(r)
  <2>1. Busy' = Busy /\ UNCHANGED <<account, user, stack>> /\ requests' \subseteq requests
    BY <1>18 DEF FavsRefused, Busy
  <2>2. \A q \in Busy' : AtWork(q)' /\ \A p \in Busy' : p = q
    BY <2>1, BusyOnce DEF AtWork, Running, Top
  <2>3. \A q \in requests' : q.kind = "mainCheck" => CheckAlone(q)'
    BY <2>1 DEF SessionInv, ChecksAlone, CheckAlone, PastForms, Activities,
                PublicScreens, PrivateScreens
  <2>. QED
    BY <1>2, <2>1, <2>2, <2>3 DEF SessionInv, OneAtWork, ChecksAlone
<1>. QED
  BY <1>6, <1>7, <1>8, <1>9, <1>10, <1>11, <1>12, <1>13, <1>14, <1>15, <1>16, <1>17, <1>18
     DEF Answer

LEMMA UserStepRecorded ==
  ASSUME Hasty = FALSE, Cancelling = FALSE,
         SessionInv, TypeOK', WithRecord \subseteq WithRecord', UserStep
  PROVE  SessionInv'
<1>1. /\ TypeOK /\ stack \in Seq(WithRecord) /\ stack \in Seq(Activities)
      /\ requests \in SUBSET requests
      /\ \A r \in requests : r.kind = "mainCheck" =>
           user \in {r.uid, Nobody} /\ stack \in Seq(PastForms)
  BY DEF SessionInv, TypeOK, ChecksAlone, CheckAlone
<1>2. Running => \A S : stack \in Seq(S) => Front(stack) \in Seq(S)
  BY FrontProperties DEF Running
<1>3. \A S : <<>> \in Seq(S)
  BY EmptySeq
<1>4. user' \in Users \cup {Nobody}
  BY DEF TypeOK
<1>5. CASE Launch
  <2>1. Busy = {} /\ stack' \in Seq(WithRecord')
    BY <1>1, <1>3, <1>4, <1>5, NotBusy, StartRecorded DEF Launch, Screens, PublicScreens
  <2>. QED
    BY <1>1, <1>3, <1>5, <2>1, IdleStart DEF Launch, Screens, PublicScreens
<1>6. CASE Back
  <2>1. Busy = {} /\ Busy' = {}
    BY <1>6, NotBusy DEF Back, Busy
  <2>2. stack' \in Seq(WithRecord') /\ (stack \in Seq(PastForms) => stack' \in Seq(PastForms))
    BY <1>1, <1>2, <1>6, SeqMonotonic DEF Back
  <2>. QED
    BY <1>1, <1>6, <2>1, <2>2, BecomesIdle DEF Back
<1>7. CASE BackCancelsDialog
  BY <1>7 DEF BackCancelsDialog
<1>8. CASE MainTapLogin
  <2>1. Busy = {} /\ \A r \in requests : r.kind # "mainCheck"
    BY <1>8, NotBusy DEF MainTapLogin, TopIs
  <2>2. Front(stack) \in Seq(WithRecord) /\ Front(stack) \in Seq(Activities)
    BY <1>1, <1>2, <1>8 DEF MainTapLogin, TopIs
  <2>3. "Login" \in Screens /\ Start("Login", Front(stack), requests)
        /\ UNCHANGED <<account, user>>
    BY <1>8 DEF MainTapLogin, Screens, PublicScreens
  <2>4. stack' \in Seq(WithRecord')
    BY <1>1, <1>4, <2>2, <2>3, StartRecorded
  <2>5. \A r \in requests' : r.kind # "mainCheck"
    BY <1>1, <1>4, <2>1, <2>3, StartAsks DEF TypeOK
  <2>. QED
    BY <1>1, <2>1, <2>2, <2>3, <2>4, <2>5, IdleStart
<1>9. CASE LoginTapRegister
  <2>1. Busy = {} /\ \A r \in requests : r.kind # "mainCheck"
    BY <1>9, NotBusy, NoCheckOnForms DEF LoginTapRegister, TopIs
  <2>2. "Register" \in Screens /\ Start("Register", stack, requests)
        /\ UNCHANGED <<account, user>>
    BY <1>9 DEF LoginTapRegister, Screens, PublicScreens
  <2>3. stack' \in Seq(WithRecord')
    BY <1>1, <1>4, <2>2, StartRecorded
  <2>4. \A r \in requests' : r.kind # "mainCheck"
    BY <1>1, <1>4, <2>1, <2>2, StartAsks DEF TypeOK
  <2>. QED
    BY <1>1, <2>1, <2>2, <2>3, <2>4, IdleStart
<1>10. ASSUME NEW u \in Users, LoginTapLogin(u) \/ RegisterTapRegister(u)
       PROVE  SessionInv'
  <2>1. Busy = {} /\ \A r \in requests : r.kind # "mainCheck"
    BY <1>10, NotBusy, NoCheckOnForms DEF LoginTapLogin, RegisterTapRegister, TopIs
  <2>2. Running /\ stack' = WithDialog(stack, Top.id, TRUE)
    BY <1>10 DEF LoginTapLogin, RegisterTapRegister, TopIs
  <2>3. PICK q : /\ requests' = requests \cup {q}
                 /\ \/ Top.screen = "Login" /\ q.kind = "signIn"
                    \/ Top.screen = "Register" /\ q.kind = "create"
    <3>1. \A kind : Request(kind, Top.id, u).kind = kind
      BY DEF Request
    <3>. QED
      BY <1>10, <3>1 DEF LoginTapLogin, RegisterTapRegister, TopIs
  <2>4. stack' \in Seq(WithRecord)
        /\ Running' /\ Top'.dialog /\ Top'.screen = Top.screen
    <3>1. stack # <<>> /\ Top = Last(stack)
      BY <2>2 DEF Running, Top
    <3>2. \A b \in BOOLEAN :
             LET t == WithDialog(stack, Top.id, b)
             IN  /\ t \in Seq(WithRecord) /\ t # <<>>
                 /\ Last(t).screen = Top.screen /\ Last(t).dialog = b
      BY <1>1, <3>1, WithDialogIn, SetsAside
    <3>. QED
      BY <2>2, <3>2 DEF Running, Top
  <2>5. Busy' = {q}
    BY <2>1, <2>3 DEF Busy
  <2>6. AtWork(q)'
    BY <2>3, <2>4 DEF AtWork
  <2>7. \A r \in requests' : r.kind # "mainCheck"
    BY <2>1, <2>3
  <2>8. stack' \in Seq(WithRecord')
    BY <2>4, SeqMonotonic
  <2>. QED
    BY <2>5, <2>6, <2>7, <2>8 DEF SessionInv, OneAtWork, ChecksAlone
<1>11. CASE OpenCity
  <2>1. Busy = {}
    BY <1>11, NotBusy DEF OpenCity, TopIs
  <2>2. "City" \in Screens /\ Start("City", stack, requests) /\ UNCHANGED <<account, user>>
    BY <1>11 DEF OpenCity, Screens, PrivateScreens
  <2>3. stack' \in Seq(WithRecord')
    BY <1>1, <1>4, <2>2, StartRecorded
  <2>4. (\E r \in requests' : r.kind = "mainCheck") => stack \in Seq(PastForms)
    BY <1>1, <1>4, <2>2, StartAsks DEF TypeOK
  <2>. QED
    BY <1>1, <2>1, <2>2, <2>3, <2>4, IdleStart
<1>12. CASE CityTapFavorite
  BY <1>3, <1>12, BecomesIdle DEF CityTapFavorite, Crash, Busy
<1>13. CASE OpenUserInfo
  <2>1. Busy = {}
    BY <1>13, NotBusy DEF OpenUserInfo, TopIs
  <2>2. /\ "UserInfo" \in Screens /\ StartAsserting("UserInfo", stack, requests)
        /\ UNCHANGED <<account, user>>
    BY <1>13 DEF OpenUserInfo, Screens, PrivateScreens
  <2>3. stack' \in Seq(WithRecord')
    BY <1>1, <1>4, <2>2, StartRecorded
  <2>4. (\E r \in requests' : r.kind = "mainCheck") => stack \in Seq(PastForms)
    BY <1>1, <1>4, <2>2, StartAsks DEF TypeOK, StartAsserting, Crash
  <2>. QED
    BY <1>1, <2>1, <2>2, <2>3, <2>4, IdleStart
<1>14. CASE LogOut
  <2>1. Busy = {}
    BY <1>14, NotBusy DEF LogOut, TopIs
  <2>2. /\ "Main" \in Screens /\ Start("Main", Front(stack), requests)
        /\ UNCHANGED account /\ user' = Nobody
    BY <1>14 DEF LogOut, Screens, PublicScreens
  <2>3. /\ Front(stack) \in Seq(WithRecord) /\ Front(stack) \in Seq(Activities)
        /\ (stack \in Seq(PastForms) => Front(stack) \in Seq(PastForms))
    BY <1>1, <1>2, <1>14 DEF LogOut, TopIs
  <2>4. stack' \in Seq(WithRecord')
    BY <1>1, <1>4, <2>2, <2>3, StartRecorded
  <2>5. \A r \in requests' : r.kind = "mainCheck" => r \in requests
    <3>1. \A r \in requests' : r \in requests \/ (r \in Requests /\ r.uid = Nobody)
      BY <1>1, <1>4, <2>2, StartAsks DEF TypeOK
    <3>. QED
      BY <3>1, NobodyAssumption DEF Requests
  <2>. QED
    BY <1>1, <2>1, <2>2, <2>3, <2>4, <2>5, IdleStart
<1>. QED
  BY <1>5, <1>6, <1>7, <1>8, <1>9, <1>10, <1>11, <1>12, <1>13, <1>14 DEF UserStep

LEMMA NextRecorded ==
  ASSUME Hasty = FALSE, Cancelling = FALSE, SessionInv, [Next]_vars
  PROVE  SessionInv'
<1>1. TypeOK' /\ WithRecord \subseteq WithRecord'
  BY NextTyped, RecordsStay DEF SessionInv
<1>2. CASE Kill
  BY <1>1, <1>2, EmptySeq, BecomesIdle DEF Kill, Busy
<1>3. CASE UNCHANGED vars
  BY <1>3 DEF vars, SessionInv, TypeOK, WithRecord, OneAtWork, ChecksAlone, CheckAlone, Busy,
              AtWork, Running, Top, PastForms, Activities, PublicScreens, PrivateScreens,
              Requests, AccountStates, Crashes
<1>. QED
  BY <1>1, <1>2, <1>3, AnswerRecorded, UserStepRecorded DEF Next

(* Every UserMainActivity of the task was opened for an account with a     *)
(* record, although the check and the opening of the screen are two steps  *)
(* about a user who may have changed in between: as long as users wait for *)
(* MainActivity's check and leave the progress dialogs alone.  The         *)
(* database may refuse what it likes, and the process may end at any time. *)
THEOREM OnlyCompleteAccountsHolds ==
  ASSUME Hasty = FALSE, Cancelling = FALSE
  PROVE  Spec => []OnlyCompleteAccounts
<1>1. Init => SessionInv
  BY EmptySeq DEF Init, SessionInv, TypeOK, AccountStates, Crashes, OneAtWork, ChecksAlone, Busy
<1>2. SessionInv /\ [Next]_vars => SessionInv'
  BY NextRecorded
<1>3. SessionInv => OnlyCompleteAccounts
  BY LenProperties, ElementOfSeq DEF SessionInv, OnlyCompleteAccounts, WithRecord
<1>. QED
  BY <1>1, <1>2, <1>3, PTL DEF Spec
=============================================================================
