---------------------------- MODULE KotlinSession ----------------------------
(***************************************************************************)
(* Who is signed in to the Android app and which screens its task holds.   *)
(*                                                                         *)
(* An account is made in two steps on two services: Firebase               *)
(* Authentication creates it (and signs it in), then the app writes its    *)
(* record to Users/<uid> of the database.  MainActivity and LoginActivity  *)
(* let in only accounts that have the record; RegisterActivity lets in the *)
(* one it has just written.  Every answer arrives in a callback that acts  *)
(* whatever has become of the activity that asked: finished activities     *)
(* still start others.                                                     *)
(***************************************************************************)
EXTENDS Naturals, Sequences, SequencesExt

CONSTANTS Users,       \* accounts: e-mail addresses, uids
          Nobody,      \* no user, no uid
          Hasty,       \* may the user tap Login before MainActivity has checked
          Cancelling,  \* may the user cancel a progress dialog with Back
          Refusals,    \* may the database refuse a read or a write
          MaxStarts    \* bound: no activity is opened by hand after so many

ASSUME NobodyAssumption == Nobody \notin Users
ASSUME HastyAssumption == Hasty \in BOOLEAN
ASSUME CancellingAssumption == Cancelling \in BOOLEAN
ASSUME RefusalsAssumption == Refusals \in BOOLEAN
ASSUME MaxStartsAssumption == MaxStarts \in Nat

VARIABLES account,     \* user -> what the two services hold of it
          user,        \* FirebaseAuth's currentUser
          stack,       \* the activities of the task, the visible one last
          requests,    \* what activities wait for or listen to
          starts,      \* activities started so far
          crash        \* why the process has died, if it has crashed

vars == <<account, user, stack, requests, starts, crash>>

\* "halfway": known to Authentication, without a record in the database.
AccountStates == {"none", "halfway", "complete"}
PublicScreens == {"Main", "Login", "Register"}
PrivateScreens == {"UserMain", "City", "UserInfo"}
\* uid is the user whose favs a UserMain activity shows.
Activities == [screen : PublicScreens \cup PrivateScreens, id : Nat,
               uid : Users \cup {Nobody}, dialog : BOOLEAN]
\* "created" and "saved": done by the service, the app not told yet.
Requests == [kind : {"mainCheck", "signIn", "loginCheck", "favs",
                     "create", "created", "save", "saved"},
             id : Nat, uid : Users]
Crashes == {"none", "noUser", "noRecord", "notImplemented"}

Running == stack # <<>>
Top == Last(stack)
TopIs(screen) == Running /\ Top.screen = screen
\* finish() of activity id, if it is still in the task.
Without(s, id) ==
  IF \E i \in DOMAIN s : s[i].id = id
  THEN RemoveAt(s, CHOOSE i \in DOMAIN s : s[i].id = id) ELSE s
\* The progress dialog of activity id, if the activity is still there.
WithDialog(s, id, shown) ==
  [i \in 1..Len(s) |-> IF s[i].id = id THEN [s[i] EXCEPT !.dialog = shown] ELSE s[i]]

Request(kind, id, uid) == [kind |-> kind, id |-> id, uid |-> uid]
Becomes(r, kind) == (requests \ {r}) \cup {[r EXCEPT !.kind = kind]}

\* Reads see a write of this process before the server has it.
HasRecord(u) ==
  account[u] = "complete" \/ \E r \in requests : r.kind = "save" /\ r.uid = u

\* An exception nobody catches ends the process.
Crash(why) ==
  /\ crash' = why
  /\ stack' = <<>>
  /\ requests' = {}

-----------------------------------------------------------------------------
(* startActivity and what onCreate does at once.  below is the task the    *)
(* activity is put on, asked the requests that are still under way.        *)

\* Mutant: the record is looked for although nobody is signed in.
StartUnchecked(screen, below, asked) ==
  /\ starts' = starts + 1
  /\ stack' = Append(below, [screen |-> screen, id |-> starts + 1, dialog |-> FALSE,
                             uid |-> IF screen = "UserMain" THEN user' ELSE Nobody])
  /\ requests' = asked \cup
       CASE screen = "Main" -> {Request("mainCheck", starts + 1, user')}
         [] screen = "UserMain" -> {Request("favs", starts + 1, user')}
         [] OTHER -> {}
  /\ crash' = "none"

Start(screen, below, asked) ==
  /\ starts' = starts + 1
  /\ stack' = Append(below, [screen |-> screen, id |-> starts + 1, dialog |-> FALSE,
                             uid |-> IF screen = "UserMain" THEN user' ELSE Nobody])
  /\ requests' = asked \cup
       IF user' = Nobody THEN {}
       ELSE CASE screen = "Main" -> {Request("mainCheck", starts + 1, user')}
              [] screen = "UserMain" -> {Request("favs", starts + 1, user')}
              [] OTHER -> {}
  /\ crash' = "none"

\* onCreate asserts that somebody is signed in (currentUser!!, uid!!).
StartAsserting(screen, below, asked) ==
  \/ user' # Nobody /\ Start(screen, below, asked)
  \/ user' = Nobody /\ Crash("noUser") /\ UNCHANGED starts

\* The bound on the activities users open.
OpenedByHand == starts < MaxStarts

-----------------------------------------------------------------------------
Init ==
  /\ account \in [Users -> {"none", "complete"}]
  /\ user = Nobody
  /\ stack = <<>>
  /\ requests = {}
  /\ starts = 0
  /\ crash = "none"

Launch ==
  /\ ~Running /\ OpenedByHand
  /\ UNCHANGED <<account, user>>
  /\ Start("Main", <<>>, requests)

\* The system ends the process; FirebaseAuth remembers who is signed in.
Kill ==
  /\ Running
  /\ stack' = <<>>
  /\ requests' = {}
  /\ UNCHANGED <<account, user, starts, crash>>

\* Back cancels a dialog, and otherwise finishes the visible activity.
BackCancelsDialog ==
  /\ Running /\ Top.dialog /\ Cancelling
  /\ stack' = WithDialog(stack, Top.id, FALSE)
  /\ UNCHANGED <<account, user, requests, starts, crash>>

Back ==
  /\ Running /\ ~Top.dialog
  /\ stack' = Front(stack)
  /\ UNCHANGED <<account, user, requests, starts, crash>>

-----------------------------------------------------------------------------
(* MainActivity                                                            *)

MainTapLogin ==
  /\ TopIs("Main") /\ OpenedByHand
  /\ Hasty \/ \A r \in requests : r.kind # "mainCheck"
  /\ UNCHANGED <<account, user>>
  /\ Start("Login", Front(stack), requests)

MainCheckAnswered(r) ==
  /\ r.kind = "mainCheck"
  /\ UNCHANGED <<account, user>>
  /\ \/ /\ HasRecord(r.uid)
        /\ StartAsserting("UserMain", Without(stack, r.id), requests \ {r})
     \/ /\ ~HasRecord(r.uid)
        /\ requests' = requests \ {r}
        /\ UNCHANGED <<stack, starts, crash>>

\* onCancelled is TODO("Not yet implemented"), which throws.
MainCheckRefused(r) ==
  /\ r.kind = "mainCheck" /\ Refusals
  /\ Crash("notImplemented")
  /\ UNCHANGED <<account, user, starts>>

-----------------------------------------------------------------------------
(* LoginActivity                                                           *)

LoginTapRegister ==
  /\ TopIs("Login") /\ ~Top.dialog /\ OpenedByHand
  /\ UNCHANGED <<account, user>>
  /\ Start("Register", stack, requests)

LoginTapLogin(u) ==
  /\ TopIs("Login") /\ ~Top.dialog
  /\ stack' = WithDialog(stack, Top.id, TRUE)
  /\ requests' = requests \cup {Request("signIn", Top.id, u)}
  /\ UNCHANGED <<account, user, starts, crash>>

SignInSucceeds(r) ==
  /\ r.kind = "signIn" /\ account[r.uid] # "none"
  /\ user' = r.uid
  /\ requests' = Becomes(r, "loginCheck")
  /\ UNCHANGED <<account, stack, starts, crash>>

SignInFails(r) ==
  /\ r.kind = "signIn"
  /\ stack' = WithDialog(stack, r.id, FALSE)
  /\ requests' = requests \ {r}
  /\ UNCHANGED <<account, user, starts, crash>>

\* Mutant: every account that signs in is let in.
LoginCheckLetsIn(r) ==
  /\ r.kind = "loginCheck"
  /\ UNCHANGED <<account, user>>
  /\ StartAsserting("UserMain", Without(stack, r.id), requests \ {r})

\* Mutant: the dialog is dismissed only on the way to UserMainActivity.
LoginCheckLeavesDialog(r) ==
  /\ r.kind = "loginCheck"
  /\ UNCHANGED <<account, user>>
  /\ \/ /\ HasRecord(r.uid)
        /\ StartAsserting("UserMain", Without(stack, r.id), requests \ {r})
     \/ /\ ~HasRecord(r.uid)
        /\ requests' = requests \ {r}
        /\ UNCHANGED <<stack, starts, crash>>

LoginCheckAnswered(r) ==
  /\ r.kind = "loginCheck"
  /\ UNCHANGED <<account, user>>
  /\ \/ /\ HasRecord(r.uid)
        /\ StartAsserting("UserMain", Without(stack, r.id), requests \ {r})
     \/ /\ ~HasRecord(r.uid)
        /\ stack' = WithDialog(stack, r.id, FALSE)
        /\ requests' = requests \ {r}
        /\ UNCHANGED <<starts, crash>>

\* onCancelled shows a toast and leaves the dialog up.
LoginCheckRefused(r) ==
  /\ r.kind = "loginCheck" /\ Refusals
  /\ requests' = requests \ {r}
  /\ UNCHANGED <<account, user, stack, starts, crash>>

-----------------------------------------------------------------------------
(* RegisterActivity                                                        *)

RegisterTapRegister(u) ==
  /\ TopIs("Register") /\ ~Top.dialog
  /\ stack' = WithDialog(stack, Top.id, TRUE)
  /\ requests' = requests \cup {Request("create", Top.id, u)}
  /\ UNCHANGED <<account, user, starts, crash>>

\* Authentication makes an account for an address it does not know.
AccountCreated(r) ==
  /\ r.kind = "create" /\ account[r.uid] = "none"
  /\ account' = [account EXCEPT ![r.uid] = "halfway"]
  /\ requests' = Becomes(r, "created")
  /\ UNCHANGED <<user, stack, starts, crash>>

CreateSucceeds(r) ==
  /\ r.kind = "created"
  /\ user' = r.uid
  /\ requests' = Becomes(r, "save")
  /\ UNCHANGED <<account, stack, starts, crash>>

\* The database takes the record.
RecordSaved(r) ==
  /\ r.kind = "save"
  /\ account' = [account EXCEPT ![r.uid] = "complete"]
  /\ requests' = Becomes(r, "saved")
  /\ UNCHANGED <<user, stack, starts, crash>>

SaveSucceeds(r) ==
  /\ r.kind = "saved"
  /\ UNCHANGED <<account, user>>
  /\ StartAsserting("UserMain", Without(stack, r.id), requests \ {r})

\* Mutant: the record of whoever is signed in is written also when the
\* account was refused (addOnCompleteListener for addOnSuccessListener).
RegistrationGoesOn(r) ==
  /\ r.kind \in {"create", "created"} /\ user # Nobody
  /\ requests' = (requests \ {r}) \cup {Request("save", r.id, user)}
  /\ UNCHANGED <<account, user, stack, starts, crash>>

\* The account is refused, the answer that it was made gets lost, or the
\* record is refused.
RegistrationFails(r) ==
  /\ r.kind \in {"create", "created", "save"}
  /\ r.kind = "save" => Refusals
  /\ stack' = WithDialog(stack, r.id, FALSE)
  /\ requests' = requests \ {r}
  /\ UNCHANGED <<account, user, starts, crash>>

-----------------------------------------------------------------------------
(* The screens of a user                                                   *)

\* The listener on "Users" is never removed.  It asserts that the user its
\* screen was opened for has favs (getValue(...)!!).
FavsMissing(r) ==
  /\ r.kind = "favs" /\ ~HasRecord(r.uid)
  /\ Crash("noRecord")
  /\ UNCHANGED <<account, user, starts>>

\* onCancelled is empty.
FavsRefused(r) ==
  /\ r.kind = "favs" /\ Refusals
  /\ requests' = requests \ {r}
  /\ UNCHANGED <<account, user, stack, starts, crash>>

OpenCity ==
  /\ TopIs("UserMain") /\ OpenedByHand
  /\ UNCHANGED <<account, user>>
  /\ Start("City", stack, requests)

\* addToFavorites asserts that somebody is signed in.
CityTapFavorite ==
  /\ TopIs("City") /\ user = Nobody
  /\ Crash("noUser")
  /\ UNCHANGED <<account, user, starts>>

OpenUserInfo ==
  /\ TopIs("UserMain") /\ OpenedByHand
  /\ UNCHANGED <<account, user>>
  /\ StartAsserting("UserInfo", stack, requests)

\* Only UserInfoActivity is finished: UserMainActivity stays in the task.
LogOut ==
  /\ TopIs("UserInfo") /\ OpenedByHand
  /\ user' = Nobody
  /\ UNCHANGED account
  /\ Start("Main", Front(stack), requests)

-----------------------------------------------------------------------------
Answer(r) ==
  \/ MainCheckAnswered(r) \/ MainCheckRefused(r)
  \/ SignInSucceeds(r) \/ SignInFails(r)
  \/ LoginCheckAnswered(r) \/ LoginCheckRefused(r)
  \/ AccountCreated(r) \/ CreateSucceeds(r)
  \/ RecordSaved(r) \/ SaveSucceeds(r) \/ RegistrationFails(r)
  \/ FavsMissing(r) \/ FavsRefused(r)

UserStep ==
  \/ Launch \/ Back \/ BackCancelsDialog
  \/ MainTapLogin \/ LoginTapRegister
  \/ \E u \in Users : LoginTapLogin(u) \/ RegisterTapRegister(u)
  \/ OpenCity \/ CityTapFavorite \/ OpenUserInfo \/ LogOut

Next == UserStep \/ Kill \/ \E r \in requests : Answer(r)

\* The services and the main thread answer every activity in the end.
Fairness ==
  \A id \in 1..MaxStarts :
    WF_vars(\E r \in requests : r.id = id /\ Answer(r))

Spec == Init /\ [][Next]_vars
FairSpec == Spec /\ Fairness

-----------------------------------------------------------------------------
TypeOK ==
  /\ account \in [Users -> AccountStates]
  /\ user \in Users \cup {Nobody}
  /\ stack \in Seq(Activities)
  /\ requests \subseteq Requests
  /\ starts \in Nat
  /\ crash \in Crashes

\* Every UserMain screen, wherever it is in the task, was opened for an
\* account with a record: its favs can be asserted (UserMainActivity.kt:36-37).
\* The two activities that check the record and the one that writes it act
\* on behalf of one user, and open the screen for whoever is signed in then.
OnlyCompleteAccounts ==
  \A i \in DOMAIN stack :
    stack[i].screen = "UserMain" => account[stack[i].uid] = "complete"

\* The assertion that a user has favs (UserMainActivity.kt:37) never fails.
NeverNoRecord == crash # "noRecord"

\* "Any interaction with the application is possible only for AUTHORIZED
\* users" (README.md:11): a screen of a user is visible only while somebody
\* is signed in.
AuthorizedOnly == TopIs("UserMain") \/ TopIs("City") \/ TopIs("UserInfo") => user # Nobody

\* A registration cut off between its two steps cannot be finished: once
\* Authentication knows an address and no write of its record is under way,
\* no sequence of logins and registrations gives it a record, or lets it in.
Stranded(u) ==
  /\ account[u] = "halfway"
  /\ \A r \in requests : r.uid = u => r.kind \notin {"created", "save"}
StrandedForGood == [][\A u \in Users : Stranded(u) => Stranded(u)']_vars

\* The dialog of a login or a registration closes, or its activity goes, or
\* the process ends: unless the database refuses the check of the record
\* (LoginActivity.kt:81-83), every path to an answer closes it.
DialogUp(id) == \E i \in DOMAIN stack : stack[i].id = id /\ stack[i].dialog
DialogEnds == \A id \in 1..MaxStarts : DialogUp(id) ~> ~DialogUp(id)

=============================================================================
