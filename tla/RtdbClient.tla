----------------------------- MODULE RtdbClient -----------------------------
(***************************************************************************)
(* One location of the Firebase Realtime Database, the server that keeps   *)
(* it and the client library inside every running app.                     *)
(*                                                                         *)
(* The client answers a read of a location it has unacknowledged writes    *)
(* for out of those writes, sends everything else in the order it was      *)
(* asked, and hands every answer to the app through the main queue.  A     *)
(* connection that breaks takes the requests and replies in flight with    *)
(* it: writes are kept and sent again, reads that had been sent are not.   *)
(*                                                                         *)
(* The module fixes no type for the values stored and for the calls: the   *)
(* module that extends it says what the app stores (val) and which         *)
(* completion closure an answer belongs to (call).                         *)
(***************************************************************************)
EXTENDS Naturals, Sequences, SequencesExt

CONSTANT Devices        \* running apps signed in to one account

VARIABLES store,        \* the value at the server
          online,       \* device -> is the connection established
          puts,         \* device -> writes not acknowledged, oldest first
          waitingGets,  \* device -> reads that wait for a connection
          toServer,     \* device -> requests on the connection
          toClient,     \* device -> replies on the connection
          main          \* device -> answers waiting on the app's main queue

linkVars == <<store, online, puts, waitingGets, toServer, toClient, main>>

\* What the server keeps, and sends, when there is no data: an empty list
\* written to a location is no data.
NoValue == <<>>

PutRequest(put) == [type |-> "put", val |-> put.val, call |-> put.call]
GetRequest(call) == [type |-> "get", val |-> NoValue, call |-> call]
Reply(request, ok, val) ==
  [type |-> request.type, ok |-> ok, val |-> val, call |-> request.call]

\* What the device takes the value at the location to be.
View(d) == IF puts[d] = <<>> THEN store ELSE Last(puts[d]).val

\* Nothing the device asked for is still on its way.
Idle(d) == /\ puts[d] = <<>> /\ waitingGets[d] = <<>>
           /\ toServer[d] = <<>> /\ toClient[d] = <<>> /\ main[d] = <<>>

-----------------------------------------------------------------------------
(* What an app calls.  rest is the device's main queue without the         *)
(* callback that makes the call.                                           *)

AnswerFromPendingWrite(d, call, rest) ==
  /\ puts[d] # <<>>
  /\ main' = [main EXCEPT ![d] =
                Append(rest, Reply(GetRequest(call), TRUE, Last(puts[d]).val))]
  /\ UNCHANGED <<waitingGets, toServer>>

SendGet(d, call, rest) ==
  /\ puts[d] = <<>> /\ online[d]
  /\ toServer' = [toServer EXCEPT ![d] = Append(@, GetRequest(call))]
  /\ main' = [main EXCEPT ![d] = rest]
  /\ UNCHANGED waitingGets

HoldGet(d, call, rest) ==
  /\ puts[d] = <<>> /\ ~online[d]
  /\ waitingGets' = [waitingGets EXCEPT ![d] = Append(@, call)]
  /\ main' = [main EXCEPT ![d] = rest]
  /\ UNCHANGED toServer

GetData(d, call, rest) ==
  /\ \/ AnswerFromPendingWrite(d, call, rest)
     \/ SendGet(d, call, rest)
     \/ HoldGet(d, call, rest)
  /\ UNCHANGED <<store, online, puts, toClient>>

SetValue(d, val, call, rest) ==
  LET put == [val |-> val, call |-> call] IN
  /\ puts' = [puts EXCEPT ![d] = Append(@, put)]
  /\ toServer' = IF online[d]
                   THEN [toServer EXCEPT ![d] = Append(@, PutRequest(put))]
                   ELSE toServer
  /\ main' = [main EXCEPT ![d] = rest]
  /\ UNCHANGED <<store, online, waitingGets, toClient>>

-----------------------------------------------------------------------------
(* The server takes the requests of a connection in order.                 *)

ServerReplies(d, ok, val) ==
  /\ toServer' = [toServer EXCEPT ![d] = Tail(@)]
  /\ toClient' = [toClient EXCEPT ![d] =
                    Append(@, Reply(Head(toServer[d]), ok, val))]
  /\ UNCHANGED <<online, puts, waitingGets, main>>

ServerAcceptsPut(d) ==
  /\ toServer[d] # <<>> /\ Head(toServer[d]).type = "put"
  /\ store' = Head(toServer[d]).val
  /\ ServerReplies(d, TRUE, NoValue)

ServerAnswersGet(d) ==
  /\ toServer[d] # <<>> /\ Head(toServer[d]).type = "get"
  /\ ServerReplies(d, TRUE, store)
  /\ UNCHANGED store

ServerDenies(d) ==
  /\ toServer[d] # <<>>
  /\ ServerReplies(d, FALSE, NoValue)
  /\ UNCHANGED store

-----------------------------------------------------------------------------
(* The client library.                                                     *)

PutAcknowledged(d) ==
  /\ toClient[d] # <<>> /\ Head(toClient[d]).type = "put"
  /\ puts[d] # <<>>
  /\ puts' = [puts EXCEPT ![d] = Tail(@)]
  /\ toClient' = [toClient EXCEPT ![d] = Tail(@)]
  /\ main' = [main EXCEPT ![d] = Append(@, Head(toClient[d]))]
  /\ UNCHANGED <<store, online, waitingGets, toServer>>

GetAnswered(d) ==
  /\ toClient[d] # <<>> /\ Head(toClient[d]).type = "get"
  /\ toClient' = [toClient EXCEPT ![d] = Tail(@)]
  /\ main' = [main EXCEPT ![d] = Append(@, Head(toClient[d]))]
  /\ UNCHANGED <<store, online, puts, waitingGets, toServer>>

\* Mutant: a read that timed out carries the value last seen all the same.
GetTimesOutWithValue(d) ==
  /\ ~online[d] /\ waitingGets[d] # <<>>
  /\ waitingGets' = [waitingGets EXCEPT ![d] = Tail(@)]
  /\ main' = [main EXCEPT ![d] =
                Append(@, Reply(GetRequest(Head(waitingGets[d])), FALSE, View(d)))]
  /\ UNCHANGED <<store, online, puts, toServer, toClient>>

GetTimesOut(d) ==
  /\ ~online[d] /\ waitingGets[d] # <<>>
  /\ waitingGets' = [waitingGets EXCEPT ![d] = Tail(@)]
  /\ main' = [main EXCEPT ![d] =
                Append(@, Reply(GetRequest(Head(waitingGets[d])), FALSE, NoValue))]
  /\ UNCHANGED <<store, online, puts, toServer, toClient>>

\* Mutant: the callbacks of requests sent before stay registered.
DisconnectKeepingCallbacks(d) ==
  /\ online[d]
  /\ online' = [online EXCEPT ![d] = FALSE]
  /\ toServer' = [toServer EXCEPT ![d] = <<>>]
  /\ UNCHANGED <<store, puts, waitingGets, toClient, main>>

Disconnect(d) ==
  /\ online[d]
  /\ online' = [online EXCEPT ![d] = FALSE]
  /\ toServer' = [toServer EXCEPT ![d] = <<>>]
  /\ toClient' = [toClient EXCEPT ![d] = <<>>]
  /\ UNCHANGED <<store, puts, waitingGets, main>>

Reconnect(d) ==
  /\ ~online[d]
  /\ online' = [online EXCEPT ![d] = TRUE]
  /\ toServer' = [toServer EXCEPT ![d] =
       [i \in 1..Len(puts[d]) |-> PutRequest(puts[d][i])] \o
       [i \in 1..Len(waitingGets[d]) |-> GetRequest(waitingGets[d][i])]]
  /\ waitingGets' = [waitingGets EXCEPT ![d] = <<>>]
  /\ UNCHANGED <<store, puts, toClient, main>>

\* The app's process ends: all of the above but the server is its memory.
KillApp(d) ==
  /\ online' = [online EXCEPT ![d] = TRUE]
  /\ puts' = [puts EXCEPT ![d] = <<>>]
  /\ waitingGets' = [waitingGets EXCEPT ![d] = <<>>]
  /\ toServer' = [toServer EXCEPT ![d] = <<>>]
  /\ toClient' = [toClient EXCEPT ![d] = <<>>]
  /\ main' = [main EXCEPT ![d] = <<>>]
  /\ UNCHANGED store

\* The steps the server and the library take by themselves on device d.
LinkStep(d) ==
  \/ ServerAcceptsPut(d) \/ ServerAnswersGet(d) \/ ServerDenies(d)
  \/ PutAcknowledged(d) \/ GetAnswered(d) \/ GetTimesOut(d) \/ Reconnect(d)

-----------------------------------------------------------------------------
(* The writes travelling on a connection, acknowledged first, are exactly  *)
(* the outstanding writes in their order: an acknowledgement is always for *)
(* the oldest outstanding write (FPersistentConnection.sendPut looks its   *)
(* put up by index, FRepo.ackWrite drops the one of that writeId).         *)
WritesTravelInOrder ==
  \A d \in Devices : online[d] =>
    LET inFlight == toClient[d] \o toServer[d]
        writes == {i \in 1..Len(inFlight) : inFlight[i].type = "put"}
    IN  \E at \in [1..Len(puts[d]) -> 1..Len(inFlight)] :
          /\ \A i, j \in 1..Len(puts[d]) : i < j => at[i] < at[j]
          /\ {at[i] : i \in 1..Len(puts[d])} = writes
          /\ \A i \in 1..Len(puts[d]) : inFlight[at[i]].call = puts[d][i].call

=============================================================================
