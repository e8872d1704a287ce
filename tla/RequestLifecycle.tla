-------------------------- MODULE RequestLifecycle --------------------------
(***************************************************************************)
(* What a driver promises about the I/O requests it is given, whatever it   *)
(* does with their data: a request has one owner at a time (its client, a    *)
(* queue, or one handler), a handler that gives up what it came with does   *)
(* so before it takes something else off a queue, and every handler in the  *)
(* end gives up all that it holds.                                          *)
(*                                                                         *)
(* A handler is named by the request it was called with.                    *)
(***************************************************************************)
CONSTANTS Requests, Client, Queue

VARIABLE owner

Holds(h) == {r \in Requests : owner[r] = h}

Init == owner = [r \in Requests |-> Client]

\* The client sends r; a handler of its own starts on it.
Present(r) ==
  /\ owner[r] = Client
  /\ Holds(r) = {}
  /\ owner' = [owner EXCEPT ![r] = r]

\* Handler h takes a second request off a queue.
Take(h, r) ==
  /\ owner[r] = Queue
  /\ Holds(h) = {h}
  /\ owner' = [owner EXCEPT ![r] = h]

\* Handler h completes r, which returns to the client.
Complete(h, r) ==
  /\ owner[r] = h
  /\ owner' = [owner EXCEPT ![r] = Client]

\* Handler h leaves r to a queue: its own request only if it took no other.
Park(h, r) ==
  /\ owner[r] = h
  /\ r = h => Holds(h) = {h}
  /\ owner' = [owner EXCEPT ![r] = Queue]

\* A queue completes a cancelled request.
Withdraw(r) ==
  /\ owner[r] = Queue
  /\ owner' = [owner EXCEPT ![r] = Client]

GiveUp(h) == \E r \in Requests : Complete(h, r) \/ Park(h, r)

Next ==
  \E r \in Requests :
    \/ Present(r)
    \/ Withdraw(r)
    \/ GiveUp(r)
    \/ \E h \in Requests : Take(h, r)

Spec == Init /\ [][Next]_owner

FairSpec == Spec /\ \A h \in Requests : WF_owner(GiveUp(h))
=============================================================================
