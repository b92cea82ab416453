----------------------------- MODULE RateWindow -----------------------------
(***************************************************************************)
(* RateLimiterService.acquire, and checkQps of the clients' guard, which   *)
(* is the same: a sorted set in Redis of the requests of one window.  A    *)
(* caller reads its clock, then sends in one batch the commands that       *)
(* remove what has left the window, add the request and count.  Redis      *)
(* executes what it reads of one connection back to back.                  *)
(***************************************************************************)
EXTENDS Integers, FiniteSets

CONSTANTS
  Requests,     \* bound: the requests for one key
  MaxRequests,
  Window,       \* windowMs
  MaxDelay,     \* how long a batch may be on its way
  Horizon       \* bound on time

ASSUME WindowAssumption ==
  /\ IsFiniteSet(Requests) /\ MaxRequests \in Nat /\ Horizon \in Nat
  /\ Window \in Nat \ {0} /\ MaxDelay \in 0..Window - 1

VARIABLES
  now,
  req,       \* req[r] : how far r is, and the clock when it was made
  logged,    \* the sorted set
  touched    \* when pexpire was called last

windowVars == <<now, req, logged, touched>>

WindowType ==
  /\ now \in 0..Horizon
  /\ req \in [Requests -> [pc : {"new", "sent", "allowed", "refused"}, at : Nat]]
  /\ logged \subseteq Requests
  /\ touched \in 0..Horizon

At(r, pc) == req[r].pc = pc

Allowed == {r \in Requests : At(r, "allowed")}
Sent == {r \in Requests : At(r, "sent")}

-----------------------------------------------------------------------------
ReadClock(r) ==
  /\ At(r, "new")
  /\ req' = [req EXCEPT ![r] = [pc |-> "sent", at |-> now]]
  /\ UNCHANGED <<now, logged, touched>>

(* Mutant of StaysInWindow: the window is one unit too short *)
StaysInShorterWindow(q, at) == req[q].at > at - Window + 1

(* zremrangebyscore removes what is not later than at - Window *)
StaysInWindow(q, at) == req[q].at > at - Window

(* A refused request stays in the set, and counts against later ones *)
CountRequest(r) ==
  /\ At(r, "sent")
  /\ logged' = {q \in logged : StaysInWindow(q, req[r].at)} \cup {r}
  /\ req' = [req EXCEPT ![r].pc = IF Cardinality(logged') <= MaxRequests
                                 THEN "allowed" ELSE "refused"]
  /\ touched' = now
  /\ UNCHANGED now

ExpireKey ==
  /\ logged # {} /\ now >= touched + Window
  /\ logged' = {}
  /\ UNCHANGED <<now, req, touched>>

(* No batch is under way for longer than MaxDelay *)
PassTime ==
  /\ now < Horizon /\ \A r \in Sent : now < req[r].at + MaxDelay
  /\ now' = now + 1
  /\ UNCHANGED <<req, logged, touched>>

-----------------------------------------------------------------------------
WindowInit ==
  /\ now = 0 /\ touched = 0 /\ logged = {}
  /\ req = [r \in Requests |-> [pc |-> "new", at |-> 0]]

WindowNext ==
  \/ \E r \in Requests : ReadClock(r) \/ CountRequest(r)
  \/ ExpireKey \/ PassTime

WindowSpec == WindowInit /\ [][WindowNext]_windowVars

-----------------------------------------------------------------------------
(* Requests are stamped by their callers and counted in another order, so  *)
(* a late one may be counted after the window it belongs to was cleared.   *)
(* Still no more than the limit are allowed in any stretch that is shorter *)
(* than the window by the time a batch may take.                           *)
WindowHolds ==
  \A first \in Allowed :
    Cardinality({r \in Allowed : req[r].at \in req[first].at..req[first].at + Window - MaxDelay - 1})
      <= MaxRequests
=============================================================================
