------------------------------ MODULE ApiClient ------------------------------
(***************************************************************************)
(* api_client/client.py and rate_limit.py: requests that share a limiter,  *)
(* a subscription key, and the refresh of that key.                        *)
(*                                                                         *)
(* A request is one call of _get_json.  All of them run in one event loop, *)
(* so a step is what happens between two awaits.  A request takes the key  *)
(* for its header, waits for the limiter, is sent, and gives its slot back *)
(* before it looks at the answer:                                          *)
(*                                                                         *)
(*   success, 404 and other errors   over                                  *)
(*   429, 5xx, network errors        wait, take the key again, send again  *)
(*   401, 403                        refresh the key, all over once more   *)
(*                                                                         *)
(* The refresh is the critical section of _refresh_lock: the frontend is   *)
(* read (its homepage names the chunk that holds the key), the key comes   *)
(* out, and is installed if it is another one than the client has.         *)
(*                                                                         *)
(* Keys are numbered in the order the frontend publishes them.  The API    *)
(* accepts every key from oldest on; it may revoke one before or after     *)
(* the frontend shows the next.                                            *)
(***************************************************************************)
EXTENDS Integers, FiniteSets

CONSTANTS
  Requests,       \* concurrent callers of the client, each one call at a time
  Mobile,         \* those that call the mobile namespace, whose key stays; a
                  \* client without a key_refresher treats all calls this way
  Nobody,         \* the lock is free
  MaxConcurrent,  \* max_concurrent
  RetryAttempts,  \* retry_attempts
  MaxKey          \* bound: keys the frontend publishes

ASSUME RequestsAssumption == IsFiniteSet(Requests) /\ Nobody \notin Requests
ASSUME MobileAssumption == Mobile \subseteq Requests
ASSUME LimitsAssumption ==
  /\ MaxConcurrent \in Nat \ {0}
  /\ RetryAttempts \in Nat \ {0}
  /\ MaxKey \in Nat

VARIABLES
  pc,       \* where each request is
  hdr,      \* the key in its header
  attempt,  \* number of its try
  round,    \* 1, or 2 after a refresh
  got,      \* the key it has read from the frontend
  free,     \* the limiter's free slots
  lock,     \* who holds _refresh_lock
  key,      \* api_key
  page,     \* the key the frontend shows
  oldest    \* the oldest key the API accepts

vars == <<pc, hdr, attempt, round, got, free, lock, key, page, oldest>>
call == <<hdr, attempt, round, got>>
world == <<page, oldest>>

Keys == 0 .. MaxKey

\* A call is over when it is "done", or "rejected" with AuthenticationError.
Over       == {"done", "rejected"}
Refreshing == {"reading", "read"}
PCs        == Over \cup Refreshing \cup {"queued", "sent", "backoff", "waiting"}

TypeOK ==
  /\ pc \in [Requests -> PCs]
  /\ hdr \in [Requests -> Keys]
  /\ attempt \in [Requests -> 1 .. RetryAttempts]
  /\ round \in [Requests -> {1, 2}]
  /\ got \in [Requests -> Keys]
  /\ free \in 0 .. MaxConcurrent
  /\ lock \in Requests \cup {Nobody}
  /\ key \in Keys
  /\ page \in Keys
  /\ oldest \in 0 .. MaxKey + 1

Init ==
  /\ pc = [r \in Requests |-> "done"]
  /\ hdr = [r \in Requests |-> 0]
  /\ attempt = [r \in Requests |-> 1]
  /\ round = [r \in Requests |-> 1]
  /\ got = [r \in Requests |-> 0]
  /\ free = MaxConcurrent
  /\ lock = Nobody
  /\ key = 0 /\ page = 0 /\ oldest = 0

Goto(r, to) == pc' = [pc EXCEPT ![r] = to]

\* _key_for_url; the mobile key never changes and is not compared with others.
KeyFor(r) == IF r \in Mobile THEN 0 ELSE key

\* The call returns or raises, and its local variables are gone.
Ends(r, how) ==
  /\ Goto(r, how)
  /\ hdr' = [hdr EXCEPT ![r] = 0]
  /\ attempt' = [attempt EXCEPT ![r] = 1]
  /\ round' = [round EXCEPT ![r] = 1]
  /\ got' = [got EXCEPT ![r] = 0]

-------------------------------------------------------------------------------
(* A request *)

Start(r) ==
  /\ pc[r] \in Over
  /\ Goto(r, "queued")
  /\ hdr' = [hdr EXCEPT ![r] = KeyFor(r)]
  /\ UNCHANGED <<attempt, round, got, free, lock, key, world>>

\* The limiter lets it through and it goes out, with the key it had on arrival.
Send(r) ==
  /\ pc[r] = "queued"
  /\ free > 0
  /\ free' = free - 1
  /\ Goto(r, "sent")
  /\ UNCHANGED <<call, lock, key, world>>

\* An answer, or the timeout, gives the slot back before anything else.
Answered(r) ==
  /\ pc[r] = "sent"
  /\ free' = free + 1
  /\ UNCHANGED <<lock, key, world>>

\* The API turns away a key older than the oldest it accepts; for the mobile
\* key either may be.
Accepted(r) == r \in Mobile \/ hdr[r] >= oldest

AnswerOk(r) ==
  /\ Answered(r)
  /\ Accepted(r)
  /\ Ends(r, "done")

\* 404, any other status or exception that is not retried, text that is no JSON.
AnswerFails(r) ==
  /\ Answered(r)
  /\ Ends(r, "done")

\* tenacity: wait and try again, until the last attempt's exception is raised.
AnswerTransient(r) ==
  /\ Answered(r)
  /\ IF attempt[r] < RetryAttempts
     THEN Goto(r, "backoff") /\ UNCHANGED call
     ELSE Ends(r, "done")

\* _once() begins again, and takes the key that is installed by then.
Resume(r) ==
  /\ pc[r] = "backoff"
  /\ Goto(r, "queued")
  /\ hdr' = [hdr EXCEPT ![r] = KeyFor(r)]
  /\ attempt' = [attempt EXCEPT ![r] = @ + 1]
  /\ UNCHANGED <<round, got, free, lock, key, world>>

\* 401 or 403, for the key or for another reason.  Only the first round of a
\* call with the ecommerce key leads to a refresh.
AnswerAuth(r) ==
  /\ Answered(r)
  /\ IF r \in Mobile \/ round[r] = 2
     THEN Ends(r, "rejected")
     ELSE /\ Goto(r, "waiting")
          /\ attempt' = [attempt EXCEPT ![r] = 1]
          /\ UNCHANGED <<hdr, round, got>>

-------------------------------------------------------------------------------
(* _try_refresh_key *)

Enter(r) ==
  /\ pc[r] = "waiting"
  /\ lock = Nobody
  /\ lock' = r
  /\ Goto(r, "reading")
  /\ UNCHANGED <<call, free, key, world>>

\* The homepage has come; the chunks it names are fixed, whatever is
\* published while they are fetched.
ReadPage(r) ==
  /\ pc[r] = "reading"
  /\ Goto(r, "read")
  /\ got' = [got EXCEPT ![r] = page]
  /\ UNCHANGED <<hdr, attempt, round, free, lock, key, world>>

\* Mutant: the lock is not given back when the extraction raises.
ExtractionFailsLocked(r) ==
  /\ pc[r] \in Refreshing
  /\ Ends(r, "rejected")
  /\ UNCHANGED <<free, lock, key, world>>

\* extract_config raises: the refresh returns False, the 401 is raised again.
ExtractionFails(r) ==
  /\ pc[r] \in Refreshing
  /\ lock' = Nobody
  /\ Ends(r, "rejected")
  /\ UNCHANGED <<free, key, world>>

\* The frontend shows the key the client already has.
SameKey(r) ==
  /\ pc[r] = "read"
  /\ got[r] = key
  /\ lock' = Nobody
  /\ Ends(r, "rejected")
  /\ UNCHANGED <<free, key, world>>

\* Mutant: the new key is used for this call and not kept.
NewKeyNotKept(r) ==
  /\ pc[r] = "read"
  /\ got[r] # key
  /\ lock' = Nobody
  /\ Goto(r, "queued")
  /\ hdr' = [hdr EXCEPT ![r] = got[r]]
  /\ round' = [round EXCEPT ![r] = 2]
  /\ got' = [got EXCEPT ![r] = 0]
  /\ UNCHANGED <<attempt, free, key, world>>

\* Mutant: the key is installed, and the call repeated, without a comparison.
AnyKey(r) ==
  /\ pc[r] = "read"
  /\ lock' = Nobody
  /\ key' = got[r]
  /\ Goto(r, "queued")
  /\ hdr' = [hdr EXCEPT ![r] = key']
  /\ round' = [round EXCEPT ![r] = 2]
  /\ got' = [got EXCEPT ![r] = 0]
  /\ UNCHANGED <<attempt, free, world>>

\* Another key: installed for all, and the call starts again with it.
NewKey(r) ==
  /\ pc[r] = "read"
  /\ got[r] # key
  /\ lock' = Nobody
  /\ key' = got[r]
  /\ Goto(r, "queued")
  /\ hdr' = [hdr EXCEPT ![r] = key']
  /\ round' = [round EXCEPT ![r] = 2]
  /\ got' = [got EXCEPT ![r] = 0]
  /\ UNCHANGED <<attempt, free, world>>

-------------------------------------------------------------------------------
(* Cancellation, and the world *)

\* Mutant: a cancelled request keeps its slot (release not in a finally).
CancelKeepsSlot(r) ==
  /\ pc[r] \notin Over
  /\ Ends(r, "done")
  /\ lock' = IF lock = r THEN Nobody ELSE lock
  /\ UNCHANGED <<free, key, world>>

\* The task is cancelled at whatever it awaits; the finally of the limiter and
\* the async with of the lock give back what it holds.
Cancel(r) ==
  /\ pc[r] \notin Over
  /\ Ends(r, "done")
  /\ free' = IF pc[r] = "sent" THEN free + 1 ELSE free
  /\ lock' = IF lock = r THEN Nobody ELSE lock
  /\ UNCHANGED <<key, world>>

\* The frontend moves on to the next key.
Publish ==
  /\ page < MaxKey
  /\ page' = page + 1
  /\ UNCHANGED <<pc, call, free, lock, key, oldest>>

\* The API stops accepting its oldest key; the frontend may still show it.
Revoke ==
  /\ oldest <= page
  /\ oldest' = oldest + 1
  /\ UNCHANGED <<pc, call, free, lock, key, page>>

Request(r) ==
  \/ Start(r) \/ Send(r) \/ Resume(r) \/ Cancel(r)
  \/ AnswerOk(r) \/ AnswerFails(r) \/ AnswerTransient(r) \/ AnswerAuth(r)
  \/ Enter(r) \/ ReadPage(r) \/ ExtractionFails(r) \/ SameKey(r) \/ NewKey(r)

Next == (\E r \in Requests : Request(r)) \/ Publish \/ Revoke

\* What happens by itself: every request is answered or times out, and so is
\* every extraction.
Goes(r) ==
  \/ AnswerOk(r) \/ AnswerFails(r) \/ AnswerTransient(r) \/ AnswerAuth(r)
  \/ Resume(r)
  \/ ReadPage(r) \/ ExtractionFails(r) \/ SameKey(r) \/ NewKey(r)

\* Semaphore and lock of asyncio serve their waiters in order.
Served(r) == Send(r) \/ Enter(r)

Fairness == \A r \in Requests : WF_vars(Goes(r)) /\ SF_vars(Served(r))

Spec == Init /\ [][Next]_vars /\ Fairness

\* What healing needs of the outside: calls go on being made, a revoked key is
\* answered with 401 at last, and the frontend can be read at last.
HealingSpec ==
  /\ Spec
  /\ \A r \in Requests \ Mobile :
       /\ WF_vars(Start(r))
       /\ SF_vars(AnswerAuth(r) /\ hdr[r] < oldest)
       /\ SF_vars(ReadPage(r))
       /\ SF_vars(NewKey(r))

-------------------------------------------------------------------------------
(* Properties *)

InFlight == {r \in Requests : pc[r] = "sent"}

SlotsAccounted == free = MaxConcurrent - Cardinality(InFlight)
LockAccounted  == \A r \in Requests : lock = r <=> pc[r] \in Refreshing

\* The limiter's slots are exactly those of the requests in flight, and the
\* lock belongs to the one request that is refreshing: no way a request can
\* end (answer, retry, refresh, cancellation) leaks either.
ResourcesAccounted == SlotsAccounted /\ LockAccounted

\* A slow refresh never puts back a key older than the one another refresh has
\* installed meanwhile, although it reads the frontend long before it installs.
KeyMovesForward == [][key' >= key]_vars

\* A call is repeated after a refresh only with a key newer than the one it was
\* turned away with, whatever others have installed while it waited.
RetryHasNewerKey ==
  [][\A r \in Requests :
       round[r] = 1 /\ round'[r] = 2 => hdr'[r] > hdr[r]]_vars

\* Every call ends: in retries, in the limiter's queue, behind other refreshes,
\* or in its own.
CallsEnd == \A r \in Requests : pc[r] \notin Over ~> pc[r] \in Over

\* If in the end the frontend shows a key the API accepts, and no more calls are
\* cancelled (the process goes on), the client ends up with one.
KeyHeals ==
  <>[](oldest <= page) /\ <>[][\A r \in Requests : ~Cancel(r)]_vars
    => <>[](oldest <= key)
===============================================================================
