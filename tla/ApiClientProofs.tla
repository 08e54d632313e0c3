--------------------------- MODULE ApiClientProofs ---------------------------
(***************************************************************************)
(* Proofs about ApiClient for any requests, limits and number of keys: the *)
(* limiter and the lock are given back, and refreshes move the key forward.*)
(***************************************************************************)
EXTENDS ApiClient, FiniteSetTheorems, TLAPS

USE RequestsAssumption, MobileAssumption, LimitsAssumption

-------------------------------------------------------------------------------
(* The inductive invariant *)

\* Who waits for the next try has one left.
BackoffHasAttempt ==
  \A r \in Requests : pc[r] = "backoff" => attempt[r] < RetryAttempts

\* The installed key has been on the frontend; no header is ahead of it, and
\* no key that has been read and not yet installed is behind it.
KeysInOrder ==
  /\ key <= page
  /\ \A r \in Requests : hdr[r] <= key
  /\ \A r \in Requests : pc[r] = "read" => key <= got[r] /\ got[r] <= page

IInv ==
  /\ TypeOK
  /\ ResourcesAccounted
  /\ BackoffHasAttempt
  /\ KeysInOrder

-------------------------------------------------------------------------------
(* Slots *)

LEMMA InFlightFinite == IsFiniteSet(InFlight) /\ Cardinality(InFlight) \in Nat
<1>1. InFlight \in SUBSET Requests
  BY DEF InFlight
<1>2. IsFiniteSet(InFlight)
  BY <1>1, FS_Subset
<1> QED
  BY <1>2, FS_CardinalityType

\* The number of requests in flight when one of them moves.
LEMMA InFlightMoves ==
  ASSUME TypeOK, NEW r \in Requests, NEW to \in PCs, Goto(r, to)
  PROVE  /\ pc[r] # "sent" /\ to # "sent" =>
              Cardinality(InFlight') = Cardinality(InFlight)
         /\ pc[r] # "sent" /\ to = "sent" =>
              Cardinality(InFlight') = Cardinality(InFlight) + 1
         /\ pc[r] = "sent" /\ to # "sent" =>
              /\ Cardinality(InFlight') = Cardinality(InFlight) - 1
              /\ Cardinality(InFlight') \in Nat
<1> USE DEF InFlight, Goto, TypeOK
<1>1. CASE pc[r] # "sent" /\ to # "sent"
  <2>1. InFlight' = InFlight
    BY <1>1
  <2> QED
    BY <2>1, <1>1
<1>2. CASE pc[r] # "sent" /\ to = "sent"
  <2>1. InFlight' = InFlight \cup {r} /\ r \notin InFlight
    BY <1>2
  <2>2. Cardinality(InFlight \cup {r}) = Cardinality(InFlight) + 1
    BY <2>1, InFlightFinite, FS_AddElement
  <2> QED
    BY <2>1, <2>2, <1>2
<1>3. CASE pc[r] = "sent" /\ to # "sent"
  <2>1. InFlight' = InFlight \ {r} /\ r \in InFlight
    BY <1>3
  <2>2. /\ IsFiniteSet(InFlight \ {r})
        /\ Cardinality(InFlight \ {r}) = Cardinality(InFlight) - 1
    BY <2>1, InFlightFinite, FS_RemoveElement
  <2>3. Cardinality(InFlight \ {r}) \in Nat
    BY <2>2, FS_CardinalityType
  <2> QED
    BY <2>1, <2>2, <2>3, <1>3
<1>4. CASE pc[r] = "sent" /\ to = "sent"
  BY <1>4
<1> QED
  BY <1>1, <1>2, <1>3, <1>4

\* A step that keeps its slot, takes one, or gives it back keeps the account.
LEMMA SlotsStep ==
  ASSUME TypeOK, SlotsAccounted, NEW r \in Requests, NEW to \in PCs, Goto(r, to),
         \/ pc[r] # "sent" /\ to # "sent" /\ free' = free
         \/ pc[r] # "sent" /\ to = "sent" /\ free > 0 /\ free' = free - 1
         \/ pc[r] = "sent" /\ to # "sent" /\ free' = free + 1
  PROVE  SlotsAccounted' /\ (free \in 0 .. MaxConcurrent)'
<1>1. Cardinality(InFlight) \in Nat
  BY InFlightFinite
<1>2. free \in 0 .. MaxConcurrent /\ free = MaxConcurrent - Cardinality(InFlight)
  BY DEF TypeOK, SlotsAccounted
<1>3. CASE pc[r] # "sent" /\ to # "sent" /\ free' = free
  BY <1>1, <1>2, <1>3, InFlightMoves DEF SlotsAccounted
<1>4. CASE pc[r] # "sent" /\ to = "sent" /\ free > 0 /\ free' = free - 1
  BY <1>1, <1>2, <1>4, InFlightMoves DEF SlotsAccounted
<1>5. CASE pc[r] = "sent" /\ to # "sent" /\ free' = free + 1
  BY <1>1, <1>2, <1>5, InFlightMoves DEF SlotsAccounted
<1> QED
  BY <1>3, <1>4, <1>5

-------------------------------------------------------------------------------
(* The invariant *)

LEMMA Initially == Init => IInv
<1> SUFFICES ASSUME Init PROVE IInv
  OBVIOUS
<1>1. InFlight = {}
  BY DEF Init, InFlight
<1>2. SlotsAccounted
  BY <1>1, FS_EmptySet DEF SlotsAccounted, Init
<1>3. LockAccounted
  BY DEF LockAccounted, Init, Refreshing
<1> QED
  BY <1>2, <1>3 DEF IInv, TypeOK, ResourcesAccounted, BackoffHasAttempt,
     KeysInOrder, Init, PCs, Over, Keys

\* What a call leaves behind when it ends, whatever it held.
LEMMA EndsStep ==
  ASSUME IInv, NEW r \in Requests, NEW how \in Over, Ends(r, how),
         free' = IF pc[r] = "sent" THEN free + 1 ELSE free,
         lock' = IF lock = r THEN Nobody ELSE lock,
         UNCHANGED <<key, world>>
  PROVE  IInv'
<1> USE DEF IInv, ResourcesAccounted
<1>1. Goto(r, how) /\ how \in PCs /\ how # "sent"
  BY DEF Ends, PCs, Over
<1>2. SlotsAccounted' /\ (free \in 0 .. MaxConcurrent)'
  BY <1>1, SlotsStep
<1>3. TypeOK'
  BY <1>2 DEF TypeOK, Ends, Goto, PCs, Keys, world
<1>4. LockAccounted'
  BY DEF LockAccounted, Refreshing, Over, Ends, Goto, TypeOK
<1>5. BackoffHasAttempt'
  BY DEF BackoffHasAttempt, Over, Ends, Goto, TypeOK
<1>6. KeysInOrder'
  BY DEF KeysInOrder, Over, Ends, Goto, TypeOK, Keys, world
<1> QED
  BY <1>2, <1>3, <1>4, <1>5, <1>6

\* What a step that does not touch the lock, the installed key or the key read
\* leaves of the rest.
LEMMA MoveStep ==
  ASSUME IInv, NEW r \in Requests, NEW to \in {"queued", "sent", "backoff", "waiting"},
         Goto(r, to), pc[r] \notin Refreshing,
         \/ pc[r] # "sent" /\ to # "sent" /\ free' = free
         \/ pc[r] # "sent" /\ to = "sent" /\ free > 0 /\ free' = free - 1
         \/ pc[r] = "sent" /\ to # "sent" /\ free' = free + 1,
         \/ hdr' = hdr
         \/ hdr' = [hdr EXCEPT ![r] = KeyFor(r)],
         \/ attempt' = attempt /\ (to = "backoff" => attempt[r] < RetryAttempts)
         \/ to # "backoff" /\ attempt' = [attempt EXCEPT ![r] = 1]
         \/ pc[r] = "backoff" /\ to # "backoff" /\ attempt' = [attempt EXCEPT ![r] = @ + 1],
         UNCHANGED <<round, got, lock, key, world>>
  PROVE  IInv'
<1> USE DEF IInv, ResourcesAccounted
<1>1. to \in PCs
  BY DEF PCs, Refreshing, Over
<1>2. SlotsAccounted' /\ (free \in 0 .. MaxConcurrent)'
  BY <1>1, SlotsStep
<1>3. KeyFor(r) \in Keys /\ KeyFor(r) <= key
  BY DEF KeyFor, TypeOK, Keys
<1>4. (attempt \in [Requests -> 1 .. RetryAttempts])'
  BY DEF TypeOK, BackoffHasAttempt
<1>5. TypeOK'
  <2>1. (hdr \in [Requests -> Keys])'
    BY <1>3 DEF TypeOK
  <2>2. (pc \in [Requests -> PCs])'
    BY <1>1 DEF TypeOK, Goto
  <2> QED
    BY <1>2, <1>4, <2>1, <2>2 DEF TypeOK, world
<1>6. LockAccounted'
  BY DEF LockAccounted, Refreshing, Goto, TypeOK
<1>7. BackoffHasAttempt'
  BY DEF BackoffHasAttempt, Goto, TypeOK
<1>8. KeysInOrder'
  BY <1>3 DEF KeysInOrder, Goto, TypeOK, world, Keys
<1> QED
  BY <1>2, <1>5, <1>6, <1>7, <1>8

\* Every action keeps the invariant.
LEMMA Inductive == IInv /\ [Next]_vars => IInv'
<1> SUFFICES ASSUME IInv, [Next]_vars PROVE IInv'
  OBVIOUS
<1>a. TypeOK /\ SlotsAccounted /\ LockAccounted /\ BackoffHasAttempt /\ KeysInOrder
  BY DEF IInv, ResourcesAccounted
<1> "sent" \notin Refreshing /\ {"queued", "sent", "backoff", "waiting"} \subseteq PCs
    /\ Refreshing \subseteq PCs
  BY DEF Refreshing, PCs, Refreshing
<1>1. CASE UNCHANGED vars
  BY <1>1 DEF vars, call, world, IInv, TypeOK, ResourcesAccounted, SlotsAccounted,
     LockAccounted, BackoffHasAttempt, KeysInOrder, InFlight
<1>2. CASE Publish
  <2>1. TypeOK' /\ SlotsAccounted' /\ LockAccounted' /\ BackoffHasAttempt'
    BY <1>2, <1>a DEF Publish, call, TypeOK, SlotsAccounted, LockAccounted,
       BackoffHasAttempt, InFlight, Keys
  <2>2. KeysInOrder'
    BY <1>2, <1>a DEF Publish, call, TypeOK, KeysInOrder, Keys
  <2> QED
    BY <2>1, <2>2 DEF IInv, ResourcesAccounted
<1>3. CASE Revoke
  BY <1>3, <1>a DEF Revoke, call, IInv, TypeOK, ResourcesAccounted, SlotsAccounted,
     LockAccounted, BackoffHasAttempt, InFlight, Keys, KeysInOrder
<1>4. ASSUME NEW r \in Requests, Start(r) PROVE IInv'
  BY <1>4, MoveStep DEF Start, Over, Refreshing
<1>5. ASSUME NEW r \in Requests, Send(r) PROVE IInv'
  BY <1>5, <1>a, MoveStep DEF Send, call, TypeOK, Refreshing
<1>6. ASSUME NEW r \in Requests, Resume(r) PROVE IInv'
  BY <1>6, <1>a, MoveStep DEF Resume, TypeOK, Refreshing
<1>7. ASSUME NEW r \in Requests, Cancel(r) PROVE IInv'
  BY <1>7, EndsStep DEF Cancel, Over
<1>8. ASSUME NEW r \in Requests, Answered(r), NEW how \in Over, Ends(r, how)
      PROVE  IInv'
  <2>1. lock # r
    BY <1>8, <1>a DEF Answered, LockAccounted
  <2> QED
    BY <1>8, <2>1, EndsStep DEF Answered
<1>9. ASSUME NEW r \in Requests, AnswerOk(r) \/ AnswerFails(r) PROVE IInv'
  BY <1>8, <1>9 DEF AnswerOk, AnswerFails, Over
<1>10. ASSUME NEW r \in Requests, AnswerTransient(r) PROVE IInv'
  <2>1. CASE attempt[r] < RetryAttempts
    BY <1>10, <2>1, <1>a, MoveStep DEF AnswerTransient, Answered, call, TypeOK
  <2>2. CASE ~(attempt[r] < RetryAttempts)
    BY <1>10, <2>2, <1>8 DEF AnswerTransient, Over
  <2> QED
    BY <2>1, <2>2
<1>11. ASSUME NEW r \in Requests, AnswerAuth(r) PROVE IInv'
  <2>1. CASE r \in Mobile \/ round[r] = 2
    BY <1>11, <2>1, <1>8 DEF AnswerAuth, Over
  <2>2. CASE ~(r \in Mobile \/ round[r] = 2)
    BY <1>11, <2>2, <1>a, MoveStep DEF AnswerAuth, Answered, call, TypeOK
  <2> QED
    BY <2>1, <2>2
<1>12. ASSUME NEW r \in Requests, Enter(r) PROVE IInv'
  <2> USE <1>12, <1>a DEF Enter
  <2>1. SlotsAccounted' /\ (free \in 0 .. MaxConcurrent)'
    BY SlotsStep DEF PCs, Refreshing, Over
  <2>2. TypeOK'
    BY <2>1 DEF TypeOK, Goto, call, world, PCs, Refreshing
  <2>3. LockAccounted'
    BY DEF LockAccounted, Goto, TypeOK, Refreshing
  <2>4. BackoffHasAttempt' /\ KeysInOrder'
    BY DEF BackoffHasAttempt, KeysInOrder, Goto, TypeOK, call, world
  <2> QED
    BY <2>1, <2>2, <2>3, <2>4 DEF IInv, ResourcesAccounted
<1>13. ASSUME NEW r \in Requests, ReadPage(r) PROVE IInv'
  <2> USE <1>13, <1>a DEF ReadPage
  <2>1. SlotsAccounted' /\ (free \in 0 .. MaxConcurrent)'
    BY SlotsStep DEF PCs, Refreshing, Over
  <2>2. TypeOK'
    BY <2>1 DEF TypeOK, Goto, world, PCs, Refreshing
  <2>3. LockAccounted'
    BY DEF LockAccounted, Goto, TypeOK, Refreshing
  <2>4. BackoffHasAttempt' /\ KeysInOrder'
    BY DEF BackoffHasAttempt, KeysInOrder, Goto, TypeOK, world, Keys
  <2> QED
    BY <2>1, <2>2, <2>3, <2>4 DEF IInv, ResourcesAccounted
<1>14. ASSUME NEW r \in Requests, ExtractionFails(r) \/ SameKey(r) PROVE IInv'
  <2>1. pc[r] \in Refreshing /\ lock = r
    BY <1>14, <1>a DEF ExtractionFails, SameKey, LockAccounted, Refreshing
  <2> QED
    BY <1>14, <2>1, EndsStep DEF ExtractionFails, SameKey, Over
<1>15. ASSUME NEW r \in Requests, NewKey(r) PROVE IInv'
  <2> USE <1>15, <1>a DEF NewKey
  <2>1. SlotsAccounted' /\ (free \in 0 .. MaxConcurrent)'
    BY SlotsStep DEF PCs, Refreshing, Over
  <2>2. TypeOK'
    <3>1. (pc \in [Requests -> PCs])'
      BY DEF TypeOK, Goto, PCs
    <3>2. (hdr \in [Requests -> Keys] /\ key \in Keys)'
      BY DEF TypeOK
    <3>3. (got \in [Requests -> Keys] /\ round \in [Requests -> {1, 2}])'
      BY DEF TypeOK, Keys
    <3>4. lock' = Nobody /\ UNCHANGED <<attempt, page, oldest>>
      BY DEF world
    <3> QED
      BY <2>1, <3>1, <3>2, <3>3, <3>4 DEF TypeOK
  <2>3. lock = r /\ \A s \in Requests : s # r => pc[s] \notin Refreshing
    BY DEF LockAccounted, Refreshing
  <2>4. LockAccounted'
    BY <2>3 DEF LockAccounted, Goto, TypeOK, Refreshing
  <2>5. key < got[r] /\ got[r] <= page
    BY DEF KeysInOrder, TypeOK, Keys
  <2>6. KeysInOrder'
    BY <2>3, <2>5 DEF KeysInOrder, Goto, TypeOK, world, Keys, Refreshing
  <2>7. BackoffHasAttempt'
    BY DEF BackoffHasAttempt, Goto, TypeOK
  <2> QED
    BY <2>1, <2>2, <2>4, <2>6, <2>7 DEF IInv, ResourcesAccounted
<1> QED
  BY <1>1, <1>2, <1>3, <1>4, <1>5, <1>6, <1>7, <1>9, <1>10, <1>11, <1>12, <1>13,
     <1>14, <1>15 DEF Next, Request

\* The inductive invariant holds of every behaviour of the client.
THEOREM Invariant == Spec => []IInv
BY Initially, Inductive, PTL DEF Spec

-------------------------------------------------------------------------------
(* Properties *)

\* The client's variables stay within their types: tries and slots within their
\* limits above all, which no action tests when it moves them.
THEOREM TypeCorrect == Spec => []TypeOK
<1>1. IInv => TypeOK
  BY DEF IInv
<1> QED
  BY <1>1, Invariant, PTL

\* Slots of the limiter and the lock are never leaked or given back twice, for
\* any number of requests, cancelled or not.
THEOREM NothingLeaks == Spec => []ResourcesAccounted
<1>1. IInv => ResourcesAccounted
  BY DEF IInv
<1> QED
  BY <1>1, Invariant, PTL

\* What a refresh does to the key and the header.
LEMMA RefreshStep ==
  ASSUME IInv, [Next]_vars
  PROVE  /\ key' >= key
         /\ \A r \in Requests :
              round[r] = 1 /\ round'[r] = 2 => hdr'[r] > hdr[r]
<1>a. TypeOK /\ KeysInOrder
  BY DEF IInv
<1>1. ASSUME NEW r \in Requests, NewKey(r)
      PROVE  /\ key' >= key
             /\ \A s \in Requests :
                  round[s] = 1 /\ round'[s] = 2 => hdr'[s] > hdr[s]
  <2>1. key \in Int /\ got[r] \in Int /\ key < got[r]
    BY <1>1, <1>a DEF NewKey, KeysInOrder, TypeOK, Keys
  <2>2. key' = got[r] /\ hdr'[r] = got[r] /\ hdr[r] \in Int /\ hdr[r] <= key
    BY <1>1, <1>a DEF NewKey, TypeOK, KeysInOrder, Keys
  <2>3. \A s \in Requests : s # r => round'[s] = round[s]
    BY <1>1, <1>a DEF NewKey, TypeOK
  <2> QED
    BY <2>1, <2>2, <2>3
<1>2. ASSUME ~(\E r \in Requests : NewKey(r))
      PROVE  key' = key /\ \A s \in Requests : round'[s] = round[s] \/ round'[s] = 1
  BY <1>2, <1>a DEF Next, Request, Start, Send, Resume, Cancel, Answered, AnswerOk,
     AnswerFails, AnswerTransient, AnswerAuth, Enter, ReadPage, ExtractionFails,
     SameKey, Publish, Revoke, Ends, vars, call, TypeOK
<1> QED
  BY <1>1, <1>2, <1>a DEF TypeOK, Keys

\* The installed key only moves forward, however slow a refresh is.
THEOREM KeyForward == Spec => KeyMovesForward
<1>1. IInv /\ [Next]_vars => [key' >= key]_vars
  BY RefreshStep
<1> QED
  BY <1>1, Invariant, PTL DEF Spec, KeyMovesForward

\* A call repeated after a refresh carries a key newer than the rejected one.
THEOREM RetryNewer == Spec => RetryHasNewerKey
<1>1. IInv /\ [Next]_vars =>
        [\A r \in Requests : round[r] = 1 /\ round'[r] = 2 => hdr'[r] > hdr[r]]_vars
  BY RefreshStep
<1> QED
  BY <1>1, Invariant, PTL DEF Spec, RetryHasNewerKey

===============================================================================
