--------------------------- MODULE KeepaliveBudget ---------------------------
(***************************************************************************)
(* How HttpBatchTransport's bodies outlive the page (batch-transport.ts:   *)
(* send, sendLeaving, holdKeepalive, beacon, drainNow).  A document has a  *)
(* budget for the bodies that may go on once it is gone, keepalive fetches *)
(* and beacons together; the transport counts its own until their requests *)
(* settle, and does not see the beacons it queued nor what the page itself *)
(* has in flight.  A page that is hidden may live on, with several of its  *)
(* batches unanswered.  The ring, the gates and the retries are in         *)
(* BatchTransport; here a body is its size, chosen as its batch is cut.    *)
(***************************************************************************)
EXTENDS Integers, FiniteSets, FiniteSetsExt

CONSTANTS KEEPALIVE_BODY_LIMIT,
          Sizes,          \* of a batch's body: one frame may be over the limit
          PageSizes,      \* what the page's own keepalive bodies may come to
          MaxBatches      \* bound: batches cut

VARIABLES keepaliveBytes,
          size,           \* of each batch cut, by its number; 0 before it is
          waiting,        \* batches that wait in the ring
          inFlight,       \* the batch in flight, 0 if none
          retrying,       \* ... which waits for its retry
          requests,       \* unsettled: [batch, held, leaving]
          beacons,        \* batches whose beacon the browser has queued
          pageBytes,      \* the page's own bodies in flight
          available,      \* this browser's fetch takes keepalive
          life,           \* "shown", "hiding" (drainNow runs), "gone"
          done,           \* ghost: batches answered or given up
          outlives,       \* ghost: batches the browser took to deliver whatever happens
          had,            \* ghost: batches it had no room for when they were last sent
          left            \* ghost: how often it took each as the page left

budget == <<keepaliveBytes, size, waiting, inFlight, retrying, requests, beacons,
            pageBytes, available, life, done, outlives, had, left>>

Ids == 1..MaxBatches
Cut == {b \in Ids : size[b] > 0}
Bytes(S, f) == MapThenSumSet(LAMBDA b : f[b], S)
BodyBytes(S) == MapThenSumSet(LAMBDA r : size[r.batch], S)
(* What the browser counts: what it will deliver whatever happens.         *)
InBrowser ==
  BodyBytes({r \in requests : r.held /\ available}) + Bytes(beacons, size) + pageBytes
Fits(n) == n <= KEEPALIVE_BODY_LIMIT - InBrowser
Within(n) == n <= KEEPALIVE_BODY_LIMIT - keepaliveBytes
Request(b, held, leaving) == [batch |-> b, held |-> held, leaving |-> leaving]

(* send: keepalive when it fits; over the browser's budget fetch throws,   *)
(* and the batch waits for its retry.                                      *)
Send(b, n) ==
  LET keepalive == Within(n)
      thrown == keepalive /\ available /\ ~Fits(n)
  IN /\ inFlight' = b /\ retrying' = thrown
     /\ requests' = IF thrown THEN requests ELSE requests \cup {Request(b, keepalive, FALSE)}
     /\ keepaliveBytes' = IF keepalive /\ ~thrown THEN keepaliveBytes + n ELSE keepaliveBytes
     /\ outlives' = IF keepalive /\ available /\ ~thrown THEN outlives \cup {b} ELSE outlives \ {b}
     /\ had' = IF Fits(n) /\ available THEN had \ {b} ELSE had \cup {b}
     /\ UNCHANGED <<beacons, left>>

(* sendLeaving: a keepalive fetch, or a beacon when that is unavailable,   *)
(* over the budget or thrown; what the beacon answers is not looked at.    *)
SendLeaving(b, n) ==
  LET fetched == available /\ Within(n) /\ Fits(n)
      queued == ~fetched /\ Fits(n)
  IN /\ requests' = IF fetched THEN requests \cup {Request(b, TRUE, TRUE)} ELSE requests
     /\ keepaliveBytes' = IF fetched THEN keepaliveBytes + n ELSE keepaliveBytes
     /\ beacons' = IF queued THEN beacons \cup {b} ELSE beacons
     /\ outlives' = IF Fits(n) THEN outlives \cup {b} ELSE outlives \ {b}
     /\ left' = IF Fits(n) THEN [left EXCEPT ![b] = @ + 1] ELSE left
     /\ had' = IF Fits(n) THEN had \ {b} ELSE had \cup {b}

(* Mutated: only an answer releases what was counted. *)
ReleasedByAnswer(r, ok) == IF r.held /\ ok THEN keepaliveBytes - size[r.batch] ELSE keepaliveBytes
(* holdKeepalive: counted until the request settles, however it does.      *)
release(r, ok) == IF r.held THEN keepaliveBytes - size[r.batch] ELSE keepaliveBytes

(* Mutated: a leaving request that is rejected is sent again, by a beacon. *)
BeaconIfRejected(r, ok) ==
  LET again == r.leaving /\ ~ok /\ Fits(size[r.batch])
  IN /\ beacons' = IF again THEN beacons \cup {r.batch} ELSE beacons
     /\ left' = IF again THEN [left EXCEPT ![r.batch] = @ + 1] ELSE left
(* sendLeaving: nothing is sent for what becomes of a leaving request.     *)
leavingSettled(r, ok) == UNCHANGED <<beacons, left>>
-----------------------------------------------------------------------------
BudgetInit ==
  /\ keepaliveBytes = 0 /\ size = [b \in Ids |-> 0] /\ waiting = 0
  /\ inFlight = 0 /\ retrying = FALSE /\ requests = {} /\ beacons = {} /\ pageBytes = 0
  /\ available \in BOOLEAN /\ life = "shown"
  /\ done = {} /\ outlives = {} /\ had = {} /\ left = [b \in Ids |-> 0]

Enqueue ==
  /\ life = "shown" /\ Cardinality(Cut) + waiting < MaxBatches
  /\ waiting' = waiting + 1
  /\ UNCHANGED <<keepaliveBytes, size, inFlight, retrying, requests, beacons, pageBytes,
                 available, life, done, outlives, had, left>>

(* takeBatch: the next batch, of some size.                                *)
Take(b, n) ==
  /\ waiting > 0 /\ b = Cardinality(Cut) + 1 /\ n \in Sizes
  /\ waiting' = waiting - 1 /\ size' = [size EXCEPT ![b] = n]
Pump ==
  /\ life = "shown" /\ inFlight = 0
  /\ \E b \in Ids, n \in Sizes : Take(b, n) /\ Send(b, n)
  /\ UNCHANGED <<pageBytes, available, life, done>>

(* A request settles: answered, or failed and to be retried or given up.   *)
(* That of a leaving page is read by nobody.                               *)
Settle ==
  /\ life = "shown"
  /\ \E r \in requests, ok \in BOOLEAN :
       /\ requests' = requests \ {r} /\ keepaliveBytes' = release(r, ok)
       /\ leavingSettled(r, ok)
       /\ IF r.leaving \/ r.batch # inFlight
          THEN UNCHANGED <<inFlight, retrying, done, outlives>>
          ELSE \E givenUp \in BOOLEAN :
            /\ ok => givenUp
            /\ inFlight' = IF givenUp THEN 0 ELSE inFlight
            /\ retrying' = ~givenUp
            /\ done' = IF givenUp THEN done \cup {r.batch} ELSE done
            /\ outlives' = outlives \ {r.batch}
  /\ UNCHANGED <<size, waiting, pageBytes, available, life, had>>

RetryTimerFires ==
  /\ life = "shown" /\ retrying /\ Send(inFlight, size[inFlight])
  /\ UNCHANGED <<size, waiting, pageBytes, available, life, done>>

Hide ==
  /\ life = "shown" /\ life' = "hiding"
  /\ UNCHANGED <<keepaliveBytes, size, waiting, inFlight, retrying, requests, beacons,
                 pageBytes, available, done, outlives, had, left>>
(* drainNow: the batch that waits for its retry, then the ring.            *)
DrainWaiting ==
  /\ life = "hiding" /\ retrying
  /\ inFlight' = 0 /\ retrying' = FALSE /\ SendLeaving(inFlight, size[inFlight])
  /\ UNCHANGED <<size, waiting, pageBytes, available, life, done>>
DrainNext ==
  /\ life = "hiding" /\ ~retrying
  /\ \E b \in Ids, n \in Sizes : Take(b, n) /\ SendLeaving(b, n)
  /\ UNCHANGED <<inFlight, retrying, pageBytes, available, life, done>>
(* The page goes, or is shown again.                                       *)
Drained ==
  /\ life = "hiding" /\ ~retrying /\ waiting = 0 /\ life' \in {"shown", "gone"}
  /\ UNCHANGED <<keepaliveBytes, size, waiting, inFlight, retrying, requests, beacons,
                 pageBytes, available, done, outlives, had, left>>

BeaconLeaves ==
  /\ life = "shown" /\ \E b \in beacons : beacons' = beacons \ {b}
  /\ UNCHANGED <<keepaliveBytes, size, waiting, inFlight, retrying, requests, pageBytes,
                 available, life, done, outlives, had, left>>
PageSends ==
  /\ life = "shown" /\ pageBytes' \in PageSizes
  /\ pageBytes' > pageBytes => Fits(pageBytes' - pageBytes)
  /\ UNCHANGED <<keepaliveBytes, size, waiting, inFlight, retrying, requests, beacons,
                 available, life, done, outlives, had, left>>

BudgetNext ==
  \/ Enqueue \/ Pump \/ Settle \/ RetryTimerFires \/ Hide
  \/ DrainWaiting \/ DrainNext \/ Drained \/ BeaconLeaves \/ PageSends
BudgetSpec == BudgetInit /\ [][BudgetNext]_budget
-----------------------------------------------------------------------------
BudgetTypeOK ==
  /\ keepaliveBytes \in 0..KEEPALIVE_BODY_LIMIT /\ InBrowser <= KEEPALIVE_BODY_LIMIT
  /\ inFlight \in 0..MaxBatches /\ (retrying => inFlight # 0)
  /\ requests \subseteq [batch : Ids, held : BOOLEAN, leaving : BOOLEAN]

(* A batch that was cut and not answered is lost with the page only if the *)
(* document's budget had no room for it, or its fetch no keepalive (send,  *)
(* sendLeaving).                                                           *)
SurvivesLeaving == life = "gone" => Cut \subseteq done \cup outlives \cup had

(* The browser takes a batch at most once as the page leaves, by a fetch   *)
(* or by a beacon, whatever becomes of that fetch (sendLeaving).           *)
LeavesOnce == \A b \in Ids : left[b] <= 1
=============================================================================
