--------------------- MODULE RequestSerializationProofs ---------------------
(***************************************************************************)
(* Safety of the app-server's request queues and connection gates, proved  *)
(* for any number of requests, keys and connections.                       *)
(***************************************************************************)
EXTENDS RequestSerialization, SequenceTheorems, TLAPS

USE BoundAssumption, NoKeyAssumption, NoConnAssumption DEF Requests

-----------------------------------------------------------------------------
(* The inductive invariant.                                                *)

\* A request that has not arrived has left no trace.
Fresh ==
  \A r \in Requests :
    /\ state[r] = "new" <=> r > arrivals
    /\ r > arrivals => drain[r] = "none"
    /\ r <= arrivals => conn[r] \in Conns

\* The queues hold the waiting requests, in the order of their arrival.
Queues ==
  /\ \A k \in Keys : k \notin present => queue[k] = << >>
  /\ \A k \in Keys : \A i \in 1 .. Len(queue[k]) :
       state[queue[k][i]] = "queued" /\ key[queue[k][i]] = k
  /\ \A k \in Keys : \A i, j \in 1 .. Len(queue[k]) :
       i < j => queue[k][i] < queue[k][j]
  /\ \A r \in Requests :
       state[r] = "queued" =>
         /\ key[r] \in Keys
         /\ \E i \in 1 .. Len(queue[key[r]]) : queue[key[r]][i] = r

\* What a drain task joins: its own key's requests that left the queue and
\* may not have ended, one, or shared reads only.
Batches ==
  /\ \A d \in Requests : drain[d] # "join" => batch[d] = {}
  /\ \A d \in Requests : \A r \in batch[d] :
       key[r] = key[d] /\ state[r] \in {"popped", "running", "done", "dropped"}
  /\ \A r \in Requests :
       key[r] # NoKey /\ state[r] \in {"popped", "running"}
         => \E d \in Requests : r \in batch[d]
  /\ \A d \in Requests : \A r, s \in batch[d] :
       r = s \/ (access[r] = "SharedRead" /\ access[s] = "SharedRead")

\* Requests leave their queue and their batch in the order of their arrival.
Ordered ==
  /\ \A r, s \in Requests :
       /\ key[r] = key[s] /\ key[r] # NoKey
       /\ state[r] = "queued" /\ state[s] \notin {"new", "queued"}
       => s < r
  /\ \A d, s \in Requests : \A r \in batch[d] :
       key[r] = key[s] /\ Ended(s) /\ s \notin batch[d] => s < r

\* A gate whose connection is cleaned up, or whose processor has stopped, is
\* closed and has no tokens left that were waited for.
Gates ==
  /\ \A c \in Conns : cleanup[c] # "none" => gate[c] = "closed"
  /\ \A c \in Conns : cleanup[c] = "done" => Inflight(c) = {}
  /\ loop = "stopped" =>
       \A c \in Conns : /\ gate[c] = "closed" /\ cleanup[c] # "waiting"
                        /\ cleanup[c] = "none" => Inflight(c) = {}

QInv == TypeOK /\ Fresh /\ Queues /\ Batches /\ Ordered /\ OneDrainPerQueue

\* It holds before the first request.
LEMMA InitQInv == Init => QInv
  BY DEF Init, QInv, TypeOK, Fresh, Queues, Batches, Ordered, OneDrainPerQueue, Ended, Accesses

\* What is in a queue.
LEMMA InQueue ==
  ASSUME QInv, NEW l \in Keys, NEW i \in 1 .. Len(queue[l])
  PROVE  queue[l][i] \in Requests /\ state[queue[l][i]] = "queued" /\ key[queue[l][i]] = l
<1>1. queue[l] \in Seq(Requests)
  BY DEF QInv, TypeOK
<1>2. queue[l][i] \in Requests
  BY <1>1
<1>3. state[queue[l][i]] = "queued" /\ key[queue[l][i]] = l
  BY DEF QInv, Queues
<1>4. QED
  BY <1>2, <1>3

-----------------------------------------------------------------------------
\* enqueue keeps the order of the queue and spawns a drain task exactly when
\* there was none.
LEMMA EnqueueStep ==
  ASSUME QInv, NEW r \in Requests, NEW c \in Conns, NEW k \in Keys,
         NEW a \in Accesses, DispatchSerialized(r, c, k, a)
  PROVE  QInv'
<1> USE DEF QInv, DispatchSerialized, Arrives, Enqueue, request, queues, closing, Accesses
<1>1. r = arrivals + 1 /\ state[r] = "new" /\ drain[r] = "none"
  BY DEF TypeOK, Fresh
<1>2. TypeOK'
  BY <1>1 DEF TypeOK
<1>3. Fresh'
  BY <1>1 DEF TypeOK, Fresh
<1>4. \A d \in Requests : r \notin batch[d]
  BY <1>1 DEF TypeOK, Batches
<1>5. /\ \A l \in Keys : l # k => queue'[l] = queue[l]
      /\ queue'[k] \in Seq(Requests) /\ Len(queue'[k]) = Len(queue[k]) + 1
      /\ \A i \in 1 .. Len(queue[k]) : queue'[k][i] = queue[k][i]
      /\ queue'[k][Len(queue[k]) + 1] = r
  BY DEF TypeOK
<1>6. \A l \in Keys : \A i \in 1 .. Len(queue[l]) : queue[l][i] \in Requests /\ queue[l][i] < r
  <2> TAKE l \in Keys
  <2> TAKE i \in 1 .. Len(queue[l])
  <2>1. queue[l][i] \in Requests /\ state[queue[l][i]] = "queued"
    BY InQueue
  <2>2. queue[l][i] <= arrivals
    BY <2>1 DEF TypeOK, Fresh
  <2>3. QED
    BY <2>1, <2>2, <1>1 DEF TypeOK
<1>7. Queues'
  <2>1. (\A l \in Keys : l \notin present => queue[l] = << >>)'
    BY <1>5 DEF TypeOK, Queues
  <2>2. (\A l \in Keys : \A i \in 1 .. Len(queue[l]) :
           state[queue[l][i]] = "queued" /\ key[queue[l][i]] = l)'
    BY <1>1, <1>5, <1>6 DEF TypeOK, Queues
  <2>3. (\A l \in Keys : \A i, j \in 1 .. Len(queue[l]) : i < j => queue[l][i] < queue[l][j])'
    BY <1>1, <1>5, <1>6 DEF TypeOK, Queues
  <2>4. (\A s \in Requests : state[s] = "queued" =>
           key[s] \in Keys /\ \E i \in 1 .. Len(queue[key[s]]) : queue[key[s]][i] = s)'
    <3> SUFFICES ASSUME NEW s \in Requests, state'[s] = "queued"
                 PROVE  key'[s] \in Keys
                        /\ \E i \in 1 .. Len(queue'[key'[s]]) : queue'[key'[s]][i] = s
      OBVIOUS
    <3>1. CASE s = r
      <4>1. key'[s] = k /\ Len(queue[k]) + 1 \in 1 .. Len(queue'[k])
        BY <3>1, <1>5 DEF TypeOK
      <4>2. QED
        BY <4>1, <3>1, <1>5
    <3>2. CASE s # r
      <4>1. key'[s] = key[s] /\ state[s] = "queued"
        BY <3>2 DEF TypeOK
      <4>2. PICK i \in 1 .. Len(queue[key[s]]) : key[s] \in Keys /\ queue[key[s]][i] = s
        BY <4>1 DEF Queues
      <4>3. i \in 1 .. Len(queue'[key[s]]) /\ queue'[key[s]][i] = s
        BY <4>2, <1>5 DEF TypeOK
      <4>4. QED
        BY <4>1, <4>2, <4>3
    <3>3. QED
      BY <3>1, <3>2
  <2>5. QED
    BY <2>1, <2>2, <2>3, <2>4 DEF Queues
<1>8. Batches'
  BY <1>1, <1>4 DEF TypeOK, Batches
<1>9. Ordered'
  BY <1>1, <1>4 DEF TypeOK, Fresh, Ordered, Batches, Ended
<1>10. OneDrainPerQueue'
  BY <1>1 DEF TypeOK, Fresh, OneDrainPerQueue
<1>11. QED
  BY <1>2, <1>3, <1>7, <1>8, <1>9, <1>10

\* What remains of a queue when its first n requests are taken.
LEMMA SuffixProperties ==
  ASSUME NEW S, NEW q \in Seq(S), NEW n \in 1 .. Len(q)
  PROVE  /\ SubSeq(q, n + 1, Len(q)) \in Seq(S)
         /\ Len(SubSeq(q, n + 1, Len(q))) = Len(q) - n
         /\ \A i \in 1 .. Len(q) - n : SubSeq(q, n + 1, Len(q))[i] = q[n + i]
<1>1. n \in Nat /\ Len(q) \in Nat /\ n <= Len(q)
  OBVIOUS
<1>2. CASE n = Len(q)
  BY <1>1, <1>2, SubSeqProperties
<1>3. CASE n < Len(q)
  BY <1>1, <1>3, SubSeqProperties
<1>4. QED
  BY <1>1, <1>2, <1>3

\* drain takes what arrived first, and nothing while it still joins.
LEMMA PopStep ==
  ASSUME QInv, NEW d \in Requests, DrainPops(d)
  PROVE  QInv'
<1> USE DEF QInv, request, queues, closing
<1> DEFINE k == key[d]
           q == queue[k]
<1>1. drain[d] = "loop" /\ k \in Keys /\ k \in present /\ batch[d] = {}
  BY DEF DrainPops, TypeOK, OneDrainPerQueue, Batches
<1>2. q \in Seq(Requests)
  BY <1>1 DEF TypeOK
<1>3. PICK n \in 1 .. Len(q) :
        /\ Takes(q, n)
        /\ batch' = [batch EXCEPT ![d] = {q[i] : i \in 1 .. n}]
        /\ state' = [r \in Requests |->
                       IF \E i \in 1 .. n : q[i] = r THEN "popped" ELSE state[r]]
        /\ queue' = [queue EXCEPT ![k] = SubSeq(q, n + 1, Len(q))]
  BY DEF DrainPops
<1>20. /\ n \in Nat /\ Len(q) \in Nat /\ 1 <= n /\ n <= Len(q)
      /\ \A i \in 1 .. n : i \in 1 .. Len(q)
  BY <1>2, <1>3
<1>4. /\ drain' = [drain EXCEPT ![d] = "join"]
      /\ UNCHANGED <<key, conn, access, arrivals, present, gate, cleanup, loop>>
  BY DEF DrainPops
<1>5. /\ \A l \in Keys : l # k => queue'[l] = queue[l]
      /\ queue'[k] \in Seq(Requests) /\ Len(queue'[k]) = Len(q) - n
      /\ \A i \in 1 .. Len(queue'[k]) : queue'[k][i] = q[n + i]
  <2>1. queue'[k] = SubSeq(q, n + 1, Len(q)) /\ \A l \in Keys : l # k => queue'[l] = queue[l]
    BY <1>1, <1>3 DEF TypeOK
  <2>2. /\ SubSeq(q, n + 1, Len(q)) \in Seq(Requests)
        /\ Len(SubSeq(q, n + 1, Len(q))) = Len(q) - n
        /\ \A i \in 1 .. Len(q) - n : SubSeq(q, n + 1, Len(q))[i] = q[n + i]
    BY <1>2, SuffixProperties
  <2>3. QED
    BY <2>1, <2>2
<1>6. \A i \in 1 .. Len(q) : q[i] \in Requests /\ state[q[i]] = "queued" /\ key[q[i]] = k
  BY <1>1, InQueue
<1>7. \A i, j \in 1 .. Len(q) : i < j => q[i] < q[j]
  BY <1>1 DEF Queues
<1>21. q = queue[k] /\ k = key[d] /\ k # NoKey
  BY <1>1
<1> HIDE DEF q, k
<1>8. \A r \in Requests : \/ /\ state'[r] = "popped" /\ key[r] = k /\ state[r] = "queued"
                             /\ \E i \in 1 .. n : q[i] = r
                          \/ state'[r] = state[r] /\ ~\E i \in 1 .. n : q[i] = r
  <2> TAKE r \in Requests
  <2>1. state'[r] = IF \E i \in 1 .. n : q[i] = r THEN "popped" ELSE state[r]
    BY <1>3
  <2>2. CASE \E i \in 1 .. n : q[i] = r
    BY <2>1, <2>2, <1>20, <1>6
  <2>3. CASE ~\E i \in 1 .. n : q[i] = r
    BY <2>1, <2>3
  <2>4. QED
    BY <2>2, <2>3
<1>9. batch' \in [Requests -> SUBSET Requests] /\ batch'[d] = {q[i] : i \in 1 .. n}
      /\ \A e \in Requests : e # d => batch'[e] = batch[e]
  BY <1>3, <1>6 DEF TypeOK
<1>10. TypeOK'
  <2>1. queue' \in [Keys -> Seq(Requests)]
    BY <1>3, <1>5 DEF TypeOK
  <2>2. state' \in [Requests -> {"new", "queued", "popped", "running", "done", "dropped"}]
    BY <1>3 DEF TypeOK
  <2>3. QED
    BY <2>1, <2>2, <1>4, <1>9 DEF TypeOK
<1>11. Fresh'
  BY <1>1, <1>4, <1>8 DEF TypeOK, Fresh
<1>12. Queues'
  <2>1. (\A l \in Keys : l \notin present => queue[l] = << >>)'
    BY <1>1, <1>4, <1>5 DEF Queues
  <2>2. (\A l \in Keys : \A i \in 1 .. Len(queue[l]) :
           state[queue[l][i]] = "queued" /\ key[queue[l][i]] = l)'
    <3> SUFFICES ASSUME NEW l \in Keys, NEW i \in 1 .. Len(queue'[l])
                 PROVE  state'[queue'[l][i]] = "queued" /\ key[queue'[l][i]] = l
      BY <1>4
    <3>1. CASE l = k
      <4>1. n + i \in 1 .. Len(q) /\ queue'[l][i] = q[n + i]
        BY <3>1, <1>20, <1>5
      <4>2. \A j \in 1 .. n : j \in 1 .. Len(q) /\ j < n + i
        BY <1>20, <1>5, <3>1
      <4>3. ~\E j \in 1 .. n : q[j] = q[n + i]
        BY <4>1, <4>2, <1>6, <1>7
      <4>4. q[n + i] \in Requests /\ state[q[n + i]] = "queued" /\ key[q[n + i]] = k
        BY <4>1, <1>6
      <4>5. state'[q[n + i]] = "queued"
        BY <4>3, <4>4, <1>8
      <4>6. QED
        BY <3>1, <4>1, <4>4, <4>5
    <3>2. CASE l # k
      <4>1. queue[l][i] \in Requests /\ state[queue[l][i]] = "queued" /\ key[queue[l][i]] = l
        BY <3>2, <1>5, InQueue
      <4>2. state'[queue[l][i]] = "queued"
        BY <3>2, <4>1, <1>8
      <4>3. QED
        BY <3>2, <4>1, <4>2, <1>5
    <3>3. QED
      BY <3>1, <3>2
  <2>3. (\A l \in Keys : \A i, j \in 1 .. Len(queue[l]) : i < j => queue[l][i] < queue[l][j])'
    <3> SUFFICES ASSUME NEW l \in Keys, NEW i \in 1 .. Len(queue'[l]),
                        NEW j \in 1 .. Len(queue'[l]), i < j
                 PROVE  queue'[l][i] < queue'[l][j]
      OBVIOUS
    <3>1. CASE l = k
      <4>1. n + i \in 1 .. Len(q) /\ n + j \in 1 .. Len(q) /\ n + i < n + j
        BY <3>1, <1>20, <1>5
      <4>2. q[n + i] < q[n + j]
        BY <4>1, <1>7
      <4>3. QED
        BY <3>1, <4>2, <1>5
    <3>2. CASE l # k
      BY <3>2, <1>5 DEF Queues
    <3>3. QED
      BY <3>1, <3>2
  <2>4. (\A r \in Requests : state[r] = "queued" =>
           key[r] \in Keys /\ \E i \in 1 .. Len(queue[key[r]]) : queue[key[r]][i] = r)'
    <3> SUFFICES ASSUME NEW r \in Requests, state'[r] = "queued"
                 PROVE  key[r] \in Keys
                        /\ \E i \in 1 .. Len(queue'[key[r]]) : queue'[key[r]][i] = r
      BY <1>4
    <3>1. state[r] = "queued" /\ ~\E i \in 1 .. n : q[i] = r
      BY <1>8
    <3>2. PICK j \in 1 .. Len(queue[key[r]]) : key[r] \in Keys /\ queue[key[r]][j] = r
      BY <3>1 DEF Queues
    <3>3. CASE key[r] = k
      <4>1. j \in 1 .. Len(q) /\ q[j] = r
        BY <3>2, <3>3, <1>21
      <4>2. j > n
        BY <4>1, <3>1, <1>20
      <4>3. j - n \in 1 .. Len(queue'[k]) /\ n + (j - n) = j
        BY <4>1, <4>2, <1>20, <1>5
      <4>4. queue'[k][j - n] = r
        BY <4>1, <4>3, <1>5
      <4>5. QED
        BY <4>3, <4>4, <3>2, <3>3
    <3>4. CASE key[r] # k
      BY <3>2, <3>4, <1>5
    <3>5. QED
      BY <3>3, <3>4
  <2>5. QED
    BY <2>1, <2>2, <2>3, <2>4 DEF Queues
<1>13. Batches'
  <2>1. (\A e \in Requests : drain[e] # "join" => batch[e] = {})'
    BY <1>4, <1>9 DEF TypeOK, Batches
  <2>2. (\A e \in Requests : \A r \in batch[e] :
          key[r] = key[e] /\ state[r] \in {"popped", "running", "done", "dropped"})'
    <3> SUFFICES ASSUME NEW e \in Requests, NEW r \in batch'[e]
                 PROVE  key[r] = key[e]
                        /\ state'[r] \in {"popped", "running", "done", "dropped"}
      BY <1>4
    <3>1. r \in Requests
      BY <1>9
    <3>2. CASE e = d
      <4>1. PICK i \in 1 .. n : r = q[i]
        BY <3>2, <1>9
      <4>2. key[r] = k
        BY <4>1, <1>20, <1>6
      <4>3. state'[r] = "popped"
        BY <4>1, <3>1, <1>8
      <4>4. QED
        BY <4>2, <4>3, <3>2, <1>21
    <3>3. CASE e # d
      BY <3>1, <3>3, <1>8, <1>9 DEF Batches
    <3>4. QED
      BY <3>2, <3>3
  <2>3. (\A r \in Requests : key[r] # NoKey /\ state[r] \in {"popped", "running"}
           => \E e \in Requests : r \in batch[e])'
    <3> SUFFICES ASSUME NEW r \in Requests, key[r] # NoKey, state'[r] \in {"popped", "running"}
                 PROVE  \E e \in Requests : r \in batch'[e]
      BY <1>4
    <3>1. CASE \E i \in 1 .. n : q[i] = r
      BY <3>1, <1>9
    <3>2. CASE ~\E i \in 1 .. n : q[i] = r
      BY <3>2, <1>1, <1>8, <1>9 DEF Batches
    <3>3. QED
      BY <3>1, <3>2
  <2>4. (\A e \in Requests : \A r, s \in batch[e] :
          r = s \/ (access[r] = "SharedRead" /\ access[s] = "SharedRead"))'
    BY <1>3, <1>4, <1>9 DEF Batches, Takes
  <2>5. QED
    BY <2>1, <2>2, <2>3, <2>4 DEF Batches
<1>14. Ordered'
  <2>1. (\A r, s \in Requests :
           /\ key[r] = key[s] /\ key[r] # NoKey
           /\ state[r] = "queued" /\ state[s] \notin {"new", "queued"}
           => s < r)'
    <3> SUFFICES ASSUME NEW r \in Requests, NEW s \in Requests, key[r] = key[s], key[r] # NoKey,
                        state'[r] = "queued", state'[s] \notin {"new", "queued"}
                 PROVE  s < r
      BY <1>4
    <3>1. state[r] = "queued" /\ ~\E i \in 1 .. n : q[i] = r
      BY <1>8
    <3>2. CASE \E i \in 1 .. n : q[i] = s
      <4>1. key[r] = k
        BY <3>2, <1>6, <1>20
      <4>2. PICK j \in 1 .. Len(q) : q[j] = r
        BY <3>1, <4>1, <1>21 DEF Queues
      <4>3. j > n
        BY <4>2, <3>1, <1>20
      <4>4. PICK i \in 1 .. n : q[i] = s
        BY <3>2
      <4>5. i \in 1 .. Len(q) /\ i < j
        BY <4>3, <1>20
      <4>6. QED
        BY <4>2, <4>4, <4>5, <1>7
    <3>3. CASE ~\E i \in 1 .. n : q[i] = s
      BY <3>1, <3>3, <1>8 DEF Ordered
    <3>4. QED
      BY <3>2, <3>3
  <2>2. (\A e, s \in Requests : \A r \in batch[e] :
           key[r] = key[s] /\ Ended(s) /\ s \notin batch[e] => s < r)'
    <3> SUFFICES ASSUME NEW e \in Requests, NEW s \in Requests, NEW r \in batch'[e],
                        key[r] = key[s], state'[s] \in {"done", "dropped"}, s \notin batch'[e]
                 PROVE  s < r
      BY <1>4 DEF Ended
    <3>1. state[s] \in {"done", "dropped"} /\ r \in Requests
      BY <1>8, <1>9
    <3>2. CASE e = d
      <4>1. PICK i \in 1 .. n : r = q[i]
        BY <3>2, <1>9
      <4>2. state[r] = "queued" /\ key[r] # NoKey
        BY <4>1, <1>20, <1>21, <1>6
      <4>3. QED
        BY <3>1, <4>2 DEF Ordered
    <3>3. CASE e # d
      BY <3>1, <3>3, <1>9 DEF Ordered, Ended
    <3>4. QED
      BY <3>2, <3>3
  <2>3. QED
    BY <2>1, <2>2 DEF Ordered
<1>15. OneDrainPerQueue'
  BY <1>1, <1>4 DEF TypeOK, OneDrainPerQueue
<1>16. QED
  BY <1>10, <1>11, <1>12, <1>13, <1>14, <1>15

\* A request without a key belongs to no queue and no batch.
LEMMA SpawnStep ==
  ASSUME QInv, NEW r \in Requests, NEW c \in Conns, DispatchSpawned(r, c)
  PROVE  QInv'
<1> USE DEF QInv, DispatchSpawned, Arrives, request, queues, closing, Accesses
<1>1. r = arrivals + 1 /\ state[r] = "new" /\ drain[r] = "none"
  BY DEF TypeOK, Fresh
<1>2. TypeOK'
  BY <1>1 DEF TypeOK
<1>3. Fresh'
  BY <1>1 DEF TypeOK, Fresh
<1>4. \A d \in Requests : r \notin batch[d]
  BY <1>1 DEF TypeOK, Batches
<1>5. \A l \in Keys : \A i \in 1 .. Len(queue[l]) : queue[l][i] \in Requests /\ queue[l][i] # r
  BY <1>1 DEF TypeOK, Queues
<1>6. Queues'
  BY <1>1, <1>5 DEF TypeOK, Queues
<1>7. Batches'
  <2>1. \A s \in Requests :
          s # r => key'[s] = key[s] /\ access'[s] = access[s] /\ state'[s] = state[s]
    BY DEF TypeOK
  <2>2. batch[r] = {}
    BY <1>1 DEF Batches
  <2>3. \A d \in Requests : batch[d] \subseteq Requests
    BY DEF TypeOK
  <2>4. key'[r] = NoKey
    BY DEF TypeOK
  <2>5. QED
    BY <2>1, <2>2, <2>3, <2>4, <1>4 DEF Batches
<1>8. Ordered'
  BY <1>1, <1>4 DEF TypeOK, Fresh, Ordered, Batches, Ended
<1>9. OneDrainPerQueue'
  BY <1>1 DEF TypeOK, Fresh, OneDrainPerQueue
<1>10. QED
  BY <1>2, <1>3, <1>6, <1>7, <1>8, <1>9

\* The drain task and its empty queue disappear together.
LEMMA EndStep ==
  ASSUME QInv, NEW d \in Requests, DrainEnds(d)
  PROVE  QInv'
<1> USE DEF QInv, DrainEnds, request, queues, closing
<1>1. TypeOK'
  BY DEF TypeOK
<1>2. Fresh'
  BY DEF TypeOK, Fresh
<1>3. Queues'
  BY DEF TypeOK, Queues
<1>4. Batches'
  <2>1. batch[d] = {}
    BY DEF Batches
  <2>2. \A e \in Requests : e # d => drain'[e] = drain[e]
    BY DEF TypeOK
  <2>3. (\A e \in Requests : drain[e] # "join" => batch[e] = {})'
    BY <2>1, <2>2 DEF Batches
  <2>4. QED
    BY <2>3 DEF Batches
<1>5. Ordered'
  BY DEF Ordered, Ended
<1>6. OneDrainPerQueue'
  <2>1. drain'[d] = "none" /\ \A e \in Requests : e # d => drain'[e] = drain[e]
    BY DEF TypeOK
  <2>2. \A e \in Requests : drain'[e] # "none" => e # d /\ drain[e] # "none" /\ key[e] # key[d]
    BY <2>1 DEF OneDrainPerQueue
  <2>3. \A k \in present' : \E e \in Requests : drain'[e] # "none" /\ key[e] = k
    BY <2>1 DEF OneDrainPerQueue
  <2>4. QED
    BY <2>2, <2>3 DEF OneDrainPerQueue
<1>7. QED
  BY <1>1, <1>2, <1>3, <1>4, <1>5, <1>6

\* A batch is given up only when all of it has ended.
LEMMA JoinStep ==
  ASSUME QInv, NEW d \in Requests, DrainJoins(d)
  PROVE  QInv'
<1> USE DEF QInv, DrainJoins, request, queues, closing
<1>1. TypeOK'
  BY DEF TypeOK
<1>2. Fresh'
  BY DEF TypeOK, Fresh
<1>3. Queues'
  BY DEF TypeOK, Queues
<1>4. Batches'
  <2>1. batch'[d] = {} /\ \A e \in Requests : e # d => batch'[e] = batch[e]
    BY DEF TypeOK
  <2>2. (\A r \in Requests : key[r] # NoKey /\ state[r] \in {"popped", "running"}
           => \E e \in Requests : r \in batch[e])'
    BY <2>1 DEF Batches
  <2>3. QED
    BY <2>1, <2>2 DEF TypeOK, Batches
<1>5. Ordered'
  BY DEF TypeOK, Ordered, Ended
<1>6. OneDrainPerQueue'
  BY DEF TypeOK, OneDrainPerQueue
<1>7. QED
  BY <1>1, <1>2, <1>3, <1>4, <1>5, <1>6

\* What a drain task joins includes every request of its key in flight.
LEMMA InFlightIsJoined ==
  ASSUME QInv, NEW e \in Requests, NEW r \in batch[e], NEW s \in Requests,
         key[s] = key[r], state[s] \in {"popped", "running"}
  PROVE  s \in batch[e]
<1>1. drain[e] = "join" /\ key[r] = key[e]
  BY DEF QInv, Batches
<1>2. key[e] \in Keys
  BY <1>1 DEF QInv, TypeOK, OneDrainPerQueue
<1>3. PICK f \in Requests : s \in batch[f]
  BY <1>1, <1>2 DEF QInv, Batches
<1>4. drain[f] = "join" /\ key[f] = key[s]
  BY <1>3 DEF QInv, Batches
<1>5. f = e
  BY <1>1, <1>4 DEF QInv, OneDrainPerQueue
<1>6. QED
  BY <1>3, <1>5

\* The gate lets a request run or drops it, and a handler returns.
LEMMA HandlerStep ==
  ASSUME QInv, NEW h \in Requests, Run(h) \/ Finish(h)
  PROVE  QInv'
<1> USE DEF QInv, request, queues, closing
<1>1. PICK v \in {"running", "done", "dropped"} : state' = [state EXCEPT ![h] = v]
  BY DEF Run, Finish
<1>2. /\ state[h] \in {"popped", "running"}
      /\ UNCHANGED <<key, conn, access, arrivals, queue, present, drain, batch,
                     gate, cleanup, loop>>
  BY DEF Run, Finish
<1>3. TypeOK'
  BY <1>1, <1>2 DEF TypeOK
<1>4. Fresh'
  BY <1>1, <1>2 DEF TypeOK, Fresh
<1>5. \A l \in Keys : \A i \in 1 .. Len(queue[l]) : queue[l][i] \in Requests /\ queue[l][i] # h
  BY <1>2 DEF TypeOK, Queues
<1>6. Queues'
  BY <1>1, <1>2, <1>5 DEF TypeOK, Queues
<1>7. Batches'
  BY <1>1, <1>2 DEF TypeOK, Batches
<1>8. Ordered'
  <2>1. (\A r, s \in Requests :
           /\ key[r] = key[s] /\ key[r] # NoKey
           /\ state[r] = "queued" /\ state[s] \notin {"new", "queued"}
           => s < r)'
    BY <1>1, <1>2 DEF TypeOK, Ordered
  <2>2. (\A d, s \in Requests : \A r \in batch[d] :
           key[r] = key[s] /\ Ended(s) /\ s \notin batch[d] => s < r)'
    <3> SUFFICES ASSUME NEW d \in Requests, NEW s \in Requests, NEW r \in batch[d],
                        key[r] = key[s], Ended(s)', s \notin batch[d]
                 PROVE  s < r
      BY <1>2
    <3>1. CASE s = h
      BY <3>1, <1>2, InFlightIsJoined
    <3>2. CASE s # h
      BY <3>2, <1>1 DEF TypeOK, Ordered, Ended
    <3>3. QED
      BY <3>1, <3>2
  <2>3. QED
    BY <2>1, <2>2 DEF Ordered
<1>9. OneDrainPerQueue'
  BY <1>2 DEF OneDrainPerQueue
<1>10. QED
  BY <1>3, <1>4, <1>6, <1>7, <1>8, <1>9

\* The gates do not matter to the queues.
LEMMA GateStep ==
  ASSUME QInv, UNCHANGED <<state, request, queues>>,
         gate' \in [Conns -> {"accepting", "closed"}],
         cleanup' \in [Conns -> {"none", "waiting", "done", "timedout"}],
         loop' \in {"running", "stopping", "stopped"}
  PROVE  QInv'
  BY DEF QInv, TypeOK, Fresh, Queues, Batches, Ordered, OneDrainPerQueue, Ended, request, queues

\* Every step preserves the invariant of the queues.
LEMMA NextQInv == QInv /\ [Next]_vars => QInv'
<1> SUFFICES ASSUME QInv, [Next]_vars PROVE QInv'
  OBVIOUS
<1>1. CASE \E r \in Requests, c \in Conns :
             \/ DispatchSpawned(r, c)
             \/ \E k \in Keys, a \in Accesses : DispatchSerialized(r, c, k, a)
  BY <1>1, SpawnStep, EnqueueStep
<1>2. CASE \E d \in Requests : DrainStep(d)
  BY <1>2, PopStep, EndStep, JoinStep DEF DrainStep
<1>3. CASE \E r \in Requests : Run(r) \/ Finish(r)
  BY <1>3, HandlerStep
<1>4. CASE \E c \in Conns : \/ ConnectionClosed(c) \/ CleanUp(c) \/ CleanUpAnyway(c)
                            \/ ShutdownGate(c)
  <2>1. PICK c \in Conns : \/ ConnectionClosed(c) \/ CleanUp(c) \/ CleanUpAnyway(c)
                           \/ ShutdownGate(c)
    BY <1>4
  <2>2. /\ UNCHANGED <<state, request, queues>>
        /\ gate' \in [Conns -> {"accepting", "closed"}]
        /\ cleanup' \in [Conns -> {"none", "waiting", "done", "timedout"}]
        /\ loop' \in {"running", "stopping", "stopped"}
    BY <2>1 DEF QInv, TypeOK, ConnectionClosed, CleanUp, CleanUpAnyway, ShutdownGate
  <2>3. QED
    BY <2>2, GateStep
<1>5. CASE Stop \/ Stopped \/ UNCHANGED vars
  <2>1. /\ UNCHANGED <<state, request, queues>>
        /\ gate' \in [Conns -> {"accepting", "closed"}]
        /\ cleanup' \in [Conns -> {"none", "waiting", "done", "timedout"}]
        /\ loop' \in {"running", "stopping", "stopped"}
    BY <1>5 DEF QInv, TypeOK, Stop, Stopped, vars, closing
  <2>2. QED
    BY <2>1, GateStep
<1>6. QED
  BY <1>1, <1>2, <1>3, <1>4, <1>5 DEF Next

-----------------------------------------------------------------------------
(* What follows from the invariant.                                        *)

\* A request that began and an earlier one of its key that has not ended are
\* both in the batch of the one drain task of that key.
LEMMA OrderFromQInv == QInv => OrderPerKey
<1> SUFFICES ASSUME QInv, NEW r \in Requests, NEW s \in Requests,
                    r < s, key[r] = key[s], key[r] # NoKey, Began(s), ~Ended(r)
             PROVE  access[r] = "SharedRead" /\ access[s] = "SharedRead"
  BY DEF OrderPerKey
<1>1. s <= arrivals /\ state[s] \in {"running", "done"}
  BY DEF QInv, TypeOK, Fresh, Began
<1>2. state[r] \in {"popped", "running"}
  <2>1. state[r] # "new"
    BY <1>1 DEF QInv, TypeOK, Fresh
  <2>2. state[r] # "queued"
    BY <1>1 DEF QInv, Ordered
  <2>3. QED
    BY <2>1, <2>2 DEF QInv, TypeOK, Ended
<1>3. PICK d \in Requests : r \in batch[d]
  BY <1>2 DEF QInv, Batches
<1>4. s \in batch[d]
  <2>1. CASE state[s] = "running"
    BY <2>1, <1>3, InFlightIsJoined
  <2>2. CASE state[s] = "done"
    BY <2>2, <1>3 DEF QInv, Ordered, Ended
  <2>3. QED
    BY <1>1, <2>1, <2>2
<1>5. QED
  BY <1>3, <1>4 DEF QInv, Batches

\* The gates hold before the first connection.
LEMMA InitGates == Init => Gates
  BY DEF Init, Gates, Inflight

\* A closed gate hands out no token, and a request that is new has none.
LEMMA NextGates == QInv /\ Gates /\ [Next]_vars => Gates'
<1> SUFFICES ASSUME QInv, Gates, [Next]_vars PROVE Gates'
  OBVIOUS
<1> USE DEF Gates, request, queues, closing
<1>1. ASSUME UNCHANGED closing, \A c \in Conns : gate[c] = "closed" => Inflight(c)' \subseteq Inflight(c)
      PROVE  Gates'
  BY <1>1
<1>2. ASSUME NEW r \in Requests, NEW c \in Conns, NEW k, NEW a, Arrives(r, c, k, a),
             NEW v \in {"queued", "popped"}, state' = [state EXCEPT ![r] = v], UNCHANGED closing
      PROVE  Gates'
  <2>1. \A b \in Conns : Inflight(b)' \subseteq Inflight(b)
    BY <1>2 DEF QInv, TypeOK, Arrives, Inflight
  <2>2. QED
    BY <2>1, <1>2, <1>1
<1>3. CASE \E r \in Requests, c \in Conns :
             \/ DispatchSpawned(r, c)
             \/ \E k \in Keys, a \in Accesses : DispatchSerialized(r, c, k, a)
  BY <1>3, <1>2 DEF DispatchSpawned, DispatchSerialized
<1>4. CASE \E d \in Requests : DrainStep(d)
  <2>1. UNCHANGED closing /\ \A c \in Conns : Inflight(c)' \subseteq Inflight(c)
    BY <1>4 DEF DrainStep, DrainPops, DrainEnds, DrainJoins, Inflight
  <2>2. QED
    BY <2>1, <1>1
<1>5. CASE \E r \in Requests : Run(r) \/ Finish(r)
  <2>1. PICK r \in Requests : Run(r) \/ Finish(r)
    BY <1>5
  <2>2. UNCHANGED closing /\ \A c \in Conns : gate[c] = "closed" => Inflight(c)' \subseteq Inflight(c)
    BY <2>1 DEF Run, Finish, Inflight, QInv, TypeOK
  <2>3. QED
    BY <2>2, <1>1
<1>6. CASE \E c \in Conns : \/ ConnectionClosed(c) \/ CleanUp(c) \/ CleanUpAnyway(c)
                            \/ ShutdownGate(c)
  <2>1. PICK c \in Conns : \/ ConnectionClosed(c) \/ CleanUp(c) \/ CleanUpAnyway(c)
                           \/ ShutdownGate(c)
    BY <1>6
  <2>2. \A b \in Conns : Inflight(b)' = Inflight(b)
    BY <2>1 DEF ConnectionClosed, CleanUp, CleanUpAnyway, ShutdownGate, Inflight
  <2>3. CASE ConnectionClosed(c)
    BY <2>2, <2>3 DEF ConnectionClosed, QInv, TypeOK
  <2>4. CASE CleanUp(c)
    BY <2>2, <2>4 DEF CleanUp, QInv, TypeOK
  <2>5. CASE CleanUpAnyway(c)
    BY <2>2, <2>5 DEF CleanUpAnyway, QInv, TypeOK
  <2>6. CASE ShutdownGate(c)
    BY <2>2, <2>6 DEF ShutdownGate, QInv, TypeOK
  <2>7. QED
    BY <2>1, <2>3, <2>4, <2>5, <2>6
<1>7. CASE Stop \/ Stopped \/ UNCHANGED vars
  <2>1. \A b \in Conns : Inflight(b)' = Inflight(b)
    BY <1>7 DEF Stop, Stopped, vars, Inflight
  <2>2. QED
    BY <2>1, <1>7 DEF Stop, Stopped, vars
<1>8. QED
  BY <1>3, <1>4, <1>5, <1>6, <1>7 DEF Next

\* The invariants imply that no handler runs after its connection was cleaned up.
LEMMA QuietFromGates == QInv /\ Gates => NoHandlerAfterCleanUp
<1> SUFFICES ASSUME QInv, Gates, NEW r \in Requests, state[r] = "running"
             PROVE  /\ cleanup[conn[r]] # "done"
                    /\ loop = "stopped" => cleanup[conn[r]] = "timedout"
  BY DEF NoHandlerAfterCleanUp
<1>1. conn[r] \in Conns
  BY DEF QInv, TypeOK, Fresh
<1>2. r \in Inflight(conn[r])
  BY DEF Inflight
<1>3. QED
  BY <1>1, <1>2 DEF Gates, QInv, TypeOK

-----------------------------------------------------------------------------
(* The theorems.                                                           *)

\* Requests of one key begin in the order in which they arrived, one at a
\* time except for shared reads, whatever the number of requests, keys and
\* connections (RequestSerializationQueues::enqueue and drain).
THEOREM Serialized == Spec => []OrderPerKey
<1>1. Init => QInv
  BY InitQInv
<1>2. QInv /\ [Next]_vars => QInv'
  BY NextQInv
<1>3. QInv => OrderPerKey
  BY OrderFromQInv
<1>4. QED
  BY <1>1, <1>2, <1>3, PTL DEF Spec

\* A queue in the map always has exactly one drain task, although requests are
\* appended while it decides to end (enqueue and drain).
THEOREM NoOrphanQueue == Spec => []OneDrainPerQueue
<1>1. Init => QInv
  BY InitQInv
<1>2. QInv /\ [Next]_vars => QInv'
  BY NextQInv
<1>3. QInv => OneDrainPerQueue
  BY DEF QInv
<1>4. QED
  BY <1>1, <1>2, <1>3, PTL DEF Spec

\* No handler runs on a connection that was cleaned up, or in a processor that
\* has stopped, unless the drain of its gate timed out
\* (ConnectionRpcGate::run and shutdown, connection_closed).
THEOREM CleanedUpIsQuiet == Spec => []NoHandlerAfterCleanUp
<1>1. Init => QInv /\ Gates
  BY InitQInv, InitGates
<1>2. QInv /\ Gates /\ [Next]_vars => QInv' /\ Gates'
  BY NextQInv, NextGates
<1>3. QInv /\ Gates => NoHandlerAfterCleanUp
  BY QuietFromGates
<1>4. QED
  BY <1>1, <1>2, <1>3, PTL DEF Spec
=============================================================================
