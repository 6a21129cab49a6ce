-------------------------- MODULE SSEClient_proofs --------------------------
(***************************************************************************)
(* Proofs about the event store, for any streams, producers and capacity,  *)
(* and about the TypeScript client that resumes from it, for any number of *)
(* events and connects.                                                    *)
(***************************************************************************)
EXTENDS SSEClient, SequenceTheorems, FiniteSetTheorems, TLAPS

-----------------------------------------------------------------------------
(***************************************************************************)
(* The store.  An ID belongs to one producer and then to one place in one  *)
(* log.                                                                    *)
(***************************************************************************)
StoreInv ==
  /\ StoreTypeOK
  /\ \A s \in Streams : trimmed[s] <= Len(log[s])
  /\ KeepsNewest
  /\ \A p \in Producers : drawn[p] <= counter
  /\ \A p, q \in Producers : drawn[p] = drawn[q] => p = q \/ drawn[p] = NoEvent
  /\ \A s \in Streams : \A i \in 1..Len(log[s]) :
       /\ log[s][i] <= counter
       /\ \A p \in Producers : drawn[p] # log[s][i]
       /\ \A j \in 1..Len(log[s]) : log[s][j] = log[s][i] => j = i
  /\ \A s, t \in Streams : \A i \in 1..Len(log[s]), j \in 1..Len(log[t]) :
       log[s][i] = log[t][j] => s = t

Kept(s) ==
  IF Len(log[s]) - trimmed[s] < maxPerStream THEN Len(log[s]) - trimmed[s] ELSE maxPerStream

\* The last k events of a log.
LEMMA LastEvents ==
  ASSUME NEW l \in Seq(Events), NEW k \in 0..Len(l)
  PROVE  LET r == Rest(l, Len(l) - k + 1) IN
         /\ r \in Seq(Events) /\ Len(r) = k
         /\ \A i \in 1..k : r[i] = l[Len(l) - k + i] /\ Len(l) - k + i \in 1..Len(l)
<1> DEFINE m == Len(l) - k + 1
           n == Len(l)
<1>1. n \in Nat /\ k \in Nat /\ k <= n /\ m \in Int /\ n - m + 1 = k /\ (m <= n <=> k # 0) /\ m >= 1
  BY LenProperties
<1>2. \A i \in m..n : l[i] \in Events
  <2>1. \A i \in m..n : i \in 1..n
    BY <1>1
  <2> QED
    BY <2>1, ElementOfSeq
<1>3. /\ SubSeq(l, m, n) \in Seq(Events)
      /\ Len(SubSeq(l, m, n)) = IF m <= n THEN n - m + 1 ELSE 0
      /\ \A i \in 1..(n - m + 1) : SubSeq(l, m, n)[i] = l[m + i - 1]
  BY <1>1, <1>2, SubSeqProperties
<1>4. \A i \in 1..k : m + i - 1 = n - k + i /\ n - k + i \in 1..n
  BY <1>1
<1>5. Rest(l, m) = SubSeq(l, m, n)
  BY DEF Rest
<1> HIDE DEF m, n
<1>6. Len(SubSeq(l, m, n)) = k
  BY <1>1, <1>3
<1> QED
  BY <1>1, <1>3, <1>4, <1>5, <1>6 DEF m, n

\* Storing one more event and evicting leaves the newest ones.
LEMMA EvictKeepsNewest ==
  ASSUME NEW l \in Seq(Events), NEW e \in Events, NEW k \in 0..Len(l), k <= maxPerStream
  PROVE  LET l2 == Append(l, e)
             k2 == IF k < maxPerStream THEN k + 1 ELSE k
         IN  Evict(Append(Rest(l, Len(l) - k + 1), e)) = Rest(l2, Len(l2) - k2 + 1)
<1> DEFINE r == Rest(l, Len(l) - k + 1)
           a == Append(r, e)
           l2 == Append(l, e)
           n == Len(l)
<1>0. n \in Nat /\ k \in Nat /\ k <= n /\ maxPerStream \in Nat \ {0}
  BY LenProperties, StoreAssumption
<1>1. r \in Seq(Events) /\ Len(r) = k /\ \A i \in 1..k : r[i] = l[n - k + i] /\ n - k + i \in 1..n
  BY LastEvents
<1>2. /\ a \in Seq(Events) /\ Len(a) = k + 1
      /\ (\A i \in 1..k : a[i] = r[i]) /\ a[k + 1] = e
  BY <1>1, AppendProperties
<1>3. /\ l2 \in Seq(Events) /\ Len(l2) = n + 1
      /\ (\A i \in 1..n : l2[i] = l[i]) /\ l2[n + 1] = e
  BY AppendProperties
<1> HIDE DEF r, a, l2, n
<1>4. \A i \in 1..(k + 1) : a[i] = l2[n - k + i]
  <2>1. ASSUME NEW i \in 1..k PROVE a[i] = l2[n - k + i]
    BY <1>1, <1>2, <1>3
  <2>2. n - k + (k + 1) = n + 1
    BY <1>0
  <2>3. \A i \in 1..(k + 1) : i \in 1..k \/ i = k + 1
    BY <1>0
  <2> QED
    BY <1>2, <1>3, <2>1, <2>2, <2>3
<1>5. CASE k < maxPerStream
  <2>1. Evict(a) = a
    BY <1>0, <1>2, <1>5 DEF Evict
  <2> DEFINE b == Rest(l2, Len(l2) - (k + 1) + 1)
  <2>2. k + 1 \in 0..Len(l2)
    BY <1>0, <1>3
  <2>3. /\ b \in Seq(Events) /\ Len(b) = k + 1
        /\ \A i \in 1..(k + 1) : b[i] = l2[Len(l2) - (k + 1) + i]
    BY <1>3, <2>2, LastEvents
  <2>4. \A i \in 1..(k + 1) : Len(l2) - (k + 1) + i = n - k + i
    BY <1>0, <1>3
  <2> HIDE DEF b
  <2>5. b = a
    BY <1>2, <1>4, <2>3, <2>4, SeqEqual
  <2> QED
    BY <1>5, <2>1, <2>5 DEF b, a, r, l2
<1>6. CASE ~(k < maxPerStream)
  <2>0. k = maxPerStream /\ k >= 1
    BY <1>0, <1>6
  <2>1. Evict(a) = Rest(a, Len(a) - k + 1)
    <3>1. Len(a) > maxPerStream /\ Len(a) - maxPerStream + 1 = Len(a) - k + 1
      BY <1>0, <1>2, <2>0
    <3> QED
      BY <3>1 DEF Evict
  <2> DEFINE b == Rest(l2, Len(l2) - k + 1)
             c == Rest(a, Len(a) - k + 1)
  <2>2. k \in 0..Len(l2) /\ k \in 0..Len(a)
    BY <1>0, <1>2, <1>3
  <2>3. b \in Seq(Events) /\ Len(b) = k /\ \A i \in 1..k : b[i] = l2[Len(l2) - k + i]
    BY <1>3, <2>2, LastEvents
  <2>4. c \in Seq(Events) /\ Len(c) = k /\ \A i \in 1..k : c[i] = a[Len(a) - k + i]
    BY <1>2, <2>2, LastEvents
  <2> HIDE DEF b, c
  <2>5. \A i \in 1..k : c[i] = b[i]
    <3> SUFFICES ASSUME NEW i \in 1..k PROVE c[i] = b[i]
      OBVIOUS
    <3>1. Len(a) - k + i = i + 1 /\ i + 1 \in 1..(k + 1) /\ Len(l2) - k + i = n - k + (i + 1)
      BY <1>0, <1>2, <1>3
    <3> QED
      BY <1>4, <2>3, <2>4, <3>1
  <2>6. b = c
    BY <2>3, <2>4, <2>5, SeqEqual
  <2> QED
    BY <1>6, <2>1, <2>6 DEF b, c, a, r, l2
<1> QED
  BY <1>5, <1>6

LEMMA InitStoreInv == StoreInit => StoreInv
<1> SUFFICES ASSUME StoreInit PROVE StoreInv
  OBVIOUS
<1>1. <<>> \in Seq(Events) /\ Len(<<>>) = 0
  BY EmptySeq
<1>2. StoreTypeOK
  BY <1>1, StoreAssumption DEF StoreInit, StoreTypeOK, NoEvent
<1>3. KeepsNewest
  <2>1. Rest(<<>>, 1) = <<>>
    BY SubSeqEmpty, <1>1 DEF Rest
  <2> QED
    BY <1>1, <2>1, StoreAssumption DEF StoreInit, KeepsNewest
<1> QED
  BY <1>1, <1>2, <1>3 DEF StoreInit, StoreInv, NoEvent

\* An ID is drawn that nobody has, ...
LEMMA NextKeepsStore ==
  ASSUME StoreInv, NEW p \in Producers, Next(p)
  PROVE  StoreInv'
<1>1. /\ drawn[p] = 0 /\ counter \in Nat /\ counter + 1 \in Events
      /\ counter' = counter + 1 /\ drawn' = [drawn EXCEPT ![p] = counter + 1]
      /\ UNCHANGED <<streams, log, trimmed>>
  BY StoreAssumption DEF Next, NoEvent, Events, StoreInv, StoreTypeOK
<1>2. StoreTypeOK' /\ KeepsNewest'
  BY <1>1 DEF StoreInv, StoreTypeOK, KeepsNewest, Events
<1>3. \A q \in Producers : drawn[q] \in Nat /\ drawn[q] <= counter
  BY DEF StoreInv, StoreTypeOK
<1>4. \A q \in Producers : drawn'[q] = IF q = p THEN counter + 1 ELSE drawn[q]
  BY <1>1 DEF StoreInv, StoreTypeOK
<1>5. /\ \A q \in Producers : drawn'[q] <= counter'
      /\ \A q, r \in Producers : drawn'[q] = drawn'[r] => q = r \/ drawn'[q] = 0
  BY <1>1, <1>3, <1>4 DEF StoreInv, NoEvent
<1>6. ASSUME NEW s \in Streams, NEW i \in 1..Len(log[s])
      PROVE  /\ log[s][i] <= counter'
             /\ \A q \in Producers : drawn'[q] # log[s][i]
  <2>1. log[s] \in Seq(Events)
    BY DEF StoreInv, StoreTypeOK
  <2>2. log[s][i] \in Events
    BY <2>1, ElementOfSeq
  <2>3. log[s][i] \in Nat /\ log[s][i] <= counter
    BY <2>2, StoreAssumption DEF StoreInv, Events
  <2> QED
    BY <1>1, <1>4, <2>3 DEF StoreInv
<1> QED
  BY <1>1, <1>2, <1>5, <1>6 DEF StoreInv, NoEvent

\* ... its event is stored, in a place of its own, ...
LEMMA StoreLog ==
  ASSUME StoreInv, NEW p \in Producers, NEW s \in Streams, Store(p, s)
  PROVE  /\ drawn[p] \in Events /\ log[s] \in Seq(Events)
         /\ log' = [log EXCEPT ![s] = Append(log[s], drawn[p])]
         /\ streams' = [streams EXCEPT ![s] = Evict(Append(streams[s], drawn[p]))]
         /\ log' \in [Streams -> Seq(Events)]
         /\ Len(log'[s]) = Len(log[s]) + 1 /\ Len(log[s]) \in Nat
         /\ log'[s][Len(log[s]) + 1] = drawn[p]
         /\ \A i \in 1..Len(log[s]) : log'[s][i] = log[s][i]
         /\ \A i \in 1..Len(log'[s]) : i \in 1..Len(log[s]) \/ i = Len(log[s]) + 1
         /\ \A t \in Streams : t # s => log'[t] = log[t]
<1>1. drawn[p] \in Events /\ log[s] \in Seq(Events)
  BY DEF Store, StoreInv, StoreTypeOK, NoEvent, Events
<1> DEFINE l == Append(log[s], drawn[p])
<1>2. /\ l \in Seq(Events) /\ Len(l) = Len(log[s]) + 1 /\ Len(log[s]) \in Nat
      /\ l[Len(log[s]) + 1] = drawn[p] /\ \A i \in 1..Len(log[s]) : l[i] = log[s][i]
  BY <1>1, AppendProperties
<1>3. \A i \in 1..Len(l) : i \in 1..Len(log[s]) \/ i = Len(log[s]) + 1
  BY <1>2
<1>4. /\ log' = [log EXCEPT ![s] = l]
      /\ streams' = [streams EXCEPT ![s] = Evict(Append(streams[s], drawn[p]))]
  BY DEF Store
<1> HIDE DEF l
<1>5. /\ log'[s] = l /\ log' \in [Streams -> Seq(Events)]
      /\ \A t \in Streams : t # s => log'[t] = log[t]
  BY <1>2, <1>4 DEF StoreInv, StoreTypeOK
<1> QED
  BY <1>1, <1>2, <1>3, <1>4, <1>5 DEF l

LEMMA StoreKeepsNewest ==
  ASSUME StoreInv, NEW p \in Producers, NEW s \in Streams, Store(p, s)
  PROVE  /\ KeepsNewest'
         /\ streams' \in [Streams -> Seq(Events)]
         /\ \A t \in Streams : Len(streams'[t]) <= maxPerStream
<1> DEFINE l == log[s]
           e == drawn[p]
           l2 == Append(l, e)
           k == Kept(s)
           k2 == IF k < maxPerStream THEN k + 1 ELSE k
           r == Rest(l2, Len(l2) - k2 + 1)
<1>1. /\ e \in Events /\ l \in Seq(Events) /\ Len(l) \in Nat
      /\ log'[s] = l2 /\ Len(l2) = Len(l) + 1 /\ l2 \in Seq(Events)
      /\ \A t \in Streams : t # s => log'[t] = log[t]
      /\ streams' = [streams EXCEPT ![s] = Evict(Append(streams[s], e))]
      /\ trimmed' = trimmed
  <2>1. /\ log' = [log EXCEPT ![s] = l2] /\ log \in [Streams -> Seq(Events)]
        /\ e \in Events /\ l \in Seq(Events)
        /\ \A t \in Streams : t # s => log'[t] = log[t]
    BY StoreLog DEF StoreInv, StoreTypeOK
  <2>2. Len(l) \in Nat /\ Len(l2) = Len(l) + 1 /\ l2 \in Seq(Events)
    BY <2>1, AppendProperties, LenProperties
  <2>3. streams' = [streams EXCEPT ![s] = Evict(Append(streams[s], e))] /\ trimmed' = trimmed
    BY DEF Store
  <2> HIDE DEF l2
  <2> QED
    BY <2>1, <2>2, <2>3
<1>2. /\ trimmed[s] \in Nat /\ trimmed[s] <= Len(l) /\ maxPerStream \in Nat \ {0}
      /\ k \in 0..Len(l) /\ k <= maxPerStream
  BY <1>1, StoreAssumption DEF StoreInv, StoreTypeOK, Kept
<1>3. streams[s] = Rest(l, Len(l) - k + 1)
  BY DEF StoreInv, KeepsNewest, Kept
<1>4. Evict(Append(streams[s], e)) = r
  BY <1>1, <1>2, <1>3, EvictKeepsNewest
<1>5. k2 = IF Len(l2) - trimmed[s] < maxPerStream THEN Len(l2) - trimmed[s] ELSE maxPerStream
  BY <1>1, <1>2 DEF Kept
<1>6. k2 \in 0..Len(l2) /\ k2 <= maxPerStream
  BY <1>1, <1>2
<1>7. r \in Seq(Events) /\ Len(r) = k2
  BY <1>1, <1>6, LastEvents
<1> HIDE DEF r, k, k2, l2
<1>8. /\ streams'[s] = r /\ streams' \in [Streams -> Seq(Events)]
      /\ \A t \in Streams : t # s => streams'[t] = streams[t]
  BY <1>1, <1>4, <1>7 DEF StoreInv, StoreTypeOK
<1>9. KeepsNewest'
  <2>1. ASSUME NEW t \in Streams, t # s
        PROVE  streams'[t] = Rest(log'[t], Len(log'[t]) - (IF Len(log'[t]) - trimmed'[t] < maxPerStream THEN Len(log'[t]) - trimmed'[t] ELSE maxPerStream) + 1)
    BY <1>1, <1>8, <2>1 DEF StoreInv, KeepsNewest
  <2>2. streams'[s] = Rest(log'[s], Len(log'[s]) - (IF Len(log'[s]) - trimmed'[s] < maxPerStream THEN Len(log'[s]) - trimmed'[s] ELSE maxPerStream) + 1)
    BY <1>1, <1>5, <1>8 DEF r
  <2> QED
    BY <2>1, <2>2 DEF KeepsNewest
<1>10. \A t \in Streams : Len(streams'[t]) <= maxPerStream
  BY <1>6, <1>7, <1>8 DEF StoreInv, StoreTypeOK
<1> QED
  BY <1>8, <1>9, <1>10

LEMMA StoreKeepsStore ==
  ASSUME StoreInv, NEW p \in Producers, NEW s \in Streams, Store(p, s)
  PROVE  StoreInv'
<1> DEFINE e == drawn[p]
           n == Len(log[s])
<1>1. /\ e # 0 /\ UNCHANGED <<counter, trimmed>>
      /\ \A q \in Producers : drawn'[q] = IF q = p THEN 0 ELSE drawn[q]
      /\ drawn' \in [Producers -> 0..MaxEvents]
  BY StoreAssumption DEF Store, StoreInv, StoreTypeOK, NoEvent
<1>2. /\ log' \in [Streams -> Seq(Events)] /\ n \in Nat /\ e \in Events
      /\ Len(log'[s]) = n + 1 /\ log'[s][n + 1] = e
      /\ \A i \in 1..n : log'[s][i] = log[s][i]
      /\ \A i \in 1..Len(log'[s]) : i \in 1..n \/ i = n + 1
      /\ \A t \in Streams : t # s => log'[t] = log[t]
  BY StoreLog
<1>3. /\ \A q \in Producers : drawn[q] <= counter
      /\ \A q, r \in Producers : drawn[q] = drawn[r] => q = r \/ drawn[q] = 0
      /\ \A t \in Streams : trimmed[t] <= Len(log[t])
  BY DEF StoreInv, NoEvent
<1>4. \A t \in Streams : \A i \in 1..Len(log[t]) :
        /\ log[t][i] <= counter /\ log[t][i] # e
        /\ \A q \in Producers : drawn[q] # log[t][i]
        /\ \A j \in 1..Len(log[t]) : log[t][j] = log[t][i] => j = i
  BY DEF StoreInv
<1>5. \A t, u \in Streams : \A i \in 1..Len(log[t]), j \in 1..Len(log[u]) : log[t][i] = log[u][j] => t = u
  BY DEF StoreInv
<1>6. /\ StoreTypeOK' /\ KeepsNewest'
      /\ \A t \in Streams : trimmed'[t] <= Len(log'[t])
  <2>1. \A t \in Streams : trimmed'[t] <= Len(log'[t])
    <3>1. trimmed[s] <= n /\ trimmed[s] \in Nat
      BY <1>3 DEF StoreInv, StoreTypeOK
    <3>2. trimmed[s] <= Len(log'[s])
      BY <1>2, <3>1
    <3> QED
      BY <1>1, <1>2, <1>3, <3>2
  <2> QED
    BY <1>1, <1>2, <2>1, StoreKeepsNewest DEF StoreInv, StoreTypeOK
<1> HIDE DEF e, n
<1>7. /\ \A q \in Producers : drawn'[q] <= counter'
      /\ \A q, r \in Producers : drawn'[q] = drawn'[r] => q = r \/ drawn'[q] = 0
  <2>1. counter \in Nat
    BY DEF StoreInv, StoreTypeOK
  <2> QED
    BY <1>1, <1>3, <2>1
<1>8. ASSUME NEW t \in Streams, NEW i \in 1..Len(log'[t])
      PROVE  \/ i \in 1..Len(log[t]) /\ log'[t][i] = log[t][i]
             \/ t = s /\ i = n + 1 /\ log'[t][i] = e
  BY <1>2 DEF n
<1>9. ASSUME NEW t \in Streams, NEW i \in 1..Len(log'[t])
      PROVE  /\ log'[t][i] <= counter'
             /\ \A q \in Producers : drawn'[q] # log'[t][i]
             /\ \A j \in 1..Len(log'[t]) : log'[t][j] = log'[t][i] => j = i
  <2>1. log'[t][i] \in Events
    BY <1>2, ElementOfSeq
  <2>2. e <= counter /\ \A q \in Producers : q # p => drawn[q] # e
    BY <1>1, <1>3 DEF e
  <2>3. \A j \in 1..Len(log'[t]) : log'[t][j] = log'[t][i] => j = i
    BY <1>4, <1>8
  <2>4. log'[t][i] # 0
    BY <2>1, StoreAssumption DEF Events
  <2> QED
    BY <1>1, <1>4, <1>8, <2>2, <2>3, <2>4
<1>10. \A t, u \in Streams : \A i \in 1..Len(log'[t]), j \in 1..Len(log'[u]) :
         log'[t][i] = log'[u][j] => t = u
  BY <1>4, <1>5, <1>8
<1> QED
  BY <1>6, <1>7, <1>9, <1>10 DEF StoreInv, NoEvent

\* ... and everything kept of a stream is dropped.
LEMMA TrimKeepsStore ==
  ASSUME StoreInv, NEW s \in Streams, Trim(s)
  PROVE  StoreInv'
<1>1. /\ UNCHANGED <<counter, drawn, log>> /\ log[s] \in Seq(Events)
      /\ trimmed' = [trimmed EXCEPT ![s] = Len(log[s])]
      /\ streams' = [streams EXCEPT ![s] = <<>>]
  BY DEF Trim, StoreInv, StoreTypeOK
<1>2. /\ <<>> \in Seq(Events) /\ Len(<<>>) = 0 /\ Len(log[s]) \in Nat /\ 0 < maxPerStream
      /\ maxPerStream \in Nat
  BY <1>1, EmptySeq, LenProperties, StoreAssumption
<1>3. StoreTypeOK'
  BY <1>1, <1>2 DEF StoreInv, StoreTypeOK
<1>4. \A t \in Streams : trimmed'[t] <= Len(log'[t])
  BY <1>1, <1>2 DEF StoreInv, StoreTypeOK
<1>5. KeepsNewest'
  <2>1. Rest(log[s], Len(log[s]) - 0 + 1) = <<>>
    BY <1>2, SubSeqEmpty DEF Rest
  <2>2. /\ streams'[s] = <<>> /\ trimmed'[s] = Len(log[s])
        /\ \A t \in Streams : t # s => streams'[t] = streams[t] /\ trimmed'[t] = trimmed[t]
    BY <1>1 DEF StoreInv, StoreTypeOK
  <2>3. Len(log[s]) - Len(log[s]) = 0
    BY <1>2
  <2> QED
    BY <1>1, <1>2, <2>1, <2>2, <2>3 DEF StoreInv, KeepsNewest
<1> QED
  BY <1>1, <1>3, <1>4, <1>5 DEF StoreInv

LEMMA StepKeepsStore == StoreInv /\ StoreNext => StoreInv'
BY NextKeepsStore, StoreKeepsStore, TrimKeepsStore DEF StoreNext

LEMMA StoreUntouched == StoreInv /\ UNCHANGED storeVars => StoreInv'
BY DEF StoreInv, StoreTypeOK, KeepsNewest, storeVars

LEMMA ClientKeepsStore == ClientNext => UNCHANGED storeVars
BY DEF ClientNext, Connect, Close, Serve, EndBody, Opened, Throw, ReadChunk, ReadEnds, CloseOnce, storeVars

\* Whatever is published, evicted and trimmed, a stream holds exactly the newest
\* maxPerStream of the events stored since its last Trim, in insertion order
\* (Store, Trim and Replay of MemoryEventStore).
THEOREM StoreHoldsNewest == Spec => []KeepsNewest
<1>1. Init => StoreInv
  BY InitStoreInv DEF Init
<1>2. StoreInv /\ [(StoreNext /\ UNCHANGED clientVars) \/ ClientNext]_vars => StoreInv'
  BY StepKeepsStore, StoreUntouched, ClientKeepsStore DEF vars, storeVars
<1>3. StoreInv => KeepsNewest
  BY DEF StoreInv
<1> QED
  BY <1>1, <1>2, <1>3, PTL DEF Spec

-----------------------------------------------------------------------------
(***************************************************************************)
(* The client's connections.  At most one fetch is live, the one whose     *)
(* signal _abortController holds; while it is read every other is over,    *)
(* because connect waits until the client is not connected and an aborted  *)
(* loop ends before the next response comes.                               *)
(***************************************************************************)
Live(k) == fetches[k].pc # "over" /\ ~fetches[k].aborted

HasEnded(f) == f.opened /\ (f.aborted \/ f.pc = "over")
Ended == {k \in Ids : HasEnded(fetches[k])}

LinkInv ==
  /\ fetches \in Seq(Fetch) /\ _abortController \in 0..Len(fetches)
  /\ _connected \in BOOLEAN /\ closes \in Nat
  /\ \A k \in Ids :
       /\ Live(k) => k = _abortController
       /\ fetches[k].pc \in {"fetch", "served"} => ~fetches[k].opened
       /\ fetches[k].pc = "read" => fetches[k].opened
       /\ Live(k) /\ fetches[k].pc = "read" => \A j \in Ids : j # k => fetches[j].pc = "over"
  /\ closes = Cardinality(Ended)
  /\ _connected <=> \E k \in Ids : Live(k) /\ fetches[k].pc = "read"

-----------------------------------------------------------------------------
(***************************************************************************)
(* The client's events.  Caught up to place b of the session's log: of     *)
(* what is kept there, everything up to b has been handed over and nothing *)
(* after it.  The body of the live fetch goes on from such a place.        *)
(***************************************************************************)
L == log[Session]

InStore(e) == \E i \in 1..Len(streams[Session]) : streams[Session][i] = e

Got(e) == \E i \in 1..Len(seen) : seen[i] = e

CaughtUp(b) == \A m \in 1..Len(L) :
  /\ m <= b /\ InStore(L[m]) => Got(L[m])
  /\ Got(L[m]) => m <= b

GoesOn(body, b) ==
  /\ b + Len(body) <= Len(L) /\ CaughtUp(b)
  /\ \A i \in 1..Len(body) : body[i] = L[b + i]

SeenInv ==
  /\ seen \in Seq(Events)
  /\ _lastEventId = IF seen = <<>> THEN NoEvent ELSE seen[Len(seen)]
  /\ \A i \in 1..Len(seen) : \E m \in 1..Len(L) : L[m] = seen[i]
  /\ ResumeInOrder /\ NoSilentGap

BodyInv == \A k \in Ids : Live(k) =>
  /\ fetches[k].pc = "fetch" => fetches[k].header = _lastEventId
  /\ fetches[k].pc \in {"served", "read"} => \E b \in 0..Len(L) : GoesOn(fetches[k].body, b)

-----------------------------------------------------------------------------
(* What the client's steps do to one fetch. *)

LEMMA FetchesSet ==
  ASSUME fetches \in Seq(Fetch), NEW k \in Ids, NEW f \in Fetch, fetches' = [fetches EXCEPT ![k] = f]
  PROVE  /\ fetches' \in Seq(Fetch) /\ Len(fetches') = Len(fetches) /\ Ids' = Ids
         /\ fetches'[k] = f /\ \A j \in Ids : j # k => fetches'[j] = fetches[j]
BY ExceptSeq DEF Ids

LEMMA EndedIsFinite ==
  ASSUME fetches \in Seq(Fetch)
  PROVE  IsFiniteSet(Ended)
<1>1. Len(fetches) \in Nat
  BY LenProperties
<1>2. IsFiniteSet(Ids)
  BY <1>1, FS_Interval DEF Ids
<1> QED
  BY <1>2, FS_Subset DEF Ended

\* A step after which no other fetch has ended, ...
LEMMA NobodyEnds ==
  ASSUME fetches \in Seq(Fetch), NEW k \in Ids, NEW f \in Fetch, fetches' = [fetches EXCEPT ![k] = f],
         HasEnded(f) <=> HasEnded(fetches[k])
  PROVE  Ended' = Ended
<1>1. /\ Ids' = Ids /\ fetches'[k] = f
      /\ \A j \in Ids : j # k => fetches'[j] = fetches[j]
  BY FetchesSet
<1>2. \A j \in Ids : HasEnded(fetches'[j]) <=> HasEnded(fetches[j])
  BY <1>1
<1>3. Ended' = {j \in Ids' : HasEnded(fetches'[j])}
  BY DEF Ended, HasEnded
<1> QED
  BY <1>1, <1>2, <1>3 DEF Ended

\* ... and one after which fetch k has.
LEMMA OneEnds ==
  ASSUME fetches \in Seq(Fetch), NEW k \in Ids, NEW f \in Fetch, fetches' = [fetches EXCEPT ![k] = f],
         HasEnded(f), ~HasEnded(fetches[k])
  PROVE  Cardinality(Ended') = Cardinality(Ended) + 1
<1>1. /\ Ids' = Ids /\ fetches'[k] = f
      /\ \A j \in Ids : j # k => fetches'[j] = fetches[j]
  BY FetchesSet
<1>2. Ended' = {j \in Ids' : HasEnded(fetches'[j])}
  BY DEF Ended, HasEnded
<1>3. Ended' = Ended \cup {k} /\ k \notin Ended
  BY <1>1, <1>2 DEF Ended
<1> QED
  BY <1>3, EndedIsFinite, FS_AddElement

-----------------------------------------------------------------------------
(* The links: what each step of the client does to them. *)

\* The response comes, a body shrinks or ends: nothing changes for the client.
LEMMA DataKeepsLinks ==
  ASSUME LinkInv, NEW k \in Ids, NEW f \in Fetch, fetches' = [fetches EXCEPT ![k] = f],
         f.opened = fetches[k].opened, f.aborted = fetches[k].aborted,
         f.pc = fetches[k].pc \/ (fetches[k].pc = "fetch" /\ f.pc = "served"),
         UNCHANGED <<_abortController, _connected, closes>>
  PROVE  LinkInv'
<1>1. fetches \in Seq(Fetch)
  BY DEF LinkInv
<1>2. /\ fetches' \in Seq(Fetch) /\ Len(fetches') = Len(fetches) /\ Ids' = Ids
      /\ fetches'[k] = f /\ \A j \in Ids : j # k => fetches'[j] = fetches[j]
  BY <1>1, FetchesSet
<1>3. HasEnded(f) <=> HasEnded(fetches[k])
  BY DEF HasEnded
<1>4. Ended' = Ended
  BY <1>1, <1>3, NobodyEnds
<1>5. \A j \in Ids : /\ fetches'[j].opened = fetches[j].opened /\ (Live(j)' <=> Live(j))
                     /\ fetches'[j].pc = "read" <=> fetches[j].pc = "read"
                     /\ fetches'[j].pc = "over" <=> fetches[j].pc = "over"
                     /\ fetches'[j].pc \in {"fetch", "served"} <=> fetches[j].pc \in {"fetch", "served"}
  BY <1>2 DEF Live
<1> QED
  BY <1>2, <1>4, <1>5 DEF LinkInv

\* A fetch that no loop reads comes to nothing: no stream has ended.
LEMMA ThrowKeepsLinks ==
  ASSUME LinkInv, NEW k \in Ids, NEW f \in Fetch, fetches' = [fetches EXCEPT ![k] = f],
         fetches[k].pc \in {"fetch", "served"}, f.pc = "over", f.opened = fetches[k].opened,
         UNCHANGED <<_abortController, _connected, closes>>
  PROVE  LinkInv'
<1>1. fetches \in Seq(Fetch) /\ ~fetches[k].opened /\ fetches[k].pc # "read" /\ fetches[k].pc # "over"
  BY DEF LinkInv
<1>2. /\ fetches' \in Seq(Fetch) /\ Len(fetches') = Len(fetches) /\ Ids' = Ids
      /\ fetches'[k] = f /\ \A j \in Ids : j # k => fetches'[j] = fetches[j]
  BY <1>1, FetchesSet
<1>3. HasEnded(f) <=> HasEnded(fetches[k])
  BY <1>1 DEF HasEnded
<1>4. Ended' = Ended
  BY <1>1, <1>3, NobodyEnds
<1>5. /\ ~Live(k)' /\ fetches'[k].pc = "over" /\ ~fetches'[k].opened
      /\ \A j \in Ids : j # k => (Live(j)' <=> Live(j))
  BY <1>1, <1>2 DEF Live
<1> QED
  BY <1>1, <1>2, <1>4, <1>5 DEF LinkInv

\* The response is taken up: every other loop has ended by then.
LEMMA OpenKeepsLinks ==
  ASSUME LinkInv, NEW k \in Ids, NEW f \in Fetch, fetches' = [fetches EXCEPT ![k] = f],
         NoneRejected, fetches[k].pc = "served", f.pc = "read", f.opened, f.aborted = fetches[k].aborted,
         _connected' = TRUE, UNCHANGED <<_abortController, closes>>
  PROVE  LinkInv'
<1>1. fetches \in Seq(Fetch) /\ ~fetches[k].opened /\ ~fetches[k].aborted
  BY DEF LinkInv, NoneRejected
<1>2. /\ fetches' \in Seq(Fetch) /\ Len(fetches') = Len(fetches) /\ Ids' = Ids
      /\ fetches'[k] = f /\ \A j \in Ids : j # k => fetches'[j] = fetches[j]
  BY <1>1, FetchesSet
<1>3. HasEnded(f) <=> HasEnded(fetches[k])
  BY <1>1 DEF HasEnded
<1>4. Ended' = Ended
  BY <1>1, <1>3, NobodyEnds
<1>5. Live(k) /\ k = _abortController
  BY <1>1 DEF LinkInv, Live
<1>6. \A j \in Ids : j # k => fetches[j].pc = "over"
  BY <1>5 DEF LinkInv, Live, NoneRejected
<1>7. Live(k)' /\ \A j \in Ids : j # k => ~Live(j)' /\ fetches'[j].pc = "over"
  BY <1>1, <1>2, <1>6 DEF Live
<1> QED
  BY <1>2, <1>4, <1>5, <1>7 DEF LinkInv

\* connect while no stream is read and no other connect is pending.
LEMMA ConnectKeepsLinks ==
  ASSUME LinkInv, Connect, _lastEventId \in Events \cup {NoEvent}
  PROVE  LinkInv'
<1> DEFINE f == [header |-> _lastEventId, pc |-> "fetch", opened |-> FALSE,
                 aborted |-> FALSE, body |-> <<>>, end |-> "open"]
           n == Len(fetches)
<1>1. /\ fetches \in Seq(Fetch) /\ fetches' = Append(fetches, f)
      /\ _abortController' = n + 1 /\ ~_connected /\ Pending = {}
      /\ UNCHANGED <<_connected, closes>>
  BY DEF LinkInv, Connect
<1>2. f \in Fetch
  BY EmptySeq DEF Fetch
<1>3. /\ fetches' \in Seq(Fetch) /\ Len(fetches') = n + 1 /\ n \in Nat
      /\ fetches'[n + 1] = f /\ \A j \in 1..n : fetches'[j] = fetches[j]
  BY <1>1, <1>2, AppendProperties, LenProperties
<1>4. \A j \in Ids' : j \in Ids \/ j = n + 1
  BY <1>3 DEF Ids
<1>5. \A j \in Ids : ~Live(j)
  <2>1. \A j \in Ids : Live(j) => fetches[j].pc # "read"
    BY <1>1 DEF LinkInv
  <2>2. \A j \in Ids : fetches[j] \in Fetch
    BY <1>1, ElementOfSeq DEF Ids
  <2> QED
    BY <1>1, <2>1, <2>2 DEF Live, Pending, Fetch
<1>6. \A j \in Ids : ~Live(j)'
  BY <1>3, <1>5 DEF Live, Ids
<1>7. ~HasEnded(f) /\ f.pc = "fetch" /\ ~f.opened
  BY DEF HasEnded
<1>8. Ended' = Ended
  <2>1. Ended' = {j \in Ids' : HasEnded(fetches'[j])}
    BY DEF Ended, HasEnded
  <2>2. /\ \A j \in Ids : fetches'[j] = fetches[j]
        /\ Ids \subseteq Ids'
    BY <1>3 DEF Ids
  <2> QED
    BY <1>3, <1>4, <1>7, <2>1, <2>2 DEF Ended
<1> HIDE DEF f
<1>9. fetches' \in Seq(Fetch) /\ _abortController' \in 0..Len(fetches')
  BY <1>1, <1>3
<1>10. \A j \in Ids' : /\ Live(j)' => j = n + 1
                       /\ fetches'[j].pc \in {"fetch", "served"} => ~fetches'[j].opened
                       /\ fetches'[j].pc = "read" => fetches'[j].opened
                       /\ Live(j)' => fetches'[j].pc # "read"
  BY <1>3, <1>4, <1>6, <1>7 DEF LinkInv, Ids
<1> QED
  BY <1>1, <1>8, <1>9, <1>10 DEF LinkInv

\* close, called by the application or by a handler.
LEMMA AbortKeepsLinks ==
  ASSUME LinkInv, NEW k \in Ids, NEW f \in Fetch, fetches' = [fetches EXCEPT ![k] = f],
         k = _abortController, _abortController' = 0, CloseOnce,
         f.aborted, f.pc = fetches[k].pc, f.opened = fetches[k].opened
  PROVE  LinkInv'
<1>1. /\ fetches \in Seq(Fetch) /\ closes \in Nat /\ closes = Cardinality(Ended)
      /\ _connected' = FALSE /\ closes' = IF _connected THEN closes + 1 ELSE closes
      /\ \A j \in Ids : Live(j) => j = k
  BY DEF LinkInv, CloseOnce
<1>2. /\ fetches' \in Seq(Fetch) /\ Len(fetches') = Len(fetches) /\ Ids' = Ids
      /\ fetches'[k] = f /\ \A j \in Ids : j # k => fetches'[j] = fetches[j]
  BY <1>1, FetchesSet
<1>3. \A j \in Ids : ~Live(j)'
  BY <1>1, <1>2 DEF Live
<1>4. Cardinality(Ended') = closes'
  <2>1. CASE _connected
    <3>1. Live(k) /\ fetches[k].pc = "read" /\ fetches[k].opened
      BY <1>1, <2>1 DEF LinkInv
    <3>2. HasEnded(f) /\ ~HasEnded(fetches[k])
      BY <3>1 DEF HasEnded, Live
    <3> QED
      BY <1>1, <2>1, <3>2, OneEnds
  <2>2. CASE ~_connected
    <3>1. ~(Live(k) /\ fetches[k].pc = "read") /\ fetches[k] \in Fetch
      BY <1>1, <2>2, ElementOfSeq DEF LinkInv, Ids
    <3>2. fetches[k].opened => fetches[k].aborted \/ fetches[k].pc = "over"
      BY <3>1 DEF LinkInv, Live, Fetch
    <3>3. HasEnded(f) <=> HasEnded(fetches[k])
      BY <3>2 DEF HasEnded
    <3> QED
      BY <1>1, <2>2, <3>3, NobodyEnds
  <2> QED
    BY <1>1, <2>1, <2>2 DEF LinkInv
<1>5. \A j \in Ids : /\ fetches'[j].pc = fetches[j].pc
                     /\ fetches'[j].opened = fetches[j].opened
  BY <1>2
<1>6. _connected' \in BOOLEAN /\ _abortController' \in 0..Len(fetches') /\ closes' \in Nat
  <2>1. _connected' \in BOOLEAN
    BY <1>1
  <2>2. _abortController' \in 0..Len(fetches')
    BY <1>1, <1>2, LenProperties
  <2>3. closes' \in Nat
    BY <1>1
  <2> QED
    BY <2>1, <2>2, <2>3
<1>7. \A j \in Ids' :
        /\ ~Live(j)'
        /\ fetches'[j].pc \in {"fetch", "served"} => ~fetches'[j].opened
        /\ fetches'[j].pc = "read" => fetches'[j].opened
  BY <1>2, <1>3, <1>5 DEF LinkInv
<1> QED
  BY <1>1, <1>2, <1>4, <1>6, <1>7 DEF LinkInv

\* The loop ends: it reports the end of the stream unless close has done so.
LEMMA EndKeepsLinks ==
  ASSUME LinkInv, NEW k \in Ids, NEW f \in Fetch, fetches' = [fetches EXCEPT ![k] = f],
         fetches[k].pc = "read", f.pc = "over", f.opened = fetches[k].opened,
         CloseOnce, UNCHANGED _abortController
  PROVE  LinkInv'
<1>1. /\ fetches \in Seq(Fetch) /\ closes \in Nat /\ closes = Cardinality(Ended)
      /\ _connected' = FALSE /\ closes' = IF _connected THEN closes + 1 ELSE closes
      /\ fetches[k].opened
  BY DEF LinkInv, CloseOnce
<1>2. /\ fetches' \in Seq(Fetch) /\ Len(fetches') = Len(fetches) /\ Ids' = Ids
      /\ fetches'[k] = f /\ \A j \in Ids : j # k => fetches'[j] = fetches[j]
  BY <1>1, FetchesSet
<1>3. /\ _connected <=> Live(k)
      /\ \A j \in Ids : j # k => ~(Live(j) /\ fetches[j].pc = "read")
  <2>1. \A j \in Ids : Live(j) /\ fetches[j].pc = "read" => j = k
    BY DEF LinkInv
  <2> QED
    BY <2>1 DEF LinkInv
<1>4. Cardinality(Ended') = closes'
  <2>1. HasEnded(f) /\ (HasEnded(fetches[k]) <=> ~Live(k))
    BY <1>1 DEF HasEnded, Live
  <2> QED
    BY <1>1, <1>3, <2>1, NobodyEnds, OneEnds
<1>5. ~Live(k)' /\ \A j \in Ids : j # k => (Live(j)' <=> Live(j))
  BY <1>2 DEF Live
<1>6. _connected' \in BOOLEAN /\ _abortController' \in 0..Len(fetches') /\ closes' \in Nat
  <2>1. _connected' \in BOOLEAN
    BY <1>1
  <2>2. _abortController' \in 0..Len(fetches')
    BY <1>1, <1>2 DEF LinkInv
  <2>3. closes' \in Nat
    BY <1>1
  <2> QED
    BY <2>1, <2>2, <2>3
<1>7. \A j \in Ids' :
        /\ Live(j)' => j = _abortController' /\ fetches'[j].pc # "read"
        /\ fetches'[j].pc \in {"fetch", "served"} => ~fetches'[j].opened
        /\ fetches'[j].pc = "read" => fetches'[j].opened
  BY <1>2, <1>3, <1>5 DEF LinkInv
<1> QED
  BY <1>1, <1>2, <1>4, <1>6, <1>7 DEF LinkInv

-----------------------------------------------------------------------------
(***************************************************************************)
(* The events.  What the session's stream keeps is the end of its log, and *)
(* an event has one place there.                                           *)
(***************************************************************************)
StreamView ==
  /\ L \in Seq(Events) /\ Len(L) \in Nat
  /\ \A m \in 1..Len(L) : L[m] \in Events
  /\ streams[Session] \in Seq(Events)
  /\ Kept(Session) \in 0..Len(L) /\ Len(streams[Session]) = Kept(Session)
  /\ \A i \in 1..Kept(Session) :
       /\ streams[Session][i] = L[Len(L) - Kept(Session) + i]
       /\ Len(L) - Kept(Session) + i \in 1..Len(L)
  /\ \A m, n \in 1..Len(L) : L[m] = L[n] => m = n

LEMMA SessionStream == StoreInv => StreamView
<1> SUFFICES ASSUME StoreInv PROVE StreamView
  OBVIOUS
<1>1. L \in Seq(Events) /\ Len(L) \in Nat /\ streams[Session] \in Seq(Events)
  BY ClientAssumption, LenProperties DEF StoreInv, StoreTypeOK, L
<1>2. \A m \in 1..Len(L) : L[m] \in Events
  BY <1>1, ElementOfSeq
<1>3. Kept(Session) \in 0..Len(L)
  BY <1>1, ClientAssumption, StoreAssumption DEF StoreInv, StoreTypeOK, Kept, L
<1>4. streams[Session] = Rest(L, Len(L) - Kept(Session) + 1)
  BY ClientAssumption DEF StoreInv, KeepsNewest, Kept, L
<1>5. \A m, n \in 1..Len(L) : L[m] = L[n] => m = n
  BY ClientAssumption DEF StoreInv, L
<1>6. /\ Len(streams[Session]) = Kept(Session)
      /\ \A i \in 1..Kept(Session) :
           /\ streams[Session][i] = L[Len(L) - Kept(Session) + i]
           /\ Len(L) - Kept(Session) + i \in 1..Len(L)
  BY <1>1, <1>3, <1>4, LastEvents
<1> QED
  BY <1>1, <1>2, <1>3, <1>5, <1>6 DEF StreamView

\* Of what the client has got, the last in the log is _lastEventId.
LEMMA LastIsLast ==
  ASSUME StoreInv, SeenInv, NEW m \in 1..Len(L), Got(L[m])
  PROVE  \E p \in 1..Len(L) : m <= p /\ L[p] = _lastEventId
<1> DEFINE n == Len(seen)
<1>1. n \in Nat /\ Len(L) \in Nat
  BY SessionStream, LenProperties DEF SeenInv, StreamView
<1>2. PICK i \in 1..n : seen[i] = L[m]
  BY DEF Got
<1>3. n # 0 /\ seen # <<>> /\ n \in 1..n
  BY <1>1, <1>2, EmptySeq
<1>4. _lastEventId = seen[n]
  BY <1>3 DEF SeenInv
<1>5. CASE i = n
  BY <1>2, <1>4, <1>5, <1>1
<1>6. CASE i < n
  <2>1. PICK a, b \in 1..Len(L) : a < b /\ L[a] = seen[i] /\ L[b] = seen[n]
    BY <1>1, <1>3, <1>6 DEF SeenInv, ResumeInOrder, L
  <2>2. a = m
    BY <1>2, <2>1, SessionStream DEF StreamView
  <2> QED
    BY <1>1, <1>4, <2>1, <2>2
<1> QED
  BY <1>1, <1>2, <1>5, <1>6

\* A step of the store adds at most one event to the session's log, a new
\* one, and brings back none that was lost.
LEMMA StreamGrows ==
  ASSUME StoreInv, StoreNext
  PROVE  /\ Len(L') \in Nat /\ Len(L) \in Nat /\ Len(L) <= Len(L')
         /\ \A m \in 1..Len(L) : L'[m] = L[m] /\ (InStore(L[m])' => InStore(L[m]))
         /\ \A m \in 1..Len(L') : m \in 1..Len(L) \/ \A j \in 1..Len(L) : L[j] # L'[m]
<1>1. StreamView /\ StreamView'
  <2>1. StoreInv'
    BY StepKeepsStore
  <2> QED
    BY <2>1, SessionStream, PTL
<1> DEFINE Grows == /\ Len(L) <= Len(L') /\ \A m \in 1..Len(L) : L'[m] = L[m]
                    /\ Kept(Session)' <= Kept(Session) + (Len(L') - Len(L))
<1>2. /\ Session \in Streams /\ maxPerStream \in Nat /\ Len(L) \in Nat
      /\ trimmed[Session] \in Nat /\ trimmed[Session] <= Len(L)
  BY <1>1, ClientAssumption, StoreAssumption DEF StoreInv, StoreTypeOK, StreamView, L
<1>3. ASSUME log'[Session] = log[Session], trimmed'[Session] = trimmed[Session] PROVE Grows
  BY <1>2, <1>3 DEF L, Kept
<1>4. ASSUME NEW p \in Producers, Next(p) PROVE Grows
  BY <1>3, <1>4 DEF Next
<1>5. ASSUME NEW p \in Producers, NEW s \in Streams, Store(p, s) PROVE Grows
  <2>1. /\ trimmed' = trimmed /\ Len(log'[s]) = Len(log[s]) + 1
        /\ \A i \in 1..Len(log[s]) : log'[s][i] = log[s][i]
        /\ \A t \in Streams : t # s => log'[t] = log[t]
    BY <1>5, StoreLog DEF Store
  <2>2. CASE s = Session
    <3>1. Len(L') = Len(L) + 1 /\ \A m \in 1..Len(L) : L'[m] = L[m]
      BY <2>1, <2>2 DEF L
    <3>2. Kept(Session)' = IF Len(L') - trimmed[Session] < maxPerStream
                           THEN Len(L') - trimmed[Session] ELSE maxPerStream
      BY <2>1 DEF Kept, L
    <3>3. Kept(Session) = IF Len(L) - trimmed[Session] < maxPerStream
                          THEN Len(L) - trimmed[Session] ELSE maxPerStream
      BY DEF Kept, L
    <3>4. Kept(Session)' <= Kept(Session) + (Len(L') - Len(L))
      BY <1>2, <3>1, <3>2, <3>3
    <3> QED
      BY <1>2, <3>1, <3>4
  <2>3. CASE s # Session
    BY <1>2, <1>3, <2>1, <2>3
  <2> QED
    BY <2>2, <2>3
<1>6. ASSUME NEW s \in Streams, Trim(s) PROVE Grows
  <2>1. /\ log' = log /\ trimmed' = [trimmed EXCEPT ![s] = Len(log[s])]
        /\ trimmed \in [Streams -> Nat]
    BY <1>6 DEF Trim, StoreInv, StoreTypeOK
  <2>2. CASE s = Session
    <3>1. trimmed'[Session] = Len(L) /\ L' = L
      BY <1>2, <2>1, <2>2 DEF L
    <3>2. Kept(Session)' = 0
      <4>1. Kept(Session)' = IF Len(L') - trimmed'[Session] < maxPerStream
                             THEN Len(L') - trimmed'[Session] ELSE maxPerStream
        BY DEF Kept, L
      <4>2. Len(L') - trimmed'[Session] = 0 /\ 0 < maxPerStream
        BY <1>2, <3>1, StoreAssumption
      <4> QED
        BY <4>1, <4>2
    <3> QED
      BY <1>1, <1>2, <3>1, <3>2 DEF StreamView
  <2>3. CASE s # Session
    BY <1>2, <1>3, <2>1, <2>3
  <2> QED
    BY <2>2, <2>3
<1>7. Grows
  BY <1>4, <1>5, <1>6 DEF StoreNext
<1>8. ASSUME NEW m \in 1..Len(L), InStore(L[m])'
      PROVE  InStore(L[m])
  <2> DEFINE kept == Kept(Session)
             kept2 == Kept(Session)'
  <2>1. /\ kept \in 0..Len(L) /\ kept2 \in 0..Len(L') /\ Len(L') \in Nat
        /\ Len(streams'[Session]) = kept2 /\ Len(streams[Session]) = kept
        /\ \A i \in 1..kept : streams[Session][i] = L[Len(L) - kept + i]
        /\ \A i \in 1..kept2 : /\ streams'[Session][i] = L'[Len(L') - kept2 + i]
                               /\ Len(L') - kept2 + i \in 1..Len(L')
        /\ \A i, j \in 1..Len(L') : L'[i] = L'[j] => i = j
    BY <1>1 DEF StreamView
  <2>2. kept2 <= kept + (Len(L') - Len(L)) /\ Len(L) <= Len(L')
        /\ \A i \in 1..Len(L) : L'[i] = L[i]
    BY <1>7
  <2>3. PICK i \in 1..Len(streams'[Session]) : streams'[Session][i] = L'[m]
    BY <1>8 DEF InStore
  <2> HIDE DEF kept, kept2
  <2>4. Len(L') - kept2 + i = m
    <3>1. m \in 1..Len(L')
      BY <1>2, <2>1, <2>2
    <3>2. L'[Len(L') - kept2 + i] = L'[m] /\ Len(L') - kept2 + i \in 1..Len(L')
      BY <2>1, <2>3
    <3> QED
      BY <2>1, <3>1, <3>2
  <2>5. m - (Len(L) - kept) \in 1..kept /\ Len(L) - kept + (m - (Len(L) - kept)) = m
    BY <1>2, <2>1, <2>2, <2>4
  <2>6. streams[Session][m - (Len(L) - kept)] = L[m]
    BY <2>1, <2>5
  <2> QED
    BY <2>1, <2>5, <2>6 DEF InStore
<1>9. ASSUME NEW m \in 1..Len(L'), m \notin 1..Len(L), NEW j \in 1..Len(L)
      PROVE  L[j] # L'[m]
  BY <1>1, <1>2, <1>7, <1>9 DEF StreamView
<1> QED
  BY <1>1, <1>2, <1>7, <1>8, <1>9 DEF StreamView

\* What is published or trimmed behind the client's back moves nothing it has
\* got and nothing that is on its way.
LEMMA StoreKeepsPlace ==
  ASSUME StoreInv, SeenInv, StoreNext, UNCHANGED seen, NEW b \in 0..Len(L), CaughtUp(b)
  PROVE  CaughtUp(b)'
<1>1. /\ Len(L') \in Nat /\ Len(L) \in Nat /\ Len(L) <= Len(L')
      /\ \A m \in 1..Len(L) : L'[m] = L[m] /\ (InStore(L[m])' => InStore(L[m]))
      /\ \A m \in 1..Len(L') : m \in 1..Len(L) \/ \A j \in 1..Len(L) : L[j] # L'[m]
  BY StreamGrows
<1>2. ASSUME NEW m \in 1..Len(L), L'[m] = L[m]
      PROVE  Got(L[m])' <=> Got(L[m])
  BY <1>2 DEF Got
<1>3. ASSUME NEW m \in 1..Len(L'), m \notin 1..Len(L)
      PROVE  ~Got(L[m])' /\ ~(m <= b)
  <2>1. \A j \in 1..Len(L) : L[j] # L'[m]
    BY <1>1, <1>3
  <2>2. ASSUME NEW i \in 1..Len(seen), seen[i] = L'[m] PROVE FALSE
    BY <2>1, <2>2 DEF SeenInv
  <2> QED
    BY <1>1, <1>3, <2>2 DEF Got
<1>4. ASSUME NEW m \in 1..Len(L')
      PROVE  /\ m <= b /\ InStore(L[m])' => Got(L[m])'
             /\ Got(L[m])' => m <= b
  BY <1>1, <1>2, <1>3 DEF CaughtUp
<1> QED
  BY <1>4 DEF CaughtUp

LEMMA StoreKeepsData ==
  ASSUME StoreInv, LinkInv, SeenInv, BodyInv, StoreNext, UNCHANGED clientVars
  PROVE  SeenInv' /\ BodyInv'
<1>1. /\ Len(L') \in Nat /\ Len(L) \in Nat /\ Len(L) <= Len(L')
      /\ \A m \in 1..Len(L) : L'[m] = L[m] /\ (InStore(L[m])' => InStore(L[m]))
      /\ \A m \in 1..Len(L') : m \in 1..Len(L) \/ \A j \in 1..Len(L) : L[j] # L'[m]
      /\ \A m \in 1..Len(L) : m \in 1..Len(L')
  <2>1. /\ Len(L') \in Nat /\ Len(L) \in Nat /\ Len(L) <= Len(L')
        /\ \A m \in 1..Len(L) : L'[m] = L[m] /\ (InStore(L[m])' => InStore(L[m]))
        /\ \A m \in 1..Len(L') : m \in 1..Len(L) \/ \A j \in 1..Len(L) : L[j] # L'[m]
    BY StreamGrows
  <2> QED
    BY <2>1
<1>2. UNCHANGED <<_lastEventId, _connected, _abortController, fetches, seen, closes>>
  BY DEF clientVars
<1>3. SeenInv'
  <2>1. \A i \in 1..Len(seen) : \E m \in 1..Len(L') : L'[m] = seen[i]
    BY <1>1 DEF SeenInv
  <2>2. ASSUME NEW i \in 1..Len(seen), NEW j \in 1..Len(seen), i < j
        PROVE  \E m, n \in 1..Len(L') : m < n /\ L'[m] = seen[i] /\ L'[n] = seen[j]
    <3>1. PICK m, n \in 1..Len(L) : m < n /\ L[m] = seen[i] /\ L[n] = seen[j]
      BY <2>2 DEF SeenInv, ResumeInOrder, L
    <3> QED
      BY <1>1, <3>1
  <2>3. ASSUME NEW m \in 1..Len(L'), NEW n \in 1..Len(L'),
               m < n, L'[n] = _lastEventId, InStore(L[m])'
        PROVE  \E i \in 1..Len(seen) : seen[i] = L'[m]
    <3>1. n \in 1..Len(L)
      <4>1. seen # <<>>
        <5>1. L'[n] # NoEvent
          <6>1. StreamView'
            BY StepKeepsStore, SessionStream, PTL
          <6> QED
            BY <6>1, StoreAssumption DEF StreamView, Events, NoEvent
        <5> QED
          BY <2>3, <5>1 DEF SeenInv
      <4>2. Len(seen) \in 1..Len(seen) /\ _lastEventId = seen[Len(seen)]
        BY <4>1, EmptySeq, LenProperties DEF SeenInv
      <4> QED
        BY <1>1, <2>3, <4>2 DEF SeenInv
    <3>2. m \in 1..Len(L) /\ L[n] = _lastEventId /\ InStore(L[m])
      BY <1>1, <2>3, <3>1
    <3> QED
      BY <1>1, <2>3, <3>1, <3>2 DEF SeenInv, NoSilentGap, L, InStore
  <2>4. ResumeInOrder'
    BY <1>2, <2>2 DEF ResumeInOrder, L
  <2>5. NoSilentGap'
    BY <1>2, <2>3 DEF NoSilentGap, L, InStore
  <2> QED
    BY <1>2, <2>1, <2>4, <2>5 DEF SeenInv
<1>4. BodyInv'
  <2> SUFFICES ASSUME NEW k \in Ids, Live(k)
               PROVE  /\ fetches[k].pc = "fetch" => fetches[k].header = _lastEventId
                      /\ fetches[k].pc \in {"served", "read"} =>
                           \E b \in 0..Len(L') : GoesOn(fetches[k].body, b)'
    BY <1>2 DEF BodyInv, Ids, Live
  <2>1. CASE fetches[k].pc \in {"served", "read"}
    <3>1. PICK b \in 0..Len(L) : GoesOn(fetches[k].body, b)
      BY <2>1 DEF BodyInv
    <3>2. CaughtUp(b)'
      BY <1>2, <3>1, StoreKeepsPlace DEF GoesOn
    <3> DEFINE body == fetches[k].body
    <3>3. b + Len(body) <= Len(L) /\ \A i \in 1..Len(body) : body[i] = L[b + i]
      BY <3>1 DEF GoesOn
    <3>4. Len(body) \in Nat
      <4>1. fetches[k] \in Fetch
        BY ElementOfSeq DEF LinkInv, Ids
      <4>2. body \in Seq(Events)
        BY <4>1 DEF Fetch
      <4> QED
        BY <4>2, LenProperties
    <3> HIDE DEF body
    <3>5. \A i \in 1..Len(body) : body[i] = L'[b + i]
      BY <1>1, <3>3, <3>4
    <3>6. fetches'[k].body = body /\ b \in 0..Len(L') /\ b + Len(body) <= Len(L')
      BY <1>1, <1>2, <3>3, <3>4 DEF body
    <3>7. GoesOn(fetches[k].body, b)'
      BY <3>2, <3>5, <3>6 DEF GoesOn
    <3> QED
      BY <2>1, <3>6, <3>7
  <2> QED
    BY <2>1 DEF BodyInv
<1> QED
  BY <1>3, <1>4

-----------------------------------------------------------------------------
(* The client's own steps. *)

LEMMA SeenUntouched ==
  ASSUME SeenInv, log' = log, streams' = streams, seen' = seen, _lastEventId' = _lastEventId
  PROVE  SeenInv'
<1>1. ResumeInOrder' <=> ResumeInOrder
  BY DEF ResumeInOrder
<1>2. NoSilentGap' <=> NoSilentGap
  BY DEF NoSilentGap
<1> QED
  BY <1>1, <1>2 DEF SeenInv, L

\* A step after which the client has got nothing new, and which leaves fetch k
\* over, aborted or with what the client goes on from.
LEMMA FetchKeepsData ==
  ASSUME LinkInv, SeenInv, BodyInv, UNCHANGED storeVars, UNCHANGED <<seen, _lastEventId>>,
         NEW k \in Ids, NEW f \in Fetch, fetches' = [fetches EXCEPT ![k] = f],
         f.pc # "over" /\ ~f.aborted =>
           /\ f.pc = "fetch" => f.header = _lastEventId
           /\ f.pc \in {"served", "read"} => \E b \in 0..Len(L) : GoesOn(f.body, b)
  PROVE  SeenInv' /\ BodyInv'
<1>1. UNCHANGED <<log, streams, seen, _lastEventId>>
  BY DEF storeVars
<1>2. SeenInv'
  BY <1>1, SeenUntouched
<1>3. /\ Ids' = Ids /\ fetches'[k] = f
      /\ \A j \in Ids : j # k => fetches'[j] = fetches[j]
  BY FetchesSet DEF LinkInv
<1>4. ASSUME NEW j \in Ids, NEW b \in 0..Len(L), GoesOn(fetches'[j].body, b)
      PROVE  GoesOn(fetches[j].body, b)'
  BY <1>1, <1>4 DEF GoesOn, CaughtUp, InStore, Got, L
<1>5. ASSUME NEW j \in Ids, Live(j)'
      PROVE  /\ fetches'[j].pc = "fetch" => fetches'[j].header = _lastEventId
             /\ fetches'[j].pc \in {"served", "read"} =>
                  \E b \in 0..Len(L) : GoesOn(fetches'[j].body, b)
  BY <1>3, <1>5 DEF BodyInv, Live
<1>6. BodyInv'
  <2> SUFFICES ASSUME NEW j \in Ids, Live(j)'
               PROVE  /\ fetches'[j].pc = "fetch" => fetches'[j].header = _lastEventId'
                      /\ fetches'[j].pc \in {"served", "read"} =>
                           \E b \in 0..Len(L') : GoesOn(fetches[j].body, b)'
    BY <1>3 DEF BodyInv
  <2>1. L' = L
    BY <1>1 DEF L
  <2> QED
    BY <1>1, <1>4, <1>5, <2>1
<1> QED
  BY <1>2, <1>6

LEMMA PrefixType ==
  ASSUME NEW body \in Seq(Events), NEW n \in 0..Len(body)
  PROVE  /\ SubSeq(body, 1, n) \in Seq(Events) /\ Len(SubSeq(body, 1, n)) = n
         /\ \A i \in 1..n : SubSeq(body, 1, n)[i] = body[i] /\ i \in 1..Len(body)
<1>1. Len(body) \in Nat /\ \A i \in 1..n : i \in 1..Len(body)
  BY LenProperties
<1>2. \A i \in 1..n : body[i] \in Events
  BY <1>1, ElementOfSeq
<1>3. /\ SubSeq(body, 1, n) \in Seq(Events)
      /\ Len(SubSeq(body, 1, n)) = IF 1 <= n THEN n - 1 + 1 ELSE 0
      /\ \A i \in 1..(n - 1 + 1) : SubSeq(body, 1, n)[i] = body[1 + i - 1]
  BY <1>1, <1>2, SubSeqProperties
<1> QED
  BY <1>1, <1>3

LEMMA PrefixGoesOn ==
  ASSUME NEW body \in Seq(Events), NEW b \in 0..Len(L), GoesOn(body, b), Len(L) \in Nat, NEW n \in 0..Len(body)
  PROVE  /\ SubSeq(body, 1, n) \in Seq(Events) /\ Len(SubSeq(body, 1, n)) = n
         /\ GoesOn(SubSeq(body, 1, n), b)
<1>1. Len(body) \in Nat
  BY LenProperties
<1> QED
  BY <1>1, PrefixType DEF GoesOn

\* A response goes on where the client is: after its last event, if the store
\* still has it, and else from the oldest that is kept.
LEMMA ReplayGoesOn ==
  ASSUME StoreInv, SeenInv
  PROVE  /\ Replay(Session, _lastEventId) \in Seq(Events)
         /\ \E b \in 0..Len(L) : GoesOn(Replay(Session, _lastEventId), b)
<1> DEFINE St == streams[Session]
           kept == Kept(Session)
           n == Len(L)
           anchors == {i \in 1..Len(St) : St[i] = _lastEventId}
           R == Replay(Session, _lastEventId)
<1>1. /\ n \in Nat /\ kept \in 0..n /\ St \in Seq(Events) /\ Len(St) = kept
      /\ \A i \in 1..kept : St[i] = L[n - kept + i] /\ n - kept + i \in 1..n
      /\ \A i, j \in 1..n : L[i] = L[j] => i = j
  BY SessionStream DEF StreamView
<1>2. R = IF anchors = {} THEN St
          ELSE Rest(St, (CHOOSE i \in anchors : \A j \in anchors : i <= j) + 1)
  BY DEF Replay
<1>3. \A m \in 1..n : InStore(L[m]) => n - kept < m
  <2> SUFFICES ASSUME NEW m \in 1..n, NEW i \in 1..Len(St), St[i] = L[m] PROVE n - kept < m
    BY DEF InStore
  <2>1. i \in 1..kept /\ n - kept + i = m
    BY <1>1
  <2> QED
    BY <1>1, <2>1
<1> HIDE DEF St, kept, n, R
<1>4. CASE anchors = {}
  <2>1. R = St
    BY <1>2, <1>4
  <2>2. ASSUME NEW m \in 1..n, Got(L[m]) PROVE m <= n - kept
    <3>1. PICK p \in 1..n : m <= p /\ L[p] = _lastEventId
      BY <2>2, LastIsLast DEF n
    <3>2. p <= n - kept
      <4> SUFFICES ASSUME n - kept < p PROVE FALSE
        BY <1>1
      <4>1. p - (n - kept) \in 1..kept /\ n - kept + (p - (n - kept)) = p
        BY <1>1
      <4>2. St[p - (n - kept)] = _lastEventId
        BY <1>1, <3>1, <4>1
      <4> QED
        BY <1>1, <1>4, <4>1, <4>2
    <3> QED
      BY <1>1, <3>1, <3>2
  <2>3. CaughtUp(n - kept)
    BY <1>1, <1>3, <2>2 DEF CaughtUp, n
  <2>4. GoesOn(St, n - kept)
    BY <1>1, <2>3 DEF GoesOn, n
  <2> QED
    BY <1>1, <2>1, <2>4 DEF R, n
<1>5. CASE anchors # {}
  <2>1. PICK a \in 1..kept : St[a] = _lastEventId
    BY <1>1, <1>5
  <2> DEFINE p == n - kept + a
             r == Rest(St, a + 1)
  <2>2. p \in 1..n /\ L[p] = _lastEventId /\ a \in 1..kept /\ n - p = kept - a
    BY <1>1, <2>1
  <2>3. \A i \in anchors : i = a
    BY <1>1, <2>1
  <2>4. a \in anchors
    BY <1>1, <2>1
  <2>5. (CHOOSE i \in anchors : \A j \in anchors : i <= j) = a
    BY <1>1, <2>3, <2>4
  <2>6. R = r
    BY <1>2, <1>5, <2>5
  <2>7. /\ r \in Seq(Events) /\ Len(r) = kept - a
        /\ \A i \in 1..(kept - a) : r[i] = St[a + i] /\ a + i \in 1..kept
    <3> DEFINE left == kept - a
    <3>1. left \in 0..Len(St) /\ Len(St) - left + 1 = a + 1
      BY <1>1, <2>1
    <3> HIDE DEF left
    <3>2. St \in Seq(Events) /\ r = Rest(St, Len(St) - left + 1)
      BY <1>1, <3>1
    <3> HIDE DEF r
    <3>4. /\ r \in Seq(Events) /\ Len(r) = left
          /\ \A i \in 1..left : r[i] = St[Len(St) - left + i] /\ Len(St) - left + i \in 1..Len(St)
      BY <3>1, <3>2, LastEvents
    <3>3. \A i \in 1..left : Len(St) - left + i = a + i
      BY <1>1, <2>1 DEF left
    <3> QED
      BY <1>1, <3>3, <3>4 DEF left
  <2> HIDE DEF r
  <2>8. \A i \in 1..Len(r) : r[i] = L[p + i]
    <3>1. \A i \in 1..(kept - a) : n - kept + (a + i) = p + i
      BY <1>1, <2>1
    <3> SUFFICES ASSUME NEW i \in 1..(kept - a) PROVE r[i] = L[p + i]
      BY <2>7
    <3>2. a + i \in 1..kept /\ r[i] = St[a + i]
      BY <2>7
    <3> QED
      BY <1>1, <3>1, <3>2
  <2>9. CaughtUp(p)
    <3>1. ASSUME NEW m \in 1..n, Got(L[m]) PROVE m <= p
      <4>1. PICK q \in 1..n : m <= q /\ L[q] = _lastEventId
        BY <3>1, LastIsLast DEF n
      <4>2. q = p
        BY <1>1, <2>2, <4>1
      <4> QED
        BY <4>1, <4>2
    <3>2. ASSUME NEW m \in 1..n, m <= p, InStore(L[m]) PROVE Got(L[m])
      <4>1. CASE m = p
        <5>1. _lastEventId \in Events
          BY <1>1, <2>1, ElementOfSeq
        <5>2. seen # <<>> /\ _lastEventId = seen[Len(seen)]
          BY <5>1, StoreAssumption DEF SeenInv, Events, NoEvent
        <5>3. Len(seen) \in 1..Len(seen)
          BY <5>2, EmptySeq, LenProperties DEF SeenInv
        <5> QED
          BY <2>2, <4>1, <5>2, <5>3 DEF Got
      <4>2. CASE m < p
        BY <2>2, <3>2, <4>2 DEF SeenInv, NoSilentGap, InStore, Got, L, n
      <4> QED
        BY <1>1, <2>2, <3>2, <4>1, <4>2
    <3> QED
      BY <3>1, <3>2 DEF CaughtUp, n
  <2>10. GoesOn(r, p)
    BY <1>1, <2>2, <2>7, <2>8, <2>9 DEF GoesOn, n
  <2> QED
    BY <1>1, <2>2, <2>6, <2>7, <2>10 DEF R, n
<1> QED
  BY <1>4, <1>5 DEF R

\* What is handed over with the first n events of a body, and what is left of it.
Taken(got, body, n, s2, rest) ==
  /\ s2 \in Seq(Events) /\ Len(s2) = Len(got) + n
  /\ \A i \in 1..Len(got) : s2[i] = got[i] /\ i \in 1..Len(s2)
  /\ \A j \in 1..n : s2[Len(got) + j] = body[j] /\ Len(got) + j \in 1..Len(s2)
  /\ \A i \in 1..Len(s2) : i \in 1..Len(got) \/ \E j \in 1..n : i = Len(got) + j
  /\ rest \in Seq(Events) /\ Len(rest) = Len(body) - n
  /\ \A i \in 1..Len(rest) : rest[i] = body[n + i] /\ n + i \in 1..Len(body)

LEMMA TakeChunk ==
  ASSUME NEW got \in Seq(Events), NEW body \in Seq(Events), NEW n \in 1..Len(body)
  PROVE  Taken(got, body, n, got \o SubSeq(body, 1, n), Rest(body, n + 1))
<1> DEFINE c == SubSeq(body, 1, n)
           s2 == got \o c
           rest == Rest(body, n + 1)
           q == Len(got)
           left == Len(body) - n
<1>1. q \in Nat /\ Len(body) \in Nat /\ n \in Nat /\ n <= Len(body) /\ n \in 0..Len(body)
  BY LenProperties
<1>2. c \in Seq(Events) /\ Len(c) = n /\ \A i \in 1..n : c[i] = body[i]
  BY <1>1, PrefixType
<1> HIDE DEF c
<1>3. /\ s2 \in Seq(Events) /\ Len(s2) = q + n
      /\ \A i \in 1..(q + n) : s2[i] = IF i <= q THEN got[i] ELSE c[i - q]
  BY <1>2, ConcatProperties
<1>4. left \in 0..Len(body) /\ Len(body) - left + 1 = n + 1
  BY <1>1
<1>5. rest = Rest(body, Len(body) - left + 1)
  BY <1>4
<1>6. \A i \in 1..left : Len(body) - left + i = n + i
  BY <1>1
<1> HIDE DEF s2, rest, q, left
<1>7. /\ rest \in Seq(Events) /\ Len(rest) = left
      /\ \A i \in 1..left : rest[i] = body[Len(body) - left + i] /\ Len(body) - left + i \in 1..Len(body)
  BY <1>4, <1>5, LastEvents
<1>8. \A i \in 1..Len(rest) : rest[i] = body[n + i] /\ n + i \in 1..Len(body)
  BY <1>6, <1>7
<1>9. \A i \in 1..q : i \in 1..(q + n) /\ i <= q
  BY <1>1
<1>10. \A j \in 1..n : q + j \in 1..(q + n) /\ ~(q + j <= q) /\ (q + j) - q = j
  BY <1>1
<1>11. \A i \in 1..(q + n) : i \in 1..q \/ (i - q \in 1..n /\ i = q + (i - q))
  BY <1>1
<1>12. Len(got) = q /\ Len(body) - n = left
  BY DEF q, left
<1>13. \A i \in 1..q : s2[i] = got[i] /\ i \in 1..Len(s2)
  BY <1>3, <1>9
<1>14. \A j \in 1..n : s2[q + j] = body[j] /\ q + j \in 1..Len(s2)
  BY <1>2, <1>3, <1>10
<1>15. \A i \in 1..Len(s2) : i \in 1..q \/ \E j \in 1..n : i = q + j
  BY <1>3, <1>11
<1>16. Taken(got, body, n, s2, rest)
  BY <1>3, <1>7, <1>8, <1>12, <1>13, <1>14, <1>15 DEF Taken
<1> QED
  BY <1>16 DEF s2, rest, c

\* The first n events of the body of the one live fetch are handed over.
LEMMA ChunkKeepsData ==
  ASSUME StoreInv, LinkInv, SeenInv, BodyInv, UNCHANGED storeVars,
         NEW k \in Ids, fetches[k].pc = "read", ~fetches[k].aborted,
         NEW n \in 1..Len(fetches[k].body),
         seen' = seen \o SubSeq(fetches[k].body, 1, n), _lastEventId' = fetches[k].body[n],
         NEW f \in Fetch, fetches' = [fetches EXCEPT ![k] = f],
         f.pc = "read", f.body = Rest(fetches[k].body, n + 1)
  PROVE  SeenInv' /\ BodyInv'
<1> DEFINE body == fetches[k].body
           rest == Rest(body, n + 1)
           q == Len(seen)
           s2 == seen \o SubSeq(body, 1, n)
           nL == Len(L)
<1>1. nL \in Nat /\ \A i, j \in 1..nL : L[i] = L[j] => i = j
  BY SessionStream DEF StreamView
<1>2. seen \in Seq(Events) /\ body \in Seq(Events) /\ Len(body) \in Nat /\ q \in Nat
  <2>1. fetches[k] \in Fetch
    BY ElementOfSeq DEF LinkInv, Ids
  <2>2. body \in Seq(Events) /\ seen \in Seq(Events)
    BY <2>1 DEF Fetch, SeenInv
  <2> QED
    BY <2>2, LenProperties
<1>3. PICK b \in 0..nL : GoesOn(body, b)
  BY DEF BodyInv, Live
<1> DEFINE p == b + n
<1>4. /\ b \in Nat /\ n \in Nat /\ q \in Nat /\ p = b + n /\ p \in 1..nL /\ p \in 0..nL
      /\ n \in 1..n /\ p + (Len(body) - n) <= nL
  <2>1. b + Len(body) <= nL /\ n \in 1..Len(body) /\ Len(body) \in Nat
    BY <1>2, <1>3 DEF GoesOn
  <2>2. q \in Nat /\ nL \in Nat
    BY <1>1, <1>2
  <2> HIDE DEF nL, body, q
  <2>3. b \in Nat /\ n \in Nat /\ n <= Len(body) /\ 1 <= n
    BY <2>1, <2>2
  <2> QED
    BY <2>1, <2>2, <2>3
<1>5. CaughtUp(b) /\ \A i \in 1..Len(body) : body[i] = L[b + i]
  BY <1>3 DEF GoesOn
<1>6. Taken(seen, body, n, s2, rest) /\ n \in 1..Len(body)
  BY <1>2, TakeChunk
<1>7. seen' = s2 /\ _lastEventId' = body[n] /\ log' = log /\ streams' = streams
  BY DEF storeVars
<1>8. f.body = rest /\ Len(seen) = q /\ Len(L) = nL
  OBVIOUS
<1> HIDE DEF body, rest, q, s2, p, nL
<1>9. /\ s2 \in Seq(Events) /\ Len(s2) = q + n
      /\ \A i \in 1..q : s2[i] = seen[i] /\ i \in 1..Len(s2)
      /\ \A j \in 1..n : s2[q + j] = body[j] /\ q + j \in 1..Len(s2)
      /\ Len(rest) = Len(body) - n
      /\ \A i \in 1..Len(rest) : rest[i] = body[n + i] /\ n + i \in 1..Len(body)
  BY <1>6, <1>8 DEF Taken
<1>10. \A i \in 1..Len(s2) : i \in 1..q \/ \E j \in 1..n : i = q + j
  BY <1>6, <1>8 DEF Taken
<1>11. \A j \in 1..n : b + j \in 1..nL /\ b + j <= p /\ b < b + j /\ j \in 1..Len(body)
  BY <1>1, <1>2, <1>4, <1>6
<1>12. \A m \in 1..nL : m \in Nat /\ (m <= b => m <= p)
  BY <1>4
<1>13. \A m \in 1..nL : m <= b \/ ~(m <= p) \/ \E j \in 1..n : m = b + j
  <2> SUFFICES ASSUME NEW m \in 1..nL, ~(m <= b), m <= p PROVE m - b \in 1..n /\ m = b + (m - b)
    BY <1>4
  <2> QED
    BY <1>4
<1>14. body[n] = L[p] /\ s2[q + n] = L[p] /\ q + n # 0
  <2>1. body[n] = L[b + n] /\ s2[q + n] = body[n]
    BY <1>4, <1>5, <1>6, <1>9
  <2>2. b + n = p /\ q + n # 0
    BY <1>4
  <2> QED
    BY <2>1, <2>2
<1>15. \A j \in 1..n : s2[q + j] = L[b + j]
  BY <1>5, <1>9, <1>11
<1>16. ASSUME NEW m \in 1..nL, m <= p, InStore(L[m])
       PROVE  \E i \in 1..Len(s2) : s2[i] = L[m]
  <2>1. CASE m <= b
    <3>1. PICK i \in 1..q : seen[i] = L[m]
      BY <1>5, <1>16, <2>1 DEF CaughtUp, Got, q, nL
    <3> QED
      BY <1>9, <3>1
  <2>2. ASSUME NEW j \in 1..n, m = b + j PROVE \E i \in 1..Len(s2) : s2[i] = L[m]
    BY <1>9, <1>15, <2>2
  <2> QED
    BY <1>13, <1>16, <2>1, <2>2
<1>17. ASSUME NEW i \in 1..q, NEW m \in 1..nL, s2[i] = L[m]
       PROVE  m <= b
  BY <1>5, <1>9, <1>17 DEF CaughtUp, Got, q, nL
<1>18. ASSUME NEW j \in 1..n, NEW m \in 1..nL, s2[q + j] = L[m]
       PROVE  m = b + j
  BY <1>1, <1>11, <1>15, <1>18
<1>19. ASSUME NEW m \in 1..nL, NEW i \in 1..Len(s2), s2[i] = L[m]
       PROVE  m <= p
  <2>1. CASE i \in 1..q
    BY <1>12, <1>17, <1>19, <2>1
  <2>2. ASSUME NEW j \in 1..n, i = q + j PROVE m <= p
    BY <1>11, <1>18, <1>19, <2>2
  <2> QED
    BY <1>10, <2>1, <2>2
<1>20. ASSUME NEW i \in 1..Len(s2)
       PROVE  \E m \in 1..nL : L[m] = s2[i]
  <2>1. ASSUME i \in 1..q PROVE \E m \in 1..nL : L[m] = s2[i]
    BY <1>9, <2>1 DEF SeenInv, q, nL
  <2> QED
    BY <1>10, <1>11, <1>15, <2>1
<1>21. ASSUME NEW i \in 1..Len(s2), NEW j \in 1..Len(s2), i < j
       PROVE  \E m, r \in 1..nL : m < r /\ L[m] = s2[i] /\ L[r] = s2[j]
  <2>1. CASE j \in 1..q
    <3>1. i \in 1..q
      BY <1>4, <1>21, <2>1
    <3>2. PICK m, r \in 1..nL : m < r /\ L[m] = seen[i] /\ L[r] = seen[j]
      BY <1>21, <2>1, <3>1 DEF SeenInv, ResumeInOrder, L, q, nL
    <3> QED
      BY <1>9, <2>1, <3>1, <3>2
  <2>2. ASSUME NEW t \in 1..n, j = q + t PROVE \E m, r \in 1..nL : m < r /\ L[m] = s2[i] /\ L[r] = s2[j]
    <3>1. L[b + t] = s2[j] /\ b + t \in 1..nL /\ b < b + t
      BY <1>11, <1>15, <2>2
    <3>2. PICK m \in 1..nL : L[m] = s2[i]
      BY <1>20
    <3>3. ASSUME i \in 1..q PROVE m < b + t
      <4>1. m <= b
        BY <1>17, <3>2, <3>3
      <4> QED
        BY <1>4, <1>12, <3>1, <4>1
    <3>4. ASSUME NEW u \in 1..n, i = q + u PROVE m < b + t
      <4>1. m = b + u
        BY <1>18, <3>2, <3>4
      <4>2. u < t
        BY <1>4, <1>21, <2>2, <3>4
      <4> QED
        BY <1>4, <4>1, <4>2
    <3> QED
      BY <1>10, <3>1, <3>2, <3>3, <3>4
  <2> QED
    BY <1>10, <2>1, <2>2
<1>22. L' = L /\ Len(L') = nL /\ Len(seen') = Len(s2)
  BY <1>7 DEF L, nL
<1>23. CaughtUp(p)'
  <2>1. ASSUME NEW m \in 1..nL
        PROVE  /\ InStore(L[m])' <=> InStore(L[m])
               /\ Got(L[m])' <=> \E i \in 1..Len(s2) : s2[i] = L[m]
    <3>1. L'[m] = L[m]
      BY <1>22
    <3>2. InStore(L[m])' <=> InStore(L[m])
      BY <1>7, <3>1 DEF InStore
    <3>3. Got(L[m])' <=> \E i \in 1..Len(s2) : s2[i] = L[m]
      BY <1>7, <3>1 DEF Got
    <3> QED
      BY <3>2, <3>3
  <2> QED
    BY <1>16, <1>19, <1>22, <2>1 DEF CaughtUp
<1>24. ResumeInOrder'
  <2>1. ASSUME NEW i \in 1..Len(seen'), NEW j \in 1..Len(seen'), i < j
        PROVE  \E m, r \in 1..Len(L') : m < r /\ L'[m] = seen'[i] /\ L'[r] = seen'[j]
    <3>1. i \in 1..Len(s2) /\ j \in 1..Len(s2)
      BY <1>22
    <3>2. PICK m, r \in 1..nL : m < r /\ L[m] = s2[i] /\ L[r] = s2[j]
      BY <1>21, <2>1, <3>1
    <3> QED
      BY <1>7, <1>22, <3>2
  <2> QED
    BY <2>1 DEF ResumeInOrder, L
<1>25. NoSilentGap'
  <2>1. ASSUME NEW m \in 1..nL, NEW r \in 1..nL, m < r, L[r] = L[p], InStore(L[m])
        PROVE  \E i \in 1..Len(s2) : s2[i] = L[m]
    <3>1. r = p
      BY <1>1, <1>4, <2>1
    <3>2. m <= p
      BY <1>4, <1>12, <2>1, <3>1
    <3> QED
      BY <1>16, <2>1, <3>2
  <2> QED
    <3>1. /\ L' = L /\ Len(L') = nL /\ _lastEventId' = L[p] /\ seen' = s2 /\ Len(seen') = Len(s2)
          /\ streams' = streams
      BY <1>7, <1>14, <1>22
    <3>2. ASSUME NEW m \in 1..Len(L'), NEW r \in 1..Len(L'), m < r, L'[r] = _lastEventId',
                 \E i \in 1..Len(streams'[Session]) : streams'[Session][i] = L'[m]
          PROVE  \E i \in 1..Len(seen') : seen'[i] = L'[m]
      <4>1. m \in 1..nL /\ r \in 1..nL /\ L[r] = L[p]
        BY <3>1, <3>2
      <4>2. InStore(L[m])
        BY <3>1, <3>2 DEF InStore
      <4>3. \E i \in 1..Len(s2) : s2[i] = L[m]
        BY <2>1, <3>2, <4>1, <4>2
      <4> QED
        BY <3>1, <4>3
    <3> QED
      BY <3>2 DEF NoSilentGap, L
<1>26. SeenInv'
  <2>1. seen' \in Seq(Events)
    BY <1>9, <1>7
  <2>2. _lastEventId' = IF seen' = <<>> THEN NoEvent ELSE seen'[Len(seen')]
    <3>1. s2 # <<>> /\ s2[Len(s2)] = body[n]
      BY <1>9, <1>14, EmptySeq
    <3> QED
      BY <1>7, <3>1
  <2>3. \A i \in 1..Len(seen') : \E m \in 1..Len(L') : L'[m] = seen'[i]
    BY <1>7, <1>20, <1>22
  <2> QED
    BY <1>24, <1>25, <2>1, <2>2, <2>3 DEF SeenInv
<1>27. BodyInv'
  <2>1. /\ Ids' = Ids /\ fetches'[k] = f
        /\ \A j \in Ids : j # k => fetches'[j] = fetches[j]
    BY FetchesSet DEF LinkInv
  <2>2. \A j \in Ids : Live(j)' => j = k
    BY <2>1 DEF LinkInv, Live
  <2>3. GoesOn(fetches[k].body, p)'
    <3>1. fetches'[k].body = rest
      BY <2>1 DEF rest, body
    <3>2. p + Len(rest) <= nL
      BY <1>4, <1>9
    <3>3. \A i \in 1..Len(rest) : rest[i] = L[b + (n + i)]
      BY <1>5, <1>9
    <3>4. \A i \in 1..Len(rest) : b + (n + i) = p + i
      BY <1>4
    <3>5. \A i \in 1..Len(rest) : rest[i] = L[p + i]
      BY <3>3, <3>4
    <3> QED
      BY <1>22, <1>23, <3>1, <3>2, <3>5 DEF GoesOn
  <2> QED
    BY <1>4, <1>22, <2>1, <2>2, <2>3 DEF BodyInv
<1> QED
  BY <1>26, <1>27

LEMMA LastEventType ==
  ASSUME SeenInv
  PROVE  _lastEventId \in Events \cup {NoEvent}
<1>1. seen # <<>> => Len(seen) \in 1..Len(seen)
  BY EmptySeq, LenProperties DEF SeenInv
<1> QED
  BY <1>1, ElementOfSeq DEF SeenInv

LEMMA ConnectKeepsData ==
  ASSUME LinkInv, SeenInv, BodyInv, Connect
  PROVE  SeenInv' /\ BodyInv'
<1> DEFINE f == [header |-> _lastEventId, pc |-> "fetch", opened |-> FALSE,
                 aborted |-> FALSE, body |-> <<>>, end |-> "open"]
           n == Len(fetches)
<1>1. /\ fetches \in Seq(Fetch) /\ fetches' = Append(fetches, f) /\ ~_connected /\ Pending = {}
      /\ UNCHANGED <<log, streams, seen, _lastEventId>>
  BY DEF LinkInv, Connect, storeVars
<1>2. \A j \in Ids : ~Live(j)
  <2>1. \A j \in Ids : Live(j) => fetches[j].pc # "read"
    BY <1>1 DEF LinkInv
  <2>2. \A j \in Ids : fetches[j] \in Fetch
    BY <1>1, ElementOfSeq DEF Ids
  <2> QED
    BY <1>1, <2>1, <2>2 DEF Live, Pending, Fetch
<1>3. f \in Fetch /\ f.pc = "fetch" /\ f.header = _lastEventId
  <2>1. _lastEventId \in Events \cup {NoEvent}
    BY LastEventType
  <2> QED
    BY <2>1, EmptySeq DEF Fetch
<1> HIDE DEF f
<1>4. /\ Len(fetches') = n + 1 /\ n \in Nat
      /\ fetches'[n + 1] = f /\ \A j \in 1..n : fetches'[j] = fetches[j]
  BY <1>1, <1>3, AppendProperties, LenProperties
<1>5. ASSUME NEW j \in Ids', Live(j)' PROVE fetches'[j] = f
  BY <1>2, <1>4, <1>5 DEF Live, Ids
<1>6. SeenInv'
  BY <1>1, SeenUntouched
<1>7. BodyInv'
  BY <1>1, <1>3, <1>5 DEF BodyInv
<1> QED
  BY <1>6, <1>7

Links == LinkInv /\ SeenInv /\ BodyInv

LEMMA ReplayType ==
  ASSUME StoreInv, NEW e
  PROVE  Replay(Session, e) \in Seq(Events)
<1> DEFINE St == streams[Session]
           anchors == {i \in 1..Len(St) : St[i] = e}
<1>1. /\ St \in Seq(Events) /\ Len(St) \in Nat
      /\ \A i, j \in 1..Len(St) : St[i] = St[j] => i = j
  <2>1. /\ Len(L) \in Nat /\ Kept(Session) \in 0..Len(L)
        /\ St \in Seq(Events) /\ Len(St) = Kept(Session)
        /\ \A i \in 1..Kept(Session) : /\ St[i] = L[Len(L) - Kept(Session) + i]
                                       /\ Len(L) - Kept(Session) + i \in 1..Len(L)
        /\ \A m, n \in 1..Len(L) : L[m] = L[n] => m = n
    BY SessionStream DEF StreamView
  <2> HIDE DEF St
  <2>2. ASSUME NEW i \in 1..Len(St), NEW j \in 1..Len(St), St[i] = St[j] PROVE i = j
    <3>1. Len(L) - Kept(Session) + i = Len(L) - Kept(Session) + j
      BY <2>1, <2>2
    <3> QED
      BY <2>1, <3>1
  <2> QED
    BY <2>1, <2>2
<1>2. Replay(Session, e) = IF anchors = {} THEN St
          ELSE Rest(St, (CHOOSE i \in anchors : \A j \in anchors : i <= j) + 1)
  BY DEF Replay
<1> HIDE DEF St
<1>3. CASE anchors = {}
  BY <1>1, <1>2, <1>3
<1>4. CASE anchors # {}
  <2>1. PICK a \in 1..Len(St) : St[a] = e
    BY <1>4
  <2>2. \A i \in anchors : i = a
    BY <1>1, <2>1
  <2>3. a \in anchors
    BY <2>1
  <2>4. (CHOOSE i \in anchors : \A j \in anchors : i <= j) = a
    BY <1>1, <2>2, <2>3
  <2>5. Replay(Session, e) = Rest(St, a + 1)
    BY <1>2, <1>4, <2>4
  <2>6. Len(St) - a \in 0..Len(St) /\ Len(St) - (Len(St) - a) + 1 = a + 1
    BY <1>1, <2>1
  <2>7. Rest(St, Len(St) - (Len(St) - a) + 1) \in Seq(Events)
    BY <1>1, <2>6, LastEvents
  <2> QED
    BY <2>5, <2>6, <2>7
<1> QED
  BY <1>3, <1>4

ClientLinks == LinkInv /\ SeenInv /\ BodyInv

LEMMA FetchFields ==
  ASSUME ClientLinks, NEW k \in Ids
  PROVE  /\ fetches \in Seq(Fetch) /\ fetches[k] \in Fetch
         /\ fetches[k].body \in Seq(Events) /\ Len(fetches[k].body) \in Nat
<1>1. fetches[k] \in Fetch
  BY ElementOfSeq DEF ClientLinks, LinkInv, Ids
<1>2. fetches[k].body \in Seq(Events)
  BY <1>1 DEF Fetch
<1> QED
  BY <1>1, <1>2, LenProperties DEF ClientLinks, LinkInv

LEMMA ServeStep ==
  ASSUME StoreInv, ClientLinks, NEW k \in Ids, Serve(k)
  PROVE  ClientLinks'
<1> DEFINE f == [fetches[k] EXCEPT !.pc = "served", !.header = NoEvent,
                                   !.body = Replay(Session, fetches[k].header)]
<1>1. /\ fetches[k].pc = "fetch" /\ fetches' = [fetches EXCEPT ![k] = f]
      /\ UNCHANGED storeVars /\ UNCHANGED <<seen, _lastEventId>>
      /\ UNCHANGED <<_abortController, _connected, closes>>
  BY DEF Serve
<1>2. fetches[k] \in Fetch
  BY FetchFields
<1>3. /\ f \in Fetch /\ f.pc = "served" /\ f.body = Replay(Session, fetches[k].header)
      /\ f.opened = fetches[k].opened /\ f.aborted = fetches[k].aborted
  BY <1>2, ReplayType DEF Fetch
<1> HIDE DEF f
<1>4. LinkInv'
  BY <1>1, <1>3, DataKeepsLinks DEF ClientLinks
<1>5. ~f.aborted => \E b \in 0..Len(L) : GoesOn(f.body, b)
  <2>1. ~fetches[k].aborted => fetches[k].header = _lastEventId
    BY <1>1 DEF ClientLinks, BodyInv, Live
  <2> QED
    BY <1>3, <2>1, ReplayGoesOn DEF ClientLinks
<1>6. SeenInv' /\ BodyInv'
  BY <1>1, <1>3, <1>5, FetchKeepsData DEF ClientLinks
<1> QED
  BY <1>4, <1>6 DEF ClientLinks

LEMMA EndBodyStep ==
  ASSUME StoreInv, ClientLinks, NEW k \in Ids, EndBody(k)
  PROVE  ClientLinks'
<1>1. /\ fetches[k].pc \in {"served", "read"}
      /\ UNCHANGED storeVars /\ UNCHANGED <<seen, _lastEventId>>
      /\ UNCHANGED <<_abortController, _connected, closes>>
  BY DEF EndBody
<1>2. /\ fetches[k] \in Fetch /\ fetches[k].body \in Seq(Events) /\ Len(fetches[k].body) \in Nat
      /\ Len(L) \in Nat
  BY FetchFields, SessionStream DEF StreamView
<1>3. ASSUME NEW f \in Fetch, fetches' = [fetches EXCEPT ![k] = f], f.pc = fetches[k].pc,
             f.opened = fetches[k].opened, f.aborted = fetches[k].aborted,
             \A b \in 0..Len(L) : GoesOn(fetches[k].body, b) => GoesOn(f.body, b)
      PROVE  ClientLinks'
  <2>1. LinkInv'
    BY <1>1, <1>3, DataKeepsLinks DEF ClientLinks
  <2>2. ~f.aborted => \E b \in 0..Len(L) : GoesOn(f.body, b)
    BY <1>1, <1>3 DEF ClientLinks, BodyInv, Live
  <2>3. SeenInv' /\ BodyInv'
    BY <1>1, <1>3, <2>2, FetchKeepsData DEF ClientLinks
  <2> QED
    BY <2>1, <2>3 DEF ClientLinks
<1>4. CASE fetches' = [fetches EXCEPT ![k].end = "eof"]
  <2> DEFINE f == [fetches[k] EXCEPT !.end = "eof"]
  <2>1. fetches' = [fetches EXCEPT ![k] = f]
    BY <1>4
  <2>2. /\ f \in Fetch /\ f.pc = fetches[k].pc /\ f.body = fetches[k].body
        /\ f.opened = fetches[k].opened /\ f.aborted = fetches[k].aborted
    BY <1>2 DEF Fetch
  <2> QED
    BY <1>3, <2>1, <2>2
<1>5. ASSUME NEW n \in 0..Len(fetches[k].body),
             fetches' = [fetches EXCEPT ![k].end = "broken", ![k].body = SubSeq(@, 1, n)]
      PROVE  ClientLinks'
  <2> DEFINE f == [fetches[k] EXCEPT !.end = "broken", !.body = SubSeq(fetches[k].body, 1, n)]
  <2>1. fetches' = [fetches EXCEPT ![k] = f]
    BY <1>5
  <2>2. SubSeq(fetches[k].body, 1, n) \in Seq(Events)
    BY <1>2, PrefixType
  <2>3. /\ f \in Fetch /\ f.pc = fetches[k].pc /\ f.body = SubSeq(fetches[k].body, 1, n)
        /\ f.opened = fetches[k].opened /\ f.aborted = fetches[k].aborted
    BY <1>2, <2>2 DEF Fetch
  <2>4. \A b \in 0..Len(L) : GoesOn(fetches[k].body, b) => GoesOn(f.body, b)
    BY <1>2, <2>3, PrefixGoesOn
  <2> HIDE DEF f
  <2> QED
    BY <1>3, <2>1, <2>3, <2>4
<1> QED
  BY <1>4, <1>5 DEF EndBody

LEMMA OpenedStep ==
  ASSUME ClientLinks, NEW k \in Ids, Opened(k)
  PROVE  ClientLinks'
<1> DEFINE f == [fetches[k] EXCEPT !.pc = "read", !.opened = TRUE]
<1>1. /\ fetches[k].pc = "served" /\ NoneRejected /\ fetches' = [fetches EXCEPT ![k] = f]
      /\ _connected' = TRUE /\ UNCHANGED <<_abortController, closes>>
      /\ UNCHANGED storeVars /\ UNCHANGED <<seen, _lastEventId>>
  BY DEF Opened
<1>2. fetches[k] \in Fetch
  BY FetchFields
<1>3. /\ f \in Fetch /\ f.pc = "read" /\ f.opened /\ f.body = fetches[k].body
      /\ f.aborted = fetches[k].aborted
  BY <1>2 DEF Fetch
<1> HIDE DEF f
<1>4. LinkInv'
  BY <1>1, <1>3, OpenKeepsLinks DEF ClientLinks
<1>5. ~f.aborted => \E b \in 0..Len(L) : GoesOn(f.body, b)
  BY <1>1, <1>3 DEF ClientLinks, BodyInv, Live
<1>6. SeenInv' /\ BodyInv'
  BY <1>1, <1>3, <1>5, FetchKeepsData DEF ClientLinks
<1> QED
  BY <1>4, <1>6 DEF ClientLinks

LEMMA OverType ==
  ASSUME NEW g \in Fetch
  PROVE  Over(g) \in Fetch /\ Over(g).pc = "over" /\ Over(g).opened = g.opened
BY EmptySeq DEF Over, Fetch

LEMMA ThrowStep ==
  ASSUME ClientLinks, NEW k \in Ids, Throw(k)
  PROVE  ClientLinks'
<1>1. /\ fetches[k].pc \in {"fetch", "served"} /\ fetches' = [fetches EXCEPT ![k] = Over(fetches[k])]
      /\ UNCHANGED <<_abortController, _connected, closes>>
      /\ UNCHANGED storeVars /\ UNCHANGED <<seen, _lastEventId>>
  BY DEF Throw, Pending
<1>2. Over(fetches[k]) \in Fetch /\ Over(fetches[k]).pc = "over" /\ Over(fetches[k]).opened = fetches[k].opened
  BY FetchFields, OverType
<1>3. LinkInv'
  BY <1>1, <1>2, ThrowKeepsLinks DEF ClientLinks
<1>4. SeenInv' /\ BodyInv'
  BY <1>1, <1>2, FetchKeepsData DEF ClientLinks
<1> QED
  BY <1>3, <1>4 DEF ClientLinks

LEMMA ReadEndsStep ==
  ASSUME ClientLinks, NEW k \in Ids, ReadEnds(k)
  PROVE  ClientLinks'
<1>1. /\ fetches[k].pc = "read" /\ fetches' = [fetches EXCEPT ![k] = Over(fetches[k])]
      /\ CloseOnce /\ UNCHANGED _abortController
      /\ UNCHANGED storeVars /\ UNCHANGED <<seen, _lastEventId>>
  BY DEF ReadEnds
<1>2. Over(fetches[k]) \in Fetch /\ Over(fetches[k]).pc = "over" /\ Over(fetches[k]).opened = fetches[k].opened
  BY FetchFields, OverType
<1>3. LinkInv'
  BY <1>1, <1>2, EndKeepsLinks DEF ClientLinks
<1>4. SeenInv' /\ BodyInv'
  BY <1>1, <1>2, FetchKeepsData DEF ClientLinks
<1> QED
  BY <1>3, <1>4 DEF ClientLinks

LEMMA CloseStep ==
  ASSUME ClientLinks, Close
  PROVE  ClientLinks'
<1> DEFINE k == _abortController
           f == [fetches[k] EXCEPT !.aborted = TRUE]
<1>1. /\ k # 0 \/ _connected
      /\ fetches' = Abort(fetches) /\ _abortController' = 0 /\ CloseOnce
      /\ UNCHANGED storeVars /\ UNCHANGED <<seen, _lastEventId>>
  BY DEF Close
<1>2. k # 0
  <2>1. _connected => \E j \in Ids : j = k
    BY DEF ClientLinks, LinkInv
  <2> QED
    BY <1>1, <2>1 DEF Ids
<1>3. k \in Ids
  BY <1>2, LenProperties DEF ClientLinks, LinkInv, Ids
<1>4. fetches' = [fetches EXCEPT ![k] = f]
  BY <1>1, <1>2 DEF Abort
<1>5. fetches[k] \in Fetch
  BY <1>3, FetchFields
<1>6. f \in Fetch /\ f.aborted /\ f.pc = fetches[k].pc /\ f.opened = fetches[k].opened
  BY <1>5 DEF Fetch
<1> HIDE DEF f
<1>7. LinkInv'
  BY <1>1, <1>3, <1>4, <1>6, AbortKeepsLinks DEF ClientLinks
<1>8. SeenInv' /\ BodyInv'
  BY <1>1, <1>3, <1>4, <1>6, FetchKeepsData DEF ClientLinks
<1> QED
  BY <1>7, <1>8 DEF ClientLinks

LEMMA RestType ==
  ASSUME NEW body \in Seq(Events), NEW n \in 1..Len(body)
  PROVE  Rest(body, n + 1) \in Seq(Events)
<1>1. Len(body) \in Nat
  BY LenProperties
<1>2. Len(body) - n \in 0..Len(body) /\ Len(body) - (Len(body) - n) + 1 = n + 1
  BY <1>1
<1>3. Rest(body, Len(body) - (Len(body) - n) + 1) \in Seq(Events)
  BY <1>2, LastEvents
<1> QED
  BY <1>2, <1>3

LEMMA ReadChunkStep ==
  ASSUME StoreInv, ClientLinks, NEW k \in Ids, ReadChunk(k)
  PROVE  ClientLinks'
<1>1. /\ fetches[k].pc = "read" /\ ~fetches[k].aborted /\ UNCHANGED storeVars
  BY DEF ReadChunk
<1> DEFINE body == fetches[k].body
           rest(n) == [fetches EXCEPT ![k].body = Rest(@, n + 1)]
<1>2. PICK n \in 1..Len(body) :
        /\ seen' = seen \o SubSeq(body, 1, n)
        /\ _lastEventId' = body[n]
        /\ \/ fetches' = rest(n) /\ UNCHANGED <<_connected, _abortController, closes>>
           \/ CloseOnce /\ fetches' = Abort(rest(n)) /\ _abortController' = 0
  BY DEF ReadChunk
<1>3. /\ fetches[k] \in Fetch /\ Rest(body, n + 1) \in Seq(Events)
  BY FetchFields, RestType
<1>4. CASE fetches' = rest(n) /\ UNCHANGED <<_connected, _abortController, closes>>
  <2> DEFINE f == [fetches[k] EXCEPT !.body = Rest(body, n + 1)]
  <2>1. fetches' = [fetches EXCEPT ![k] = f]
    BY <1>4
  <2>2. /\ f \in Fetch /\ f.pc = "read" /\ f.body = Rest(body, n + 1) /\ f.pc = fetches[k].pc
        /\ f.opened = fetches[k].opened /\ f.aborted = fetches[k].aborted
    BY <1>1, <1>3 DEF Fetch
  <2> HIDE DEF f
  <2>3. LinkInv'
    BY <1>4, <2>1, <2>2, DataKeepsLinks DEF ClientLinks
  <2>4. SeenInv' /\ BodyInv'
    BY <1>1, <1>2, <2>1, <2>2, ChunkKeepsData DEF ClientLinks
  <2> QED
    BY <2>3, <2>4 DEF ClientLinks
<1>5. CASE CloseOnce /\ fetches' = Abort(rest(n)) /\ _abortController' = 0
  <2> DEFINE f == [fetches[k] EXCEPT !.body = Rest(body, n + 1), !.aborted = TRUE]
  <2>1. k = _abortController /\ k # 0
    BY <1>1 DEF ClientLinks, LinkInv, Live, Ids
  <2>2. fetches' = [rest(n) EXCEPT ![k].aborted = TRUE]
    BY <1>5, <2>1 DEF Abort
  <2>3. fetches' = [fetches EXCEPT ![k] = f]
    <3>1. fetches \in Seq(Fetch)
      BY DEF ClientLinks, LinkInv
    <3> QED
      BY <2>2, <3>1
  <2>4. /\ f \in Fetch /\ f.pc = "read" /\ f.body = Rest(body, n + 1) /\ f.pc = fetches[k].pc
        /\ f.opened = fetches[k].opened /\ f.aborted
    BY <1>1, <1>3 DEF Fetch
  <2> HIDE DEF f
  <2>5. LinkInv'
    BY <1>5, <2>1, <2>3, <2>4, AbortKeepsLinks DEF ClientLinks
  <2>6. SeenInv' /\ BodyInv'
    BY <1>1, <1>2, <2>3, <2>4, ChunkKeepsData DEF ClientLinks
  <2> QED
    BY <2>5, <2>6 DEF ClientLinks
<1> QED
  BY <1>2, <1>4, <1>5

ClientInv == StoreInv /\ ClientLinks

LEMMA InitClientInv == Init => ClientInv
<1> SUFFICES ASSUME Init PROVE ClientInv
  OBVIOUS
<1>1. fetches = <<>> /\ seen = <<>> /\ <<>> \in Seq(Fetch) /\ <<>> \in Seq(Events) /\ Ids = {}
  BY EmptySeq DEF Init, Ids
<1>2. Ended = {} /\ Cardinality(Ended) = 0
  BY <1>1, FS_EmptySet DEF Ended
<1>3. LinkInv
  <2>1. fetches \in Seq(Fetch) /\ _abortController = 0 /\ Len(fetches) = 0 /\ closes = 0
    BY <1>1, EmptySeq DEF Init
  <2>2. _connected = FALSE
    BY DEF Init
  <2>3. _connected \in BOOLEAN
    BY <2>2
  <2> QED
    BY <1>1, <1>2, <2>1, <2>2, <2>3 DEF LinkInv
<1>4. SeenInv
  <2>1. /\ \A i \in 1..Len(seen) : FALSE
        /\ \A m \in 1..Len(L) : FALSE
    BY <1>1, EmptySeq, ClientAssumption DEF Init, StoreInit, L
  <2> QED
    BY <1>1, <2>1 DEF Init, SeenInv, ResumeInOrder, NoSilentGap, L
<1>5. BodyInv
  BY <1>1 DEF BodyInv
<1> QED
  BY <1>3, <1>4, <1>5, InitStoreInv DEF Init, ClientInv, ClientLinks

LEMMA StoreKeepsClient ==
  ASSUME ClientInv, StoreNext, UNCHANGED clientVars
  PROVE  ClientInv'
<1>1. StoreInv'
  BY StepKeepsStore DEF ClientInv
<1>2. LinkInv'
  BY DEF ClientInv, ClientLinks, clientVars, LinkInv, Ids, Live, Ended, HasEnded
<1>3. SeenInv' /\ BodyInv'
  BY StoreKeepsData DEF ClientInv, ClientLinks
<1> QED
  BY <1>1, <1>2, <1>3 DEF ClientInv, ClientLinks

LEMMA ClientKeepsClient ==
  ASSUME ClientInv, ClientNext
  PROVE  ClientInv'
<1>1. StoreInv'
  BY ClientKeepsStore, StoreUntouched DEF ClientInv
<1>2. ASSUME Connect PROVE ClientLinks'
  BY <1>2, ConnectKeepsLinks, ConnectKeepsData, LastEventType DEF ClientInv, ClientLinks
<1>3. ASSUME Close PROVE ClientLinks'
  BY <1>3, CloseStep DEF ClientInv
<1>4. ASSUME NEW k \in Ids, Serve(k) \/ EndBody(k) \/ Opened(k) \/ Throw(k) \/ ReadChunk(k) \/ ReadEnds(k)
      PROVE  ClientLinks'
  BY <1>4, ServeStep, EndBodyStep, OpenedStep, ThrowStep, ReadChunkStep, ReadEndsStep DEF ClientInv
<1> QED
  BY <1>1, <1>2, <1>3, <1>4 DEF ClientNext, ClientInv

LEMMA ClientUntouched == ClientInv /\ UNCHANGED vars => ClientInv'
<1> SUFFICES ASSUME ClientInv, UNCHANGED vars PROVE ClientInv'
  OBVIOUS
<1>1. UNCHANGED storeVars /\ UNCHANGED <<streams, log>>
      /\ UNCHANGED <<_lastEventId, _connected, _abortController, fetches, seen, closes>>
  BY DEF vars, storeVars, clientVars
<1>2. StoreInv'
  BY <1>1, StoreUntouched DEF ClientInv
<1>3. LinkInv'
  BY <1>1 DEF ClientInv, ClientLinks, LinkInv, Ids, Live, Ended, HasEnded
<1>4. SeenInv'
  <2>1. SeenInv
    BY DEF ClientInv, ClientLinks
  <2> QED
    BY <1>1, <2>1, SeenUntouched
<1>5. BodyInv'
  <2>1. BodyInv
    BY DEF ClientInv, ClientLinks
  <2>2. UNCHANGED <<log, streams, seen, _lastEventId, fetches>>
    BY <1>1
  <2> QED
    <3>1. Ids' = Ids /\ L' = L /\ \A k \in Ids : Live(k)' <=> Live(k)
      BY <2>2 DEF Ids, Live, L
    <3>2. ASSUME NEW k \in Ids, NEW b \in 0..Len(L), GoesOn(fetches[k].body, b)
          PROVE  GoesOn(fetches[k].body, b)'
      BY <2>2, <3>2 DEF GoesOn, CaughtUp, InStore, Got, L
    <3> QED
      BY <2>1, <2>2, <3>1, <3>2 DEF BodyInv
<1> QED
  BY <1>2, <1>3, <1>4, <1>5 DEF ClientInv, ClientLinks

LEMMA ClientInvHolds == Spec => []ClientInv
<1>1. ClientInv /\ [(StoreNext /\ UNCHANGED clientVars) \/ ClientNext]_vars => ClientInv'
  BY StoreKeepsClient, ClientKeepsClient, ClientUntouched
<1> QED
  BY <1>1, InitClientInv, PTL DEF Spec

\* Over any number of connects that break or are closed anywhere, with events
\* stored, evicted and trimmed in between, the handlers get the session's
\* events in insertion order and none twice (Last-Event-ID, Replay, onEvent).
THEOREM ResumesInOrder == Spec => []ResumeInOrder
<1>1. ClientInv => ResumeInOrder
  BY DEF ClientInv, ClientLinks, SeenInv
<1> QED
  BY <1>1, ClientInvHolds, PTL

\* What the client has missed before its last event is what Store has evicted
\* or Trim has dropped.
THEOREM NoGapButEviction == Spec => []NoSilentGap
<1>1. ClientInv => NoSilentGap
  BY DEF ClientInv, ClientLinks, SeenInv
<1> QED
  BY <1>1, ClientInvHolds, PTL

\* onClose is called once for every stream that was opened and has ended, by
\* close, by a handler in the middle of a chunk, by the server or the network
\* (the _connected test of close and of the finally block of _readStream).
THEOREM StreamsCloseOnce == Spec => []ClosedOnce
<1>1. ClientInv => ClosedOnce
  <2> SUFFICES ASSUME ClientInv PROVE ClosedOnce
    OBVIOUS
  <2>1. Ended = {k \in Ids : fetches[k].opened /\ (fetches[k].aborted \/ fetches[k].pc = "over")}
    BY DEF Ended, HasEnded
  <2>2. closes = Cardinality(Ended) /\ (_connected <=> \E k \in Ids : Live(k) /\ fetches[k].pc = "read")
    BY DEF ClientInv, ClientLinks, LinkInv
  <2>3. \A k \in Ids : Live(k) /\ fetches[k].pc = "read" <=> k \in Reading /\ k \notin Ended
    BY DEF ClientInv, ClientLinks, LinkInv, Live, Reading, Ended, HasEnded
  <2>4. _connected <=> \E k \in Reading : k \notin Ended
    BY <2>2, <2>3 DEF Reading
  <2> QED
    BY <2>1, <2>2, <2>4 DEF ClosedOnce
<1> QED
  BY <1>1, ClientInvHolds, PTL
=============================================================================
