------------------------ MODULE ThreadTimelinesProofs ------------------------
(***************************************************************************)
(* Proofs about ThreadTimelines, for every finite set of threads and every *)
(* bound: its type, that only the newest attempt's token of a thread is    *)
(* current in its table, that a closed thread stays closed, and that the   *)
(* endpoints of a timeline are held from when they are taken.              *)
(***************************************************************************)
EXTENDS ThreadTimelines, FiniteSetTheorems, SequenceTheorems, TLAPS

\* Every request to create t is followed by one to close it.
Answered(q, t) ==
    \A i \in 1..Len(q) : q[i] = Create(t) => \E j \in 1..Len(q) : j > i /\ q[j] = Close(t)

\* What keeps the tokens apart: a generation is not given before it is counted, and a
\* task of an older table can not be taken for one of this table.
Tokens ==
    /\ \A t \in Threads : pending[t] <= nextGeneration
    /\ \A b \in builds :
          /\ b.table <= tableId
          /\ b.generation >= 1
          /\ b.table = tableId =>
                /\ b.generation <= nextGeneration
                /\ pending[b.thread] = b.generation => b.attempt = newest[b.thread]

\* What keeps a closed thread closed: nothing asks for it behind its last close.
Closings ==
    /\ \A t \in Threads : live[t] = 0 \/ pending[t] = 0
    /\ ~joined => \A t \in Threads : live[t] = 0 /\ pending[t] = 0
    /\ \A t \in shut :
          /\ Answered(queue, t)
          /\ ~Queued(Close(t)) => (live[t] = 0 /\ pending[t] = 0)

TimelinesInv == TimelinesTypeOK /\ Tokens /\ Closings

-----------------------------------------------------------------------------
(* The queue.                                                              *)

LEMMA RequestType == \A t \in Threads :
        /\ Create(t) \in WorkerRequests /\ Close(t) \in WorkerRequests
        /\ Create(t) # Close(t)
        /\ \A u \in Threads : Create(t) # Close(u) /\ (Close(t) = Close(u) => t = u)
                              /\ (Create(t) = Create(u) => t = u)
  BY DEF Create, Close, WorkerRequests

LEMMA Served ==
    ASSUME NEW q \in Seq(WorkerRequests), q # <<>>, NEW t \in Threads, Answered(q, t)
    PROVE  /\ Tail(q) \in Seq(WorkerRequests)
           /\ Answered(Tail(q), t)
           /\ Head(q) = Create(t) => InQueue(Tail(q), Close(t))
           /\ Head(q) # Close(t) /\ InQueue(q, Close(t)) => InQueue(Tail(q), Close(t))
           /\ InQueue(Tail(q), Close(t)) => InQueue(q, Close(t))
  <1>1. /\ Tail(q) \in Seq(WorkerRequests) /\ Len(q) \in Nat /\ Len(Tail(q)) = Len(q) - 1
        /\ \A i \in 1..Len(Tail(q)) : Tail(q)[i] = q[i + 1]
        /\ Head(q) = q[1] /\ Len(q) >= 1
    BY HeadTailProperties, EmptySeq, LenProperties
  <1>2. ASSUME NEW j \in 1..Len(q), j > 1
        PROVE  j - 1 \in 1..Len(Tail(q)) /\ Tail(q)[j - 1] = q[j]
    BY <1>1, <1>2
  <1>3. Answered(Tail(q), t)
    <2> SUFFICES ASSUME NEW i \in 1..Len(Tail(q)), Tail(q)[i] = Create(t)
                 PROVE  \E j \in 1..Len(Tail(q)) : j > i /\ Tail(q)[j] = Close(t)
      BY DEF Answered
    <2>1. i + 1 \in 1..Len(q) /\ q[i + 1] = Create(t)
      BY <1>1
    <2>2. PICK j \in 1..Len(q) : j > i + 1 /\ q[j] = Close(t)
      BY <2>1 DEF Answered
    <2>3. j - 1 \in 1..Len(Tail(q)) /\ Tail(q)[j - 1] = Close(t) /\ j - 1 > i
      BY <1>1, <1>2, <2>2
    <2> QED
      BY <2>3
  <1>4. ASSUME Head(q) = Create(t)
        PROVE  InQueue(Tail(q), Close(t))
    <2>1. 1 \in 1..Len(q) /\ q[1] = Create(t)
      BY <1>1, <1>4
    <2>2. PICK j \in 1..Len(q) : j > 1 /\ q[j] = Close(t)
      BY <2>1 DEF Answered
    <2> QED
      BY <1>2, <2>2 DEF InQueue
  <1>5. ASSUME Head(q) # Close(t), InQueue(q, Close(t))
        PROVE  InQueue(Tail(q), Close(t))
    <2>1. PICK j \in 1..Len(q) : q[j] = Close(t)
      BY <1>5 DEF InQueue
    <2>2. j > 1
      BY <1>1, <1>5, <2>1
    <2> QED
      BY <1>2, <2>1, <2>2 DEF InQueue
  <1>6. ASSUME InQueue(Tail(q), Close(t))
        PROVE  InQueue(q, Close(t))
    BY <1>1, <1>6 DEF InQueue
  <1> QED
    BY <1>1, <1>3, <1>4, <1>5, <1>6

LEMMA Asked ==
    ASSUME NEW q \in Seq(WorkerRequests), NEW r \in WorkerRequests, NEW t \in Threads
    PROVE  /\ Append(q, r) \in Seq(WorkerRequests)
           /\ r = Close(t) => (Answered(Append(q, r), t) /\ InQueue(Append(q, r), Close(t)))
           /\ r # Create(t) /\ Answered(q, t) => Answered(Append(q, r), t)
           /\ InQueue(q, Close(t)) => InQueue(Append(q, r), Close(t))
  <1> DEFINE p == Append(q, r)
  <1>1. /\ p \in Seq(WorkerRequests) /\ Len(q) \in Nat /\ Len(p) = Len(q) + 1
        /\ \A i \in 1..Len(q) : p[i] = q[i]
        /\ p[Len(q) + 1] = r
    BY AppendProperties, LenProperties
  <1>a. \A i \in 1..Len(p) : i = Len(q) + 1 \/ i \in 1..Len(q)
    BY <1>1
  <1>b. 1..Len(q) \subseteq 1..Len(p) /\ Len(q) + 1 \in 1..Len(p)
    BY <1>1
  <1> HIDE DEF p
  <1>2. ASSUME r = Close(t)
        PROVE  Answered(p, t) /\ InQueue(p, Close(t))
    <2>1. \A i \in 1..Len(p) : p[i] = Create(t) => i < Len(q) + 1
      BY <1>1, <1>2, <1>a, RequestType
    <2> QED
      BY <1>1, <1>2, <1>b, <2>1 DEF Answered, InQueue
  <1>3. ASSUME r # Create(t), Answered(q, t)
        PROVE  Answered(p, t)
    <2> SUFFICES ASSUME NEW i \in 1..Len(p), p[i] = Create(t)
                 PROVE  \E j \in 1..Len(p) : j > i /\ p[j] = Close(t)
      BY DEF Answered
    <2>1. i \in 1..Len(q) /\ q[i] = Create(t)
      BY <1>1, <1>3, <1>a
    <2>2. PICK j \in 1..Len(q) : j > i /\ q[j] = Close(t)
      BY <1>3, <2>1 DEF Answered
    <2> QED
      BY <1>1, <1>b, <2>2
  <1>4. ASSUME InQueue(q, Close(t))
        PROVE  InQueue(p, Close(t))
    BY <1>1, <1>4, <1>b DEF InQueue
  <1> QED
    BY <1>1, <1>2, <1>3, <1>4 DEF p

LEMMA ClosedAll ==
    ASSUME NEW q \in Seq(WorkerRequests), NEW closing \in SUBSET Threads,
           NEW order \in [1..Cardinality(closing) -> {Close(t) : t \in closing}]
    PROVE  /\ q \o order \in Seq(WorkerRequests)
           /\ \A t \in Threads : InQueue(q, Close(t)) => InQueue(q \o order, Close(t))
           /\ \A t \in Threads : Answered(q, t) => Answered(q \o order, t)
           /\ \A t \in closing : InQueue(order, Close(t)) =>
                 (InQueue(q \o order, Close(t)) /\ Answered(q \o order, t))
  <1> DEFINE n == Cardinality(closing)  p == q \o order
  <1>1. n \in Nat
    BY ThreadsAssumption, FS_Subset, FS_CardinalityType
  <1>2. order \in Seq(WorkerRequests) /\ Len(order) = n
    <2>1. order \in [1..n -> WorkerRequests]
      BY RequestType
    <2> QED
      BY <1>1, <2>1
  <1>3. /\ p \in Seq(WorkerRequests) /\ Len(q) \in Nat /\ Len(p) = Len(q) + n
        /\ \A i \in 1..Len(q) : p[i] = q[i]
        /\ \A i \in 1..n : p[Len(q) + i] = order[i]
    <2> HIDE DEF n
    <2>1. \A i \in 1 .. Len(q) + Len(order) :
             p[i] = IF i <= Len(q) THEN q[i] ELSE order[i - Len(q)]
      BY <1>2, ConcatProperties
    <2>2. \A i \in 1..n : Len(q) + i \in 1..Len(q) + Len(order) /\ (Len(q) + i) - Len(q) = i
      BY <1>1, <1>2, LenProperties
    <2>3. \A i \in 1..n : p[Len(q) + i] = order[i]
      <3> TAKE i \in 1..n
      <3>1. ~(Len(q) + i <= Len(q))
        BY <1>1, LenProperties
      <3> QED
        BY <2>1, <2>2, <3>1
    <2>4. p \in Seq(WorkerRequests) /\ Len(p) = Len(q) + n
      BY <1>2, ConcatProperties
    <2>5. Len(q) \in Nat
      BY LenProperties
    <2>6. \A i \in 1..Len(q) : p[i] = q[i]
      BY <1>1, <1>2, <2>1, <2>5
    <2> QED
      BY <2>3, <2>4, <2>5, <2>6
  <1> HIDE DEF n, p
  <1>4. \A i \in 1..Len(p) : i \in 1..Len(q) \/ (i > Len(q) /\ i - Len(q) \in 1..n)
    BY <1>1, <1>3
  <1>5. 1..Len(q) \subseteq 1..Len(p) /\ \A i \in 1..n : Len(q) + i \in 1..Len(p)
    BY <1>1, <1>3
  <1>6. \A t \in Threads : \A i \in 1..n : order[i] # Create(t)
    BY RequestType DEF n
  <1>7. \A t \in Threads : \A i \in 1..Len(p) : p[i] = Create(t) => i \in 1..Len(q) /\ q[i] = Create(t)
    <2> TAKE t \in Threads
    <2> TAKE i \in 1..Len(p)
    <2>1. CASE i \in 1..Len(q)
      BY <1>3, <2>1
    <2>2. CASE i > Len(q) /\ i - Len(q) \in 1..n
      <3>1. p[Len(q) + (i - Len(q))] = order[i - Len(q)] /\ Len(q) + (i - Len(q)) = i
        BY <1>3, <2>2
      <3> QED
        BY <1>6, <2>2, <3>1
    <2> QED
      BY <1>4, <2>1, <2>2
  <1>8. \A t \in Threads : InQueue(q, Close(t)) => InQueue(p, Close(t))
    BY <1>3, <1>5 DEF InQueue
  <1>9. \A t \in Threads : Answered(q, t) => Answered(p, t)
    <2> SUFFICES ASSUME NEW t \in Threads, Answered(q, t), NEW i \in 1..Len(p), p[i] = Create(t)
                 PROVE  \E j \in 1..Len(p) : j > i /\ p[j] = Close(t)
      BY DEF Answered
    <2>1. PICK j \in 1..Len(q) : j > i /\ q[j] = Close(t)
      BY <1>7 DEF Answered
    <2> QED
      BY <1>3, <1>5, <2>1
  <1>10. \A t \in closing : InQueue(order, Close(t)) =>
             (InQueue(p, Close(t)) /\ Answered(p, t))
    <2> SUFFICES ASSUME NEW t \in closing, InQueue(order, Close(t))
                 PROVE  InQueue(p, Close(t)) /\ Answered(p, t)
      OBVIOUS
    <2>1. PICK k \in 1..n : order[k] = Close(t)
      BY <1>2 DEF InQueue
    <2>2. Len(q) + k \in 1..Len(p) /\ p[Len(q) + k] = Close(t)
      BY <1>3, <1>5, <2>1
    <2>3. \A i \in 1..Len(p) : p[i] = Create(t) => Len(q) + k > i
      BY <1>3, <1>7, <2>1
    <2> QED
      BY <2>2, <2>3 DEF InQueue, Answered
  <1> QED
    BY <1>3, <1>8, <1>9, <1>10 DEF p
-----------------------------------------------------------------------------
(* Types.                                                                  *)

Caches == [states : [Threads -> UiStates], invalidated : SUBSET Threads]

LEMMA CacheType ==
    ASSUME NEW c \in Caches, NEW t \in Threads, NEW s \in UiStates
    PROVE  /\ TakeState(c, t) \in Caches
           /\ StoreState(c, t, s) \in Caches
           /\ Invalidate(c, t) \in Caches
  <1>0. NoState \in UiStates
    BY DEF NoState, UiStates
  <1>1. TakeState(c, t) \in Caches
    BY <1>0 DEF TakeState, Caches
  <1>2. StoreState(c, t, s) \in Caches
    <2>1. CASE s = NoState \/ s.generation # roomGeneration
      BY <2>1, ZenonT(30) DEF StoreState
    <2>2. CASE s # NoState /\ s.generation = roomGeneration
      <3>1. [states |-> c.states, invalidated |-> c.invalidated \ {t}] \in Caches
        BY DEF Caches
      <3>2. [states |-> [c.states EXCEPT ![t] = s], invalidated |-> c.invalidated] \in Caches
        BY DEF Caches
      <3>3. CASE t \in c.invalidated
        <4>1. ~(s = NoState \/ s.generation # roomGeneration)
          BY <2>2
        <4>2. StoreState(c, t, s) = [states |-> c.states, invalidated |-> c.invalidated \ {t}]
          BY <2>2, <3>3, <4>1 DEF StoreState
        <4> QED
          BY <3>1, <4>2
      <3>4. CASE t \notin c.invalidated
        <4>1. /\ ~(s = NoState \/ s.generation # roomGeneration)
              /\ ~(s # NoState /\ s.generation = roomGeneration /\ t \in c.invalidated)
          BY <2>2, <3>4
        <4>2. StoreState(c, t, s)
                = [states |-> [c.states EXCEPT ![t] = s], invalidated |-> c.invalidated]
          BY <2>2, <3>4, <4>1 DEF StoreState
        <4> QED
          BY <3>2, <4>2
      <3> QED
        BY <3>3, <3>4
    <2> QED
      BY <2>1, <2>2
  <1>3. Invalidate(c, t) \in Caches
    BY <1>0 DEF Invalidate, Caches
  <1> QED
    BY <1>1, <1>2, <1>3

LEMMA Counted ==
    ASSUME NEW u \in Used
    PROVE  /\ u.opens < MaxOpens => [u EXCEPT !.opens = @ + 1] \in Used
           /\ u.failures < MaxFailures => [u EXCEPT !.failures = @ + 1] \in Used
           /\ u.rebuilds < MaxRebuilds => [u EXCEPT !.rebuilds = @ + 1] \in Used
           /\ u.leaves < MaxLeaves => [u EXCEPT !.leaves = @ + 1] \in Used
  <1>1. /\ u.opens \in 0..MaxOpens /\ u.failures \in 0..MaxFailures
        /\ u.rebuilds \in 0..MaxRebuilds /\ u.leaves \in 0..MaxLeaves
        /\ u = [opens |-> u.opens, failures |-> u.failures, rebuilds |-> u.rebuilds,
                leaves |-> u.leaves]
    BY DEF Used
  <1>2. /\ u.opens < MaxOpens => u.opens + 1 \in 0..MaxOpens
        /\ u.failures < MaxFailures => u.failures + 1 \in 0..MaxFailures
        /\ u.rebuilds < MaxRebuilds => u.rebuilds + 1 \in 0..MaxRebuilds
        /\ u.leaves < MaxLeaves => u.leaves + 1 \in 0..MaxLeaves
    BY <1>1, TimelineBounds
  <1>3. [u EXCEPT !.opens = @ + 1] = [opens |-> u.opens + 1, failures |-> u.failures,
                rebuilds |-> u.rebuilds, leaves |-> u.leaves]
    BY <1>1
  <1>4. [u EXCEPT !.failures = @ + 1] = [opens |-> u.opens, failures |-> u.failures + 1,
                rebuilds |-> u.rebuilds, leaves |-> u.leaves]
    BY <1>1
  <1>5. [u EXCEPT !.rebuilds = @ + 1] = [opens |-> u.opens, failures |-> u.failures,
                rebuilds |-> u.rebuilds + 1, leaves |-> u.leaves]
    BY <1>1
  <1>6. [u EXCEPT !.leaves = @ + 1] = [opens |-> u.opens, failures |-> u.failures,
                rebuilds |-> u.rebuilds, leaves |-> u.leaves + 1]
    BY <1>1
  <1> QED
    BY <1>1, <1>2, <1>3, <1>4, <1>5, <1>6 DEF Used

LEMMA StepTyped == TimelinesTypeOK /\ [TimelinesNext]_timelineVars => TimelinesTypeOK'
  <1> SUFFICES ASSUME TimelinesTypeOK, [TimelinesNext]_timelineVars
               PROVE  TimelinesTypeOK'
    OBVIOUS
  <1> USE TimelineBounds
  <1>0. cache \in Caches /\ NoState \in UiStates
    BY DEF TimelinesTypeOK, Caches, NoState, UiStates
  <1>1. ASSUME NEW t \in Threads, TakesCreate(t)
        PROVE  TimelinesTypeOK'
    <2>1. Tail(queue) \in Seq(WorkerRequests)
      BY <1>1, HeadTailProperties DEF TakesCreate, TimelinesTypeOK
    <2>2. CASE BeginCreate(t)
      <3>1. builds' \subseteq Builds
        BY <2>2 DEF BeginCreate, TimelinesTypeOK, Builds
      <3>2. /\ pending' \in [Threads -> Nat] /\ newest' \in [Threads -> Nat]
            /\ nextGeneration' \in Nat /\ attempts' \in Nat
        BY <2>2 DEF BeginCreate, TimelinesTypeOK
      <3> QED
        BY <1>1, <2>1, <2>2, <3>1, <3>2
        DEF TakesCreate, BeginCreate, TimelinesTypeOK, screenVars
    <2>3. CASE UNCHANGED <<tableVars, builds, attempts>>
      BY <1>1, <2>1, <2>3 DEF TakesCreate, TimelinesTypeOK, screenVars, tableVars
    <2> QED
      BY <1>1, <2>2, <2>3 DEF TakesCreate
  <1>2. ASSUME NEW t \in Threads, TakesClose(t)
        PROVE  TimelinesTypeOK'
    <2>1. Tail(queue) \in Seq(WorkerRequests)
      BY <1>2, HeadTailProperties DEF TakesClose, TimelinesTypeOK
    <2>2. live' \in [Threads -> Nat] /\ taken' \subseteq Threads /\ pending' \in [Threads -> Nat]
      BY <1>2 DEF TakesClose, TimelinesTypeOK
    <2> QED
      BY <1>2, <2>1, <2>2 DEF TakesClose, TimelinesTypeOK, screenVars, historyVars
  <1>3. ASSUME NEW b \in builds, Finish(b)
        PROVE  TimelinesTypeOK'
    <2>1. b.thread \in Threads /\ b.attempt \in Nat
      BY DEF TimelinesTypeOK, Builds
    <2>2. live' \in [Threads -> Nat] /\ taken' \subseteq Threads /\ pending' \in [Threads -> Nat]
      <3>1. live \in [Threads -> Nat] /\ taken \subseteq Threads /\ pending \in [Threads -> Nat]
        BY DEF TimelinesTypeOK
      <3>2. \/ /\ pending' = [pending EXCEPT ![b.thread] = 0]
               /\ live' = [live EXCEPT ![b.thread] = b.attempt]
               /\ taken' = taken \ {b.thread}
            \/ UNCHANGED <<pending, live, taken>>
        BY <1>3 DEF Finish
      <3> QED
        BY <2>1, <3>1, <3>2
    <2> QED
      BY <1>3, <2>2 DEF Finish, TimelinesTypeOK, screenVars, historyVars
  <1>4. ASSUME NEW b \in builds, Fail(b)
        PROVE  TimelinesTypeOK'
    <2>1. b.thread \in Threads
      BY DEF TimelinesTypeOK, Builds
    <2>2. pending' \in [Threads -> Nat] /\ retries' \subseteq Threads
      BY <1>4, <2>1 DEF Fail, TimelinesTypeOK
    <2>3. used' \in Used
      BY <1>4, Counted DEF Fail, TimelinesTypeOK
    <2> QED
      BY <1>4, <2>2, <2>3 DEF Fail, TimelinesTypeOK, screenVars
  <1>5. ASSUME DropTable, leftUpdates' \in Nat, used' \in Used
        PROVE  TimelinesTypeOK'
    <2>1. /\ live' \in [Threads -> Nat] /\ taken' \subseteq Threads
          /\ pending' \in [Threads -> Nat] /\ nextGeneration' \in Nat
          /\ newest' \in [Threads -> Nat] /\ joined' \in BOOLEAN
      BY <1>5 DEF DropTable
    <2>2. tableId' \in Nat
      BY <1>5 DEF DropTable, TimelinesTypeOK
    <2> QED
      BY <1>5, <2>1, <2>2 DEF DropTable, TimelinesTypeOK, historyVars
  <1>6. ASSUME ListIsRebuilt
        PROVE  TimelinesTypeOK'
    <2>1. used' \in Used
      BY <1>6, Counted DEF ListIsRebuilt, TimelinesTypeOK
    <2> QED
      BY <1>5, <1>6, <2>1 DEF ListIsRebuilt, TimelinesTypeOK
  <1>7. ASSUME RoomIsLeft
        PROVE  TimelinesTypeOK'
    <2>1. used' \in Used /\ leftUpdates' \in Nat
      <3>1. used \in Used /\ leftUpdates \in Nat
        BY DEF TimelinesTypeOK
      <3>2. leftUpdates' = leftUpdates + 1
        BY <1>7 DEF RoomIsLeft
      <3>3. used' \in Used
        BY <1>7, <3>1, Counted DEF RoomIsLeft
      <3> QED
        BY <3>1, <3>2, <3>3
    <2> QED
      BY <1>5, <1>7, <2>1 DEF RoomIsLeft
  <1>8. ASSUME AddRoom
        PROVE  TimelinesTypeOK'
    BY <1>8 DEF AddRoom, TimelinesTypeOK, screenVars, historyVars
  <1>9. ASSUME NEW t \in Threads, Show(t), used' \in Used
        PROVE  TimelinesTypeOK'
    <2>1. cache' \in [states : [Threads -> UiStates], invalidated : SUBSET Threads]
      BY <1>0, <1>9, CacheType DEF Show, Caches
    <2>2. tabs' \in [Threads -> [open : BOOLEAN, state : UiStates]]
      <3>1. cache.states[t] \in UiStates
        BY <1>0 DEF Caches
      <3>2. [attempt |-> live[t], generation |-> roomGeneration] \in UiStates
        BY DEF TimelinesTypeOK, UiStates
      <3>3. \E x \in UiStates : tabs' = [tabs EXCEPT ![t] = [open |-> TRUE, state |-> x]]
        BY <1>0, <1>9, <3>1, <3>2 DEF Show
      <3> QED
        BY <3>3 DEF TimelinesTypeOK
    <2>3. queue' \in Seq(WorkerRequests)
      <3>1. Append(queue, Create(t)) \in Seq(WorkerRequests) /\ queue \in Seq(WorkerRequests)
        BY RequestType, AppendProperties DEF TimelinesTypeOK
      <3> QED
        BY <1>9, <3>1 DEF Show
    <2>4. taken' \subseteq Threads /\ shut' \subseteq Threads
      BY <1>9 DEF Show, TimelinesTypeOK
    <2>5. UNCHANGED <<joined, live, pending, nextGeneration, newest, tableId, crossed, builds,
                      roomGeneration, leftUpdates, retries, attempts>>
      BY <1>9 DEF Show
    <2> QED
      BY <1>9, <2>1, <2>2, <2>3, <2>4, <2>5 DEF TimelinesTypeOK
  <1>10. ASSUME NEW t \in Threads, OpenTab(t) \/ ShowOnSignal(t)
         PROVE  TimelinesTypeOK'
    <2>1. used' \in Used
      BY <1>10, Counted DEF OpenTab, ShowOnSignal, TimelinesTypeOK
    <2> QED
      BY <1>9, <1>10, <2>1 DEF OpenTab, ShowOnSignal
  <1>11. ASSUME NEW t \in Threads, CloseTab(t) \/ DropScreen(t)
         PROVE  TimelinesTypeOK'
    <2>1. tabs[t].state \in UiStates
      BY DEF TimelinesTypeOK
    <2>2. cache' \in [states : [Threads -> UiStates], invalidated : SUBSET Threads]
      <3>1. StoreState(cache, t, tabs[t].state) \in Caches
        BY <1>0, <2>1, CacheType
      <3>2. ClosedCache(cache, t) \in Caches
        BY <2>1, <3>1, CacheType DEF ClosedCache
      <3> QED
        BY <1>11, <3>1, <3>2 DEF CloseTab, DropScreen, Caches
    <2>3. tabs' \in [Threads -> [open : BOOLEAN, state : UiStates]]
      <3>1. Unopened \in [open : BOOLEAN, state : UiStates]
        BY <1>0 DEF Unopened
      <3>2. tabs' = [tabs EXCEPT ![t] = Unopened]
        BY <1>11 DEF CloseTab, DropScreen
      <3> QED
        BY <3>1, <3>2 DEF TimelinesTypeOK
    <2>4. queue' \in Seq(WorkerRequests)
      <3>1. Append(queue, Close(t)) \in Seq(WorkerRequests) /\ queue \in Seq(WorkerRequests)
        BY RequestType, AppendProperties DEF TimelinesTypeOK
      <3> QED
        BY <1>11, <3>1 DEF CloseTab, DropScreen
    <2> QED
      BY <1>11, <2>2, <2>3, <2>4
      DEF CloseTab, DropScreen, TimelinesTypeOK, tableVars, historyVars
  <1>12. ASSUME NEW t \in Threads, ClickRetry(t)
         PROVE  TimelinesTypeOK'
    <2>1. queue' \in Seq(WorkerRequests)
      BY <1>12, RequestType, Asked DEF ClickRetry, TimelinesTypeOK
    <2> QED
      BY <1>12, <2>1 DEF ClickRetry, TimelinesTypeOK, tableVars, screenVars
  <1>13. ASSUME LearnRoomLeft
         PROVE  TimelinesTypeOK'
    <2> DEFINE closing == {t \in Threads : tabs[t].open}
    <2>1. queue' \in Seq(WorkerRequests)
      BY <1>13, ClosedAll DEF LearnRoomLeft, TimelinesTypeOK
    <2>2. tabs' \in [Threads -> [open : BOOLEAN, state : UiStates]]
      BY <1>0, <1>13 DEF LearnRoomLeft, Unopened
    <2>3. cache' \in [states : [Threads -> UiStates], invalidated : SUBSET Threads]
      BY <1>0, <1>13 DEF LearnRoomLeft
    <2>4. leftUpdates' \in Nat /\ roomGeneration' \in Nat /\ shut' \subseteq Threads
      BY <1>13 DEF LearnRoomLeft, TimelinesTypeOK
    <2> QED
      BY <1>13, <2>1, <2>2, <2>3, <2>4 DEF LearnRoomLeft, TimelinesTypeOK, tableVars
  <1>14. CASE UNCHANGED timelineVars
    BY <1>14 DEF timelineVars, tableVars, screenVars, historyVars, TimelinesTypeOK
  <1> QED
    BY <1>1, <1>2, <1>3, <1>4, <1>6, <1>7, <1>8, <1>10, <1>11, <1>12, <1>13, <1>14
    DEF TimelinesNext, Worker, Building, Screens
-----------------------------------------------------------------------------
(* Tokens.                                                                 *)

LEMMA StepTokens == TimelinesTypeOK /\ Tokens /\ [TimelinesNext]_timelineVars => Tokens'
  <1> SUFFICES ASSUME TimelinesTypeOK, Tokens, [TimelinesNext]_timelineVars
               PROVE  Tokens'
    OBVIOUS
  <1>0. /\ pending \in [Threads -> Nat] /\ newest \in [Threads -> Nat]
        /\ nextGeneration \in Nat /\ tableId \in Nat /\ attempts \in Nat
        /\ \A b \in builds : /\ b.thread \in Threads /\ b.generation \in Nat
                             /\ b.attempt \in Nat /\ b.table \in Nat
    BY DEF TimelinesTypeOK, Builds
  <1>1. ASSUME NEW t \in Threads, BeginCreate(t)
        PROVE  Tokens'
    <2> DEFINE new == [thread |-> t, generation |-> nextGeneration + 1,
                       attempt |-> attempts + 1, table |-> tableId]
    <2>1. /\ nextGeneration' = nextGeneration + 1 /\ tableId' = tableId
          /\ pending' = [pending EXCEPT ![t] = nextGeneration + 1]
          /\ newest' = [newest EXCEPT ![t] = attempts + 1]
          /\ builds' = builds \cup {new}
      BY <1>1 DEF BeginCreate
    <2>2. \A u \in Threads : pending'[u] <= nextGeneration'
      BY <1>0, <2>1 DEF Tokens
    <2>3. ASSUME NEW b \in builds
          PROVE  /\ b.table <= tableId'
                 /\ b.generation >= 1
                 /\ b.table = tableId' =>
                       /\ b.generation <= nextGeneration'
                       /\ pending'[b.thread] = b.generation => b.attempt = newest'[b.thread]
      <3>1. CASE b.thread = t
        BY <1>0, <2>1, <2>3, <3>1 DEF Tokens
      <3>2. CASE b.thread # t
        BY <1>0, <2>1, <2>3, <3>2 DEF Tokens
      <3> QED
        BY <3>1, <3>2
    <2>4. /\ new.table <= tableId'
          /\ new.generation >= 1 /\ new.generation <= nextGeneration'
          /\ new.attempt = newest'[new.thread]
      BY <1>0, <2>1
    <2> QED
      BY <2>1, <2>2, <2>3, <2>4 DEF Tokens
  <1>2. ASSUME \A t \in Threads : pending'[t] \in {0, pending[t]},
               builds' \subseteq builds, UNCHANGED <<nextGeneration, newest, tableId>>
        PROVE  Tokens'
    BY <1>0, <1>2 DEF Tokens
  <1>3. ASSUME DropTable
        PROVE  Tokens'
    <2>1. /\ \A t \in Threads : pending'[t] = 0
          /\ nextGeneration' = 0 /\ tableId' = tableId + 1 /\ builds' = builds
      BY <1>3 DEF DropTable
    <2> QED
      BY <1>0, <2>1 DEF Tokens
  <1>4. ASSUME NEW t \in Threads, TakesCreate(t)
        PROVE  Tokens'
    BY <1>1, <1>2, <1>4 DEF TakesCreate, tableVars
  <1>5. ASSUME NEW t \in Threads, TakesClose(t)
        PROVE  Tokens'
    <2>1. \A u \in Threads : pending'[u] \in {0, pending[u]}
      BY <1>0, <1>5 DEF TakesClose
    <2> QED
      BY <1>2, <1>5, <2>1 DEF TakesClose
  <1>6. ASSUME NEW b \in builds, Finish(b) \/ Fail(b)
        PROVE  Tokens'
    <2>1. \A u \in Threads : pending'[u] \in {0, pending[u]}
      BY <1>0, <1>6 DEF Finish, Fail
    <2> QED
      BY <1>2, <1>6, <2>1 DEF Finish, Fail
  <1>7. ASSUME UNCHANGED <<pending, builds, nextGeneration, newest, tableId>>
        PROVE  Tokens'
    BY <1>2, <1>7
  <1>8. ASSUME AddRoom \/ Screens \/ LearnRoomLeft \/ UNCHANGED timelineVars
        PROVE  Tokens'
    <2>1. UNCHANGED <<pending, builds, nextGeneration, newest, tableId>>
      BY <1>8 DEF AddRoom, Screens, OpenTab, ShowOnSignal, Show, CloseTab, DropScreen,
                  ClickRetry, LearnRoomLeft, timelineVars, tableVars
    <2> QED
      BY <1>7, <2>1
  <1> QED
    BY <1>3, <1>4, <1>5, <1>6, <1>8
    DEF TimelinesNext, Worker, Building, ListIsRebuilt, RoomIsLeft

-----------------------------------------------------------------------------
(* Closed threads.                                                         *)

\* A thread that nothing asks for, and whose close is not taken back, stays as it is.
LEMMA ClosingsKept ==
    ASSUME Closings,
           \A t \in Threads : pending'[t] \in {0, pending[t]} /\ live'[t] \in {0, live[t]},
           ~joined' => \A t \in Threads : live'[t] = 0 /\ pending'[t] = 0,
           \A t \in shut' : /\ t \in Threads
                            /\ Answered(queue', t)
                            /\ \/ InQueue(queue', Close(t))
                               \/ t \in shut /\ ~InQueue(queue, Close(t))
                               \/ live'[t] = 0 /\ pending'[t] = 0
    PROVE  Closings'
  <1>1. \A t \in Threads : live'[t] = 0 \/ pending'[t] = 0
    BY DEF Closings
  <1>2. ASSUME NEW t \in shut', ~InQueue(queue', Close(t))
        PROVE  live'[t] = 0 /\ pending'[t] = 0
    <2>1. CASE t \in shut /\ ~InQueue(queue, Close(t))
      <3>1. live[t] = 0 /\ pending[t] = 0
        BY <2>1 DEF Closings, Queued
      <3> QED
        BY <3>1
    <2> QED
      BY <1>2, <2>1
  <1> QED
    BY <1>1, <1>2 DEF Closings, Queued

LEMMA StepClosings ==
    TimelinesTypeOK /\ Tokens /\ Closings /\ [TimelinesNext]_timelineVars => Closings'
  <1> SUFFICES ASSUME TimelinesTypeOK, Tokens, Closings, [TimelinesNext]_timelineVars
               PROVE  Closings'
    OBVIOUS
  <1>0. /\ pending \in [Threads -> Nat] /\ live \in [Threads -> Nat]
        /\ queue \in Seq(WorkerRequests) /\ shut \subseteq Threads
        /\ \A b \in builds : b.thread \in Threads
    BY DEF TimelinesTypeOK, Builds
  <1>1. ASSUME NEW t \in Threads, TakesCreate(t)
        PROVE  Closings'
    <2>1. /\ queue # <<>> /\ Head(queue) = Create(t) /\ queue' = Tail(queue)
          /\ shut' = shut /\ joined' = joined /\ live' = live
      BY <1>1 DEF TakesCreate, BeginCreate, tableVars
    <2>2. \A u \in shut : Answered(queue', u) /\ (~InQueue(queue', Close(u)) =>
             (u # t /\ ~InQueue(queue, Close(u))))
      BY <1>0, <2>1, Served, RequestType DEF Closings
    <2>3. \A u \in Threads : u # t => pending'[u] = pending[u]
      BY <1>0, <1>1 DEF TakesCreate, BeginCreate, tableVars
    <2>4. live[t] = 0 \/ pending'[t] = pending[t]
      BY <1>1 DEF TakesCreate, BeginCreate, CanBegin, tableVars
    <2>5. ~joined => pending' = pending
      BY <1>1 DEF TakesCreate, BeginCreate, CanBegin, tableVars
    <2>6. \A u \in Threads : live'[u] = 0 \/ pending'[u] = 0
      BY <2>1, <2>3, <2>4 DEF Closings
    <2>7. ~joined' => \A u \in Threads : live'[u] = 0 /\ pending'[u] = 0
      BY <2>1, <2>5 DEF Closings
    <2>8. ASSUME NEW u \in shut', ~InQueue(queue', Close(u))
          PROVE  live'[u] = 0 /\ pending'[u] = 0
      <3>1. u \in shut /\ u # t /\ ~InQueue(queue, Close(u)) /\ u \in Threads
        BY <1>0, <2>1, <2>2, <2>8
      <3>2. live[u] = 0 /\ pending[u] = 0
        BY <3>1 DEF Closings, Queued
      <3> QED
        BY <2>1, <2>3, <3>1, <3>2
    <2> QED
      BY <2>1, <2>2, <2>6, <2>7, <2>8 DEF Closings, Queued
  <1>2. ASSUME NEW t \in Threads, TakesClose(t)
        PROVE  Closings'
    <2>1. /\ queue # <<>> /\ Head(queue) = Close(t) /\ queue' = Tail(queue)
          /\ shut' = shut /\ joined' = joined
      BY <1>2 DEF TakesClose, historyVars
    <2>2. /\ \A u \in Threads : pending'[u] \in {0, pending[u]} /\ live'[u] \in {0, live[u]}
          /\ joined => (live'[t] = 0 /\ pending'[t] = 0)
      BY <1>0, <1>2 DEF TakesClose
    <2>3. ~joined => \A u \in Threads : live'[u] = 0 /\ pending'[u] = 0
      BY <1>2 DEF TakesClose, Closings
    <2>4. \A u \in shut : /\ Answered(queue', u)
                          /\ u # t /\ ~InQueue(queue', Close(u)) => ~InQueue(queue, Close(u))
      BY <1>0, <2>1, Served, RequestType DEF Closings
    <2> QED
      BY <1>0, <2>1, <2>2, <2>3, <2>4, ClosingsKept
  <1>3. ASSUME NEW b \in builds, Finish(b)
        PROVE  Closings'
    <2>1. shut' = shut /\ queue' = queue /\ joined' = joined
      BY <1>3 DEF Finish, historyVars
    <2>2. CASE ~TokenIsCurrent(b)
      <3>1. pending' = pending /\ live' = live
        BY <1>3, <2>2 DEF Finish
      <3> QED
        BY <2>1, <3>1 DEF Closings, Queued, InQueue, Answered
    <2>3. CASE TokenIsCurrent(b)
      <3>1. /\ pending' = [pending EXCEPT ![b.thread] = 0]
            /\ live' = [live EXCEPT ![b.thread] = b.attempt]
        BY <1>3, <2>3 DEF Finish
      <3>2. joined /\ pending[b.thread] # 0
        <4>1. b.thread \in Threads /\ b.generation \in Nat /\ b.table \in Nat
          BY DEF TimelinesTypeOK, Builds
        <4> QED
          BY <1>3, <2>3, <4>1 DEF TokenIsCurrent, Tokens
      <3> QED
        BY <1>0, <2>1, <3>1, <3>2 DEF Closings, Queued
    <2> QED
      BY <2>2, <2>3
  <1>4. ASSUME NEW b \in builds, Fail(b)
        PROVE  Closings'
    <2>1. shut' = shut /\ queue' = queue /\ joined' = joined /\ live' = live
      BY <1>4 DEF Fail
    <2>2. \A u \in Threads : pending'[u] \in {0, pending[u]}
      BY <1>0, <1>4 DEF Fail
    <2> QED
      BY <1>0, <2>1, <2>2, ClosingsKept DEF Closings
  <1>5. ASSUME DropTable
        PROVE  Closings'
    <2>1. /\ shut' = shut /\ queue' = queue
          /\ \A u \in Threads : live'[u] = 0 /\ pending'[u] = 0
      BY <1>5 DEF DropTable, historyVars
    <2> QED
      BY <1>0, <2>1, ClosingsKept DEF Closings
  <1>6. ASSUME UNCHANGED <<live, pending>>, ~joined' => ~joined,
               \A u \in shut' : /\ u \in Threads
                                /\ Answered(queue', u)
                                /\ InQueue(queue', Close(u)) \/ (u \in shut /\ ~InQueue(queue, Close(u)))
        PROVE  Closings'
    BY <1>6, ClosingsKept DEF Closings
  <1>7. ASSUME AddRoom \/ UNCHANGED timelineVars
        PROVE  Closings'
    <2>1. UNCHANGED <<live, pending, queue, shut>> /\ (joined => joined')
      BY <1>7 DEF AddRoom, timelineVars, tableVars, historyVars
    <2> QED
      BY <1>0, <1>6, <2>1 DEF Closings
  <1>8. ASSUME NEW t \in Threads, queue' = Append(queue, Create(t)), shut' = shut \ {t},
               UNCHANGED <<live, pending, joined>>
        PROVE  Closings'
    <2>1. ASSUME NEW u \in shut'
          PROVE  /\ u \in Threads /\ u \in shut
                 /\ Answered(queue', u)
                 /\ InQueue(queue, Close(u)) => InQueue(queue', Close(u))
      <3>1. u \in Threads /\ u \in shut /\ u # t
        BY <1>0, <1>8, <2>1
      <3>2. Answered(queue, u)
        BY <3>1 DEF Closings
      <3>3. Create(t) \in WorkerRequests /\ Create(t) # Create(u)
        BY <3>1, RequestType
      <3> QED
        BY <1>0, <1>8, <3>1, <3>2, <3>3, Asked
    <2> QED
      BY <1>6, <1>8, <2>1
  <1>9. ASSUME NEW t \in Threads, queue' = Append(queue, Close(t)), shut' = shut \cup {t},
               UNCHANGED <<live, pending, joined>>
        PROVE  Closings'
    <2>1. ASSUME NEW u \in shut'
          PROVE  /\ u \in Threads
                 /\ Answered(queue', u)
                 /\ InQueue(queue, Close(u)) => InQueue(queue', Close(u))
                 /\ u = t => InQueue(queue', Close(u))
      <3>1. u \in Threads /\ (u = t \/ Answered(queue, u))
        BY <1>0, <1>9, <2>1 DEF Closings
      <3>2. Close(t) \in WorkerRequests /\ Close(t) # Create(u)
        BY <3>1, RequestType
      <3> QED
        BY <1>0, <1>9, <3>1, <3>2, Asked
    <2> QED
      BY <1>6, <1>9, <2>1
  <1>10. ASSUME NEW t \in Threads, Show(t)
         PROVE  Closings'
    <2>1. CASE queue' = queue /\ shut' = shut
      <3>1. UNCHANGED <<live, pending, joined>>
        BY <1>10 DEF Show
      <3> QED
        BY <1>0, <1>6, <2>1, <3>1 DEF Closings
    <2>2. CASE queue' = Append(queue, Create(t)) /\ shut' = shut \ {t}
      BY <1>8, <1>10, <2>2 DEF Show
    <2> QED
      BY <1>10, <2>1, <2>2 DEF Show
  <1>11. ASSUME NEW t \in Threads, CloseTab(t)
         PROVE  Closings'
    BY <1>9, <1>11 DEF CloseTab, tableVars
  <1>12. ASSUME NEW t \in Threads, DropScreen(t)
         PROVE  Closings'
    BY <1>0, <1>6, <1>12 DEF DropScreen, Closings, tableVars, historyVars
  <1>13. ASSUME NEW t \in Threads, ClickRetry(t)
         PROVE  Closings'
    BY <1>8, <1>13 DEF ClickRetry, tableVars
  <1>14. ASSUME LearnRoomLeft
         PROVE  Closings'
    <2> DEFINE closing == {t \in Threads : tabs[t].open}
    <2>1. PICK order \in [1..Cardinality(closing) -> {Close(t) : t \in closing}] :
             /\ \A t \in closing : InQueue(order, Close(t))
             /\ queue' = queue \o order
      BY <1>14 DEF LearnRoomLeft
    <2>2. shut' = shut \cup closing /\ UNCHANGED <<live, pending, joined>>
      BY <1>14 DEF LearnRoomLeft, tableVars
    <2>3. closing \in SUBSET Threads
      OBVIOUS
    <2> HIDE DEF closing
    <2>4. /\ \A t \in Threads : InQueue(queue, Close(t)) => InQueue(queue', Close(t))
          /\ \A t \in Threads : Answered(queue, t) => Answered(queue', t)
          /\ \A t \in closing : InQueue(queue', Close(t)) /\ Answered(queue', t)
      BY <1>0, <2>1, <2>3, ClosedAll
    <2>5. ASSUME NEW u \in shut'
          PROVE  /\ u \in Threads
                 /\ Answered(queue', u)
                 /\ InQueue(queue', Close(u)) \/ (u \in shut /\ ~InQueue(queue, Close(u)))
      BY <1>0, <2>2, <2>3, <2>4, <2>5 DEF Closings
    <2> QED
      BY <1>6, <2>2, <2>5
  <1> QED
    BY <1>1, <1>2, <1>3, <1>4, <1>5, <1>7, <1>10, <1>11, <1>12, <1>13, <1>14
    DEF TimelinesNext, Worker, Building, Screens, OpenTab, ShowOnSignal, ListIsRebuilt,
        RoomIsLeft

-----------------------------------------------------------------------------
(* The endpoints: who holds those of a live timeline that are taken.       *)

\* Where the state of a thread may be: in its tab, that is open; then it is not in the
\* cache, and the cache will not refuse it.  It is of the room as the UI knows it.
Placed(t) ==
    /\ ~tabs[t].open => tabs[t].state = NoState
    /\ tabs[t].open => t \notin cache.invalidated
    /\ tabs[t].state # NoState =>
          cache.states[t] = NoState /\ tabs[t].state.generation = roomGeneration
    /\ cache.states[t] # NoState => cache.states[t].generation = roomGeneration

Attempts(t) == {tabs[t].state.attempt, cache.states[t].attempt}

HeldInv ==
    /\ ~joined => taken = {}
    /\ joined /\ leftUpdates > 0 => crossed
    /\ \A t \in taken : live[t] # 0
    /\ \A t \in Threads : Placed(t)
    /\ TakenIsHeld

LEMMA StillQueued ==
    ASSUME NEW q \in Seq(WorkerRequests), q # <<>>, NEW r, Head(q) # r, InQueue(q, r)
    PROVE  InQueue(Tail(q), r)
  <1>1. /\ Len(q) \in Nat /\ Len(Tail(q)) = Len(q) - 1
        /\ \A i \in 1..Len(Tail(q)) : Tail(q)[i] = q[i + 1]
        /\ Head(q) = q[1] /\ Len(q) >= 1
    BY HeadTailProperties, EmptySeq, LenProperties
  <1>2. PICK j \in 1..Len(q) : q[j] = r
    BY DEF InQueue
  <1>3. j - 1 \in 1..Len(Tail(q)) /\ (j - 1) + 1 = j
    BY <1>1, <1>2
  <1> QED
    BY <1>1, <1>2, <1>3 DEF InQueue

\* The worker and the builds only take timelines away, with their endpoints.
LEMMA HeldKept ==
    ASSUME TimelinesTypeOK, HeldInv, UNCHANGED <<joined, crossed, screenVars>>,
           taken' \subseteq taken,
           \A u \in taken' : live'[u] = live[u] /\ (Queued(Close(u)) => Queued(Close(u))')
    PROVE  HeldInv'
  <1>1. UNCHANGED <<tabs, cache, roomGeneration, leftUpdates>>
    BY DEF screenVars
  <1>2. \A u \in Threads : Placed(u)'
    BY <1>1 DEF HeldInv, Placed
  <1>3. TakenIsHeld'
    BY <1>1 DEF HeldInv, TakenIsHeld
  <1> QED
    BY <1>1, <1>2, <1>3 DEF HeldInv

LEMMA CacheFacts ==
    ASSUME NEW c \in Caches, NEW t \in Threads, NEW s \in UiStates
    PROVE  /\ \A u \in Threads : u # t =>
                 /\ TakeState(c, t).states[u] = c.states[u]
                 /\ StoreState(c, t, s).states[u] = c.states[u]
                 /\ Invalidate(c, t).states[u] = c.states[u]
           /\ TakeState(c, t).states[t] = NoState
           /\ TakeState(c, t).invalidated = c.invalidated \ {t}
           /\ StoreState(c, t, s).invalidated \subseteq c.invalidated
           /\ Invalidate(c, t).invalidated \subseteq c.invalidated \cup {t}
           /\ Invalidate(c, t).states[t] = NoState
           /\ s = NoState => StoreState(c, t, s) = c
           /\ \/ StoreState(c, t, s).states[t] = c.states[t]
              \/ s.generation = roomGeneration /\ StoreState(c, t, s).states[t] = s
           /\ s # NoState /\ s.generation = roomGeneration /\ t \notin c.invalidated
                 => StoreState(c, t, s).states[t] = s
  <1>0. c.states \in [Threads -> UiStates] /\ c.invalidated \subseteq Threads
    BY DEF Caches
  <1>1. /\ TakeState(c, t).states = [c.states EXCEPT ![t] = NoState]
        /\ TakeState(c, t).invalidated = c.invalidated \ {t}
    BY DEF TakeState
  <1>2. /\ Invalidate(c, t).states \in {c.states, [c.states EXCEPT ![t] = NoState]}
        /\ Invalidate(c, t).states[t] = NoState
        /\ Invalidate(c, t).invalidated \subseteq c.invalidated \cup {t}
    <2>1. CASE c.states[t] # NoState
      BY <1>0, <2>1 DEF Invalidate
    <2>2. CASE c.states[t] = NoState
      BY <1>0, <2>2 DEF Invalidate
    <2> QED
      BY <2>1, <2>2
  <1>3. CASE s = NoState \/ s.generation # roomGeneration
    <2>1. StoreState(c, t, s) = c
      BY <1>3, ZenonT(30) DEF StoreState
    <2> QED
      BY <1>0, <1>1, <1>2, <1>3, <2>1
  <1>4. CASE ~(s = NoState \/ s.generation # roomGeneration) /\ t \in c.invalidated
    <2>1. StoreState(c, t, s) = [states |-> c.states, invalidated |-> c.invalidated \ {t}]
      BY <1>4 DEF StoreState
    <2>2. StoreState(c, t, s).states = c.states /\ StoreState(c, t, s).invalidated \subseteq c.invalidated
      BY <2>1
    <2> QED
      BY <1>0, <1>1, <1>2, <1>4, <2>2
  <1>5. CASE ~(s = NoState \/ s.generation # roomGeneration) /\ t \notin c.invalidated
    <2>1. StoreState(c, t, s)
            = [states |-> [c.states EXCEPT ![t] = s], invalidated |-> c.invalidated]
      BY <1>5 DEF StoreState
    <2>2. /\ StoreState(c, t, s).states = [c.states EXCEPT ![t] = s]
          /\ StoreState(c, t, s).invalidated \subseteq c.invalidated
      BY <2>1
    <2> QED
      BY <1>0, <1>1, <1>2, <1>5, <2>2
  <1> QED
    BY <1>3, <1>4, <1>5

\* A tab and the cache exchange the state of one thread.
LEMMA HeldMoves ==
    ASSUME TimelinesTypeOK, HeldInv, UNCHANGED <<joined, live, crossed, roomGeneration, leftUpdates>>,
           NEW t \in Threads, taken' \subseteq taken \cup {t}, live[t] # 0 \/ t \notin taken',
           \A u \in Threads : u # t => /\ tabs'[u] = tabs[u]
                                       /\ cache'.states[u] = cache.states[u]
                                       /\ u \in cache'.invalidated => u \in cache.invalidated,
           \A u \in Threads : Queued(Close(u)) => Queued(Close(u))',
           ~joined => taken' = {},
           Placed(t)',
           t \in taken' => crossed \/ Queued(Close(t))' \/ live[t] \in Attempts(t)'
    PROVE  HeldInv'
  <1>0. taken' \subseteq Threads
    BY DEF TimelinesTypeOK
  <1>1. \A u \in Threads : Placed(u)'
    <2> TAKE u \in Threads
    <2>1. CASE u = t
      BY <2>1
    <2>2. CASE u # t
      BY <2>2 DEF HeldInv, Placed
    <2> QED
      BY <2>1, <2>2
  <1>2. TakenIsHeld'
    <2> SUFFICES ASSUME NEW u \in taken', ~crossed, ~Queued(Close(u))'
                 PROVE  live[u] \in Attempts(u)'
      BY DEF TakenIsHeld, Attempts
    <2>1. CASE u = t
      BY <2>1
    <2>2. CASE u # t
      <3>1. u \in taken /\ u \in Threads /\ ~Queued(Close(u))
        BY <1>0, <2>2
      <3>2. live[u] \in Attempts(u)
        BY <3>1 DEF HeldInv, TakenIsHeld, Attempts
      <3> QED
        BY <2>2, <3>1, <3>2 DEF Attempts
    <2> QED
      BY <2>1, <2>2
  <1>3. /\ ~joined' => taken' = {}
        /\ joined' /\ leftUpdates' > 0 => crossed'
        /\ \A u \in taken' : live'[u] # 0
    BY DEF HeldInv
  <1> QED
    BY <1>1, <1>2, <1>3 DEF HeldInv

LEMMA HeldShow ==
    ASSUME TimelinesTypeOK, HeldInv, NEW t \in Threads, Show(t), tabs[t].state = NoState
    PROVE  HeldInv'
  <1>0. /\ cache \in Caches /\ cache' = TakeState(cache, t) /\ NoState \in UiStates
        /\ queue \in Seq(WorkerRequests) /\ cache.states[t] \in UiStates
        /\ taken \subseteq Threads /\ live \in [Threads -> Nat]
        /\ tabs \in [Threads -> [open : BOOLEAN, state : UiStates]]
    BY DEF TimelinesTypeOK, Caches, Show, NoState, UiStates
  <1>1. UNCHANGED <<joined, live, crossed, roomGeneration, leftUpdates>>
    BY DEF Show
  <1>2. /\ \A u \in Threads : u # t => cache'.states[u] = cache.states[u]
        /\ cache'.states[t] = NoState
        /\ cache'.invalidated = cache.invalidated \ {t}
    BY <1>0, CacheFacts
  <1>3. /\ cache.states[t] # NoState => cache.states[t].generation = roomGeneration
        /\ Attempts(t) = {0, cache.states[t].attempt}
        /\ t \in taken => crossed \/ Queued(Close(t)) \/ live[t] \in Attempts(t)
        /\ t \in taken => live[t] # 0
        /\ ~joined => taken = {}
        /\ NoState.attempt = 0
    BY DEF HeldInv, Placed, Attempts, NoState, TakenIsHeld
  \* The tab's state s is of the room as it is known, or none.
  <1>4. ASSUME NEW s \in UiStates, tabs' = [tabs EXCEPT ![t] = [open |-> TRUE, state |-> s]],
               s # NoState => s.generation = roomGeneration
        PROVE  /\ Placed(t)' /\ Attempts(t)' = {s.attempt, 0}
               /\ \A u \in Threads : u # t => tabs'[u] = tabs[u]
    <2>1. /\ tabs'[t].open /\ tabs'[t].state = s
          /\ \A u \in Threads : u # t => tabs'[u] = tabs[u]
      BY <1>0, <1>4
    <2> QED
      BY <1>1, <1>2, <1>3, <1>4, <2>1 DEF Placed, Attempts
  <1>5. CASE /\ cache.states[t] # NoState
             /\ tabs' = [tabs EXCEPT ![t] = [open |-> TRUE, state |-> cache.states[t]]]
             /\ UNCHANGED <<taken, queue, shut>>
    <2>1. /\ Placed(t)' /\ Attempts(t)' = {cache.states[t].attempt, 0}
          /\ \A u \in Threads : u # t => tabs'[u] = tabs[u]
      BY <1>0, <1>3, <1>4, <1>5
    <2>2. \A u \in Threads : Queued(Close(u)) => Queued(Close(u))'
      BY <1>5 DEF Queued
    <2>3. t \in taken' => crossed \/ Queued(Close(t))' \/ live[t] \in Attempts(t)'
      BY <1>3, <1>5, <2>1, <2>2
    <2> QED
      BY <1>1, <1>2, <1>3, <1>5, <2>1, <2>2, <2>3, HeldMoves
  <1>6. CASE /\ joined /\ live[t] # 0
             /\ taken' = taken \cup {t} /\ UNCHANGED <<queue, shut>>
             /\ tabs' = [tabs EXCEPT ![t] =
                           [open |-> TRUE,
                            state |-> [attempt |-> live[t], generation |-> roomGeneration]]]
    <2> DEFINE s == [attempt |-> live[t], generation |-> roomGeneration]
    <2>1. s \in UiStates /\ s.generation = roomGeneration /\ s.attempt = live[t]
      BY DEF TimelinesTypeOK, UiStates
    <2>2. tabs' = [tabs EXCEPT ![t] = [open |-> TRUE, state |-> s]]
      BY <1>6
    <2> HIDE DEF s
    <2>3. /\ Placed(t)' /\ Attempts(t)' = {s.attempt, 0}
          /\ \A u \in Threads : u # t => tabs'[u] = tabs[u]
      BY <1>4, <2>1, <2>2
    <2>4. \A u \in Threads : Queued(Close(u)) => Queued(Close(u))'
      BY <1>6 DEF Queued
    <2> QED
      BY <1>1, <1>2, <1>6, <2>1, <2>3, <2>4, HeldMoves
  <1>7. CASE /\ cache.states[t] = NoState
             /\ queue' = Append(queue, Create(t)) /\ taken' = taken
             /\ tabs' = [tabs EXCEPT ![t] = [open |-> TRUE, state |-> NoState]]
    <2>1. /\ Placed(t)' /\ Attempts(t)' = {NoState.attempt, 0}
          /\ \A u \in Threads : u # t => tabs'[u] = tabs[u]
      BY <1>0, <1>4, <1>7
    <2>2. \A u \in Threads : Queued(Close(u)) => Queued(Close(u))'
      BY <1>0, <1>7, RequestType, Asked DEF Queued
    <2>3. t \in taken' => crossed \/ Queued(Close(t))' \/ live[t] \in Attempts(t)'
      BY <1>3, <1>7, <2>2
    <2> QED
      BY <1>1, <1>2, <1>3, <1>7, <2>1, <2>2, <2>3, HeldMoves
  <1> QED
    BY <1>5, <1>6, <1>7 DEF Show

LEMMA HeldStored ==
    ASSUME TimelinesTypeOK, HeldInv, NEW t \in Threads, CloseTab(t) \/ DropScreen(t)
    PROVE  HeldInv'
  <1> DEFINE s == tabs[t].state  kept == StoreState(cache, t, s)
  <1>0. /\ cache \in Caches /\ s \in UiStates /\ queue \in Seq(WorkerRequests)
        /\ tabs \in [Threads -> [open : BOOLEAN, state : UiStates]] /\ tabs[t].open
        /\ Unopened.open = FALSE /\ Unopened.state = NoState /\ NoState.attempt = 0
    BY DEF TimelinesTypeOK, Caches, CloseTab, DropScreen, Unopened, NoState
  <1>1. /\ UNCHANGED <<joined, live, taken, crossed, roomGeneration, leftUpdates>>
        /\ tabs' = [tabs EXCEPT ![t] = Unopened]
        /\ cache' \in {kept, Invalidate(kept, t)}
    BY DEF CloseTab, DropScreen, ClosedCache, tableVars
  <1>2. /\ tabs'[t] = Unopened
        /\ \A u \in Threads : u # t => tabs'[u] = tabs[u]
    BY <1>0, <1>1
  <1>3. kept \in Caches /\ t \notin cache.invalidated /\ Placed(t)
    BY <1>0, CacheType DEF HeldInv, Placed
  <1>4. /\ \A u \in Threads : u # t => kept.states[u] = cache.states[u]
        /\ kept.invalidated \subseteq cache.invalidated
        /\ s = NoState => kept = cache
        /\ \/ kept.states[t] = cache.states[t]
           \/ s.generation = roomGeneration /\ kept.states[t] = s
        /\ s # NoState /\ s.generation = roomGeneration => kept.states[t] = s
    BY <1>0, <1>3, CacheFacts
  <1> HIDE DEF kept
  <1>5. /\ \A u \in Threads : u # t => Invalidate(kept, t).states[u] = kept.states[u]
        /\ Invalidate(kept, t).invalidated \subseteq kept.invalidated \cup {t}
        /\ Invalidate(kept, t).states[t] = NoState
    BY <1>0, <1>3, CacheFacts
  <1>6. /\ \A u \in Threads : u # t => cache'.states[u] = cache.states[u]
        /\ cache'.invalidated \subseteq cache.invalidated \cup {t}
        /\ cache'.states[t] # NoState => cache'.states[t].generation = roomGeneration
    BY <1>1, <1>3, <1>4, <1>5 DEF Placed
  <1>7. Placed(t)'
    BY <1>0, <1>1, <1>2, <1>6 DEF Placed
  <1>8. \A u \in Threads : Queued(Close(u)) => Queued(Close(u))'
    <2>1. queue' = queue \/ queue' = Append(queue, Close(t))
      BY DEF CloseTab, DropScreen
    <2>2. ASSUME NEW u \in Threads, Queued(Close(u))
          PROVE  InQueue(Append(queue, Close(t)), Close(u))
      BY <1>0, <2>2, RequestType, Asked DEF Queued
    <2> QED
      BY <2>1, <2>2 DEF Queued
  <1>9. t \in taken => crossed \/ Queued(Close(t))' \/ live[t] \in Attempts(t)'
    <2>1. CASE CloseTab(t)
      BY <1>0, <2>1, RequestType, Asked DEF CloseTab, Queued
    <2>2. CASE DropScreen(t)
      <3>1. cache' = kept
        BY <2>2 DEF DropScreen, kept
      <3>2. SUFFICES ASSUME t \in taken, ~crossed, ~Queued(Close(t))
                     PROVE  live[t] \in Attempts(t)'
        BY <1>8
      <3>3. live[t] \in {s.attempt, cache.states[t].attempt} /\ live[t] # 0
        BY <3>2 DEF HeldInv, TakenIsHeld
      <3>4. live[t] = cache'.states[t].attempt
        <4>1. CASE s = NoState
          BY <1>0, <1>4, <3>1, <3>3, <4>1
        <4>2. CASE s # NoState
          <5>1. cache.states[t] = NoState /\ s.generation = roomGeneration
            BY <1>3, <4>2 DEF Placed
          <5> QED
            BY <1>0, <1>4, <3>1, <3>3, <4>2, <5>1
        <4> QED
          BY <4>1, <4>2
      <3> QED
        BY <3>4 DEF Attempts
    <2> QED
      BY <2>1, <2>2
  <1>10. /\ live[t] # 0 \/ t \notin taken
         /\ ~joined => taken = {}
    BY DEF HeldInv
  <1> QED
    BY <1>1, <1>2, <1>6, <1>7, <1>8, <1>9, <1>10, HeldMoves

\* The room leaves the list: its table is gone, with the endpoints.
LEMMA HeldDropped ==
    ASSUME HeldInv, DropTable
    PROVE  HeldInv'
  <1>1. joined' = FALSE /\ taken' = {} /\ UNCHANGED <<tabs, cache, roomGeneration>>
    BY DEF DropTable
  <1>2. \A u \in Threads : Placed(u)'
    BY <1>1 DEF HeldInv, Placed
  <1> QED
    BY <1>1, <1>2 DEF HeldInv, TakenIsHeld

LEMMA HeldLearns ==
    ASSUME TimelinesTypeOK, HeldInv, LearnRoomLeft
    PROVE  HeldInv'
  <1>1. /\ UNCHANGED <<joined, live, taken, crossed>> /\ leftUpdates > 0
        /\ leftUpdates' = leftUpdates - 1 /\ leftUpdates \in Nat
        /\ tabs' = [u \in Threads |-> Unopened]
        /\ cache'.states = [u \in Threads |-> NoState]
    BY DEF LearnRoomLeft, tableVars, TimelinesTypeOK
  <1>2. \A u \in Threads : Placed(u)'
    <2> TAKE u \in Threads
    <2>1. tabs'[u] = Unopened /\ cache'.states[u] = NoState
      BY <1>1
    <2>2. Unopened.open = FALSE /\ Unopened.state = NoState
      BY DEF Unopened
    <2> QED
      BY <2>1, <2>2 DEF Placed
  <1>3. taken = {} \/ crossed
    BY <1>1 DEF HeldInv
  <1>4. TakenIsHeld'
    BY <1>1, <1>3 DEF TakenIsHeld
  <1>5. /\ ~joined' => taken' = {}
        /\ joined' /\ leftUpdates' > 0 => crossed'
        /\ \A u \in taken' : live'[u] # 0
    BY <1>1 DEF HeldInv
  <1> QED
    BY <1>2, <1>4, <1>5 DEF HeldInv

LEMMA StepHeld == TimelinesTypeOK /\ HeldInv /\ [TimelinesNext]_timelineVars => HeldInv'
  <1> SUFFICES ASSUME TimelinesTypeOK, HeldInv, [TimelinesNext]_timelineVars
               PROVE  HeldInv'
    OBVIOUS
  <1>0. /\ queue \in Seq(WorkerRequests) /\ live \in [Threads -> Nat] /\ taken \subseteq Threads
        /\ \A b \in builds : b.thread \in Threads
    BY DEF TimelinesTypeOK, Builds
  <1>1. ASSUME NEW t \in Threads, TakesCreate(t)
        PROVE  HeldInv'
    <2>1. /\ UNCHANGED <<joined, crossed, screenVars, taken, live>>
          /\ queue # <<>> /\ Head(queue) = Create(t) /\ queue' = Tail(queue)
      BY <1>1 DEF TakesCreate, BeginCreate, tableVars
    <2>2. \A u \in Threads : Queued(Close(u)) => Queued(Close(u))'
      BY <1>0, <2>1, RequestType, StillQueued DEF Queued
    <2> QED
      BY <1>0, <2>1, <2>2, HeldKept
  <1>2. ASSUME NEW t \in Threads, TakesClose(t)
        PROVE  HeldInv'
    <2>1. /\ UNCHANGED <<joined, crossed, screenVars>>
          /\ queue # <<>> /\ Head(queue) = Close(t) /\ queue' = Tail(queue)
          /\ taken' = taken \ {t}
          /\ \A u \in Threads : u # t => live'[u] = live[u]
      BY <1>0, <1>2 DEF TakesClose, HeldInv
    <2>2. \A u \in Threads : u # t /\ Queued(Close(u)) => Queued(Close(u))'
      BY <1>0, <2>1, RequestType, StillQueued DEF Queued
    <2> QED
      BY <1>0, <2>1, <2>2, HeldKept
  <1>3. ASSUME NEW b \in builds, Finish(b)
        PROVE  HeldInv'
    <2>1. /\ UNCHANGED <<joined, crossed, screenVars, queue>>
          /\ \/ taken' = taken \ {b.thread} /\ live' = [live EXCEPT ![b.thread] = b.attempt]
             \/ taken' = taken /\ live' = live
      BY <1>3 DEF Finish
    <2>2. \A u \in taken' : live'[u] = live[u]
      BY <1>0, <2>1
    <2> QED
      BY <2>1, <2>2, HeldKept DEF Queued
  <1>4. ASSUME NEW b \in builds, Fail(b)
        PROVE  HeldInv'
    BY <1>4, HeldKept DEF Fail, Queued
  <1>5. ASSUME DropTable
        PROVE  HeldInv'
    BY <1>5, HeldDropped
  <1>6. ASSUME AddRoom
        PROVE  HeldInv'
    <2>1. /\ UNCHANGED <<live, taken, queue, tabs, cache, roomGeneration, leftUpdates>>
          /\ crossed' = (crossed \/ leftUpdates > 0) /\ taken = {}
      BY <1>6 DEF AddRoom, screenVars, HeldInv
    <2>2. \A u \in Threads : Placed(u)'
      BY <2>1 DEF HeldInv, Placed
    <2> QED
      BY <2>1, <2>2 DEF HeldInv, TakenIsHeld
  <1>7. ASSUME NEW t \in Threads, OpenTab(t) \/ ShowOnSignal(t)
        PROVE  HeldInv'
    <2>1. Show(t) /\ tabs[t].state = NoState
      BY <1>7 DEF OpenTab, ShowOnSignal, HeldInv, Placed
    <2> QED
      BY <2>1, HeldShow
  <1>8. ASSUME NEW t \in Threads, CloseTab(t) \/ DropScreen(t)
        PROVE  HeldInv'
    BY <1>8, HeldStored
  <1>9. ASSUME NEW t \in Threads, ClickRetry(t)
        PROVE  HeldInv'
    <2>1. /\ UNCHANGED <<joined, crossed, screenVars, taken, live>>
          /\ queue' = Append(queue, Create(t))
      BY <1>9 DEF ClickRetry, tableVars
    <2>2. \A u \in Threads : Queued(Close(u)) => Queued(Close(u))'
      BY <1>0, <2>1, RequestType, Asked DEF Queued
    <2> QED
      BY <1>0, <2>1, <2>2, HeldKept
  <1>10. ASSUME LearnRoomLeft
         PROVE  HeldInv'
    BY <1>10, HeldLearns
  <1>11. CASE UNCHANGED timelineVars
    BY <1>11, HeldKept DEF timelineVars, tableVars, Queued
  <1> QED
    BY <1>1, <1>2, <1>3, <1>4, <1>5, <1>6, <1>7, <1>8, <1>9, <1>10, <1>11
    DEF TimelinesNext, Worker, Building, Screens, ListIsRebuilt, RoomIsLeft

-----------------------------------------------------------------------------
(* Theorems.                                                               *)

LEMMA InitTimelines == TimelinesInit => TimelinesInv
  <1> SUFFICES ASSUME TimelinesInit PROVE TimelinesInv
    OBVIOUS
  <1>1. TimelinesTypeOK
    <2>1. NoState \in UiStates /\ Unopened \in [open : BOOLEAN, state : UiStates]
      BY DEF NoState, UiStates, Unopened
    <2>2. [opens |-> 0, failures |-> 0, rebuilds |-> 0, leaves |-> 0] \in Used
      BY TimelineBounds DEF Used
    <2>3. queue \in Seq(WorkerRequests)
      BY EmptySeq DEF TimelinesInit
    <2> QED
      BY <2>1, <2>2, <2>3 DEF TimelinesInit, TimelinesTypeOK
  <1>2. Tokens
    BY DEF TimelinesInit, Tokens
  <1>3. Closings
    BY DEF TimelinesInit, Closings
  <1> QED
    BY <1>1, <1>2, <1>3 DEF TimelinesInv

LEMMA StepTimelines == TimelinesInv /\ [TimelinesNext]_timelineVars => TimelinesInv'
  BY StepTyped, StepTokens, StepClosings DEF TimelinesInv

\* The tables, the worker's queue and the builds under way keep the invariant under
\* every order of opens, closes, build results and clean-ups.
THEOREM TimelinesInvariant == TimelinesSpec => []TimelinesInv
  <1>1. TimelinesInit => TimelinesInv
    BY InitTimelines
  <1>2. TimelinesInv /\ [TimelinesNext]_timelineVars => TimelinesInv'
    BY StepTimelines
  <1> QED
    BY <1>1, <1>2, PTL DEF TimelinesSpec

\* Every variable keeps its type, for any finite set of threads and any bounds.
THEOREM TimelinesTypeCorrect == TimelinesSpec => []TimelinesTypeOK
  <1>1. TimelinesInv => TimelinesTypeOK
    BY DEF TimelinesInv
  <1> QED
    BY <1>1, TimelinesInvariant, PTL

\* finish_create and fail_create act for the newest attempt of a thread, if for any: an
\* older build of the same table neither hijacks nor cancels it.
THEOREM NewestAttemptWins == TimelinesSpec => []OnlyNewestTokenIsCurrent
  <1>1. TimelinesInv => OnlyNewestTokenIsCurrent
    BY DEF TimelinesInv, Tokens, OnlyNewestTokenIsCurrent, TokenIsCurrent
  <1> QED
    BY <1>1, TimelinesInvariant, PTL

\* Once the worker took the close of a thread that nobody asked for again, the thread is
\* neither live nor pending, whichever builds of it end afterwards.
THEOREM ClosedThreadsStayClosed == TimelinesSpec => []ClosedStaysClosed
  <1>1. TimelinesInv => ClosedStaysClosed
    <2> SUFFICES ASSUME TimelinesTypeOK, Closings, NEW t \in Threads
                 PROVE  /\ live[t] = 0 \/ pending[t] = 0
                        /\ t \in shut /\ ~Queued(Close(t)) => (live[t] = 0 /\ pending[t] = 0)
      BY DEF TimelinesInv, ClosedStaysClosed
    <2> QED
      BY DEF Closings
  <1> QED
    BY <1>1, TimelinesInvariant, PTL

\* The endpoints of a thread's timeline are taken once: until the thread is closed, a
\* tab or the cache holds them, over any opens, closes, layouts and rebuilt room lists,
\* unless the room came back before the UI heard that it was left.
THEOREM TakenAlwaysHeld == TimelinesSpec => []TakenIsHeld
  <1>1. TimelinesInit => HeldInv
    <2> SUFFICES ASSUME TimelinesInit PROVE HeldInv
      OBVIOUS
    <2>1. \A t \in Threads : tabs[t] = Unopened /\ cache.states[t] = NoState
      BY DEF TimelinesInit
    <2>2. Unopened.open = FALSE /\ Unopened.state = NoState
      BY DEF Unopened
    <2>3. \A t \in Threads : Placed(t)
      BY <2>1, <2>2 DEF Placed
    <2> QED
      BY <2>3 DEF TimelinesInit, HeldInv, TakenIsHeld
  <1>2. TimelinesTypeOK /\ HeldInv /\ [TimelinesNext]_timelineVars => HeldInv'
    BY StepHeld
  <1>3. HeldInv => TakenIsHeld
    BY DEF HeldInv
  <1> QED
    BY <1>1, <1>2, <1>3, TimelinesTypeCorrect, PTL DEF TimelinesSpec

=============================================================================
