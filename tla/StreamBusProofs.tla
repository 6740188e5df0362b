--------------------------- MODULE StreamBusProofs ---------------------------
(***************************************************************************)
(* Proofs, for every number of processes, entries and faults, that the bus *)
(* and the consumer loop never lose track of a delivered entry and that    *)
(* they implement the promise stated in AtLeastOnce.                       *)
(***************************************************************************)
EXTENDS StreamBus, FiniteSetTheorems, TLAPS

-----------------------------------------------------------------------------
\* A process holds entries of D, the delivered ones, it runs its handler on
\* one of them, and it acknowledges only members of F, the completed ones.
Holds(k, D, F) ==
    /\ k.hand \subseteq D
    /\ k.pc \in {"handling", "ack"} => k.now \in D
    /\ k.pc = "ack" => k.now \in F

\* The inductive invariant.  AtLeastOnceDelivery alone is not inductive: an
\* Ack could retire an entry that no handler finished, were it not known what
\* a process holds; and Read could put an acknowledged entry back on the
\* pending list, were it not known that settled entries are behind the cursor.
BusInv ==
    /\ TypeOK
    /\ AtLeastOnceDelivery
    /\ SettledStaysSettled
    /\ pending \union acked \union done \subseteq Delivered
    /\ \A w \in Worker : Holds(worker[w], Delivered, done)

-----------------------------------------------------------------------------
\* The oldest entry of a batch exists and belongs to the batch.  (Strict
\* inclusion of finite sets is well founded, so one of the intervals 0..m - 1
\* is minimal.)
LEMMA LeastIsMember ==
    ASSUME NEW S \in SUBSET Nat, S # {}
    PROVE  Least(S) \in S /\ \A n \in S : Least(S) <= n
<1> DEFINE T == {0..m - 1 : m \in S}
<1>1. T \subseteq FiniteSubsetsOf(Nat) /\ T # {}
  <2>1. ASSUME NEW m \in S
        PROVE  0..m - 1 \in FiniteSubsetsOf(Nat)
    <3>1. 0 \in Int /\ m - 1 \in Int /\ 0..m - 1 \in SUBSET Nat
      OBVIOUS
    <3>2. IsFiniteSet(0..m - 1)
      BY <3>1, FS_Interval
    <3>3. QED
      BY <3>1, <3>2 DEF FiniteSubsetsOf
  <2>2. QED
    BY <2>1
<1>2. \E x \in T : \A y \in T : <<y, x>> \notin StrictSubsetOrdering(Nat)
  BY <1>1, FS_StrictSubsetOrderingWellFounded, WFMin
<1>3. PICK m \in S : \A n \in S : <<0..n - 1, 0..m - 1>> \notin StrictSubsetOrdering(Nat)
  BY <1>2
<1>4. ASSUME NEW n \in S, n < m
      PROVE  FALSE
  <2>1. 0..n - 1 \subseteq 0..m - 1 /\ n \in 0..m - 1 /\ n \notin 0..n - 1
    BY <1>4
  <2>2. <<0..n - 1, 0..m - 1>> \in StrictSubsetOrdering(Nat)
    BY <2>1 DEF StrictSubsetOrdering
  <2>3. QED
    BY <1>3, <2>2
<1>5. \A n \in S : m <= n
  BY <1>4
<1>6. QED
  BY <1>5 DEF Least

\* So does the newest one, entries being bounded.
LEMMA GreatestIsMember ==
    ASSUME NEW b \in Nat, NEW S \in SUBSET (1..b), S # {}
    PROVE  Greatest(S) \in S /\ \A n \in S : n <= Greatest(S)
<1> DEFINE R == {b - m : m \in S}
<1>1. R \in SUBSET Nat /\ R # {}
  <2>1. \A m \in S : b - m \in Nat
    OBVIOUS
  <2>2. QED
    BY <2>1
<1>2. PICK m \in S : b - m = Least(R)
  BY <1>1, LeastIsMember
<1>3. \A n \in S : b - m <= b - n
  BY <1>1, <1>2, LeastIsMember
<1>4. \A n \in S : n <= m
  BY <1>3
<1>5. QED
  BY <1>4 DEF Greatest

\* Assigning values of the right type to a process keeps it well formed.
LEMMA ProcessUpdate ==
    ASSUME NEW k \in Process
    PROVE  /\ \A p \in PcValues : [k EXCEPT !.pc = p] \in Process
           /\ \A m \in 0..MaxPublished : [k EXCEPT !.now = m] \in Process
           /\ \A b \in BOOLEAN : [k EXCEPT !.due = b] \in Process
           /\ \A b \in BOOLEAN : [k EXCEPT !.stop = b] \in Process
           /\ \A p \in PcValues, s \in Nat :
                 [k EXCEPT !.pc = p, !.scan = s] \in Process
           /\ \A p \in PcValues, b \in BOOLEAN :
                 [k EXCEPT !.pc = p, !.due = b] \in Process
           /\ \A p \in PcValues, m \in 0..MaxPublished, S \in SUBSET Id :
                 [k EXCEPT !.pc = p, !.now = m, !.hand = S] \in Process
           /\ \A v \in {"reclaim", "read"}, S \in SUBSET Id :
                 [k EXCEPT !.via = v, !.hand = S] \in Process
           /\ \A v \in {"reclaim", "read"}, S \in SUBSET Id, s \in Nat :
                 [k EXCEPT !.via = v, !.hand = S, !.scan = s] \in Process
BY DEF Process

\* A process that is down is well formed and holds no entry.
LEMMA DownIsIdle == Down \in Process /\ Down.hand = {} /\ Down.pc = "down"
BY BusAssumption DEF BusAssumption, Down, Process, PcValues, ScanStart, Id

\* With nothing left in hand the loop goes on to fetch, or ends.
LEMMA ExhaustedHolds ==
    ASSUME NEW k \in Process, k.hand = {}
    PROVE  /\ Exhausted(k) \in Process
           /\ Exhausted(k).hand = {}
           /\ Exhausted(k).pc \in {"down", "reclaim", "read"}
<1> DEFINE Reach == {Down, [k EXCEPT !.pc = "reclaim"],
                     [k EXCEPT !.pc = "reclaim", !.scan = ScanStart],
                     [k EXCEPT !.pc = "read"],
                     [k EXCEPT !.pc = "read", !.due = FALSE]}
<1>1. k.via \in {"reclaim", "read"}
  BY DEF Process
<1>2. Exhausted(k) \in Reach
  BY <1>1 DEF Exhausted, LoopTop
<1>3. "reclaim" \in PcValues /\ "read" \in PcValues /\ ScanStart \in Nat
  BY DEF PcValues, ScanStart
<1>4. \A e \in Reach : e \in Process
  <2>1. /\ [k EXCEPT !.pc = "reclaim"] \in Process
        /\ [k EXCEPT !.pc = "read"] \in Process
    BY <1>3, ProcessUpdate
  <2>2. [k EXCEPT !.pc = "reclaim", !.scan = ScanStart] \in Process
    BY <1>3, ProcessUpdate
  <2>3. [k EXCEPT !.pc = "read", !.due = FALSE] \in Process
    BY <1>3, ProcessUpdate
  <2>4. QED
    BY <2>1, <2>2, <2>3, DownIsIdle
<1>5. \A e \in Reach : e.hand = {} /\ e.pc \in {"down", "reclaim", "read"}
  BY DownIsIdle DEF Process
<1>6. QED
  BY <1>2, <1>4, <1>5

\* Whatever the loop does with a batch, the process stays well formed, keeps
\* hold of entries of that batch only, and does not skip the handler.
LEMMA NextEntryHolds ==
    ASSUME NEW k \in Process, NEW D \in SUBSET Id, k.hand \subseteq D
    PROVE  NextEntry(k) \in Process /\ \A F : Holds(NextEntry(k), D, F)
<1>1. CASE k.hand = {}
  <2> DEFINE j == [k EXCEPT !.now = 0]
  <2>1. 0 \in 0..MaxPublished
    BY BusAssumption DEF BusAssumption
  <2>2. j \in Process
    BY <2>1, ProcessUpdate
  <2>3. j.hand = {}
    BY <1>1 DEF Process
  <2>4. NextEntry(k) = Exhausted(j)
    BY <1>1 DEF NextEntry
  <2>5. QED
    BY <2>2, <2>3, <2>4, ExhaustedHolds DEF Holds
<1>2. CASE k.hand # {}
  <2> DEFINE m == Least(k.hand)
  <2>1. k.hand \in SUBSET Id /\ k.hand \in SUBSET Nat
    BY DEF Process, Id
  <2>2. m \in k.hand /\ m \in 0..MaxPublished /\ "handling" \in PcValues
    BY <1>2, <2>1, LeastIsMember DEF Id, PcValues
  <2>3. NextEntry(k) = [k EXCEPT !.pc = "handling", !.now = m, !.hand = k.hand \ {m}]
    BY <1>2 DEF NextEntry
  <2>4. NextEntry(k) \in Process
    <3>1. k.hand \ {m} \in SUBSET Id
      BY <2>1
    <3>2. [k EXCEPT !.pc = "handling", !.now = m, !.hand = k.hand \ {m}] \in Process
      BY <2>2, <3>1, ProcessUpdate
    <3>3. QED
      BY <2>3, <3>2
  <2>5. /\ NextEntry(k).hand = k.hand \ {m}
        /\ NextEntry(k).now = m
        /\ NextEntry(k).pc = "handling"
    BY <2>3 DEF Process
  <2>6. QED
    BY <2>2, <2>4, <2>5 DEF Holds
<1>3. QED
  BY <1>1, <1>2

\* So does what follows a dispatch: a process that stops abandons its batch.
LEMMA AfterDispatchHolds ==
    ASSUME NEW k \in Process, NEW D \in SUBSET Id, k.hand \subseteq D
    PROVE  AfterDispatch(k) \in Process /\ \A F : Holds(AfterDispatch(k), D, F)
BY NextEntryHolds, DownIsIdle DEF AfterDispatch, Holds

-----------------------------------------------------------------------------
\* A step that rewrites one process, forgets nothing that was delivered or
\* completed, and gives the process delivered entries only keeps what every
\* process holds.
LEMMA OneProcessSteps ==
    ASSUME BusInv, NEW w \in Worker, NEW e \in Process,
           worker' = [worker EXCEPT ![w] = e],
           Delivered \subseteq Delivered', done \subseteq done',
           Holds(e, Delivered', done')
    PROVE  /\ worker' \in [Worker -> Process]
           /\ \A v \in Worker : Holds(worker'[v], Delivered', done')
<1>1. worker \in [Worker -> Process]
  BY DEF BusInv, TypeOK
<1>2. \A v \in Worker : worker'[v] = IF v = w THEN e ELSE worker[v]
  BY <1>1
<1>3. \A v \in Worker : Holds(worker[v], Delivered, done)
  BY DEF BusInv
<1>4. \A v \in Worker : Holds(worker[v], Delivered', done')
  BY <1>3 DEF Holds
<1>5. \A v \in Worker : Holds(worker'[v], Delivered', done')
  BY <1>2, <1>4
<1>6. QED
  BY <1>1, <1>5

\* Before the group exists nothing is delivered, pending or settled.
LEMMA InitBusInv == Init => BusInv
<1> SUFFICES ASSUME Init PROVE BusInv
  OBVIOUS
<1>1. worker \in [Worker -> Process] /\ \A w \in Worker : worker[w] = Down
  BY DownIsIdle DEF Init
<1>2. \A w \in Worker : Holds(worker[w], Delivered, done)
  BY <1>1, DownIsIdle DEF Holds
<1>3. Delivered = {}
  BY DEF Init, Delivered, NoGroup, Id
<1>4. TypeOK
  BY <1>1, BusAssumption DEF Init, TypeOK, BusAssumption, Id, NoGroup
<1>5. QED
  BY <1>2, <1>3, <1>4 DEF Init, BusInv, AtLeastOnceDelivery, SettledStaysSettled

\* Adding an entry, and evicting old ones, delivers and settles nothing.
LEMMA PublishKeeps == BusInv /\ Publish => BusInv'
<1> SUFFICES ASSUME BusInv, Publish PROVE BusInv'
  OBVIOUS
<1>1. Delivered' = Delivered /\ Evicted \subseteq Evicted'
  BY DEF Publish, Delivered, Evicted, BusInv, TypeOK, Id
<1>2. TypeOK'
  BY BusAssumption DEF BusInv, TypeOK, Publish, BusAssumption, Id
<1>3. (AtLeastOnceDelivery /\ SettledStaysSettled)'
  BY <1>1 DEF BusInv, Publish, AtLeastOnceDelivery, SettledStaysSettled
<1>4. \A w \in Worker : Holds(worker[w], Delivered, done)'
  BY <1>1 DEF BusInv, Publish
<1>5. QED
  BY <1>1, <1>2, <1>3, <1>4 DEF BusInv, Publish

\* ensure_group moves no entry behind the cursor that was not delivered.
LEMMA StartKeeps ==
    ASSUME BusInv, NEW w \in Worker, Start(w)
    PROVE  BusInv'
<1>1. Delivered' = Delivered /\ Evicted' = Evicted
  BY DEF Start, ensure_group, Delivered, Evicted, NoGroup, NewGroupId, Id, BusInv, TypeOK
<1> DEFINE e == LoopTop(Down)
<1>2. e \in Process /\ \A D, F : Holds(e, D, F)
  <2>1. e = [Down EXCEPT !.pc = "reclaim", !.scan = ScanStart]
    BY DEF LoopTop, Down
  <2>2. "reclaim" \in PcValues /\ ScanStart \in Nat
    BY DEF PcValues, ScanStart
  <2>3. e \in Process
    <3>1. Down \in Process
      BY DownIsIdle
    <3>2. [Down EXCEPT !.pc = "reclaim", !.scan = ScanStart] \in Process
      BY <2>2, <3>1, ProcessUpdate
    <3>3. QED
      BY <2>1, <3>2
  <2>4. e.hand = {} /\ e.pc = "reclaim"
    BY <2>1 DEF Down
  <2>5. QED
    BY <2>3, <2>4 DEF Holds
<1>3. /\ worker' \in [Worker -> Process]
      /\ \A v \in Worker : Holds(worker'[v], Delivered', done')
  BY <1>1, <1>2, OneProcessSteps DEF Start
<1>4. TypeOK'
  BY <1>3 DEF BusInv, TypeOK, Start, ensure_group, NoGroup, NewGroupId
<1>5. QED
  BY <1>1, <1>3, <1>4 DEF BusInv, Start, ensure_group, AtLeastOnceDelivery, SettledStaysSettled

\* A reclaim pass takes a page of idle entries, drops the evicted ones from the
\* pending list and hands out the rest.
LEMMA ReclaimPage ==
    ASSUME BusInv, NEW w \in Worker, Reclaim(w)
    PROVE  \E k \in Process, S \in SUBSET idle :
              /\ k.hand = S \ Evicted /\ k.stop = worker[w].stop
              /\ pending' = pending \ (S \intersect Evicted)
              /\ idle' = idle \ S
              /\ worker' = [worker EXCEPT ![w] = NextEntry(k)]
<1> DEFINE ready == {m \in idle : m >= worker[w].scan}
           page == {m \in ready : Cardinality({n \in ready : n < m}) < Count}
           live == {m \in page : m > trim}
           s == IF page = ready THEN ScanStart ELSE Least(ready \ page)
           k == [worker[w] EXCEPT !.via = "reclaim", !.hand = live, !.scan = s]
<1>1. /\ pending' = pending \ {m \in page : m <= trim}
      /\ idle' = idle \ page
      /\ worker' = [worker EXCEPT ![w] = NextEntry(k)]
  BY DEF Reclaim
<1>2. page \subseteq ready /\ ready \subseteq idle /\ idle \subseteq Id /\ Id \subseteq Nat
      /\ trim \in Nat /\ worker[w] \in Process
  <2>1. page \subseteq ready /\ ready \subseteq idle
    OBVIOUS
  <2>2. idle \subseteq Id /\ trim \in Nat /\ worker[w] \in Process
    BY DEF BusInv, TypeOK
  <2>3. QED
    BY <2>1, <2>2 DEF Id
<1>3. live = page \ Evicted /\ {m \in page : m <= trim} = page \intersect Evicted
  <2> HIDE DEF page, ready
  <2>1. page \subseteq Id
    BY <1>2
  <2>2. \A m \in page : m <= trim <=> m \in Evicted
    BY <2>1 DEF Evicted
  <2>3. \A m \in page : m > trim <=> m \notin Evicted
    BY <1>2, <2>1, <2>2 DEF Id
  <2>4. QED
    BY <2>2, <2>3
<1>4. s \in Nat
  <2> DEFINE rest == ready \ page
  <2> HIDE DEF page, ready
  <2>1. rest \in SUBSET Nat
    BY <1>2
  <2>2. page # ready => rest # {}
    BY <1>2
  <2> HIDE DEF rest
  <2>3. rest # {} => Least(rest) \in Nat
    BY <2>1, LeastIsMember
  <2>4. QED
    BY <2>2, <2>3 DEF ScanStart, rest
<1>5. k \in Process
  <2> HIDE DEF page, ready, s
  <2>1. live \in SUBSET Id
    BY <1>2
  <2> HIDE DEF live
  <2>2. QED
    BY <1>2, <1>4, <2>1, ProcessUpdate
<1>6. k.hand = live /\ k.stop = worker[w].stop
  BY <1>2 DEF Process
<1> HIDE DEF page, ready, s, k, live
<1>7. page \in SUBSET idle
  BY <1>2
<1>8. QED
  BY <1>1, <1>3, <1>5, <1>6, <1>7

\* A reclaim pass hands out pending entries, and forgets only evicted ones.
LEMMA ReclaimKeeps ==
    ASSUME BusInv, NEW w \in Worker, Reclaim(w)
    PROVE  BusInv'
<1>1. PICK k \in Process, S \in SUBSET idle :
         /\ k.hand = S \ Evicted
         /\ pending' = pending \ (S \intersect Evicted)
         /\ idle' = idle \ S
         /\ worker' = [worker EXCEPT ![w] = NextEntry(k)]
  BY ReclaimPage
<1>2. UNCHANGED <<last, trim, cursor, acked, done, faults>>
  BY DEF Reclaim
<1>3. Delivered' = Delivered /\ Evicted' = Evicted
  BY <1>2 DEF Delivered, Evicted
<1>4. k.hand \subseteq Delivered /\ Delivered \in SUBSET Id /\ idle \subseteq pending
      /\ pending \subseteq Id
  BY <1>1 DEF BusInv, TypeOK, Delivered
<1>5. NextEntry(k) \in Process /\ Holds(NextEntry(k), Delivered', done')
  BY <1>3, <1>4, NextEntryHolds
<1>6. /\ worker' \in [Worker -> Process]
      /\ \A v \in Worker : Holds(worker'[v], Delivered', done')
  BY <1>1, <1>2, <1>3, <1>5, OneProcessSteps
<1>7. TypeOK'
  <2>1. pending' \subseteq Id /\ idle' \subseteq pending'
    BY <1>1, <1>4
  <2>2. QED
    BY <1>2, <1>6, <2>1 DEF BusInv, TypeOK
<1>8. (AtLeastOnceDelivery /\ SettledStaysSettled)'
  BY <1>1, <1>2, <1>3 DEF BusInv, AtLeastOnceDelivery, SettledStaysSettled
<1>9. QED
  BY <1>1, <1>2, <1>3, <1>6, <1>7, <1>8 DEF BusInv

\* A read hands out a page of entries that nobody has seen, without holes but
\* for what was evicted, and makes exactly that page pending.
LEMMA ReadPage ==
    ASSUME BusInv, NEW w \in Worker, Read(w)
    PROVE  \E k \in Process :
              /\ k.stop = worker[w].stop
              /\ pending' = pending \union k.hand
              /\ worker' = [worker EXCEPT ![w] = NextEntry(k)]
              /\ cursor' \in {NoGroup} \union 0..last
              /\ k.hand \subseteq Delivered'
              /\ Delivered \subseteq Delivered'
              /\ Delivered' \subseteq Delivered \union k.hand \union Evicted
              /\ \A m \in Delivered, n \in k.hand : m < n
<1> DEFINE fresh == {m \in Id : cursor < m /\ trim < m /\ m <= last}
           page == {m \in fresh : Cardinality({n \in fresh : n < m}) < Count}
           k == [worker[w] EXCEPT !.via = "read", !.hand = page]
<1>1. /\ pending' = pending \union page
      /\ cursor' = IF page = {} THEN cursor ELSE Greatest(page)
      /\ worker' = [worker EXCEPT ![w] = NextEntry(k)]
      /\ UNCHANGED <<last, trim, idle, acked, done, faults>>
  BY DEF Read, Fresh
<1>2. page \subseteq fresh /\ fresh \subseteq Id /\ page \in SUBSET Id
      /\ worker[w] \in Process
  BY DEF BusInv, TypeOK
\* A page has no holes: whatever is older than one of its entries is in it.
<1>3. \A m \in fresh, n \in page : m <= n => m \in page
  <2> SUFFICES ASSUME NEW m \in fresh, NEW n \in page, m <= n
               PROVE  m \in page
    OBVIOUS
  <2> DEFINE Older(i) == {j \in fresh : j < i}
  <2>1. Older(m) \subseteq Older(n)
    BY <1>2 DEF Id
  <2>2. IsFiniteSet(Id)
    BY FS_Interval, BusAssumption DEF BusAssumption, Id
  <2>3. IsFiniteSet(Older(n))
    BY <1>2, <2>2, FS_Subset
  <2>4. /\ Cardinality(Older(m)) \in Nat /\ Cardinality(Older(n)) \in Nat
        /\ Cardinality(Older(m)) <= Cardinality(Older(n))
    BY <2>1, <2>3, FS_Subset, FS_CardinalityType
  <2>5. Cardinality(Older(n)) < Count
    OBVIOUS
  <2>6. QED
    BY <2>4, <2>5, BusAssumption DEF BusAssumption
<1>4. /\ cursor' \in {NoGroup} \union 0..last
      /\ page \subseteq Delivered'
      /\ Delivered \subseteq Delivered'
      /\ Delivered' \subseteq Delivered \union page \union Evicted
  <2>1. CASE page = {}
    BY <1>1, <2>1 DEF BusInv, TypeOK, Delivered
  <2>2. CASE page # {}
    <3> DEFINE g == Greatest(page)
    <3>1. g \in page /\ \A n \in page : n <= g
      BY <1>2, <2>2, GreatestIsMember, BusAssumption DEF BusAssumption, Id
    <3>2. cursor' = g /\ g \in Id /\ cursor < g /\ g <= last /\ last \in Nat
          /\ trim \in Nat /\ cursor \in Int
      BY <1>1, <2>2, <3>1 DEF BusInv, TypeOK, NoGroup
    <3>3. cursor' \in 0..last
      BY <3>2 DEF Id
    <3>4. ASSUME NEW m \in Id, cursor < m, m <= g
          PROVE  m \in page \union Evicted
      <4>1. CASE m <= trim
        BY <4>1 DEF Evicted
      <4>2. CASE trim < m
        <5>1. m \in fresh
          BY <3>2, <3>4, <4>2 DEF Id
        <5> HIDE DEF fresh, page, g
        <5>2. m \in page
          BY <1>3, <3>1, <3>4, <5>1
        <5>3. QED
          BY <5>2
      <4>3. QED
        BY <3>2, <4>1, <4>2 DEF Id
    <3>5. page \subseteq Delivered'
      BY <1>2, <3>1, <3>2 DEF Delivered
    <3>6. Delivered \subseteq Delivered'
      <4>1. cursor \in Int /\ cursor' \in Int /\ cursor < cursor'
        BY <3>2 DEF Id
      <4>2. \A m \in Id : m <= cursor => m <= cursor'
        BY <4>1 DEF Id
      <4>3. QED
        BY <4>2 DEF Delivered
    <3>7. Delivered' \subseteq Delivered \union page \union Evicted
      BY <3>2, <3>4 DEF Delivered, Id
    <3>8. QED
      BY <3>3, <3>5, <3>6, <3>7
  <2>3. QED
    BY <2>1, <2>2
<1>5. k \in Process /\ k.hand = page /\ k.stop = worker[w].stop
  <2>1. k \in Process
    BY <1>2, ProcessUpdate
  <2>2. QED
    BY <1>2, <2>1 DEF Process
<1>6. \A m \in Delivered, n \in page : m < n
  <2>1. \A n \in page : cursor < n
    OBVIOUS
  <2> HIDE DEF page
  <2>2. QED
    BY <1>2, <2>1 DEF Delivered, BusInv, TypeOK, NoGroup, Id
<1> HIDE DEF k, page
<1>7. QED
  BY <1>1, <1>4, <1>5, <1>6

\* A read makes exactly what it delivers pending.
LEMMA ReadKeeps ==
    ASSUME BusInv, NEW w \in Worker, Read(w)
    PROVE  BusInv'
<1>1. PICK k \in Process :
         /\ pending' = pending \union k.hand
         /\ worker' = [worker EXCEPT ![w] = NextEntry(k)]
         /\ cursor' \in {NoGroup} \union 0..last
         /\ k.hand \subseteq Delivered'
         /\ Delivered \subseteq Delivered'
         /\ Delivered' \subseteq Delivered \union k.hand \union Evicted
         /\ \A m \in Delivered, n \in k.hand : m < n
  BY ReadPage
<1>2. UNCHANGED <<last, trim, idle, acked, done, faults>>
  BY DEF Read
<1>3. Delivered' \in SUBSET Id /\ Evicted' = Evicted
  BY <1>2 DEF Delivered, Evicted
<1>4. NextEntry(k) \in Process /\ Holds(NextEntry(k), Delivered', done')
  BY <1>1, <1>3, NextEntryHolds
<1>5. /\ worker' \in [Worker -> Process]
      /\ \A v \in Worker : Holds(worker'[v], Delivered', done')
  BY <1>1, <1>2, <1>4, OneProcessSteps
<1>6. TypeOK'
  BY <1>1, <1>2, <1>3, <1>5 DEF BusInv, TypeOK
<1>7. AtLeastOnceDelivery'
  BY <1>1, <1>2, <1>3 DEF BusInv, AtLeastOnceDelivery
<1>8. SettledStaysSettled'
  <2>1. acked \subseteq Delivered /\ acked \subseteq Id
    BY DEF BusInv, TypeOK
  <2>2. \A m \in acked \intersect k.hand : m < m /\ m \in Int
    BY <1>1, <2>1 DEF Id
  <2>3. k.hand \intersect acked = {}
    BY <2>2
  <2>4. QED
    BY <1>1, <1>2, <2>3 DEF BusInv, SettledStaysSettled
<1>9. QED
  BY <1>1, <1>2, <1>5, <1>6, <1>7, <1>8 DEF BusInv

\* A handler that returns completed an entry the group had delivered.
LEMMA HandlerReturnsKeeps ==
    ASSUME BusInv, NEW w \in Worker, HandlerReturns(w)
    PROVE  BusInv'
<1> DEFINE m == worker[w].now
           e == [worker[w] EXCEPT !.pc = "ack"]
<1>1. /\ worker[w].pc = "handling"
      /\ done' = done \union {m}
      /\ worker' = [worker EXCEPT ![w] = e]
      /\ UNCHANGED <<last, trim, cursor, pending, idle, acked, faults>>
  BY DEF HandlerReturns, redisVars
<1>2. worker[w] \in Process /\ Holds(worker[w], Delivered, done)
  BY DEF BusInv, TypeOK
<1>3. m \in Delivered /\ Delivered' = Delivered /\ Evicted' = Evicted
  BY <1>1, <1>2 DEF Holds, Delivered, Evicted
<1>4. "ack" \in PcValues
  BY DEF PcValues
<1>5. e \in Process
  BY <1>2, <1>4, ProcessUpdate
<1>6. e.hand = worker[w].hand /\ e.now = m /\ e.pc = "ack"
  BY <1>2 DEF Process
<1>7. Holds(e, Delivered', done')
  BY <1>1, <1>2, <1>3, <1>6 DEF Holds
<1>8. /\ worker' \in [Worker -> Process]
      /\ \A v \in Worker : Holds(worker'[v], Delivered', done')
  BY <1>1, <1>3, <1>5, <1>7, OneProcessSteps
<1>9. TypeOK'
  BY <1>1, <1>3, <1>8 DEF BusInv, TypeOK, Delivered
<1>10. QED
  BY <1>1, <1>3, <1>8, <1>9 DEF BusInv, AtLeastOnceDelivery, SettledStaysSettled

\* A handler that raises leaves its entry pending.
LEMMA HandlerRaisesKeeps ==
    ASSUME BusInv, NEW w \in Worker, HandlerRaises(w)
    PROVE  BusInv'
<1> DEFINE e == AfterDispatch(worker[w])
<1>1. /\ worker' = [worker EXCEPT ![w] = e]
      /\ faults' \in 0..MaxFaults
      /\ UNCHANGED <<last, trim, cursor, pending, idle, acked, done>>
  BY BusAssumption DEF HandlerRaises, redisVars, BusInv, TypeOK, BusAssumption
<1>2. Delivered' = Delivered /\ Evicted' = Evicted
  BY <1>1 DEF Delivered, Evicted
<1>3. worker[w] \in Process /\ worker[w].hand \subseteq Delivered /\ Delivered \in SUBSET Id
  BY DEF BusInv, TypeOK, Holds, Delivered
<1>4. e \in Process /\ Holds(e, Delivered', done')
  BY <1>2, <1>3, AfterDispatchHolds
<1>5. /\ worker' \in [Worker -> Process]
      /\ \A v \in Worker : Holds(worker'[v], Delivered', done')
  BY <1>1, <1>2, <1>4, OneProcessSteps
<1>6. TypeOK'
  BY <1>1, <1>5 DEF BusInv, TypeOK
<1>7. QED
  BY <1>1, <1>2, <1>5, <1>6 DEF BusInv, AtLeastOnceDelivery, SettledStaysSettled

\* An acknowledgement moves an entry some handler completed from the pending
\* list to the settled ones, or finds that it has been moved already.
LEMMA AckKeeps ==
    ASSUME BusInv, NEW w \in Worker, Ack(w)
    PROVE  BusInv'
<1> DEFINE e == AfterDispatch(worker[w])
           m == worker[w].now
<1>1. /\ worker[w].pc = "ack"
      /\ acked' = acked \union ({m} \intersect pending)
      /\ pending' = pending \ {m}
      /\ idle' = idle \ {m}
      /\ worker' = [worker EXCEPT ![w] = e]
      /\ UNCHANGED <<last, trim, cursor, done, faults>>
  BY DEF Ack
<1>2. Delivered' = Delivered /\ Evicted' = Evicted
  BY <1>1 DEF Delivered, Evicted
<1>3. /\ worker[w] \in Process /\ worker[w].hand \subseteq Delivered
      /\ Delivered \in SUBSET Id /\ m \in done /\ m \in Delivered
  BY <1>1 DEF BusInv, TypeOK, Holds, Delivered
<1>4. e \in Process /\ Holds(e, Delivered', done')
  BY <1>2, <1>3, AfterDispatchHolds
<1>5. /\ worker' \in [Worker -> Process]
      /\ \A v \in Worker : Holds(worker'[v], Delivered', done')
  BY <1>1, <1>2, <1>4, OneProcessSteps
<1>6. TypeOK'
  BY <1>1, <1>3, <1>5 DEF BusInv, TypeOK
<1>7. AtLeastOnceDelivery'
  BY <1>1, <1>2, <1>3 DEF BusInv, AtLeastOnceDelivery
<1>8. SettledStaysSettled'
  BY <1>1 DEF BusInv, SettledStaysSettled
<1>9. QED
  BY <1>1, <1>2, <1>3, <1>5, <1>6, <1>7, <1>8 DEF BusInv

\* A process that dies, is told to stop, or reaches its reclaim timer leaves
\* the stream alone.
LEMMA ProcessEventKeeps ==
    ASSUME BusInv, NEW w \in Worker, Crash(w) \/ Signal(w) \/ ReclaimDue(w)
    PROVE  BusInv'
<1>1. /\ UNCHANGED <<last, trim, cursor, pending, idle, acked, done>>
      /\ faults' \in 0..MaxFaults
  BY BusAssumption DEF Crash, Signal, ReclaimDue, redisVars, BusInv, TypeOK, BusAssumption
<1>2. Delivered' = Delivered /\ Evicted' = Evicted
  BY <1>1 DEF Delivered, Evicted
<1>3. worker[w] \in Process /\ Holds(worker[w], Delivered, done)
  BY DEF BusInv, TypeOK
<1>4. PICK e \in {Down, [worker[w] EXCEPT !.stop = TRUE], [worker[w] EXCEPT !.due = TRUE]} :
         worker' = [worker EXCEPT ![w] = e]
  BY DEF Crash, Signal, ReclaimDue
<1>5. e \in Process
  BY <1>3, ProcessUpdate, DownIsIdle
<1>6. Holds(e, Delivered', done')
  <2>1. e = Down \/ (e.hand = worker[w].hand /\ e.now = worker[w].now /\ e.pc = worker[w].pc)
    BY <1>3 DEF Process
  <2>2. QED
    BY <1>1, <1>2, <1>3, <2>1, DownIsIdle DEF Holds
<1>7. /\ worker' \in [Worker -> Process]
      /\ \A v \in Worker : Holds(worker'[v], Delivered', done')
  BY <1>1, <1>2, <1>4, <1>5, <1>6, OneProcessSteps
<1>8. TypeOK'
  BY <1>1, <1>7 DEF BusInv, TypeOK
<1>9. QED
  BY <1>1, <1>2, <1>7, <1>8 DEF BusInv, AtLeastOnceDelivery, SettledStaysSettled

\* Time passing over a pending entry delivers and settles nothing.
LEMMA GoIdleKeeps ==
    ASSUME BusInv, NEW m \in Id, GoIdle(m)
    PROVE  BusInv'
<1>1. Delivered' = Delivered /\ Evicted' = Evicted
  BY DEF GoIdle, Delivered, Evicted
<1>2. TypeOK'
  BY DEF GoIdle, BusInv, TypeOK
<1>3. QED
  BY <1>1, <1>2 DEF GoIdle, BusInv, AtLeastOnceDelivery, SettledStaysSettled

\* Every step of the bus and of the loops on it keeps the invariant.
LEMMA NextKeeps == BusInv /\ [Next]_busVars => BusInv'
<1> SUFFICES ASSUME BusInv, [Next]_busVars PROVE BusInv'
  OBVIOUS
<1>1. CASE Environment
  BY <1>1, PublishKeeps, StartKeeps, GoIdleKeeps, ProcessEventKeeps DEF Environment
<1>2. ASSUME NEW w \in Worker,
             LoopStep(w) \/ HandlerReturns(w) \/ HandlerRaises(w) \/ Crash(w)
      PROVE  BusInv'
  BY <1>2, ReclaimKeeps, ReadKeeps, AckKeeps, HandlerReturnsKeeps, HandlerRaisesKeeps,
     ProcessEventKeeps DEF LoopStep
<1>3. CASE UNCHANGED busVars
  <2>1. Delivered' = Delivered /\ Evicted' = Evicted
    BY <1>3 DEF busVars, Delivered, Evicted
  <2>2. QED
    BY <1>3, <2>1 DEF busVars, BusInv, TypeOK, AtLeastOnceDelivery, SettledStaysSettled
<1>4. QED
  BY <1>1, <1>2, <1>3 DEF Next

\* The invariant holds in every reachable state of the bus.
THEOREM BusInvariant == Spec => []BusInv
BY InitBusInv, NextKeeps, PTL DEF Spec

\* bus.py's "genuine at-least-once guarantee", for every number of processes,
\* batch size, crash and schedule: nothing is settled before it was handled,
\* nothing delivered is forgotten unless the length cap evicted it.
THEOREM AtLeastOnceHolds == Spec => []AtLeastOnceDelivery
<1>1. BusInv => AtLeastOnceDelivery
  BY DEF BusInv
<1>2. QED
  BY <1>1, BusInvariant, PTL

\* XACK by a slow process that lost its entry to a reclaim is harmless.
THEOREM SettledHolds == Spec => []SettledStaysSettled
<1>1. BusInv => SettledStaysSettled
  BY DEF BusInv
<1>2. QED
  BY <1>1, BusInvariant, PTL

\* The state of the stream, the group and the processes has its type.
THEOREM TypeCorrect == Spec => []TypeOK
<1>1. BusInv => TypeOK
  BY DEF BusInv
<1>2. QED
  BY <1>1, BusInvariant, PTL

-----------------------------------------------------------------------------
\* The steps that the promise does not see.
LEMMA HiddenSteps ==
    ASSUME UNCHANGED <<last, trim, done, acked>>
    PROVE  UNCHANGED Promise!promiseVars
BY DEF Promise!promiseVars, Evicted

\* An XADD sends one message, and evicts none of the newest MaxLen.
LEMMA PublishIsSend ==
    ASSUME BusInv, Publish, NEW m \in Id, m = last + 1
    PROVE  Promise!Send(m)
<1> DEFINE sent == {i \in Id : i <= last}
<1>1. /\ last \in Nat /\ last' = last + 1 /\ last + 1 \in Id
      /\ trim \in Nat /\ trim <= last /\ trim' \in trim..last + 1
      /\ trim' = trim \/ trim' <= last + 1 - MaxLen
      /\ UNCHANGED <<done, acked>>
      /\ MaxPublished \in Nat /\ last + 1 <= MaxPublished
  <2>1. last \in 0..MaxPublished /\ trim \in 0..last /\ MaxPublished \in Nat
    BY BusAssumption DEF BusInv, TypeOK, BusAssumption
  <2>2. /\ last < MaxPublished /\ last' = last + 1
        /\ trim' \in trim..last + 1
        /\ trim' = trim \/ trim' <= last + 1 - MaxLen
        /\ UNCHANGED <<done, acked>>
    BY DEF Publish
  <2>3. QED
    BY <2>1, <2>2 DEF Id
<1>2. m \notin sent /\ sent' = sent \union {m}
  BY <1>1 DEF Id
<1>3. Evicted \subseteq Evicted' /\ Evicted' \subseteq sent'
  BY <1>1 DEF Evicted, Id
<1>4. \A i \in Evicted' : \A n \in Id : n < i => n \in Evicted'
  BY <1>1 DEF Evicted, Id
<1>5. \A i \in Evicted' : i \in Evicted \/ i + MaxLen \in sent'
  <2> SUFFICES ASSUME NEW i \in Id, i <= trim', trim < i
               PROVE  i + MaxLen \in sent'
    BY <1>1 DEF Evicted, Id
  <2>1. i + MaxLen <= last + 1 /\ MaxLen \in Nat /\ i \in Nat /\ i >= 1
    BY <1>1, BusAssumption DEF BusAssumption, Id
  <2>2. i + MaxLen \in 1..MaxPublished
    BY <1>1, <2>1
  <2>3. QED
    BY <1>1, <2>1, <2>2 DEF Id
<1>6. QED
  BY <1>1, <1>2, <1>3, <1>4, <1>5 DEF Promise!Send, Promise!MayEvict

\* A handler that returns completes a message that was sent.
LEMMA ReturnIsComplete ==
    ASSUME BusInv, NEW w \in Worker, HandlerReturns(w)
    PROVE  worker[w].now \in Id /\ Promise!Complete(worker[w].now)
<1> DEFINE m == worker[w].now
<1>1. /\ m \in Delivered /\ done' = done \union {m}
      /\ UNCHANGED <<last, trim, acked>>
  BY DEF HandlerReturns, redisVars, BusInv, Holds
<1>2. m \in Id /\ m <= last
  BY <1>1 DEF BusInv, TypeOK, Delivered, NoGroup, Id
<1>3. QED
  BY <1>1, <1>2 DEF Promise!Complete, Evicted

\* An XACK retires a completed message, or nothing.
LEMMA AckIsRetire ==
    ASSUME BusInv, NEW w \in Worker, Ack(w)
    PROVE  \/ worker[w].now \in Id /\ Promise!Retire(worker[w].now)
           \/ UNCHANGED Promise!promiseVars
<1> DEFINE m == worker[w].now
<1>1. /\ m \in done /\ m \in Id
      /\ acked' = acked \union ({m} \intersect pending)
      /\ UNCHANGED <<last, trim, done>>
  BY DEF Ack, BusInv, Holds, Delivered
<1>2. CASE m \in pending
  <2>1. acked' = acked \union {m}
    BY <1>1, <1>2
  <2>2. QED
    BY <1>1, <2>1 DEF Promise!Retire, Evicted
<1>3. CASE m \notin pending
  <2>1. acked' = acked
    BY <1>1, <1>3
  <2>2. QED
    BY <1>1, <2>1, HiddenSteps
<1>4. QED
  BY <1>2, <1>3

\* Every step of the bus is a step of the promise, or invisible in it.
LEMMA StepsImplement == BusInv /\ [Next]_busVars => [Promise!Next]_Promise!promiseVars
<1> SUFFICES ASSUME BusInv, [Next]_busVars
             PROVE  Promise!Next \/ UNCHANGED Promise!promiseVars
  OBVIOUS
<1>1. CASE Publish
  <2>1. last + 1 \in Id
    BY <1>1, BusAssumption DEF Publish, BusInv, TypeOK, Id, BusAssumption
  <2>2. PICK m \in Id : m = last + 1
    BY <2>1
  <2>3. Promise!Send(m)
    BY <1>1, <2>2, PublishIsSend
  <2>4. QED
    BY <2>3 DEF Promise!Next
<1>2. ASSUME NEW w \in Worker, HandlerReturns(w)
      PROVE  Promise!Next
  BY <1>2, ReturnIsComplete DEF Promise!Next
<1>3. ASSUME NEW w \in Worker, Ack(w)
      PROVE  Promise!Next \/ UNCHANGED Promise!promiseVars
  BY <1>3, AckIsRetire DEF Promise!Next
<1>4. ASSUME NEW w \in Worker,
             \/ Start(w) \/ Signal(w) \/ ReclaimDue(w) \/ Reclaim(w) \/ Read(w)
             \/ HandlerRaises(w) \/ Crash(w)
      PROVE  UNCHANGED Promise!promiseVars
  BY <1>4, HiddenSteps
     DEF Start, Signal, ReclaimDue, Reclaim, Read, HandlerRaises, Crash, redisVars
<1>5. ASSUME NEW m \in Id, GoIdle(m)
      PROVE  UNCHANGED Promise!promiseVars
  BY <1>5, HiddenSteps DEF GoIdle
<1>6. CASE UNCHANGED busVars
  BY <1>6, HiddenSteps DEF busVars
<1>7. QED
  BY <1>1, <1>2, <1>3, <1>4, <1>5, <1>6 DEF Next, Environment, LoopStep

\* The bus and the consumer loop implement AtLeastOnce: a user who knows only
\* the promise knows every behaviour of completions and retirements.
THEOREM BusImplementsPromise == Spec => ImplementsPromise
<1>1. Init => Promise!Init
  BY DEF Init, Promise!Init, Evicted, Id
<1>2. QED
  BY <1>1, BusInvariant, StepsImplement, PTL DEF Spec, Promise!Spec, ImplementsPromise

\* A delivered entry is never new again, and XACK is final.
THEOREM CursorMonotone == Spec => CursorNeverRewinds
<1>1. BusInv /\ [Next]_busVars => [cursor' >= cursor /\ acked \subseteq acked']_busVars
  <2> SUFFICES ASSUME BusInv, Next
               PROVE  cursor' >= cursor /\ acked \subseteq acked'
    OBVIOUS
  <2>0. cursor \in Int
    BY DEF BusInv, TypeOK, NoGroup
  <2>1. ASSUME NEW w \in Worker, Read(w)
        PROVE  cursor' >= cursor /\ acked \subseteq acked'
    <3> DEFINE fresh == {m \in Id : cursor < m /\ trim < m /\ m <= last}
               page == {m \in fresh : Cardinality({n \in fresh : n < m}) < Count}
    <3>1. cursor' = IF page = {} THEN cursor ELSE Greatest(page)
      BY <2>1 DEF Read, Fresh
    <3>2. page \in SUBSET Id /\ \A m \in page : cursor < m
      OBVIOUS
    <3> HIDE DEF page
    <3>3. page # {} => Greatest(page) \in page
      BY <3>2, GreatestIsMember, BusAssumption DEF BusAssumption, Id
    <3>4. cursor' >= cursor
      BY <2>0, <3>1, <3>2, <3>3 DEF Id
    <3>5. QED
      BY <2>1, <3>4 DEF Read, Fresh
  <2>2. ASSUME NEW w \in Worker, Start(w)
        PROVE  cursor' >= cursor /\ acked \subseteq acked'
    BY <2>0, <2>2 DEF Start, ensure_group, NoGroup, NewGroupId
  <2>3. ASSUME NEW w \in Worker, Ack(w)
        PROVE  cursor' >= cursor /\ acked \subseteq acked'
    BY <2>0, <2>3 DEF Ack
  <2>4. CASE UNCHANGED <<cursor, acked>>
    BY <2>0, <2>4
  <2>5. QED
    BY <2>1, <2>2, <2>3, <2>4 DEF Next, Environment, LoopStep, Publish, GoIdle, Signal,
       ReclaimDue, Reclaim, HandlerReturns, HandlerRaises, Crash, redisVars
<1>2. QED
  BY <1>1, BusInvariant, PTL DEF Spec, CursorNeverRewinds

-----------------------------------------------------------------------------
\* What the only process of a group knows of its batch: every entry of it is
\* still pending, and none is in it twice.
Sole(k) ==
    /\ k.pc \in {"down", "reclaim", "read"} => k.hand = {}
    /\ k.hand \subseteq pending
    /\ k.pc \in {"handling", "ack"} => k.now \in pending \ k.hand

\* And as long as nothing has failed: every delivered entry was completed,
\* evicted or is poison, but for those it holds, which are younger than all
\* that was completed and handed out oldest first.
InTurn(k) ==
    /\ ~k.stop
    /\ k.pc = "down" => cursor = NoGroup
    /\ done \subseteq acked \union (IF k.pc = "ack" THEN {k.now} ELSE {})
    /\ Delivered \subseteq done \union Evicted \union Poison \union k.hand
                           \union (IF k.pc = "handling" THEN {k.now} ELSE {})
    /\ k.pc = "handling" => \A n \in k.hand : k.now < n
    /\ \A n \in k.hand \ Poison, m \in done : m < n
    /\ k.pc = "handling" /\ k.now \notin Poison => \A m \in done : m < k.now

CompletedInOrder ==
    \A m \in done : \A n \in 1..m - 1 : n \in done \union Evicted \union Poison

\* The inductive invariant of a group of one process.
SoleInv ==
    /\ \A w \in Worker : Sole(worker[w]) /\ (faults = 0 => InTurn(worker[w]))
    /\ faults = 0 => CompletedInOrder

\* Where the loop goes from a batch: to its oldest entry, or on to fetch; and
\* not to an end that nobody asked for.
LEMMA NextEntryGoes ==
    ASSUME NEW k \in Process
    PROVE  /\ k.hand = {} => /\ NextEntry(k).hand = {}
                             /\ NextEntry(k).pc \in {"down", "reclaim", "read"}
                             /\ ~k.stop => ~NextEntry(k).stop /\ NextEntry(k).pc # "down"
           /\ k.hand # {} => /\ NextEntry(k).pc = "handling"
                             /\ NextEntry(k).now = Least(k.hand)
                             /\ NextEntry(k).hand = k.hand \ {Least(k.hand)}
                             /\ NextEntry(k).stop = k.stop
                             /\ Least(k.hand) \in k.hand
                             /\ \A n \in k.hand : Least(k.hand) <= n
<1>1. ASSUME k.hand = {}
      PROVE  /\ NextEntry(k).hand = {}
             /\ NextEntry(k).pc \in {"down", "reclaim", "read"}
             /\ ~k.stop => ~NextEntry(k).stop /\ NextEntry(k).pc # "down"
  <2> DEFINE j == [k EXCEPT !.now = 0]
  <2>1. 0 \in 0..MaxPublished
    BY BusAssumption DEF BusAssumption
  <2>2. j \in Process /\ j.hand = {} /\ j.stop = k.stop
    <3>1. j \in Process
      BY <2>1, ProcessUpdate
    <3>2. j.hand = {} /\ j.stop = k.stop
      BY <1>1 DEF Process
    <3>3. QED
      BY <3>1, <3>2
  <2>3. NextEntry(k) = Exhausted(j)
    BY <1>1 DEF NextEntry
  <2>4. Exhausted(j).hand = {} /\ Exhausted(j).pc \in {"down", "reclaim", "read"}
    BY <2>2, ExhaustedHolds
  <2>5. ASSUME ~j.stop PROVE ~Exhausted(j).stop /\ Exhausted(j).pc # "down"
    <3> HIDE DEF j
    <3>1. j.via \in {"reclaim", "read"}
      BY <2>2 DEF Process
    <3>2. Exhausted(j) \in {[j EXCEPT !.pc = "reclaim"],
                            [j EXCEPT !.pc = "reclaim", !.scan = ScanStart],
                            [j EXCEPT !.pc = "read"],
                            [j EXCEPT !.pc = "read", !.due = FALSE]}
      BY <2>5, <3>1 DEF Exhausted, LoopTop
    <3>3. QED
      BY <2>2, <2>5, <3>2 DEF Process
  <2>6. QED
    BY <2>2, <2>3, <2>4, <2>5
<1>2. ASSUME k.hand # {}
      PROVE  /\ NextEntry(k).pc = "handling"
             /\ NextEntry(k).now = Least(k.hand)
             /\ NextEntry(k).hand = k.hand \ {Least(k.hand)}
             /\ NextEntry(k).stop = k.stop
             /\ Least(k.hand) \in k.hand
             /\ \A n \in k.hand : Least(k.hand) <= n
  <2>1. k.hand \in SUBSET Nat
    BY DEF Process, Id
  <2>2. Least(k.hand) \in k.hand /\ \A n \in k.hand : Least(k.hand) <= n
    BY <1>2, <2>1, LeastIsMember
  <2>3. NextEntry(k) = [k EXCEPT !.pc = "handling", !.now = Least(k.hand),
                                 !.hand = k.hand \ {Least(k.hand)}]
    BY <1>2 DEF NextEntry
  <2>4. QED
    BY <2>2, <2>3 DEF Process
<1>3. QED
  BY <1>1, <1>2

\* A step of the only process keeps the invariant when what the process becomes
\* fits the new state.
LEMMA SoleStep ==
    ASSUME BusInv, OneConsumer, NEW w \in Worker, NEW e \in Process,
           worker' = [worker EXCEPT ![w] = e],
           Sole(e)', faults' = 0 => InTurn(e)' /\ CompletedInOrder'
    PROVE  SoleInv'
<1>1. worker \in [Worker -> Process]
  BY DEF BusInv, TypeOK
<1>2. \A v \in Worker : worker'[v] = e
  BY <1>1 DEF OneConsumer
<1>3. QED
  BY <1>2 DEF SoleInv

\* A group nobody has joined yet has delivered nothing.
LEMMA InitSoleInv == Init => SoleInv
<1> SUFFICES ASSUME Init PROVE SoleInv
  OBVIOUS
<1>1. \A w \in Worker : worker[w] = Down
  BY DEF Init
<1>2. Delivered = {}
  BY DEF Init, Delivered, NoGroup, Id
<1>3. Sole(Down)
  BY DEF Sole, Down
<1>4. InTurn(Down)
  BY <1>2 DEF Init, InTurn, Down
<1>5. QED
  BY <1>1, <1>3, <1>4 DEF Init, SoleInv, CompletedInOrder

\* An entry that is added, and entries that are evicted, change nothing that
\* was handed out.
LEMMA PublishSole == BusInv /\ SoleInv /\ Publish => SoleInv'
<1> SUFFICES ASSUME BusInv, SoleInv, Publish PROVE SoleInv'
  OBVIOUS
<1>1. Delivered' = Delivered /\ Evicted \subseteq Evicted'
  BY DEF Publish, Delivered, Evicted, BusInv, TypeOK, Id
<1>2. UNCHANGED <<cursor, pending, acked, done, worker, faults>>
  BY DEF Publish
<1>3. ASSUME NEW w \in Worker PROVE Sole(worker[w])' /\ (faults = 0 => InTurn(worker[w]))'
  <2>1. Sole(worker[w]) /\ (faults = 0 => InTurn(worker[w]))
    BY DEF SoleInv
  <2>2. QED
    BY <1>1, <1>2, <2>1 DEF Sole, InTurn
<1>4. (faults = 0 => CompletedInOrder)'
  BY <1>1, <1>2 DEF SoleInv, CompletedInOrder
<1>5. QED
  BY <1>3, <1>4 DEF SoleInv

\* A process that starts holds nothing; without a fault it is the first one.
LEMMA StartSole ==
    ASSUME BusInv, OneConsumer, SoleInv, NEW w \in Worker, Start(w)
    PROVE  SoleInv'
<1>1. PICK e : e = LoopTop(Down)
  OBVIOUS
<1>2. e = [Down EXCEPT !.pc = "reclaim", !.scan = ScanStart]
  BY <1>1 DEF LoopTop, Down
<1>3. e \in Process
  <2>1. "reclaim" \in PcValues /\ ScanStart \in Nat
    BY DEF PcValues, ScanStart
  <2>2. Down \in Process
    BY DownIsIdle
  <2>3. [Down EXCEPT !.pc = "reclaim", !.scan = ScanStart] \in Process
    BY <2>1, <2>2, ProcessUpdate
  <2>4. QED
    BY <1>2, <2>3
<1>4. e.hand = {} /\ e.pc = "reclaim" /\ ~e.stop
  BY <1>2 DEF Down
<1>5. /\ worker' = [worker EXCEPT ![w] = e]
      /\ UNCHANGED <<last, trim, pending, idle, acked, done, faults>>
      /\ worker[w].pc = "down"
  BY <1>1 DEF Start
<1>6. Sole(e)'
  BY <1>4 DEF Sole
<1>7. faults' = 0 => InTurn(e)' /\ CompletedInOrder'
  <2> SUFFICES ASSUME faults = 0 PROVE InTurn(e)' /\ CompletedInOrder'
    BY <1>5
  <2>1. InTurn(worker[w]) /\ CompletedInOrder
    BY DEF SoleInv
  <2>2. cursor = NoGroup
    BY <1>5, <2>1 DEF InTurn
  <2>3. Delivered = {} /\ Delivered' = {}
    BY <2>2 DEF Start, ensure_group, Delivered, NoGroup, NewGroupId, Id
  <2>4. done = {} /\ acked = {}
    BY <2>3 DEF BusInv
  <2>5. InTurn(e)'
    BY <1>4, <1>5, <2>3, <2>4 DEF InTurn
  <2>6. CompletedInOrder'
    BY <1>5, <2>4 DEF CompletedInOrder
  <2>7. QED
    BY <2>5, <2>6
<1>8. QED
  BY <1>3, <1>5, <1>6, <1>7, SoleStep

\* A reclaim pass hands out pending entries; without a fault, only poison.
LEMMA ReclaimSole ==
    ASSUME BusInv, OneConsumer, SoleInv, NEW w \in Worker, Reclaim(w)
    PROVE  SoleInv'
<1>1. PICK k \in Process, S \in SUBSET idle :
         /\ k.hand = S \ Evicted /\ k.stop = worker[w].stop
         /\ pending' = pending \ (S \intersect Evicted)
         /\ worker' = [worker EXCEPT ![w] = NextEntry(k)]
  BY ReclaimPage
<1>2. UNCHANGED <<last, trim, cursor, acked, done, faults>> /\ worker[w].pc = "reclaim"
  BY DEF Reclaim
<1>3. /\ k.hand \subseteq pending /\ k.hand \subseteq pending' /\ k.hand \subseteq Id
      /\ k.hand \intersect Evicted = {}
      /\ pending \subseteq Delivered
  BY <1>1 DEF BusInv, TypeOK
<1>4. PICK e : e = NextEntry(k)
  OBVIOUS
<1>5. e \in Process
  BY <1>3, <1>4, NextEntryHolds
<1>6. Sole(e)'
  BY <1>3, <1>4, NextEntryGoes DEF Sole
<1>7. ASSUME faults' = 0 PROVE InTurn(e)' /\ CompletedInOrder'
  <2>1. InTurn(worker[w]) /\ Sole(worker[w]) /\ CompletedInOrder
    BY <1>2, <1>7 DEF SoleInv
  <2>2. Delivered' = Delivered /\ Evicted' = Evicted
    BY <1>2 DEF Delivered, Evicted
  <2>3. /\ done \subseteq acked /\ Delivered \subseteq done \union Evicted \union Poison
        /\ ~worker[w].stop
    BY <1>2, <2>1 DEF InTurn, Sole
  <2>4. k.hand \subseteq Poison
    BY <1>3, <2>3 DEF BusInv, SettledStaysSettled
  <2>5. CompletedInOrder'
    BY <1>2, <2>1, <2>2 DEF CompletedInOrder
  <2>6. CASE k.hand = {}
    <3>1. e.hand = {} /\ e.pc \in {"reclaim", "read"} /\ ~e.stop
      BY <1>1, <1>4, <2>3, <2>6, NextEntryGoes
    <3>2. QED
      BY <1>2, <2>2, <2>3, <2>5, <3>1 DEF InTurn
  <2>7. CASE k.hand # {}
    <3> DEFINE l == Least(k.hand)
    <3>1. /\ e.pc = "handling" /\ e.now = l /\ e.hand = k.hand \ {l} /\ ~e.stop
          /\ l \in k.hand /\ \A n \in k.hand : l <= n
      BY <1>1, <1>4, <2>3, <2>7, NextEntryGoes
    <3> HIDE DEF l
    <3>2. \A n \in e.hand : l < n
      BY <1>3, <3>1 DEF Id
    <3>3. QED
      BY <1>2, <2>2, <2>3, <2>4, <2>5, <3>1, <3>2 DEF InTurn
  <2>8. QED
    BY <2>6, <2>7
<1>8. QED
  BY <1>1, <1>4, <1>5, <1>6, <1>7, SoleStep

\* A read hands out entries younger than all that were delivered.
LEMMA ReadSole ==
    ASSUME BusInv, OneConsumer, SoleInv, NEW w \in Worker, Read(w)
    PROVE  SoleInv'
<1>1. PICK k \in Process :
         /\ k.stop = worker[w].stop
         /\ pending' = pending \union k.hand
         /\ worker' = [worker EXCEPT ![w] = NextEntry(k)]
         /\ k.hand \subseteq Delivered'
         /\ Delivered' \subseteq Delivered \union k.hand \union Evicted
         /\ \A m \in Delivered, n \in k.hand : m < n
  BY ReadPage
<1>2. UNCHANGED <<last, trim, acked, done, faults>> /\ worker[w].pc = "read"
  BY DEF Read
<1>3. k.hand \subseteq Id /\ Evicted' = Evicted /\ done \subseteq Delivered
  BY <1>2 DEF Process, Evicted, BusInv
<1>4. PICK e : e = NextEntry(k)
  OBVIOUS
<1>5. e \in Process
  BY <1>3, <1>4, NextEntryHolds
<1>6. Sole(e)'
  BY <1>1, <1>4, NextEntryGoes DEF Sole
<1>7. ASSUME faults' = 0 PROVE InTurn(e)' /\ CompletedInOrder'
  <2>1. InTurn(worker[w]) /\ Sole(worker[w]) /\ CompletedInOrder
    BY <1>2, <1>7 DEF SoleInv
  <2>2. /\ done \subseteq acked /\ Delivered \subseteq done \union Evicted \union Poison
        /\ ~worker[w].stop
    BY <1>2, <2>1 DEF InTurn, Sole
  <2>3. Delivered' \subseteq done \union Evicted \union Poison \union k.hand
    BY <1>1, <2>2
  <2>4. CompletedInOrder'
    BY <1>2, <1>3, <2>1 DEF CompletedInOrder
  <2>5. CASE k.hand = {}
    <3>1. e.hand = {} /\ e.pc \in {"reclaim", "read"} /\ ~e.stop
      BY <1>1, <1>4, <2>2, <2>5, NextEntryGoes
    <3>2. QED
      BY <1>2, <1>3, <2>2, <2>3, <2>4, <2>5, <3>1 DEF InTurn
  <2>6. CASE k.hand # {}
    <3> DEFINE l == Least(k.hand)
    <3>1. /\ e.pc = "handling" /\ e.now = l /\ e.hand = k.hand \ {l} /\ ~e.stop
          /\ l \in k.hand /\ \A n \in k.hand : l <= n
      BY <1>1, <1>4, <2>2, <2>6, NextEntryGoes
    <3> HIDE DEF l
    <3>2. \A n \in e.hand : l < n
      BY <1>3, <3>1 DEF Id
    <3>3. \A m \in done, n \in k.hand : m < n
      BY <1>1, <1>3
    <3>4. e.hand \union {e.now} = k.hand
      BY <3>1
    <3>5. \A n \in e.hand, m \in done : m < n
      BY <3>3, <3>4
    <3>6. \A m \in done : m < e.now
      BY <3>3, <3>4
    <3>7. done' \subseteq acked' /\ done' = done
      BY <1>2, <2>2
    <3>8. Delivered' \subseteq done' \union Evicted' \union Poison \union e.hand \union {e.now}
      BY <1>2, <1>3, <2>3, <3>4
    <3>9. QED
      BY <2>4, <3>1, <3>2, <3>5, <3>6, <3>7, <3>8 DEF InTurn
  <2>7. QED
    BY <2>5, <2>6
<1>8. QED
  BY <1>1, <1>4, <1>5, <1>6, <1>7, SoleStep

\* A handler that returns completed the oldest entry that was not.
LEMMA HandlerReturnsSole ==
    ASSUME BusInv, OneConsumer, SoleInv, NEW w \in Worker, HandlerReturns(w)
    PROVE  SoleInv'
<1> DEFINE m == worker[w].now
<1>1. PICK e : e = [worker[w] EXCEPT !.pc = "ack"]
  OBVIOUS
<1>2. /\ worker[w].pc = "handling" /\ m \notin Poison
      /\ done' = done \union {m}
      /\ worker' = [worker EXCEPT ![w] = e]
      /\ UNCHANGED <<last, trim, cursor, pending, idle, acked, faults>>
  BY <1>1 DEF HandlerReturns, redisVars
<1>3. worker[w] \in Process /\ Sole(worker[w]) /\ Holds(worker[w], Delivered, done)
  BY DEF BusInv, TypeOK, SoleInv
<1>4. e \in Process
  BY <1>1, <1>3, ProcessUpdate DEF PcValues
<1>5. /\ e.pc = "ack" /\ e.now = m /\ e.hand = worker[w].hand /\ e.stop = worker[w].stop
  BY <1>1, <1>3 DEF Process
<1>6. Sole(e)'
  BY <1>2, <1>3, <1>5 DEF Sole
<1>7. ASSUME faults' = 0 PROVE InTurn(e)' /\ CompletedInOrder'
  <2>1. InTurn(worker[w]) /\ CompletedInOrder
    BY <1>2, <1>7 DEF SoleInv
  <2>2. Delivered' = Delivered /\ Evicted' = Evicted
    BY <1>2 DEF Delivered, Evicted
  <2>3. m \in Delivered /\ m <= cursor /\ m \in Id /\ cursor \in Int
    BY <1>2, <1>3 DEF Holds, Delivered, BusInv, TypeOK, NoGroup
  <2>4. InTurn(e)'
    BY <1>2, <1>3, <1>5, <2>1, <2>2 DEF InTurn, Sole
  <2>5. ASSUME NEW n \in 1..m - 1 PROVE n \in done \union Evicted \union Poison
    <3>1. n \in Id /\ n < m /\ n <= cursor
      BY <2>3, BusAssumption DEF Id, BusAssumption
    <3>2. n \in Delivered /\ n # m
      BY <2>3, <3>1 DEF Delivered
    <3>3. n \notin worker[w].hand
      BY <1>2, <2>1, <2>3, <3>1 DEF InTurn, Id
    <3>4. QED
      BY <1>2, <2>1, <3>2, <3>3 DEF InTurn
  <2>6. CompletedInOrder'
    BY <1>2, <2>1, <2>2, <2>5 DEF CompletedInOrder
  <2>7. QED
    BY <2>4, <2>6
<1>8. QED
  BY <1>2, <1>4, <1>6, <1>7, SoleStep

\* What follows a dispatch that left its entry poison or acknowledged.
LEMMA DispatchedSole ==
    ASSUME BusInv, OneConsumer, SoleInv, NEW w \in Worker,
           worker[w].pc \in {"handling", "ack"},
           worker' = [worker EXCEPT ![w] = AfterDispatch(worker[w])],
           UNCHANGED <<last, trim, cursor, done>>,
           worker[w].hand \subseteq pending',
           faults' = 0 =>
              /\ faults = 0
              /\ done \subseteq acked'
              /\ worker[w].now \in Poison \union done
    PROVE  SoleInv'
<1>1. PICK k, e : k = worker[w] /\ e = AfterDispatch(k)
  OBVIOUS
<1>2. k \in Process /\ Holds(k, Delivered, done) /\ k.hand \subseteq Id
  BY <1>1 DEF BusInv, TypeOK, Process
<1>3. e \in Process
  BY <1>1, <1>2, AfterDispatchHolds
<1>4. Sole(e)'
  <2>1. CASE k.stop
    BY <1>1, <2>1, DownIsIdle DEF AfterDispatch, Sole
  <2>2. CASE ~k.stop
    BY <1>1, <1>2, <2>2, NextEntryGoes DEF AfterDispatch, Sole
  <2>3. QED
    BY <2>1, <2>2
<1>5. ASSUME faults' = 0 PROVE InTurn(e)' /\ CompletedInOrder'
  <2>1. InTurn(k) /\ Sole(k) /\ CompletedInOrder
    BY <1>1, <1>5 DEF SoleInv
  <2>2. Delivered' = Delivered /\ Evicted' = Evicted
    BY DEF Delivered, Evicted
  <2>3. ~k.stop /\ e = NextEntry(k)
    BY <1>1, <2>1 DEF AfterDispatch, InTurn
  <2>4. Delivered \subseteq done \union Evicted \union Poison \union k.hand
    BY <1>1, <1>5, <2>1 DEF InTurn
  <2>5. CompletedInOrder'
    BY <2>1, <2>2 DEF CompletedInOrder
  <2>6. CASE k.hand = {}
    <3>1. e.hand = {} /\ e.pc \in {"reclaim", "read"} /\ ~e.stop
      BY <1>2, <2>3, <2>6, NextEntryGoes
    <3>2. QED
      BY <1>5, <2>2, <2>4, <2>5, <2>6, <3>1 DEF InTurn
  <2>7. CASE k.hand # {}
    <3> DEFINE l == Least(k.hand)
    <3>1. /\ e.pc = "handling" /\ e.now = l /\ e.hand = k.hand \ {l} /\ ~e.stop
          /\ l \in k.hand /\ \A n \in k.hand : l <= n
      BY <1>2, <2>3, <2>7, NextEntryGoes
    <3> HIDE DEF l
    <3>2. \A n \in e.hand : l < n
      BY <1>2, <3>1 DEF Id
    <3>3. e.hand \union {e.now} = k.hand
      BY <3>1
    <3>4. \A n \in k.hand \ Poison, m \in done : m < n
      BY <2>1 DEF InTurn
    <3>5. \A n \in e.hand \ Poison, m \in done : m < n
      BY <3>3, <3>4
    <3>6. e.now \notin Poison => \A m \in done : m < e.now
      BY <3>3, <3>4
    <3>7. Delivered' \subseteq done' \union Evicted' \union Poison \union e.hand \union {e.now}
      BY <2>2, <2>4, <3>3
    <3>8. QED
      BY <1>5, <2>5, <3>1, <3>2, <3>5, <3>6, <3>7 DEF InTurn
  <2>8. QED
    BY <2>6, <2>7
<1>6. QED
  BY <1>1, <1>3, <1>4, <1>5, SoleStep

\* A handler raises on poison, or the raise is a fault.
LEMMA HandlerRaisesSole ==
    ASSUME BusInv, OneConsumer, SoleInv, NEW w \in Worker, HandlerRaises(w)
    PROVE  SoleInv'
<1>1. /\ worker[w].pc = "handling"
      /\ worker' = [worker EXCEPT ![w] = AfterDispatch(worker[w])]
      /\ UNCHANGED <<last, trim, cursor, pending, idle, acked, done>>
      /\ \/ worker[w].now \in Poison /\ UNCHANGED faults
         \/ faults' = faults + 1
  BY DEF HandlerRaises, redisVars
<1>2. Sole(worker[w]) /\ (faults = 0 => InTurn(worker[w])) /\ faults \in Nat
  BY BusAssumption DEF SoleInv, BusInv, TypeOK, BusAssumption
<1>3. worker[w].hand \subseteq pending'
  BY <1>1, <1>2 DEF Sole
<1>4. faults' = 0 => faults = 0 /\ worker[w].now \in Poison
  BY <1>1, <1>2
<1>5. faults' = 0 => done \subseteq acked'
  BY <1>1, <1>2, <1>4 DEF InTurn
<1>6. QED
  BY <1>1, <1>3, <1>4, <1>5, DispatchedSole

\* An entry that is acknowledged was completed, and is in no batch.
LEMMA AckSole ==
    ASSUME BusInv, OneConsumer, SoleInv, NEW w \in Worker, Ack(w)
    PROVE  SoleInv'
<1> DEFINE m == worker[w].now
<1>1. /\ worker[w].pc = "ack"
      /\ acked' = acked \union ({m} \intersect pending)
      /\ pending' = pending \ {m}
      /\ worker' = [worker EXCEPT ![w] = AfterDispatch(worker[w])]
      /\ UNCHANGED <<last, trim, cursor, done, faults>>
  BY DEF Ack
<1>2. Sole(worker[w]) /\ (faults = 0 => InTurn(worker[w])) /\ m \in done
  BY <1>1 DEF SoleInv, BusInv, Holds
<1>3. m \in pending \ worker[w].hand /\ worker[w].hand \subseteq pending'
  BY <1>1, <1>2 DEF Sole
<1>4. faults' = 0 => done \subseteq acked'
  BY <1>1, <1>2, <1>3 DEF InTurn
<1>5. QED
  BY <1>1, <1>2, <1>3, <1>4, DispatchedSole

\* A fault that leaves the stream and the processes alone, wherever it happens.
LEMMA FaultElsewhereSole ==
    BusInv /\ SoleInv /\ UNCHANGED <<pending, worker>> /\ faults' = faults + 1 => SoleInv'
<1> SUFFICES ASSUME BusInv, SoleInv, UNCHANGED <<pending, worker>>, faults' = faults + 1
             PROVE  SoleInv'
  OBVIOUS
<1>1. faults' # 0
  BY BusAssumption DEF BusInv, TypeOK, BusAssumption
<1>2. QED
  BY <1>1 DEF SoleInv, Sole

\* A process that dies or is told to stop keeps no batch it should not have;
\* one whose reclaim timer expires goes on as before.
LEMMA ProcessEventSole ==
    ASSUME BusInv, OneConsumer, SoleInv, NEW w \in Worker,
           Crash(w) \/ Signal(w) \/ ReclaimDue(w)
    PROVE  SoleInv'
<1>1. worker[w] \in Process /\ Sole(worker[w]) /\ (faults = 0 => InTurn(worker[w]))
      /\ faults \in Nat
  BY BusAssumption DEF BusInv, TypeOK, SoleInv, BusAssumption
<1>2. CASE Crash(w) \/ Signal(w)
  <2>1. PICK e \in {Down, [worker[w] EXCEPT !.stop = TRUE]} :
           worker' = [worker EXCEPT ![w] = e]
    BY <1>2 DEF Crash, Signal
  <2>2. e \in Process
    BY <1>1, <2>1, ProcessUpdate, DownIsIdle
  <2>3. faults' # 0 /\ UNCHANGED pending
    BY <1>1, <1>2 DEF Crash, Signal, redisVars
  <2>4. e = Down \/ (e.hand = worker[w].hand /\ e.now = worker[w].now /\ e.pc = worker[w].pc)
    BY <1>1, <2>1 DEF Process
  <2>5. Sole(e)'
    BY <1>1, <2>3, <2>4, DownIsIdle DEF Sole
  <2>6. QED
    BY <2>1, <2>2, <2>3, <2>5, SoleStep
<1>3. CASE ReclaimDue(w)
  <2>1. PICK e : e = [worker[w] EXCEPT !.due = TRUE]
    OBVIOUS
  <2>2. e \in Process
    BY <1>1, <2>1, ProcessUpdate
  <2>3. /\ e.hand = worker[w].hand /\ e.now = worker[w].now /\ e.pc = worker[w].pc
        /\ e.stop = worker[w].stop
    BY <1>1, <2>1 DEF Process
  <2>4. /\ worker' = [worker EXCEPT ![w] = e]
        /\ UNCHANGED <<last, trim, cursor, pending, acked, done, faults>>
    BY <1>3, <2>1 DEF ReclaimDue, redisVars
  <2>5. Delivered' = Delivered /\ Evicted' = Evicted
    BY <2>4 DEF Delivered, Evicted
  <2>6. Sole(e)'
    BY <1>1, <2>3, <2>4 DEF Sole
  <2>7. ASSUME faults' = 0 PROVE InTurn(e)' /\ CompletedInOrder'
    BY <1>1, <2>3, <2>4, <2>5, <2>7 DEF InTurn, CompletedInOrder, SoleInv
  <2>8. QED
    BY <2>2, <2>4, <2>6, <2>7, SoleStep
<1>4. QED
  BY <1>2, <1>3

\* A step that leaves all of this alone keeps it.
LEMMA UnchangedSole ==
    SoleInv /\ UNCHANGED <<trim, cursor, pending, acked, done, worker, faults>> => SoleInv'
<1> SUFFICES ASSUME SoleInv, UNCHANGED <<trim, cursor, pending, acked, done, worker, faults>>
             PROVE  SoleInv'
  OBVIOUS
<1>1. Delivered' = Delivered /\ Evicted' = Evicted
  BY DEF Delivered, Evicted
<1>2. QED
  BY <1>1 DEF SoleInv, Sole, InTurn, CompletedInOrder

\* Every step of a group of one process keeps the invariant.
LEMMA NextKeepsSole == BusInv /\ OneConsumer /\ SoleInv /\ [Next]_busVars => SoleInv'
<1> SUFFICES ASSUME BusInv, OneConsumer, SoleInv, [Next]_busVars PROVE SoleInv'
  OBVIOUS
<1>1. CASE Publish
  BY <1>1, PublishSole
<1>2. ASSUME NEW m \in Id, GoIdle(m) PROVE SoleInv'
  BY <1>2, UnchangedSole DEF GoIdle
<1>3. ASSUME NEW w \in Worker, Start(w) \/ Signal(w) \/ ReclaimDue(w) \/ Crash(w)
      PROVE  SoleInv'
  BY <1>3, StartSole, ProcessEventSole
<1>4. ASSUME NEW w \in Worker, LoopStep(w) \/ HandlerReturns(w) \/ HandlerRaises(w)
      PROVE  SoleInv'
  BY <1>4, ReclaimSole, ReadSole, AckSole, HandlerReturnsSole, HandlerRaisesSole DEF LoopStep
<1>5. CASE UNCHANGED busVars
  BY <1>5, UnchangedSole DEF busVars
<1>6. QED
  BY <1>1, <1>2, <1>3, <1>4, <1>5 DEF Next, Environment

\* With one process and no fault yet, nothing is completed before what is older
\* (worker.py dispatches a batch oldest first, and reclaims before it reads).
THEOREM CompletionsInOrder == Spec => []InOrderUnlessFaulted
<1>1. CASE OneConsumer
  <2>1. SoleInv => InOrderUnlessFaulted
    BY DEF SoleInv, InOrderUnlessFaulted, CompletedInOrder
  <2>2. BusInv /\ SoleInv /\ [Next]_busVars => SoleInv'
    BY <1>1, NextKeepsSole
  <2>3. QED
    BY <2>1, <2>2, InitSoleInv, BusInvariant, PTL DEF Spec
<1>2. CASE ~OneConsumer
  <2>1. InOrderUnlessFaulted
    BY <1>2 DEF InOrderUnlessFaulted
  <2>2. QED
    BY <2>1, PTL
<1>3. QED
  BY <1>1, <1>2
=============================================================================
