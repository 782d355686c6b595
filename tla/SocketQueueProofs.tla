------------------------- MODULE SocketQueueProofs -------------------------
(***************************************************************************)
(* Theorems about SocketQueue, for every number of workers, every size of  *)
(* the ring and every set of descriptors.                                  *)
(***************************************************************************)
EXTENDS SocketQueue, SequenceTheorems, TLAPS

USE DEF Threads, Mutexes, Sockets, BadFd, PutLabels, GetLabels, Goto, Lock, Unlock

-----------------------------------------------------------------------------

\* The index after a slot of the ring is a slot of the ring (lines 32, 47).
LEMMA NextIndexType ==
    ASSUME NEW i \in 0..QSize-1
    PROVE  NextIndex(i) \in 0..QSize-1
  BY QSizeAssumption DEF NextIndex

\* TypeOK is inductive.
LEMMA TypeStep == TypeOK /\ [Next]_vars => TypeOK'
<1> SUFFICES ASSUME TypeOK, [Next]_vars PROVE TypeOK'
  OBVIOUS
<1> USE DEF TypeOK
<1>1. ASSUME NEW fd \in Fds, AcceptReturns(fd) PROVE TypeOK'
  BY <1>1, ThreadAssumption DEF AcceptReturns
<1>2. CASE AcceptFails
  BY <1>2, ThreadAssumption DEF AcceptFails
<1>3. CASE PutOnQ
  <2>1. CASE PutCheck   BY <2>1, ThreadAssumption DEF PutCheck
  <2>2. CASE PutWait    BY <2>2, ThreadAssumption DEF PutWait
  <2>3. CASE PutLock    BY <2>3, ThreadAssumption DEF PutLock
  <2>4. CASE PutStore   BY <2>4, ThreadAssumption, NextIndexType DEF PutStore
  <2>5. CASE PutCount   BY <2>5, ThreadAssumption DEF PutCount
  <2>6. CASE PutUnlock  BY <2>6, ThreadAssumption DEF PutUnlock
  <2>7. CASE PutSignal  BY <2>7, ThreadAssumption DEF PutSignal
  <2> QED BY <1>3, <2>1, <2>2, <2>3, <2>4, <2>5, <2>6, <2>7 DEF PutOnQ
<1>4. ASSUME NEW w \in Workers, GetOffQ(w) PROVE TypeOK'
  <2>1. CASE GetCheck(w)   BY <2>1, ThreadAssumption DEF GetCheck
  <2>2. CASE GetWait(w)    BY <2>2, ThreadAssumption DEF GetWait
  <2>3. CASE GetLock(w)    BY <2>3, ThreadAssumption DEF GetLock
  <2>4. CASE GetTake(w)    BY <2>4, ThreadAssumption, NextIndexType DEF GetTake
  <2>5. CASE GetCount(w)   BY <2>5, ThreadAssumption DEF GetCount
  <2>6. CASE GetSignal(w)  BY <2>6, ThreadAssumption DEF GetSignal
  <2>7. CASE GetUnlock(w)  BY <2>7, ThreadAssumption DEF GetUnlock
  <2> QED BY <1>4, <2>1, <2>2, <2>3, <2>4, <2>5, <2>6, <2>7 DEF GetOffQ
<1>5. ASSUME NEW w \in Workers, Handled(w) PROVE TypeOK'
  BY <1>5, ThreadAssumption DEF Handled
<1>6. CASE UNCHANGED vars
  BY <1>6 DEF vars
<1> QED BY <1>1, <1>2, <1>3, <1>4, <1>5, <1>6 DEF Next, Accept

\* Every state of the program has the types of TypeOK.
THEOREM TypeCorrect == Spec => []TypeOK
<1>1. Init => TypeOK
  BY QSizeAssumption, FdAssumption, ThreadAssumption DEF Init, TypeOK
<1> QED BY <1>1, TypeStep, PTL DEF Spec

-----------------------------------------------------------------------------
(* Mutual exclusion.                                                       *)

\* A step that locks "mutex" finds it free, hence nobody inside; a step that
\* unlocks it is the one thread inside leaving.
LEMMA LockStep == LockInv /\ [Next]_vars => LockInv'
<1> SUFFICES ASSUME LockInv, [Next]_vars PROVE LockInv'
  OBVIOUS
<1> USE DEF LockInv, MutualExclusion, InCritical
<1>1. TypeOK /\ TypeOK'
  BY TypeStep
<1> USE <1>1 DEF TypeOK
<1>2. ASSUME NEW fd \in Fds, AcceptReturns(fd) PROVE LockInv'
  BY <1>2, ThreadAssumption DEF AcceptReturns
<1>3. CASE AcceptFails
  BY <1>3, ThreadAssumption DEF AcceptFails
<1>4. CASE PutOnQ
  <2>1. CASE PutCheck   BY <2>1, ThreadAssumption DEF PutCheck
  <2>2. CASE PutWait    BY <2>2, ThreadAssumption DEF PutWait
  <2>3. CASE PutLock    BY <2>3, ThreadAssumption DEF PutLock
  <2>4. CASE PutStore   BY <2>4, ThreadAssumption DEF PutStore
  <2>5. CASE PutCount   BY <2>5, ThreadAssumption DEF PutCount
  <2>6. CASE PutUnlock  BY <2>6, ThreadAssumption DEF PutUnlock
  <2>7. CASE PutSignal  BY <2>7, ThreadAssumption DEF PutSignal
  <2> QED BY <1>4, <2>1, <2>2, <2>3, <2>4, <2>5, <2>6, <2>7 DEF PutOnQ
<1>5. ASSUME NEW w \in Workers, GetOffQ(w) PROVE LockInv'
  <2>1. CASE GetCheck(w)   BY <2>1, ThreadAssumption DEF GetCheck
  <2>2. CASE GetWait(w)    BY <2>2, ThreadAssumption DEF GetWait
  <2>3. CASE GetLock(w)    BY <2>3, ThreadAssumption DEF GetLock
  <2>4. CASE GetTake(w)    BY <2>4, ThreadAssumption DEF GetTake
  <2>5. CASE GetCount(w)   BY <2>5, ThreadAssumption DEF GetCount
  <2>6. CASE GetSignal(w)  BY <2>6, ThreadAssumption DEF GetSignal
  <2>7. CASE GetUnlock(w)  BY <2>7, ThreadAssumption DEF GetUnlock
  <2> QED BY <1>5, <2>1, <2>2, <2>3, <2>4, <2>5, <2>6, <2>7 DEF GetOffQ
<1>6. ASSUME NEW w \in Workers, Handled(w) PROVE LockInv'
  BY <1>6, ThreadAssumption DEF Handled
<1>7. CASE UNCHANGED vars
  BY <1>7 DEF vars
<1> QED BY <1>2, <1>3, <1>4, <1>5, <1>6, <1>7 DEF Next, Accept

\* Whoever is inside the critical section holds "mutex", and is alone there.
LEMMA LockInvariant == Spec => []LockInv
<1>1. Init => LockInv
  <2>1. Init => TypeOK
    BY QSizeAssumption, FdAssumption, ThreadAssumption DEF Init, TypeOK
  <2> QED BY <2>1, ThreadAssumption DEF Init, LockInv, MutualExclusion, InCritical
<1> QED BY <1>1, LockStep, PTL DEF Spec

\* Lines 30-34 and 45-50 are run by one thread at a time.
THEOREM MutualExclusionHolds == Spec => []MutualExclusion
<1>1. LockInv => MutualExclusion
  BY DEF LockInv
<1> QED BY <1>1, LockInvariant, PTL

-----------------------------------------------------------------------------
(* Arithmetic modulo the size of the ring.                                 *)

\* Every integer is a multiple of m and a remainder, and % gives the remainder.
LEMMA Euclid ==
    ASSUME NEW m \in Nat \ {0}, NEW a \in Int
    PROVE  \E k \in Int, r \in 0..m-1 : a = m * k + r /\ a % m = r
<1>1. a = m * (a \div m) + (a % m) /\ a % m \in 0..m-1 /\ a \div m \in Int
  OBVIOUS
<1> QED BY <1>1

\* The remainder of a number that is written as multiple and remainder.
LEMMA Remainder ==
    ASSUME NEW m \in Nat \ {0}, NEW k \in Int, NEW r \in 0..m-1
    PROVE  (m * k + r) % m = r
  OBVIOUS

\* The product the two lemmas above speak of, one step to either side.
LEMMA Distribute ==
    ASSUME NEW m \in Nat \ {0}, NEW k \in Int
    PROVE  m * k \in Int /\ m * (k + 1) = m * k + m /\ m * (k - 1) = m * k - m
  OBVIOUS

\* The remainder of the next number, where it does not wrap around.
LEMMA ModNext ==
    ASSUME NEW m \in Nat \ {0}, NEW a \in Int
    PROVE  (a + 1) % m = IF a % m = m - 1 THEN 0 ELSE (a % m) + 1
<1>1. PICK k \in Int, r \in 0..m-1 : a = m * k + r /\ a % m = r
  BY Euclid
<1>2. CASE r = m - 1
  <2>1. a + 1 = m * (k + 1) + 0
    BY <1>1, <1>2, Distribute
  <2>2. (m * (k + 1) + 0) % m = 0
    BY Remainder, k + 1 \in Int, 0 \in 0..m-1
  <2> QED BY <2>1, <2>2, <1>1, <1>2
<1>3. CASE r # m - 1
  <2>1. a + 1 = m * k + (r + 1) /\ r + 1 \in 0..m-1
    BY <1>1, <1>3, Distribute
  <2>2. (m * k + (r + 1)) % m = r + 1
    BY <2>1, Remainder
  <2> QED BY <2>1, <2>2, <1>1, <1>3
<1> QED BY <1>2, <1>3

\* Adding or taking away m does not change the remainder.
LEMMA ModWrap ==
    ASSUME NEW m \in Nat \ {0}, NEW a \in Int
    PROVE  (a - m) % m = a % m
<1>1. PICK k \in Int, r \in 0..m-1 : a = m * k + r /\ a % m = r
  BY Euclid
<1>2. a - m = m * (k - 1) + r
  BY <1>1, Distribute
<1>3. (m * (k - 1) + r) % m = r
  BY Remainder, k - 1 \in Int
<1> QED BY <1>1, <1>2, <1>3

\* Numbers equal modulo m stay so when both move by one.
LEMMA ModShift ==
    ASSUME NEW m \in Nat \ {0}, NEW a \in Int, NEW b \in Int, a % m = b % m
    PROVE  (a + 1) % m = (b + 1) % m /\ (a - 1) % m = (b - 1) % m
<1>1. (a + 1) % m = (b + 1) % m
  BY ModNext
<1>2. ASSUME NEW c \in Int, NEW d \in Int, (c + 1) % m = (d + 1) % m
      PROVE  c % m = d % m
  <2>1. c % m \in 0..m-1 /\ d % m \in 0..m-1
    OBVIOUS
  <2>2. (c + 1) % m = IF c % m = m - 1 THEN 0 ELSE (c % m) + 1
    BY ModNext
  <2>3. (d + 1) % m = IF d % m = m - 1 THEN 0 ELSE (d % m) + 1
    BY ModNext
  <2> QED BY <1>2, <2>1, <2>2, <2>3
<1>3. (a - 1) + 1 = a /\ (b - 1) + 1 = b /\ a - 1 \in Int /\ b - 1 \in Int
  OBVIOUS
<1>4. (a - 1) % m = (b - 1) % m
  BY <1>2, <1>3
<1> QED BY <1>1, <1>4

\* Moving an index of the ring by NextIndex is moving it by one modulo QSize.
LEMMA RingShift ==
    ASSUME NEW f \in 0..QSize-1, NEW l \in 0..QSize-1, NEW n \in Int,
           (f - l) % QSize = n % QSize
    PROVE  /\ (NextIndex(f) - l) % QSize = (n + 1) % QSize
           /\ (f - NextIndex(l)) % QSize = (n - 1) % QSize
<1> USE QSizeAssumption
<1>1. \A i \in 0..QSize-1 : NextIndex(i) = i + 1 \/ NextIndex(i) = i + 1 - QSize
  <2> SUFFICES ASSUME NEW i \in 0..QSize-1
               PROVE  NextIndex(i) = i + 1 \/ NextIndex(i) = i + 1 - QSize
    OBVIOUS
  <2>1. i % QSize = i
    OBVIOUS
  <2>2. (i + 1) % QSize = IF i % QSize = QSize - 1 THEN 0 ELSE (i % QSize) + 1
    BY ModNext, i \in Int
  <2> QED BY <2>1, <2>2 DEF NextIndex
<1>2. ((f - l) + 1) % QSize = (n + 1) % QSize /\ ((f - l) - 1) % QSize = (n - 1) % QSize
  BY ModShift, f - l \in Int
<1>3. (NextIndex(f) - l) % QSize = (n + 1) % QSize
  <2>1. CASE NextIndex(f) = f + 1
    <3>1. NextIndex(f) - l = (f - l) + 1
      BY <2>1
    <3> QED BY <1>2, <3>1
  <2>2. CASE NextIndex(f) = f + 1 - QSize
    <3>1. NextIndex(f) - l = ((f - l) + 1) - QSize
      BY <2>2
    <3>2. (((f - l) + 1) - QSize) % QSize = ((f - l) + 1) % QSize
      BY ModWrap, (f - l) + 1 \in Int
    <3> QED BY <1>2, <3>1, <3>2
  <2> QED BY <1>1, <2>1, <2>2
<1>4. (f - NextIndex(l)) % QSize = (n - 1) % QSize
  <2>1. CASE NextIndex(l) = l + 1
    <3>1. f - NextIndex(l) = (f - l) - 1
      BY <2>1
    <3> QED BY <1>2, <3>1
  <2>2. CASE NextIndex(l) = l + 1 - QSize
    <3>1. (f - NextIndex(l)) - QSize = (f - l) - 1 /\ f - NextIndex(l) \in Int
      BY <2>2
    <3>2. ((f - NextIndex(l)) - QSize) % QSize = (f - NextIndex(l)) % QSize
      BY <3>1, ModWrap
    <3> QED BY <1>2, <3>1, <3>2
  <2> QED BY <1>1, <2>1, <2>2
<1> QED BY <1>3, <1>4

-----------------------------------------------------------------------------
(* The counters.                                                           *)

\* Inside the critical section the loaded value is current: a step of another
\* thread there would contradict mutual exclusion.
LEMMA CountStep == LockInv /\ CountInv /\ [Next]_vars => CountInv'
<1> SUFFICES ASSUME LockInv, CountInv, [Next]_vars PROVE CountInv'
  OBVIOUS
<1>1. (first - last) % QSize = (numInQ + Uncounted) % QSize
  BY DEF CountInv, CountersAgree
<1>ring. ASSUME Uncounted = 0
      PROVE  /\ (NextIndex(first) - last) % QSize = (numInQ + 1) % QSize
             /\ (first - NextIndex(last)) % QSize = (numInQ - 1) % QSize
  <2>1. first \in 0..QSize-1 /\ last \in 0..QSize-1 /\ numInQ \in Int
    BY DEF LockInv, TypeOK
  <2>2. (first - last) % QSize = numInQ % QSize
    BY <1>1, <1>ring, <2>1
  <2> QED BY <2>1, <2>2, RingShift
<1> USE ThreadAssumption, QSizeAssumption
    DEF LockInv, TypeOK, MutualExclusion, InCritical, CountInv, NoOverflow
<1>2. ASSUME UNCHANGED <<first, last, numInQ, reg>>,
             pc'[Main] = "putCount" <=> pc[Main] = "putCount",
             \A w \in Workers : pc'[w] = "getCount" <=> pc[w] = "getCount",
             pc'[Main] \in {"putLock", "putStore", "putCount"}
                 => pc[Main] \in {"putLock", "putStore", "putCount"} \/ numInQ # QSize
      PROVE  CountInv'
  <2>1. Uncounted' = Uncounted
    BY <1>2 DEF Uncounted
  <2>2. CountersAgree'
    BY <1>1, <1>2, <2>1 DEF CountersAgree
  <2>3. NoOverflow'
    BY <1>2
  <2> QED BY <1>2, <2>2, <2>3
<1>3. ASSUME NEW fd \in Fds, AcceptReturns(fd) PROVE CountInv'
  BY <1>2, <1>3 DEF AcceptReturns
<1>4. CASE AcceptFails
  BY <1>2, <1>4 DEF AcceptFails
<1>5. CASE PutOnQ
  <2>1. CASE PutCheck   BY <1>2, <2>1 DEF PutCheck
  <2>2. CASE PutWait    BY <1>2, <2>2 DEF PutWait
  <2>3. CASE PutLock    BY <1>2, <2>3 DEF PutLock
  <2>4. CASE PutStore
    <3>1. Uncounted = 0 /\ Uncounted' = 1
      <4>1. \A w \in Workers : pc[w] # "getCount" /\ pc'[w] # "getCount"
        BY <2>4 DEF PutStore
      <4>2. pc[Main] # "putCount" /\ pc'[Main] = "putCount"
        BY <2>4 DEF PutStore
      <4> QED BY <4>1, <4>2 DEF Uncounted
    <3>2. (NextIndex(first) - last) % QSize = (numInQ + 1) % QSize
      BY <1>ring, <3>1
    <3>3. CountersAgree'
      BY <2>4, <3>1, <3>2 DEF PutStore, CountersAgree
    <3> QED BY <2>4, <3>3 DEF PutStore
  <2>5. CASE PutCount
    <3>1. Uncounted = 1 /\ Uncounted' = 0 /\ numInQ' = numInQ + 1
      BY <2>5 DEF PutCount, Uncounted
    <3>2. CountersAgree'
      BY <1>1, <2>5, <3>1 DEF PutCount, CountersAgree
    <3> QED BY <2>5, <3>1, <3>2 DEF PutCount
  <2>6. CASE PutUnlock  BY <1>2, <2>6 DEF PutUnlock
  <2>7. CASE PutSignal  BY <1>2, <2>7 DEF PutSignal
  <2> QED BY <1>5, <2>1, <2>2, <2>3, <2>4, <2>5, <2>6, <2>7 DEF PutOnQ
<1>6. ASSUME NEW w \in Workers, GetOffQ(w) PROVE CountInv'
  <2>1. CASE GetCheck(w)   BY <1>2, <2>1 DEF GetCheck
  <2>2. CASE GetWait(w)    BY <1>2, <2>2 DEF GetWait
  <2>3. CASE GetLock(w)    BY <1>2, <2>3 DEF GetLock
  <2>4. CASE GetTake(w)
    <3>1. Uncounted = 0 /\ Uncounted' = -1
      BY <2>4 DEF GetTake, Uncounted
    <3>2. (first - NextIndex(last)) % QSize = (numInQ - 1) % QSize
      BY <1>ring, <3>1
    <3>3. CountersAgree'
      BY <2>4, <3>1, <3>2 DEF GetTake, CountersAgree
    <3> QED BY <2>4, <3>3 DEF GetTake
  <2>5. CASE GetCount(w)
    <3>1. Uncounted = -1 /\ Uncounted' = 0 /\ numInQ' = numInQ - 1
      BY <2>5 DEF GetCount, Uncounted
    <3>2. CountersAgree'
      BY <1>1, <2>5, <3>1 DEF GetCount, CountersAgree
    <3> QED BY <2>5, <3>1, <3>2 DEF GetCount
  <2>6. CASE GetSignal(w)  BY <1>2, <2>6 DEF GetSignal
  <2>7. CASE GetUnlock(w)  BY <1>2, <2>7 DEF GetUnlock
  <2> QED BY <1>6, <2>1, <2>2, <2>3, <2>4, <2>5, <2>6, <2>7 DEF GetOffQ
<1>7. ASSUME NEW w \in Workers, Handled(w) PROVE CountInv'
  BY <1>2, <1>7 DEF Handled
<1>8. CASE UNCHANGED vars
  BY <1>2, <1>8 DEF vars
<1> QED BY <1>3, <1>4, <1>5, <1>6, <1>7, <1>8 DEF Next, Accept

\* The counters agree and the queue does not overflow, in every state.
LEMMA CountInvariant == Spec => []CountInv
<1>1. Init => CountInv
  BY QSizeAssumption, ThreadAssumption
     DEF Init, CountInv, CountersAgree, Uncounted, NoOverflow
<1> QED BY <1>1, CountStep, LockInvariant, PTL DEF Spec

\* first, last and numInQ agree around the ring whatever the threads do.
THEOREM CountersAlwaysAgree == Spec => []CountersAgree
<1>1. CountInv => CountersAgree
  BY DEF CountInv
<1> QED BY <1>1, CountInvariant, PTL

\* putOnQ's unprotected test is enough: no slot is overwritten before a
\* worker has taken what it holds.
THEOREM NeverOverflows == Spec => []NoOverflow
<1>1. CountInv => NoOverflow
  BY DEF CountInv
<1> QED BY <1>1, CountInvariant, PTL

-----------------------------------------------------------------------------
(* The wakeups.                                                            *)

\* Who makes the awaited condition true has the unlock still ahead of it, and
\* who goes to sleep has just seen the condition false.
LEMMA WakeStep == LockInv /\ CountInv /\ WakeInv /\ [Next]_vars => WakeInv'
<1> SUFFICES ASSUME LockInv, CountInv, WakeInv, [Next]_vars PROVE WakeInv'
  OBVIOUS
<1> USE ThreadAssumption
    DEF LockInv, TypeOK, CountInv, NoOverflow, WakeInv,
        ProducerNotForgotten, WorkersNotForgotten
<1>1. ASSUME NEW fd \in Fds, AcceptReturns(fd) PROVE WakeInv'
  BY <1>1 DEF AcceptReturns
<1>2. CASE AcceptFails
  BY <1>2 DEF AcceptFails
<1>3. CASE PutOnQ
  <2>1. CASE PutCheck   BY <2>1 DEF PutCheck
  <2>2. CASE PutWait    BY <2>2 DEF PutWait
  <2>3. CASE PutLock    BY <2>3 DEF PutLock
  <2>4. CASE PutStore   BY <2>4 DEF PutStore
  <2>5. CASE PutCount   BY <2>5 DEF PutCount
  <2>6. CASE PutUnlock  BY <2>6 DEF PutUnlock
  <2>7. CASE PutSignal  BY <2>7 DEF PutSignal
  <2> QED BY <1>3, <2>1, <2>2, <2>3, <2>4, <2>5, <2>6, <2>7 DEF PutOnQ
<1>4. ASSUME NEW w \in Workers, GetOffQ(w) PROVE WakeInv'
  <2>1. CASE GetCheck(w)   BY <2>1 DEF GetCheck
  <2>2. CASE GetWait(w)    BY <2>2 DEF GetWait
  <2>3. CASE GetLock(w)    BY <2>3 DEF GetLock
  <2>4. CASE GetTake(w)    BY <2>4 DEF GetTake
  <2>5. CASE GetCount(w)   BY <2>5 DEF GetCount
  <2>6. CASE GetSignal(w)  BY <2>6 DEF GetSignal
  <2>7. CASE GetUnlock(w)  BY <2>7 DEF GetUnlock
  <2> QED BY <1>4, <2>1, <2>2, <2>3, <2>4, <2>5, <2>6, <2>7 DEF GetOffQ
<1>5. ASSUME NEW w \in Workers, Handled(w) PROVE WakeInv'
  BY <1>5 DEF Handled
<1>6. CASE UNCHANGED vars
  BY <1>6 DEF vars
<1> QED BY <1>1, <1>2, <1>3, <1>4, <1>5, <1>6 DEF Next, Accept

\* No wakeup is lost, in every state.
LEMMA WakeInvariant == Spec => []WakeInv
<1>1. Init => WakeInv
  BY DEF Init, WakeInv, ProducerNotForgotten, WorkersNotForgotten
<1> QED BY <1>1, WakeStep, LockInvariant, CountInvariant, PTL DEF Spec

\* No wakeup of the main thread is lost (line 29 against line 49).
THEOREM ProducerNeverForgotten == Spec => []ProducerNotForgotten
<1>1. WakeInv => ProducerNotForgotten
  BY DEF WakeInv
<1> QED BY <1>1, WakeInvariant, PTL

\* The workers never all sleep on a queue that has something in it, unless
\* the unlock that wakes one is still to come (line 44 against line 35).
THEOREM WorkersNeverForgotten == Spec => []WorkersNotForgotten
<1>1. WakeInv => WorkersNotForgotten
  BY DEF WakeInv
<1> QED BY <1>1, WakeInvariant, PTL

-----------------------------------------------------------------------------
(* A pool of one worker.                                                   *)

\* The one worker's test of numInQ stays true: only it takes items off.
LEMMA SingleStep ==
    ASSUME \A v, w \in Workers : v = w
    PROVE  LockInv /\ CountInv /\ SingleInv /\ [Next]_vars => SingleInv'
<1> SUFFICES ASSUME LockInv, CountInv, SingleInv, [Next]_vars PROVE SingleInv'
  OBVIOUS
<1> USE ThreadAssumption
    DEF LockInv, TypeOK, CountInv, NoOverflow, SingleInv, NoUnderflow
<1>1. ASSUME NEW fd \in Fds, AcceptReturns(fd) PROVE SingleInv'
  BY <1>1 DEF AcceptReturns
<1>2. CASE AcceptFails
  BY <1>2 DEF AcceptFails
<1>3. CASE PutOnQ
  <2>1. CASE PutCheck   BY <2>1 DEF PutCheck
  <2>2. CASE PutWait    BY <2>2 DEF PutWait
  <2>3. CASE PutLock    BY <2>3 DEF PutLock
  <2>4. CASE PutStore   BY <2>4 DEF PutStore
  <2>5. CASE PutCount   BY <2>5 DEF PutCount
  <2>6. CASE PutUnlock  BY <2>6 DEF PutUnlock
  <2>7. CASE PutSignal  BY <2>7 DEF PutSignal
  <2> QED BY <1>3, <2>1, <2>2, <2>3, <2>4, <2>5, <2>6, <2>7 DEF PutOnQ
<1>4. ASSUME NEW w \in Workers, GetOffQ(w) PROVE SingleInv'
  <2>1. CASE GetCheck(w)   BY <2>1 DEF GetCheck
  <2>2. CASE GetWait(w)    BY <2>2 DEF GetWait
  <2>3. CASE GetLock(w)    BY <2>3 DEF GetLock
  <2>4. CASE GetTake(w)    BY <2>4 DEF GetTake
  <2>5. CASE GetCount(w)   BY <2>5 DEF GetCount
  <2>6. CASE GetSignal(w)  BY <2>6 DEF GetSignal
  <2>7. CASE GetUnlock(w)  BY <2>7 DEF GetUnlock
  <2> QED BY <1>4, <2>1, <2>2, <2>3, <2>4, <2>5, <2>6, <2>7 DEF GetOffQ
<1>5. ASSUME NEW w \in Workers, Handled(w) PROVE SingleInv'
  BY <1>5 DEF Handled
<1>6. CASE UNCHANGED vars
  BY <1>6 DEF vars
<1> QED BY <1>1, <1>2, <1>3, <1>4, <1>5, <1>6 DEF Next, Accept

\* A single worker never takes from an empty queue: it is the second worker
\* that makes the test of line 44 stale by the time line 46 runs.
THEOREM SingleWorkerNeverUnderflows ==
    ASSUME \A v, w \in Workers : v = w
    PROVE  Spec => []NoUnderflow
<1>1. Init => SingleInv
  BY ThreadAssumption DEF Init, SingleInv, NoUnderflow
<1>2. LockInv /\ CountInv /\ SingleInv /\ [Next]_vars => SingleInv'
  BY SingleStep
<1>3. SingleInv => NoUnderflow
  BY DEF SingleInv
<1> QED BY <1>1, <1>2, <1>3, LockInvariant, CountInvariant, PTL DEF Spec
-----------------------------------------------------------------------------
(* The ring buffer with one worker is a bounded FIFO, for any size of the  *)
(* ring: putOnQ and getOffQ neither lose an item nor repeat one nor change *)
(* the order, and so the worker has its descriptor for itself.             *)

HIDE DEF Threads, Mutexes, Sockets, BadFd, PutLabels, GetLabels, Goto, Lock, Unlock

-----------------------------------------------------------------------------
(* The slots of the ring.                                                  *)

\* The slot i behind slot l, without a modulo.
LEMMA SlotValue ==
    ASSUME NEW l \in 0..QSize-1, NEW i \in 0..QSize-1
    PROVE  (l + i) % QSize = IF l + i < QSize THEN l + i ELSE l + i - QSize
<1> USE QSizeAssumption
<1>1. CASE l + i < QSize
  BY <1>1
<1>2. CASE l + i >= QSize
  <2>1. l + i - QSize \in 0..QSize-1 /\ l + i \in Int
    BY <1>2
  <2>2. ((l + i) - QSize) % QSize = (l + i) % QSize
    BY ModWrap, l + i \in Int
  <2>3. (l + i - QSize) % QSize = l + i - QSize
    BY <2>1
  <2> QED BY <1>2, <2>2, <2>3
<1> QED BY <1>1, <1>2

\* Fewer than QSize steps from a slot lead to different slots.
LEMMA SlotsDiffer ==
    ASSUME NEW l \in 0..QSize-1, NEW i \in 0..QSize-1, NEW j \in 0..QSize-1, i # j
    PROVE  (l + i) % QSize # (l + j) % QSize
<1>1. (l + i) % QSize = IF l + i < QSize THEN l + i ELSE l + i - QSize
  BY SlotValue
<1>2. (l + j) % QSize = IF l + j < QSize THEN l + j ELSE l + j - QSize
  BY SlotValue
<1> QED BY <1>1, <1>2, QSizeAssumption

LEMMA SlotShift ==
    ASSUME NEW l \in 0..QSize-1, NEW i \in 0..QSize-1, i + 1 <= QSize - 1
    PROVE  NextIndex(l) \in 0..QSize-1 /\ (NextIndex(l) + i) % QSize = (l + (i + 1)) % QSize
<1> USE QSizeAssumption
<1>1. NextIndex(l) = IF l + 1 < QSize THEN l + 1 ELSE l + 1 - QSize
  BY SlotValue, 1 \in 0..QSize-1 DEF NextIndex
<1>2. NextIndex(l) \in 0..QSize-1 /\ i + 1 \in 0..QSize-1
  BY <1>1
<1>3. (NextIndex(l) + i) % QSize
        = IF NextIndex(l) + i < QSize THEN NextIndex(l) + i ELSE NextIndex(l) + i - QSize
  BY <1>2, SlotValue
<1>4. (l + (i + 1)) % QSize = IF l + (i + 1) < QSize THEN l + (i + 1) ELSE l + (i + 1) - QSize
  BY <1>2, SlotValue
<1> QED BY <1>1, <1>2, <1>3, <1>4

\* The distance around the ring says where first is.
LEMMA WhereFirst ==
    ASSUME NEW f \in 0..QSize-1, NEW l \in 0..QSize-1, NEW n \in 0..QSize-1,
           (f - l) % QSize = n % QSize
    PROVE  f = (l + n) % QSize
<1> USE QSizeAssumption
<1>1. n % QSize = n
  OBVIOUS
<1>2. CASE f >= l
  <2>1. (f - l) % QSize = f - l
    BY <1>2
  <2> QED BY <1>1, <2>1
<1>3. CASE f < l
  <2>1. f - l + QSize \in 0..QSize-1 /\ f - l + QSize \in Int
    BY <1>3
  <2>2. (f - l + QSize) % QSize = f - l + QSize
    BY <2>1
  <2>3. ((f - l + QSize) - QSize) % QSize = (f - l + QSize) % QSize
    BY <2>1, ModWrap
  <2>4. (f - l + QSize) - QSize = f - l
    OBVIOUS
  <2>5. n = f - l + QSize
    BY <1>1, <2>2, <2>3, <2>4
  <2>6. l + n = f + QSize
    BY <2>5
  <2>7. (l + n) % QSize = IF l + n < QSize THEN l + n ELSE l + n - QSize
    BY SlotValue
  <2> QED BY <2>6, <2>7
<1> QED BY <1>2, <1>3

-----------------------------------------------------------------------------
(* The mapping, for one worker.                                            *)

Hand(t) == IF Holding(t) THEN <<item[t]>> ELSE <<>>
Queue == [i \in 1..Length |-> q[(last + i - 1) % QSize]]

\* What is stored and not counted yet lies right behind what is counted.
StoredInv == pc[Main] = "putCount" => q[(last + Length) % QSize] = item[Main]

FifoInv == LockInv /\ CountInv /\ SingleInv /\ StoredInv

LEMMA OneHand ==
    /\ \A t : HandOf({t}) = Hand(t)
    /\ (\A t : HandOf({t}) = Hand(t))'
<1>1. ASSUME NEW t PROVE HandOf({t}) = Hand(t)
  <2>1. CASE Holding(t)
    <3>1. (CHOOSE u \in {t} : Holding(u)) = t
      BY <2>1
    <3> QED BY <2>1, <3>1 DEF HandOf, Hand
  <2>2. CASE ~Holding(t)
    BY <2>2 DEF HandOf, Hand
  <2> QED BY <2>1, <2>2
<1>2. (\A t : HandOf({t}) = Hand(t))'
  <2>1. ASSUME NEW t PROVE HandOf({t})' = Hand(t)'
    <3>1. CASE Holding(t)'
      <4>1. (CHOOSE u \in {t} : Holding(u)') = t
        BY <3>1
      <4> QED BY <3>1, <4>1 DEF HandOf, Hand
    <3>2. CASE ~Holding(t)'
      BY <3>2 DEF HandOf, Hand
    <3> QED BY <3>1, <3>2
  <2> QED BY <2>1
<1> QED BY <1>1, <1>2

\* The FIFO's variables, written out.
LEMMA Mapped ==
    ASSUME NEW w, Workers = {w}
    PROVE  /\ Fifo!vars = <<Hand(Main), Queue, Hand(w)>>
           /\ (Fifo!vars)' = <<Hand(Main)', Queue', Hand(w)'>>
BY OneHand DEF Fifo!vars, Queue

LEMMA LengthRange ==
    ASSUME NEW w, Workers = {w}, FifoInv
    PROVE  /\ Length = IF pc[w] = "getCount" THEN numInQ - 1 ELSE numInQ
           /\ Length \in 0..QSize /\ numInQ \in 0..QSize
           /\ pc[Main] \in {"putStore", "putCount"} => Length < QSize
BY QSizeAssumption DEF FifoInv, LockInv, TypeOK, CountInv, NoOverflow, SingleInv, NoUnderflow,
                       Length

\* A step that moves no item.
LEMMA Quiet ==
    ASSUME NEW w, Workers = {w}, FifoInv, UNCHANGED last, Length' = Length,
           \A i \in 1..Length : q'[(last + i - 1) % QSize] = q[(last + i - 1) % QSize],
           Hand(Main)' = Hand(Main), Hand(w)' = Hand(w)
    PROVE  UNCHANGED Fifo!vars
<1>1. Queue' = Queue
  BY DEF Queue
<1> QED BY <1>1, Mapped

\* The actions of the FIFO, written out.
LEMMA MappedActions ==
    ASSUME NEW w, Workers = {w}
    PROVE  /\ \A x : Hand(Main) = <<>> /\ Hand(Main)' = <<x>> /\ Queue' = Queue
                    /\ Hand(w)' = Hand(w) => Fifo!Offer(x)
           /\ Hand(Main) # <<>> /\ Len(Queue) < QSize /\ Queue' = Queue \o Hand(Main)
              /\ Hand(Main)' = <<>> /\ Hand(w)' = Hand(w) => Fifo!Put
           /\ Queue # <<>> /\ Hand(w) = <<>> /\ Hand(w)' = <<Head(Queue)>>
              /\ Queue' = Tail(Queue) /\ Hand(Main)' = Hand(Main) => Fifo!Get
           /\ Hand(w) # <<>> /\ Hand(w)' = <<>> /\ Hand(Main)' = Hand(Main)
              /\ Queue' = Queue => Fifo!Finish
BY OneHand DEF Fifo!Offer, Fifo!Put, Fifo!Get, Fifo!Finish, Queue

\* Steps that only test, lock or unlock.
LEMMA QuietStep ==
    ASSUME NEW w, Workers = {w}, FifoInv,
           \/ PutCheck \/ PutWait \/ PutLock \/ PutUnlock \/ PutSignal
           \/ GetCheck(w) \/ GetWait(w) \/ GetLock(w) \/ GetSignal(w) \/ GetUnlock(w)
           \/ UNCHANGED vars
    PROVE  StoredInv' /\ UNCHANGED Fifo!vars
<1>0. pc \in [Threads -> PutLabels \cup GetLabels] /\ Main # w /\ Threads = {w, Main}
  BY ThreadAssumption DEF FifoInv, LockInv, TypeOK, Threads
<1>1. /\ UNCHANGED <<q, last, numInQ, item>>
      /\ pc'[Main] = "putCount" <=> pc[Main] = "putCount"
      /\ pc'[w] = "getCount" <=> pc[w] = "getCount"
      /\ Holding(Main)' <=> Holding(Main)
      /\ Holding(w)' <=> Holding(w)
  <2>1. CASE PutCheck \/ PutWait \/ PutLock \/ PutUnlock \/ PutSignal
    BY <1>0, <2>1 DEF PutCheck, PutWait, PutLock, PutUnlock, PutSignal, Goto, Holding
  <2>2. CASE GetCheck(w) \/ GetWait(w) \/ GetLock(w) \/ GetSignal(w) \/ GetUnlock(w)
    BY <1>0, <2>2 DEF GetCheck, GetWait, GetLock, GetSignal, GetUnlock, Goto, Holding
  <2>3. CASE UNCHANGED vars
    BY <2>3 DEF vars, Holding
  <2> QED BY <2>1, <2>2, <2>3
<1>2. Length' = Length
  BY <1>1 DEF Length
<1>3. Hand(Main)' = Hand(Main) /\ Hand(w)' = Hand(w)
  BY <1>1 DEF Hand
<1>4. StoredInv'
  BY <1>1, <1>2 DEF FifoInv, StoredInv
<1> QED BY <1>1, <1>2, <1>3, <1>4, Quiet

LEMMA OfferStep ==
    ASSUME NEW w, Workers = {w}, FifoInv, Accept
    PROVE  StoredInv' /\ Fifo!Next
<1>0. /\ pc \in [Threads -> PutLabels \cup GetLabels] /\ Main # w /\ Threads = {w, Main}
      /\ item \in [Threads -> Sockets]
  BY ThreadAssumption DEF FifoInv, LockInv, TypeOK, Threads
<1> PICK x \in Sockets : /\ Goto(Main, "accept", "putCheck")
                         /\ item' = [item EXCEPT ![Main] = x]
                         /\ UNCHANGED <<q, last, numInQ>>
  BY DEF Accept, AcceptFails, AcceptReturns, Sockets
<1>1. pc[Main] = "accept" /\ pc'[Main] = "putCheck" /\ pc'[w] = pc[w] /\ item'[Main] = x
      /\ item'[w] = item[w]
  BY <1>0 DEF Goto
<1>2. Length' = Length /\ Queue' = Queue
  BY <1>1 DEF Length, Queue
<1>3. Hand(Main) = <<>> /\ Hand(Main)' = <<x>> /\ Hand(w)' = Hand(w)
  BY <1>1 DEF Hand, Holding
<1>4. Fifo!Offer(x)
  BY <1>2, <1>3, MappedActions
<1>5. StoredInv'
  BY <1>1 DEF StoredInv
<1> QED BY <1>4, <1>5 DEF Fifo!Next

\* The item goes behind everything that is queued, where nothing is queued.
LEMMA StoreStep ==
    ASSUME NEW w, Workers = {w}, FifoInv, PutStore
    PROVE  StoredInv' /\ UNCHANGED Fifo!vars
<1>0. /\ pc \in [Threads -> PutLabels \cup GetLabels] /\ Main # w /\ Threads = {w, Main}
      /\ q \in [0..QSize-1 -> Sockets] /\ first \in 0..QSize-1 /\ last \in 0..QSize-1
  BY ThreadAssumption DEF FifoInv, LockInv, TypeOK, Threads
<1>1. /\ pc[Main] = "putStore" /\ pc'[Main] = "putCount" /\ pc'[w] = pc[w]
      /\ q' = [q EXCEPT ![first] = item[Main]] /\ UNCHANGED <<last, numInQ, item>>
  BY <1>0 DEF PutStore, Goto
<1>2. pc[w] # "getCount"
  BY <1>0, <1>1 DEF FifoInv, LockInv, MutualExclusion, InCritical
<1>3. Length = numInQ /\ Length' = Length /\ Length \in 0..QSize-1
  <2>1. Length = numInQ /\ Length \in 0..QSize /\ Length < QSize
    BY <1>1, <1>2, LengthRange
  <2>2. Length' = Length
    BY <1>1 DEF Length
  <2> QED BY <2>1, <2>2, QSizeAssumption
<1>4. first = (last + Length) % QSize
  <2>1. Uncounted = 0
    <3>1. pc[Main] # "putCount" /\ ~\E v \in Workers : pc[v] = "getCount"
      BY <1>1, <1>2
    <3> QED BY <3>1 DEF Uncounted
  <2>2. (first - last) % QSize = Length % QSize
    <3>1. (first - last) % QSize = (numInQ + Uncounted) % QSize
      BY DEF FifoInv, CountInv, CountersAgree
    <3>2. numInQ + Uncounted = Length
      BY <1>3, <2>1
    <3> QED BY <3>1, <3>2
  <2> QED BY <1>0, <1>3, <2>2, WhereFirst
<1>5. ASSUME NEW i \in 1..Length
      PROVE  q'[(last + i - 1) % QSize] = q[(last + i - 1) % QSize]
  <2>1. i - 1 \in 0..QSize-1 /\ i - 1 # Length /\ last + i - 1 = last + (i - 1)
    BY <1>0, <1>3, QSizeAssumption
  <2>2. (last + (i - 1)) % QSize # first
    BY <1>0, <1>3, <1>4, <2>1, SlotsDiffer
  <2> QED BY <1>0, <1>1, <2>1, <2>2
<1>6. StoredInv'
  BY <1>0, <1>1, <1>3, <1>4 DEF StoredInv
<1>7. Hand(Main)' = Hand(Main) /\ Hand(w)' = Hand(w)
  BY <1>1 DEF Hand, Holding
<1> QED BY <1>1, <1>3, <1>5, <1>6, <1>7, Quiet

\* The counter takes in the stored item: now it is in the queue, at its end.
LEMMA PutStep ==
    ASSUME NEW w, Workers = {w}, FifoInv, PutCount
    PROVE  StoredInv' /\ Fifo!Next
<1>0. /\ pc \in [Threads -> PutLabels \cup GetLabels] /\ Main # w /\ Threads = {w, Main}
      /\ item \in [Threads -> Sockets] /\ last \in 0..QSize-1
  BY ThreadAssumption DEF FifoInv, LockInv, TypeOK, Threads
<1>1. /\ pc[Main] = "putCount" /\ pc'[Main] = "putUnlock" /\ pc'[w] = pc[w]
      /\ numInQ' = reg[Main] + 1 /\ item'[w] = item[w] /\ UNCHANGED <<q, last>>
  BY <1>0 DEF PutCount, Goto
<1>2. pc[w] # "getCount" /\ numInQ' = numInQ + 1
  BY <1>0, <1>1 DEF FifoInv, LockInv, MutualExclusion, InCritical, CountInv
<1>3. Length = numInQ /\ Length \in 0..QSize-1 /\ Length' = Length + 1
  <2>1. Length = numInQ /\ Length \in 0..QSize /\ Length < QSize
    BY <1>1, <1>2, LengthRange
  <2>2. Length' = numInQ + 1
    <3>1. ~\E v \in Workers : pc'[v] = "getCount"
      BY <1>1, <1>2
    <3> QED BY <1>2, <2>1, <3>1 DEF Length
  <2> QED BY <2>1, <2>2, QSizeAssumption
<1>4. Queue' = Queue \o Hand(Main) /\ Len(Queue) < QSize
  <2> PICK n \in 0..QSize-1 : n = Length
    BY <1>3
  <2>1. Queue = [i \in 1..n |-> q[(last + i - 1) % QSize]]
        /\ Queue' = [i \in 1..n+1 |-> q[(last + i - 1) % QSize]]
    BY <1>1, <1>3 DEF Queue
  <2>2. q[(last + (n + 1) - 1) % QSize] = item[Main]
    <3>1. last + (n + 1) - 1 = last + n
      BY <1>0, QSizeAssumption
    <3> QED BY <1>1, <3>1 DEF FifoInv, StoredInv
  <2>3. Hand(Main) = <<item[Main]>>
    BY <1>1 DEF Hand, Holding
  <2>4. [i \in 1..n+1 |-> q[(last + i - 1) % QSize]]
          = [i \in 1..n |-> q[(last + i - 1) % QSize]] \o <<q[(last + (n + 1) - 1) % QSize]>>
    BY QSizeAssumption
  <2>5. Queue' = Queue \o Hand(Main)
    BY <2>1, <2>2, <2>3, <2>4, Zenon
  <2>6. Len([i \in 1..n |-> q[(last + i - 1) % QSize]]) = n
    BY QSizeAssumption
  <2> QED BY <2>1, <2>5, <2>6, QSizeAssumption
<1>5. Hand(Main) # <<>> /\ Hand(Main)' = <<>> /\ Hand(w)' = Hand(w)
  BY <1>1 DEF Hand, Holding
<1>6. Fifo!Put
  BY <1>4, <1>5, MappedActions
<1>7. StoredInv'
  BY <1>1 DEF StoredInv
<1> QED BY <1>6, <1>7 DEF Fifo!Next

\* The worker reads the slot at last, the head of the queue.
LEMMA TakeStep ==
    ASSUME NEW w, Workers = {w}, FifoInv, GetTake(w)
    PROVE  StoredInv' /\ Fifo!Next
<1>0. /\ pc \in [Threads -> PutLabels \cup GetLabels] /\ Main # w /\ Threads = {w, Main}
      /\ item \in [Threads -> Sockets] /\ last \in 0..QSize-1
  BY ThreadAssumption DEF FifoInv, LockInv, TypeOK, Threads
<1>1. /\ pc[w] = "getTake" /\ pc'[w] = "getCount" /\ pc'[Main] = pc[Main]
      /\ last' = NextIndex(last) /\ item'[w] = q[last] /\ item'[Main] = item[Main]
      /\ UNCHANGED <<q, numInQ>>
  BY <1>0 DEF GetTake, Goto
<1>2. pc[Main] # "putCount"
  BY <1>0, <1>1 DEF FifoInv, LockInv, MutualExclusion, InCritical
<1>3. Length = numInQ /\ Length \in 1..QSize /\ Length' = Length - 1
  <2>1. Length = numInQ /\ Length \in 0..QSize /\ numInQ > 0
    BY <1>1, LengthRange DEF FifoInv, SingleInv
  <2>2. Length' = numInQ - 1
    <3>1. \E v \in Workers : pc'[v] = "getCount"
      BY <1>1
    <3> QED BY <1>1, <3>1 DEF Length
  <2> QED BY <2>1, <2>2, QSizeAssumption
<1>4. Queue # <<>> /\ Head(Queue) = q[last] /\ Queue' = Tail(Queue)
  <2> PICK n \in 1..QSize : n = Length
    BY <1>3
  <2>1. /\ Queue = [i \in 1..n |-> q[(last + i - 1) % QSize]]
        /\ Queue' = [i \in 1..n-1 |-> q[(NextIndex(last) + i - 1) % QSize]]
    BY <1>1, <1>3 DEF Queue
  <2>2. ASSUME NEW i \in 1..n-1
        PROVE  (NextIndex(last) + i - 1) % QSize = (last + (i + 1) - 1) % QSize
    <3>1. i - 1 \in 0..QSize-1 /\ (i - 1) + 1 <= QSize - 1 /\ i \in Int
      BY QSizeAssumption
    <3>2. /\ NextIndex(last) \in 0..QSize-1
          /\ (NextIndex(last) + (i - 1)) % QSize = (last + ((i - 1) + 1)) % QSize
      BY <1>0, <3>1, SlotShift
    <3>3. /\ NextIndex(last) + i - 1 = NextIndex(last) + (i - 1)
          /\ last + (i + 1) - 1 = last + ((i - 1) + 1)
      BY <1>0, <3>1, <3>2, QSizeAssumption
    <3> QED BY <3>2, <3>3
  <2>3. Queue' = [i \in 1..n-1 |-> q[(last + (i + 1) - 1) % QSize]]
    BY <2>1, <2>2
  <2>4. Tail([i \in 1..n |-> q[(last + i - 1) % QSize]])
          = [i \in 1..n-1 |-> q[(last + (i + 1) - 1) % QSize]]
    BY QSizeAssumption
  <2>5. Queue' = Tail(Queue)
    BY <2>1, <2>3, <2>4, Zenon
  <2>6. Queue[1] = q[(last + 1 - 1) % QSize] /\ Len(Queue) = n
    BY <2>1, QSizeAssumption
  <2>7. (last + 1 - 1) % QSize = last
    <3>1. last + 1 - 1 = last /\ last % QSize = last
      BY <1>0, QSizeAssumption
    <3> QED BY <3>1
  <2>8. Queue # <<>>
    BY <2>6
  <2> QED BY <2>5, <2>6, <2>7, <2>8
<1>5. Hand(w) = <<>> /\ Hand(w)' = <<q[last]>> /\ Hand(Main)' = Hand(Main)
  BY <1>1 DEF Hand, Holding
<1>6. Fifo!Get
  BY <1>4, <1>5, MappedActions
<1>7. StoredInv'
  BY <1>1, <1>2 DEF StoredInv
<1> QED BY <1>6, <1>7 DEF Fifo!Next

\* The counter follows the index.
LEMMA CountedStep ==
    ASSUME NEW w, Workers = {w}, FifoInv, GetCount(w)
    PROVE  StoredInv' /\ UNCHANGED Fifo!vars
<1>0. /\ pc \in [Threads -> PutLabels \cup GetLabels] /\ Main # w /\ Threads = {w, Main}
  BY ThreadAssumption DEF FifoInv, LockInv, TypeOK, Threads
<1>1. /\ pc[w] = "getCount" /\ pc'[w] = "getSignal" /\ pc'[Main] = pc[Main]
      /\ numInQ' = numInQ - 1 /\ UNCHANGED <<q, last, item>>
  BY <1>0 DEF GetCount, Goto, FifoInv, CountInv
<1>2. Length' = Length
  <2>1. ~\E v \in Workers : pc'[v] = "getCount"
    BY <1>1
  <2>2. Length = numInQ - 1 /\ numInQ - 1 \in Int
    BY <1>1, LengthRange
  <2> QED BY <1>1, <2>1, <2>2 DEF Length
<1>3. Hand(Main)' = Hand(Main) /\ Hand(w)' = Hand(w)
  BY <1>1 DEF Hand, Holding
<1>4. StoredInv'
  BY <1>1, <1>2 DEF FifoInv, StoredInv
<1> QED BY <1>1, <1>2, <1>3, <1>4, Quiet

LEMMA FinishStep ==
    ASSUME NEW w, Workers = {w}, FifoInv, Handled(w)
    PROVE  StoredInv' /\ Fifo!Next
<1>0. /\ pc \in [Threads -> PutLabels \cup GetLabels] /\ Main # w /\ Threads = {w, Main}
      /\ item \in [Threads -> Sockets]
  BY ThreadAssumption DEF FifoInv, LockInv, TypeOK, Threads
<1>1. /\ pc[w] = "handle" /\ pc'[w] = "getCheck" /\ pc'[Main] = pc[Main]
      /\ item'[Main] = item[Main] /\ UNCHANGED <<q, last, numInQ>>
  BY <1>0 DEF Handled, Goto
<1>2. Length' = Length
  BY <1>1 DEF Length
<1>3. Queue' = Queue
  BY <1>1, <1>2 DEF Queue
<1>4. Hand(w) # <<>> /\ Hand(w)' = <<>> /\ Hand(Main)' = Hand(Main)
  BY <1>1 DEF Hand, Holding
<1>5. Fifo!Finish
  BY <1>3, <1>4, MappedActions
<1>6. StoredInv'
  BY <1>1, <1>2 DEF FifoInv, StoredInv
<1> QED BY <1>5, <1>6 DEF Fifo!Next

LEMMA FifoStep ==
    ASSUME NEW w, Workers = {w}
    PROVE  FifoInv /\ [Next]_vars => FifoInv' /\ [Fifo!Next]_(Fifo!vars)
<1> SUFFICES ASSUME FifoInv, [Next]_vars PROVE FifoInv' /\ [Fifo!Next]_(Fifo!vars)
  OBVIOUS
<1>1. StoredInv' /\ [Fifo!Next]_(Fifo!vars)
  BY QuietStep, OfferStep, StoreStep, PutStep, TakeStep, CountedStep, FinishStep
     DEF Next, PutOnQ, GetOffQ
<1>2. LockInv' /\ CountInv' /\ SingleInv'
  BY LockStep, CountStep, SingleStep DEF FifoInv
<1> QED BY <1>1, <1>2 DEF FifoInv

\* Nothing is missing from the queue that numInQ counts while no worker is
\* between its two statements of lines 47 and 48.
LEMMA NothingTaken ==
    ASSUME numInQ \in Int, ~\E v \in Workers : pc[v] = "getCount"
    PROVE  Length = numInQ
BY DEF Length

LEMMA FifoInit ==
    ASSUME NEW w, Workers = {w}
    PROVE  Init => SingleInv /\ StoredInv /\ Fifo!Init
<1> SUFFICES ASSUME Init PROVE SingleInv /\ StoredInv /\ Fifo!Init
  OBVIOUS
<1>1. SingleInv /\ StoredInv
  BY ThreadAssumption DEF Init, SingleInv, NoUnderflow, StoredInv, Threads
<1>2. Length = 0 /\ ~Holding(Main) /\ ~Holding(w)
  <2>1. /\ pc[Main] = "accept" /\ pc[w] = "getCheck" /\ numInQ = 0
        /\ \A v \in Workers : pc[v] = "getCheck"
    BY ThreadAssumption DEF Init, Threads
  <2>2. pc[Main] # "putCount" /\ ~\E v \in Workers : pc[v] = "getCount"
    BY <2>1
  <2>3. Length = numInQ
    BY <2>1, <2>2, NothingTaken
  <2>4. Length = 0
    BY <2>1, <2>3
  <2>5. ~Holding(Main) /\ ~Holding(w)
    BY <2>1 DEF Holding
  <2> QED BY <2>4, <2>5
<1>3. Hand(Main) = <<>> /\ Hand(w) = <<>> /\ Queue = <<>>
  BY <1>2 DEF Hand, Queue
<1>4. Fifo!Init
  BY <1>3, OneHand DEF Fifo!Init, Queue
<1> QED BY <1>1, <1>4

LEMMA FifoInvAlways ==
    ASSUME NEW w, Workers = {w}
    PROVE  Spec => []FifoInv
<1>1. Init => SingleInv /\ StoredInv
  BY FifoInit
<1>2. LockInv /\ CountInv /\ SingleInv /\ StoredInv /\ [Next]_vars => (SingleInv /\ StoredInv)'
  BY FifoStep DEF FifoInv
<1>3. LockInv /\ CountInv /\ SingleInv /\ StoredInv => FifoInv
  BY DEF FifoInv
<1> QED BY <1>1, <1>2, <1>3, LockInvariant, CountInvariant, PTL DEF Spec

\* With one worker every step of putOnQ and getOffQ is a step of the bounded
\* FIFO or moves nothing, for any size of the ring: what is put is taken once
\* and in order, also round the end of q (lines 28-52).
THEOREM StepsImplementFifo ==
    ASSUME NEW w, Workers = {w}
    PROVE  Spec => StepsOfFifo
<1>1. Init => Fifo!Init
  BY FifoInit
<1>2. FifoInv /\ [Next]_vars => [Fifo!Next]_(Fifo!vars)
  BY FifoStep
<1> QED BY <1>1, <1>2, FifoInvAlways, PTL DEF Spec, StepsOfFifo

-----------------------------------------------------------------------------
(* Whose the descriptors are.  The argument is made on the FIFO: what the  *)
(* worker holds, what is queued and what main holds, one after the other.  *)

Line(w) == (Hand(w) \o Queue) \o Hand(Main)

\* The -1 of failed accepts apart, s has open descriptors, and none twice.
Owned(s, descriptors) ==
    \A i \in 1..Len(s) : s[i] # BadFd =>
        s[i] \in descriptors /\ \A j \in 1..Len(s) : s[j] = s[i] => j = i

EmptyHands == \A t \in Threads : ~Holding(t) => item[t] = BadFd

OwnInv(w) == Owned(Line(w), open) /\ EmptyHands

\* accept() puts a new descriptor, or -1, at the end of the line ...
LEMMA OwnedGrows ==
    ASSUME NEW s \in Seq(Sockets), NEW x \in Sockets, NEW before, NEW after, Owned(s, before),
           \/ x = BadFd /\ after = before
           \/ x \notin before /\ after = before \cup {x}
    PROVE  Owned(s \o <<x>>, after)
<1>1. /\ Len(s \o <<x>>) = Len(s) + 1 /\ Len(s) \in Nat /\ (s \o <<x>>)[Len(s) + 1] = x
      /\ \A i \in 1..Len(s) : (s \o <<x>>)[i] = s[i]
  OBVIOUS
<1>2. x # BadFd => \A i \in 1..Len(s) : s[i] # x
  BY DEF Owned
<1> PICK t : t = s \o <<x>>
  OBVIOUS
<1> QED BY <1>1, <1>2 DEF Owned

\* ... and handle_request closes the one at its head.
LEMMA OwnedShrinks ==
    ASSUME NEW s \in Seq(Sockets), s # <<>>, NEW before, Owned(s, before)
    PROVE  Owned(Tail(s), before) /\ Owned(Tail(s), before \ {Head(s)})
<1>1. /\ Len(Tail(s)) = Len(s) - 1 /\ Len(s) \in Nat \ {0} /\ Head(s) = s[1]
      /\ \A i \in 1..Len(Tail(s)) : Tail(s)[i] = s[i + 1]
  OBVIOUS
<1>2. \A i \in 1..Len(Tail(s)) : i + 1 \in 1..Len(s) /\ i + 1 # 1
  BY <1>1
<1> PICK t : t = Tail(s)
  OBVIOUS
<1> QED BY <1>1, <1>2 DEF Owned

LEMMA LineType ==
    ASSUME NEW w, Workers = {w}, FifoInv
    PROVE  /\ Hand(w) \in Seq(Sockets) /\ Hand(Main) \in Seq(Sockets) /\ Queue \in Seq(Sockets)
           /\ Line(w) \in Seq(Sockets) /\ Len(Queue) = Length
<1>1. /\ item[w] \in Sockets /\ item[Main] \in Sockets /\ q \in [0..QSize-1 -> Sockets]
      /\ last \in Int /\ Length \in 0..QSize
  BY LengthRange DEF FifoInv, LockInv, TypeOK, Threads
<1>2. Hand(w) \in Seq(Sockets) /\ Hand(Main) \in Seq(Sockets)
  BY <1>1 DEF Hand
<1>3. Queue \in Seq(Sockets) /\ Len(Queue) = Length
  <2>1. \A i \in 1..Length : q[(last + i - 1) % QSize] \in Sockets
    BY <1>1, QSizeAssumption
  <2> QED BY <1>1, <2>1, QSizeAssumption DEF Queue
<1> QED BY <1>2, <1>3 DEF Line

\* What a step of the FIFO does to the line.
LEMMA LineStep ==
    ASSUME NEW w, Workers = {w}, FifoInv, [Fifo!Next]_(Fifo!vars)
    PROVE  \/ Line(w)' = Line(w) /\ (Hand(w)' # <<>> \/ Hand(w) = <<>>)
              /\ (Hand(Main) # <<>> \/ Hand(Main)' = <<>>)
           \/ /\ Hand(w) # <<>> /\ Line(w) # <<>> /\ Line(w)' = Tail(Line(w))
              /\ Head(Line(w)) = item[w] /\ Hand(w)' = <<>>
              /\ (Hand(Main) # <<>> \/ Hand(Main)' = <<>>)
           \/ \E x \in Sockets : /\ Line(w)' = Line(w) \o <<x>> /\ Hand(Main) = <<>>
                                 /\ Hand(Main)' = <<x>> /\ (Hand(w)' # <<>> \/ Hand(w) = <<>>)
<1> DEFINE h == Hand(w)  m == Hand(Main)  k == Queue
<1>1. \/ \E x \in Sockets : m = <<>> /\ m' = <<x>> /\ k' = k /\ h' = h
      \/ m # <<>> /\ m' = <<>> /\ k' = k \o m /\ h' = h
      \/ k # <<>> /\ h = <<>> /\ h' = <<Head(k)>> /\ k' = Tail(k) /\ m' = m
      \/ h # <<>> /\ h' = <<>> /\ k' = k /\ m' = m
      \/ h' = h /\ k' = k /\ m' = m
  <2>1. /\ HandOf({Main}) = m /\ HandOf({w}) = h
        /\ HandOf({Main})' = m' /\ HandOf({w})' = h'
    BY OneHand
  <2>2. CASE UNCHANGED Fifo!vars
    BY <2>2, Mapped
  <2>3. ASSUME NEW x \in Sockets, Fifo!Offer(x)
        PROVE  m = <<>> /\ m' = <<x>> /\ k' = k /\ h' = h
    BY <2>1, <2>3 DEF Fifo!Offer, Queue
  <2>4. CASE Fifo!Put
    BY <2>1, <2>4 DEF Fifo!Put, Queue
  <2>5. CASE Fifo!Get
    BY <2>1, <2>5 DEF Fifo!Get, Queue
  <2>6. CASE Fifo!Finish
    BY <2>1, <2>6 DEF Fifo!Finish, Queue
  <2> QED BY <2>2, <2>3, <2>4, <2>5, <2>6 DEF Fifo!Next
<1>2. h \in Seq(Sockets) /\ m \in Seq(Sockets) /\ k \in Seq(Sockets) /\ Line(w) = (h \o k) \o m
      /\ Line(w)' = (h' \o k') \o m' /\ (h # <<>> => h = <<item[w]>>)
  BY LineType DEF Line, Hand
<1> HIDE DEF h, m, k
<1>3. CASE \E x \in Sockets : m = <<>> /\ m' = <<x>> /\ k' = k /\ h' = h
  <2>1. (h \o k) \o <<>> = h \o k
    BY <1>2
  <2> QED BY <1>2, <1>3, <2>1 DEF h, m, k
<1>4. CASE m # <<>> /\ m' = <<>> /\ k' = k \o m /\ h' = h
  <2>1. (h \o (k \o m)) \o <<>> = h \o (k \o m)
    BY <1>2
  <2>2. h \o (k \o m) = (h \o k) \o m
    BY <1>2
  <2> QED BY <1>2, <1>4, <2>1, <2>2 DEF h, m, k
<1>5. CASE k # <<>> /\ h = <<>> /\ h' = <<Head(k)>> /\ k' = Tail(k) /\ m' = m
  <2>1. <<Head(k)>> \o Tail(k) = k /\ <<>> \o k = k
    BY <1>2, <1>5
  <2>2. <<Head(k)>> # <<>>
    OBVIOUS
  <2> QED BY <1>2, <1>5, <2>1, <2>2 DEF h, m, k
<1>6. CASE h # <<>> /\ h' = <<>> /\ k' = k /\ m' = m
  <2>1. (<<item[w]>> \o k) \o m = <<item[w]>> \o (k \o m) /\ (<<>> \o k) \o m = k \o m
    <3>1. <<item[w]>> \in Seq(Sockets)
      BY <1>2, <1>6
    <3> QED BY <1>2, <3>1, ConcatAssociative
  <2>2. k \o m \in Seq(Sockets)
    BY <1>2
  <2>3. ASSUME NEW s \in Seq(Sockets), NEW x
        PROVE  <<x>> \o s # <<>> /\ Head(<<x>> \o s) = x /\ Tail(<<x>> \o s) = s
    OBVIOUS
  <2>4. Line(w) = <<item[w]>> \o (k \o m) /\ Line(w)' = k \o m
    BY <1>2, <1>6, <2>1
  <2>5. Line(w) # <<>> /\ Line(w)' = Tail(Line(w)) /\ Head(Line(w)) = item[w]
    BY <2>2, <2>3, <2>4
  <2> QED BY <1>6, <2>5 DEF h, m, k
<1>7. CASE h' = h /\ k' = k /\ m' = m
  BY <1>2, <1>7 DEF h, m, k
<1> QED BY <1>1, <1>3, <1>4, <1>5, <1>6, <1>7

LEMMA OwnStep ==
    ASSUME NEW w, Workers = {w}
    PROVE  FifoInv /\ OwnInv(w) /\ [Next]_vars => OwnInv(w)'
<1> SUFFICES ASSUME FifoInv, OwnInv(w), [Next]_vars PROVE OwnInv(w)'
  OBVIOUS
<1>0. /\ pc \in [Threads -> PutLabels \cup GetLabels] /\ Main # w /\ Threads = {w, Main}
      /\ item \in [Threads -> Sockets] /\ Line(w) \in Seq(Sockets) /\ EmptyHands
      /\ Owned(Line(w), open)
  BY ThreadAssumption, LineType DEF FifoInv, LockInv, TypeOK, Threads, OwnInv
<1>1. [Fifo!Next]_(Fifo!vars)
  BY FifoStep
<1>2. CASE Accept
  <2>1. PICK x \in Sockets : /\ Goto(Main, "accept", "putCheck")
                             /\ item' = [item EXCEPT ![Main] = x]
                             /\ \/ x = BadFd /\ open' = open
                                \/ x \notin open /\ open' = open \cup {x}
    BY <1>2 DEF Accept, AcceptFails, AcceptReturns, Sockets
  <2>2. /\ Hand(Main) = <<>> /\ Hand(Main)' = <<x>> /\ Hand(w)' = Hand(w)
        /\ item'[w] = item[w] /\ pc'[w] = pc[w] /\ Holding(Main)'
    BY <1>0, <2>1 DEF Goto, Hand, Holding
  <2>3. Line(w)' = Line(w) \o <<x>>
    <3>1. <<x>> # <<>> /\ \A y : <<y>> = <<x>> => y = x
      OBVIOUS
    <3>2. Hand(Main)' # <<>> /\ (Hand(w) = <<>> \/ Hand(w)' # <<>>)
      BY <2>2, <3>1
    <3>3. PICK y \in Sockets : Line(w)' = Line(w) \o <<y>> /\ Hand(Main)' = <<y>>
      BY <1>1, <2>2, <3>2, LineStep
    <3> QED BY <2>2, <3>1, <3>3
  <2>4. Owned(Line(w)', open')
    BY <1>0, <2>1, <2>3, OwnedGrows
  <2>5. EmptyHands'
    BY <1>0, <2>2 DEF EmptyHands, Holding
  <2> QED BY <2>4, <2>5 DEF OwnInv, Owned
<1>3. CASE Handled(w)
  <2>1. /\ Hand(w) # <<>> /\ Hand(w)' = <<>> /\ open' = open \ {item[w]} /\ item'[w] = BadFd
        /\ item'[Main] = item[Main] /\ pc'[Main] = pc[Main] /\ Hand(Main)' = Hand(Main)
    BY <1>0, <1>3 DEF Handled, Goto, Hand, Holding
  <2>2. Line(w) # <<>> /\ Line(w)' = Tail(Line(w)) /\ Head(Line(w)) = item[w]
    BY <1>1, <2>1, LineStep
  <2>3. Owned(Line(w)', open')
    BY <1>0, <2>1, <2>2, OwnedShrinks
  <2>4. EmptyHands'
    BY <1>0, <2>1 DEF EmptyHands, Holding
  <2> QED BY <2>3, <2>4 DEF OwnInv, Owned
<1>4. CASE PutOnQ \/ GetOffQ(w) \/ UNCHANGED vars
  <2>1. UNCHANGED open /\ (Holding(Main)' => Holding(Main)) /\ EmptyHands'
    <3>1. CASE PutOnQ
      BY <1>0, <3>1 DEF PutOnQ, PutCheck, PutWait, PutLock, PutStore, PutCount, PutUnlock,
                        PutSignal, Goto, Holding, EmptyHands
    <3>2. CASE GetOffQ(w)
      BY <1>0, <3>2 DEF GetOffQ, GetCheck, GetWait, GetLock, GetTake, GetCount, GetSignal,
                        GetUnlock, Goto, Holding, EmptyHands
    <3>3. CASE UNCHANGED vars
      BY <1>0, <3>3 DEF vars, Holding, EmptyHands
    <3> QED BY <1>4, <3>1, <3>2, <3>3
  <2>2. Hand(Main) # <<>> \/ ~\E x \in Sockets : Hand(Main)' = <<x>>
    BY <2>1 DEF Hand
  <2>3. Line(w)' = Line(w) \/ (Line(w) # <<>> /\ Line(w)' = Tail(Line(w)))
    BY <1>1, <2>2, LineStep
  <2>4. Owned(Line(w)', open')
    BY <1>0, <2>1, <2>3, OwnedShrinks
  <2> QED BY <2>1, <2>4 DEF OwnInv, Owned
<1> QED BY <1>2, <1>3, <1>4 DEF Next

\* The one worker handles a socket that is open, that neither main nor the
\* queue holds as well, or the -1 of a failed accept: nothing is closed under
\* somebody else, also when accept() hands out a closed number again (lines
\* 28-52, 113, 139-149).
THEOREM SingleWorkerServesOwnSocket ==
    ASSUME NEW w, Workers = {w}
    PROVE  Spec => []ServesOwnSocket
<1>1. Init => OwnInv(w)
  <2> SUFFICES ASSUME Init PROVE OwnInv(w)
    OBVIOUS
  <2>1. EmptyHands
    BY DEF Init, EmptyHands
  <2>2. Hand(Main) = <<>> /\ Hand(w) = <<>> /\ Queue = <<>>
    <3>1. Fifo!Init
      BY FifoInit
    <3> QED BY <3>1, OneHand DEF Fifo!Init, Queue
  <2>3. Len(Line(w)) = 0
    BY <2>2 DEF Line
  <2> QED BY <2>1, <2>3 DEF OwnInv, Owned
<1>2. FifoInv /\ OwnInv(w) /\ [Next]_vars => OwnInv(w)'
  BY OwnStep
<1>3. FifoInv /\ OwnInv(w) => ServesOwnSocket
  <2> SUFFICES ASSUME FifoInv, OwnInv(w), pc[w] = "handle", item[w] # BadFd
               PROVE  /\ item[w] \in open
                      /\ \A t \in Threads \ {w} : item[t] # item[w]
                      /\ \A i \in 0..numInQ-1 : q[(last + i) % QSize] # item[w]
    BY DEF ServesOwnSocket
  <2>0. /\ Main # w /\ Threads = {w, Main} /\ numInQ \in Int /\ last \in Int
        /\ Length = numInQ /\ Length \in Nat
    BY ThreadAssumption, LengthRange DEF FifoInv, LockInv, TypeOK, Threads
  <2>1. /\ Hand(w) = <<item[w]>> /\ Hand(Main) \in Seq(Sockets) /\ Queue \in Seq(Sockets)
        /\ Len(Queue) = Length /\ item[w] \in Sockets
    BY LineType DEF Hand, Holding, FifoInv, LockInv, TypeOK, Threads
  <2>2. /\ Len(Line(w)) = 1 + Length + Len(Hand(Main)) /\ Line(w)[1] = item[w]
        /\ \A i \in 1..Length : Line(w)[i + 1] = Queue[i]
        /\ \A i \in 1..Len(Hand(Main)) : Line(w)[1 + Length + i] = Hand(Main)[i]
    BY <2>0, <2>1 DEF Line
  <2>3. \A j \in 1..Len(Line(w)) : Line(w)[j] = item[w] => j = 1
    BY <2>0, <2>2 DEF OwnInv, Owned
  <2>4. item[w] \in open
    BY <2>0, <2>2 DEF OwnInv, Owned
  <2>5. item[Main] # item[w]
    <3>1. CASE Holding(Main)
      <4>1. Len(Hand(Main)) = 1 /\ Hand(Main)[1] = item[Main]
        BY <3>1 DEF Hand
      <4> QED BY <2>0, <2>2, <2>3, <4>1
    <3>2. CASE ~Holding(Main)
      BY <2>0, <3>2 DEF OwnInv, EmptyHands
    <3> QED BY <3>1, <3>2
  <2>6. ASSUME NEW i \in 0..numInQ-1 PROVE q[(last + i) % QSize] # item[w]
    <3>1. i + 1 \in 1..Length /\ (i + 1) + 1 \in 1..Len(Line(w)) /\ (i + 1) + 1 # 1
          /\ last + (i + 1) - 1 = last + i
      BY <2>0, <2>2, <2>1
    <3>2. Queue[i + 1] = q[(last + i) % QSize]
      BY <3>1 DEF Queue
    <3> QED BY <2>2, <2>3, <3>1, <3>2
  <2> QED BY <2>0, <2>4, <2>5, <2>6
<1> QED BY <1>1, <1>2, <1>3, FifoInvAlways, PTL DEF Spec

-----------------------------------------------------------------------------
(* The queue that all workers share.                                       *)

\* What is in the queue as numInQ counts it: an item that is read and not
\* counted yet is still in front.
Waiting == IF \E w \in Workers : pc[w] = "getCount"
           THEN <<item[CHOOSE w \in Workers : pc[w] = "getCount"]>> \o Queue
           ELSE Queue

\* What is stored and not counted yet is where numInQ says, also behind an
\* underflow.
PlacedInv == pc[Main] = "putCount" =>
    \E s \in 0..QSize-1 : q[s] = item[Main] /\ (s - last) % QSize = numInQ % QSize

RingInv == LockInv /\ CountInv /\ PlacedInv

\* What is in the ring is not negative: so it is until something is taken from
\* the empty queue, and again when as much was put.
NotOverdrawn == Length >= 0

\* A step that takes an item off the queue where there is none.
TakesNothing == \E w \in Workers : GetTake(w) /\ numInQ <= 0

\* The queue of module PoolServer: PutOnQ is PutCount, Take is GetCount, and
\* the two tests see what is in it.
QueueStep ==
    /\ \/ UNCHANGED Waiting
       \/ PutCount /\ Len(Waiting) < QSize /\ Waiting' = Append(Waiting, item[Main])
       \/ \E w \in Workers : /\ GetCount(w) /\ Waiting # <<>>
                             /\ item'[w] = Head(Waiting) /\ Waiting' = Tail(Waiting)
    /\ PutCheck => (pc'[Main] = "putLock" <=> Len(Waiting) < QSize)
    /\ \A w \in Workers : GetCheck(w) => (pc'[w] = "getLock" <=> Waiting # <<>>)

\* Who takes is one worker.
LEMMA OneTaker ==
    /\ MutualExclusion => \A w \in Workers : pc[w] = "getCount" => Waiting = <<item[w]>> \o Queue
    /\ MutualExclusion' => \A w \in Workers : pc'[w] = "getCount" => Waiting' = <<item'[w]>> \o Queue'
<1>1. ASSUME MutualExclusion, NEW w \in Workers, pc[w] = "getCount"
      PROVE  Waiting = <<item[w]>> \o Queue
  <2>1. \A v \in Workers : pc[v] = "getCount" => v = w
    BY <1>1 DEF MutualExclusion, InCritical, Threads
  <2>2. (CHOOSE v \in Workers : pc[v] = "getCount") = w
    BY <1>1, <2>1
  <2> QED BY <1>1, <2>2 DEF Waiting
<1>2. ASSUME MutualExclusion', NEW w \in Workers, pc'[w] = "getCount"
      PROVE  Waiting' = <<item'[w]>> \o Queue'
  <2>1. \A v \in Workers : pc'[v] = "getCount" => v = w
    BY <1>2 DEF MutualExclusion, InCritical, Threads
  <2>2. (CHOOSE v \in Workers : pc'[v] = "getCount") = w
    BY <1>2, <2>1
  <2> QED BY <1>2, <2>2 DEF Waiting
<1> QED BY <1>1, <1>2

\* Without one, the two ways of counting agree.
LEMMA NoTaker ==
    /\ (~\E w \in Workers : pc[w] = "getCount") => Waiting = Queue
    /\ (~\E w \in Workers : pc'[w] = "getCount") => Waiting' = Queue'
  BY DEF Waiting

\* Nobody moves index or counter while the main thread is about to count.
LEMMA PlacedStep == RingInv /\ [Next]_vars => PlacedInv'
<1> SUFFICES ASSUME RingInv, [Next]_vars, pc'[Main] = "putCount"
             PROVE  \E s \in 0..QSize-1 : /\ q'[s] = item'[Main]
                                          /\ (s - last') % QSize = numInQ' % QSize
  BY DEF PlacedInv
<1>0. /\ pc \in [Threads -> PutLabels \cup GetLabels] /\ Main \in Threads /\ Main \notin Workers
      /\ q \in [0..QSize-1 -> Sockets] /\ item \in [Threads -> Sockets]
      /\ first \in 0..QSize-1 /\ last \in 0..QSize-1 /\ numInQ \in Int /\ Workers \subseteq Threads
  BY ThreadAssumption DEF RingInv, LockInv, TypeOK, Threads
<1>1. CASE PutStore
  <2>1. /\ pc[Main] = "putStore" /\ q'[first] = item[Main] /\ item' = item
        /\ last' = last /\ numInQ' = numInQ
    BY <1>0, <1>1 DEF PutStore, Goto
  <2>2. ~\E w \in Workers : pc[w] = "getCount"
    BY <1>0, <2>1 DEF RingInv, LockInv, MutualExclusion, InCritical
  <2>3. numInQ + Uncounted = numInQ
    BY <1>0, <2>1, <2>2 DEF Uncounted
  <2>4. (first - last) % QSize = numInQ % QSize
    BY <2>3 DEF RingInv, CountInv, CountersAgree
  <2> QED BY <1>0, <2>1, <2>4
<1>2. CASE ~PutStore
  <2>1. pc[Main] = "putCount" /\ item'[Main] = item[Main]
    BY <1>0, <1>2 DEF Next, Accept, AcceptReturns, AcceptFails, PutOnQ, PutCheck, PutWait, PutLock,
       PutCount, PutUnlock, PutSignal, GetOffQ, GetCheck, GetWait, GetLock, GetTake, GetCount,
       GetSignal, GetUnlock, Handled, Goto, vars
  <2>2. \A w \in Workers : pc[w] \notin {"getTake", "getCount"}
    BY <1>0, <2>1 DEF RingInv, LockInv, MutualExclusion, InCritical
  <2>3. UNCHANGED <<q, last, numInQ>>
    BY <1>0, <1>2, <2>1, <2>2 DEF Next, Accept, AcceptReturns, AcceptFails, PutOnQ, PutCheck, PutWait,
       PutLock, PutCount, PutUnlock, PutSignal, GetOffQ, GetCheck, GetWait, GetLock, GetTake, GetCount,
       GetSignal, GetUnlock, Handled, Goto, vars
  <2> QED BY <2>1, <2>3 DEF RingInv, PlacedInv
<1> QED BY <1>1, <1>2

\* The ring always is as the three invariants say, whatever was taken.
LEMMA RingInvAlways == Spec => []RingInv
<1>1. Init => PlacedInv
  BY ThreadAssumption DEF Init, PlacedInv, Threads
<1>2. RingInv /\ [Next]_vars => PlacedInv'
  BY PlacedStep
<1>3. LockInv /\ CountInv /\ PlacedInv <=> RingInv
  BY DEF RingInv
<1> QED BY <1>1, <1>2, <1>3, LockInvariant, CountInvariant, PTL DEF Spec

\* How the counter and the queue agree.
LEMMA QueueLength ==
    ASSUME RingInv, NotOverdrawn
    PROVE  /\ numInQ \in 0..QSize /\ Length \in 0..QSize /\ Queue \in Seq(Sockets) /\ Len(Queue) = Length
           /\ (\E w \in Workers : pc[w] = "getCount") => Length = numInQ - 1
           /\ (~\E w \in Workers : pc[w] = "getCount") => Length = numInQ
           /\ Waiting \in Seq(Sockets) /\ Len(Waiting) = numInQ
<1>0. /\ numInQ \in Int /\ numInQ <= QSize /\ QSize \in Nat \ {0} /\ MutualExclusion
      /\ last \in 0..QSize-1 /\ q \in [0..QSize-1 -> Sockets] /\ item \in [Threads -> Sockets]
  BY QSizeAssumption DEF RingInv, LockInv, TypeOK, CountInv, NoOverflow
<1>1. /\ (\E w \in Workers : pc[w] = "getCount") => Length = numInQ - 1
      /\ (~\E w \in Workers : pc[w] = "getCount") => Length = numInQ
  BY <1>0 DEF Length
<1>2. numInQ \in 0..QSize /\ Length \in 0..QSize
  BY <1>0, <1>1 DEF NotOverdrawn
<1>3. Queue \in Seq(Sockets) /\ Len(Queue) = Length
  <2>1. PICK n \in Nat : n = Length
    BY <1>0, <1>2
  <2>2. \A i \in 1..n : q[(last + i - 1) % QSize] \in Sockets
    <3> SUFFICES ASSUME NEW i \in 1..n PROVE q[(last + i - 1) % QSize] \in Sockets
      OBVIOUS
    <3>1. (last + i - 1) % QSize \in 0..QSize-1
      BY <1>0
    <3> QED BY <1>0, <3>1
  <2>3. Queue = [i \in 1..n |-> q[(last + i - 1) % QSize]]
    BY <2>1 DEF Queue
  <2>4. Queue \in [1..n -> Sockets]
    BY <2>2, <2>3
  <2>5. PICK s : s = Queue
    OBVIOUS
  <2>6. s \in Seq(Sockets) /\ Len(s) = n
    BY ONLY <2>1, <2>4, <2>5
  <2> QED BY <2>1, <2>5, <2>6
<1>4. CASE \E w \in Workers : pc[w] = "getCount"
  <2>1. PICK w \in Workers : pc[w] = "getCount"
    BY <1>4
  <2>2. Waiting = <<item[w]>> \o Queue
    BY <1>0, <2>1, OneTaker
  <2>3. PICK a, b : a = <<item[w]>> /\ b = Queue
    OBVIOUS
  <2>4. a \in Seq(Sockets) /\ Len(a) = 1 /\ b \in Seq(Sockets) /\ Len(b) = numInQ - 1
    BY <1>0, <1>1, <1>3, <1>4, <2>3 DEF Threads
  <2>5. a \o b \in Seq(Sockets) /\ Len(a \o b) = Len(a) + Len(b)
    BY <2>4, ConcatProperties
  <2> QED BY <1>0, <1>1, <1>2, <1>3, <2>2, <2>3, <2>4, <2>5
<1>5. CASE ~\E w \in Workers : pc[w] = "getCount"
  BY <1>1, <1>2, <1>3, <1>5, NoTaker
<1> QED BY <1>1, <1>2, <1>3, <1>4, <1>5

\* A step that leaves the slots, the index and the item that is taken.
LEMMA Untouched ==
    ASSUME RingInv, RingInv', UNCHANGED <<last, numInQ>>,
           \A w \in Workers : pc'[w] = "getCount" <=> pc[w] = "getCount",
           \A w \in Workers : pc[w] = "getCount" => item'[w] = item[w],
           \A i \in 1..Length : q'[(last + i - 1) % QSize] = q[(last + i - 1) % QSize]
    PROVE  Waiting' = Waiting
<1>1. Length' = Length
  BY DEF Length
<1>2. Queue' = Queue
  BY <1>1 DEF Queue
<1>3. CASE \E w \in Workers : pc[w] = "getCount"
  <2>1. PICK w \in Workers : pc[w] = "getCount"
    BY <1>3
  <2>2. Waiting = <<item[w]>> \o Queue /\ Waiting' = <<item'[w]>> \o Queue'
    BY <2>1, OneTaker DEF RingInv, LockInv
  <2> QED BY <1>2, <2>1, <2>2
<1>4. CASE ~\E w \in Workers : pc[w] = "getCount"
  BY <1>2, <1>4, NoTaker
<1> QED BY <1>3, <1>4

\* PutStore writes behind the last item.
LEMMA StoredBehind ==
    ASSUME RingInv, RingInv', NotOverdrawn, PutStore
    PROVE  Waiting' = Waiting
<1>0. /\ pc \in [Threads -> PutLabels \cup GetLabels] /\ Main \in Threads /\ Main \notin Workers
      /\ q \in [0..QSize-1 -> Sockets] /\ Workers \subseteq Threads
      /\ first \in 0..QSize-1 /\ last \in 0..QSize-1 /\ QSize \in Nat \ {0}
  BY ThreadAssumption, QSizeAssumption DEF RingInv, LockInv, TypeOK, Threads
<1>1. /\ pc[Main] = "putStore" /\ q' = [q EXCEPT ![first] = item[Main]]
      /\ \A w \in Workers : pc'[w] = pc[w]
      /\ UNCHANGED <<last, numInQ, item>>
  BY <1>0 DEF PutStore, Goto
<1>2. ~\E w \in Workers : pc[w] = "getCount"
  BY <1>0, <1>1 DEF RingInv, LockInv, MutualExclusion, InCritical
<1>3. Length = numInQ /\ Length \in 0..QSize-1
  <2>1. numInQ < QSize
    BY <1>1 DEF RingInv, CountInv, NoOverflow
  <2> QED BY <1>0, <1>2, <2>1, QueueLength
<1>4. first = (last + Length) % QSize
  <2>1. numInQ + Uncounted = Length
    BY <1>1, <1>2, <1>3 DEF Uncounted
  <2>2. (first - last) % QSize = Length % QSize
    BY <2>1 DEF RingInv, CountInv, CountersAgree
  <2> QED BY <1>0, <1>3, <2>2, WhereFirst, ZenonT(40)
<1>5. ASSUME NEW i \in 1..Length
      PROVE  q'[(last + i - 1) % QSize] = q[(last + i - 1) % QSize]
  <2>1. i - 1 \in 0..QSize-1 /\ i - 1 # Length /\ last + i - 1 = last + (i - 1)
    BY <1>0, <1>3
  <2>2. (last + (i - 1)) % QSize # first
    BY <1>0, <1>3, <1>4, <2>1, SlotsDiffer
  <2> QED BY <1>0, <1>1, <2>1, <2>2
<1> QED BY <1>1, <1>5, Untouched

\* PutCount takes the item in, at the end.
LEMMA PutIsAppend ==
    ASSUME RingInv, NotOverdrawn, PutCount
    PROVE  Len(Waiting) < QSize /\ Waiting' = Append(Waiting, item[Main])
<1>0. /\ pc \in [Threads -> PutLabels \cup GetLabels] /\ Main \in Threads /\ Main \notin Workers
      /\ Workers \subseteq Threads /\ last \in 0..QSize-1 /\ QSize \in Nat \ {0}
  BY ThreadAssumption, QSizeAssumption DEF RingInv, LockInv, TypeOK, Threads
<1>1. /\ pc[Main] = "putCount" /\ \A w \in Workers : pc'[w] = pc[w]
      /\ numInQ' = reg[Main] + 1 /\ UNCHANGED <<q, last>>
  BY <1>0 DEF PutCount, Goto
<1>2. ~\E w \in Workers : pc[w] = "getCount"
  BY <1>0, <1>1 DEF RingInv, LockInv, MutualExclusion, InCritical
<1>3. PICK n : n = numInQ /\ n \in 0..QSize-1 /\ numInQ' = n + 1
  <2>1. numInQ < QSize /\ reg[Main] = numInQ
    BY <1>1 DEF RingInv, CountInv, NoOverflow
  <2> QED BY <1>0, <1>1, <2>1, QueueLength
<1>4. Waiting = [i \in 1..n |-> q[(last + i - 1) % QSize]]
  BY <1>2, <1>3, NoTaker, QueueLength DEF Queue
<1>5. Waiting' = [i \in 1..n+1 |-> q[(last + i - 1) % QSize]]
  <2>1. Length' = n + 1
    BY <1>1, <1>2, <1>3 DEF Length
  <2> QED BY <1>1, <1>2, <2>1, NoTaker DEF Queue
<1>6. q[(last + (n + 1) - 1) % QSize] = item[Main]
  <2>1. PICK s \in 0..QSize-1 : q[s] = item[Main] /\ (s - last) % QSize = n % QSize
    BY <1>1, <1>3 DEF RingInv, PlacedInv
  <2>2. s = (last + n) % QSize
    BY <1>0, <1>3, <2>1, WhereFirst
  <2>3. last + (n + 1) - 1 = last + n
    BY <1>0, <1>3
  <2> QED BY <2>1, <2>2, <2>3
<1>7. PICK g : g = [i \in 1..n+1 |-> q[(last + i - 1) % QSize]]
  OBVIOUS
<1>9. PICK a, b : a = [i \in 1..n |-> g[i]] /\ b = [i \in 1..n+1 |-> g[i]]
  OBVIOUS
<1>10. n \in Nat
  BY <1>0, <1>3
<1>11. Append(a, g[n+1]) = b /\ Len(a) = n
  BY ONLY <1>9, <1>10
<1>12. g[n+1] = item[Main] /\ \A i \in 1..n : g[i] = q[(last + i - 1) % QSize]
  BY <1>6, <1>7, <1>10
<1>13. Waiting = a /\ Waiting' = b
  BY <1>4, <1>5, <1>7, <1>9, <1>12
<1> QED BY <1>0, <1>3, <1>11, <1>12, <1>13

\* GetTake reads the first item, which stays in front until it is counted.
LEMMA TakeReadsFirst ==
    ASSUME RingInv, RingInv', NotOverdrawn, NEW w \in Workers, GetTake(w), numInQ > 0
    PROVE  Waiting' = Waiting
<1>0. /\ pc \in [Threads -> PutLabels \cup GetLabels] /\ Workers \subseteq Threads
      /\ last \in 0..QSize-1 /\ QSize \in Nat \ {0} /\ item \in [Threads -> Sockets]
  BY QSizeAssumption DEF RingInv, LockInv, TypeOK, Threads
<1>1. /\ pc[w] = "getTake" /\ pc'[w] = "getCount" /\ item'[w] = q[last]
      /\ last' = NextIndex(last) /\ UNCHANGED <<q, numInQ>>
  BY <1>0 DEF GetTake, Goto
<1>2. ~\E v \in Workers : pc[v] = "getCount"
  BY <1>0, <1>1 DEF RingInv, LockInv, MutualExclusion, InCritical
<1>3. PICK n : n \in 1..QSize /\ n = numInQ /\ Length = n /\ Length' = n - 1
  <2>1. numInQ \in 0..QSize /\ Length = numInQ
    BY <1>2, QueueLength
  <2>2. Length' = numInQ - 1
    BY <1>1 DEF Length
  <2> QED BY <1>0, <2>1, <2>2
<1>4. /\ Waiting = [i \in 1..n |-> q[(last + i - 1) % QSize]]
      /\ Waiting' = <<q[last]>> \o [i \in 1..n-1 |-> q[(NextIndex(last) + i - 1) % QSize]]
  <2>1. Waiting = Queue
    BY <1>2, NoTaker
  <2>2. Waiting' = <<q[last]>> \o Queue'
    BY <1>1, OneTaker DEF RingInv, LockInv
  <2> QED BY <1>1, <1>3, <2>1, <2>2 DEF Queue
<1>5. ASSUME NEW i \in 1..n-1
      PROVE  q[(NextIndex(last) + i - 1) % QSize] = q[(last + (i + 1) - 1) % QSize]
  <2>1. i - 1 \in 0..QSize-1 /\ (i - 1) + 1 <= QSize - 1 /\ i \in Int
    BY <1>0, <1>3
  <2>2. /\ NextIndex(last) \in 0..QSize-1
        /\ (NextIndex(last) + (i - 1)) % QSize = (last + ((i - 1) + 1)) % QSize
    BY <1>0, <2>1, SlotShift
  <2>3. /\ NextIndex(last) + i - 1 = NextIndex(last) + (i - 1)
        /\ last + (i + 1) - 1 = last + ((i - 1) + 1)
    BY <1>0, <2>1, <2>2
  <2> QED BY <2>2, <2>3
<1>6. q[last] = q[(last + 1 - 1) % QSize]
  <2>1. last + 1 - 1 = last /\ last % QSize = last
    BY <1>0
  <2> QED BY <2>1
<1>7. \A v \in [1..n -> Sockets] : \A u \in [1..n-1 -> Sockets] :
          (\A i \in 1..n-1 : u[i] = v[i+1]) => <<v[1]>> \o u = v
  <2> SUFFICES ASSUME NEW v \in [1..n -> Sockets], NEW u \in [1..n-1 -> Sockets],
                      \A i \in 1..n-1 : u[i] = v[i+1]
               PROVE  <<v[1]>> \o u = v
    OBVIOUS
  <2>1. n \in Nat \ {0}
    BY <1>0, <1>3
  <2>2. v \in Seq(Sockets) /\ Len(v) = n /\ v # <<>> /\ Head(v) = v[1]
    BY ONLY <2>1
  <2>3. Tail(v) = u
    BY ONLY <2>1, \A i \in 1..n-1 : u[i] = v[i+1], <2>2
  <2>4. <<Head(v)>> \o Tail(v) = v
    BY ONLY <2>2, HeadTailProperties
  <2> QED BY <2>2, <2>3, <2>4
<1>8. PICK v, u : v = [i \in 1..n |-> q[(last + i - 1) % QSize]]
                  /\ u = [i \in 1..n-1 |-> q[(NextIndex(last) + i - 1) % QSize]]
  OBVIOUS
<1>9. v \in [1..n -> Sockets] /\ v[1] = q[last]
  <2>1. v = Queue /\ Queue \in Seq(Sockets) /\ Len(Queue) = n
    <3>1. v = Queue
      BY <1>3, <1>8 DEF Queue
    <3> QED BY <1>3, <3>1, QueueLength
  <2>2. v \in [1..n -> Sockets]
    <3>1. v \in Seq(Sockets) /\ Len(v) = n
      BY <2>1
    <3> QED BY ONLY <3>1
  <2>3. v[1] = q[(last + 1 - 1) % QSize]
    BY <1>0, <1>3, <1>8
  <2> QED BY <1>6, <2>2, <2>3
<1>10. \A i \in 1..n-1 : u[i] = v[i+1]
  BY <1>0, <1>3, <1>5, <1>8
<1>11. u \in [1..n-1 -> Sockets]
  <2>1. \A i \in 1..n-1 : v[i+1] \in Sockets
    BY <1>0, <1>3, <1>9
  <2> QED BY <1>8, <1>10, <2>1
<1> QED BY <1>4, <1>7, <1>8, <1>9, <1>10, <1>11

\* GetCount counts the item out, which the worker keeps.
LEMMA CountIsTail ==
    ASSUME RingInv, NotOverdrawn, NEW w \in Workers, GetCount(w)
    PROVE  Waiting # <<>> /\ item'[w] = Head(Waiting) /\ Waiting' = Tail(Waiting)
<1>0. /\ pc \in [Threads -> PutLabels \cup GetLabels] /\ Workers \subseteq Threads
      /\ item \in [Threads -> Sockets] /\ MutualExclusion
  BY DEF RingInv, LockInv, TypeOK, Threads
<1>1. /\ pc[w] = "getCount" /\ pc' = [pc EXCEPT ![w] = "getSignal"]
      /\ numInQ' = numInQ - 1 /\ UNCHANGED <<q, last, item>>
  BY DEF GetCount, Goto, RingInv, CountInv
<1>2. \A v \in Workers : pc'[v] # "getCount"
  BY <1>0, <1>1 DEF MutualExclusion, InCritical
<1>3. Length = numInQ - 1 /\ Queue \in Seq(Sockets)
  BY <1>1, QueueLength
<1>4. Length' = Length
  BY <1>1, <1>2, <1>3 DEF Length, RingInv, LockInv, TypeOK
<1>5. Queue' = Queue
  BY <1>1, <1>4 DEF Queue
<1>6. Waiting = <<item[w]>> \o Queue /\ Waiting' = Queue
  BY <1>0, <1>1, <1>2, <1>5, OneTaker, NoTaker
<1>7. \A s \in Seq(Sockets) : \A x : <<x>> \o s # <<>> /\ Head(<<x>> \o s) = x /\ Tail(<<x>> \o s) = s
  OBVIOUS
<1> QED BY <1>1, <1>3, <1>6, <1>7

\* The other steps leave what the queue is made of.
LEMMA OtherStep ==
    ASSUME RingInv, RingInv', [Next]_vars, ~PutStore, ~PutCount,
           \A w \in Workers : ~GetTake(w) /\ ~GetCount(w)
    PROVE  Waiting' = Waiting
<1>0. /\ pc \in [Threads -> PutLabels \cup GetLabels] /\ Main \in Threads /\ Main \notin Workers
      /\ item \in [Threads -> Sockets] /\ Workers \subseteq Threads
  BY ThreadAssumption DEF RingInv, LockInv, TypeOK, Threads
<1>1. /\ UNCHANGED <<q, last, numInQ>>
      /\ \A w \in Workers : /\ pc'[w] = "getCount" <=> pc[w] = "getCount"
                            /\ pc[w] = "getCount" => item'[w] = item[w]
  <2>1. CASE Accept \/ PutOnQ \/ UNCHANGED vars
    BY <1>0, <2>1 DEF Accept, AcceptReturns, AcceptFails, PutOnQ, PutCheck, PutWait, PutLock,
                      PutUnlock, PutSignal, Goto, vars
  <2>2. ASSUME NEW w \in Workers, GetOffQ(w) \/ Handled(w)
        PROVE  /\ UNCHANGED <<q, last, numInQ>>
               /\ \A v \in Workers : /\ pc'[v] = "getCount" <=> pc[v] = "getCount"
                                     /\ pc[v] = "getCount" => item'[v] = item[v]
    BY <1>0, <2>2 DEF GetOffQ, GetCheck, GetWait, GetLock, GetSignal, GetUnlock, Handled, Goto
  <2> QED BY <2>1, <2>2 DEF Next
<1> QED BY <1>1, Untouched

\* With any number of workers the ring, its indices and its counter are one
\* FIFO, up to a take from the empty queue (lines 28-52): the main thread
\* appends an item when there is room, a worker gets the first one, no other
\* step changes what is queued or its order, and the tests made without the
\* mutex see that queue.  So the queue of module PoolServer is the code's; the
\* step that is excepted is its Underflow.
THEOREM QueueIsShared ==
    Spec => [][NotOverdrawn /\ ~TakesNothing => QueueStep]_vars
<1>1. ASSUME RingInv, RingInv', [Next]_vars, NotOverdrawn, ~TakesNothing
      PROVE  QueueStep
  <2>0. /\ pc \in [Threads -> PutLabels \cup GetLabels] /\ Main \in Threads /\ Workers \subseteq Threads
        /\ numInQ \in 0..QSize /\ QSize \in Nat \ {0}
        /\ Waiting \in Seq(Sockets) /\ Len(Waiting) = numInQ
    BY <1>1, QueueLength, QSizeAssumption DEF RingInv, LockInv, TypeOK, Threads
  <2>1. PutCheck => (pc'[Main] = "putLock" <=> Len(Waiting) < QSize)
    BY <2>0 DEF PutCheck, Goto
  <2>2. Waiting # <<>> <=> numInQ # 0
    BY <2>0
  <2>3. \A w \in Workers : GetCheck(w) => (pc'[w] = "getLock" <=> Waiting # <<>>)
    BY <2>0, <2>2 DEF GetCheck, Goto
  <2>4. CASE PutStore
    BY <1>1, <2>1, <2>3, <2>4, StoredBehind DEF QueueStep
  <2>5. CASE PutCount
    BY <1>1, <2>1, <2>3, <2>5, PutIsAppend DEF QueueStep
  <2>6. ASSUME NEW w \in Workers, GetTake(w) PROVE QueueStep
    <3>1. numInQ > 0
      BY <1>1, <2>0, <2>6 DEF TakesNothing
    <3> QED BY <1>1, <2>1, <2>3, <2>6, <3>1, TakeReadsFirst DEF QueueStep
  <2>7. ASSUME NEW w \in Workers, GetCount(w) PROVE QueueStep
    BY <1>1, <2>1, <2>3, <2>7, CountIsTail DEF QueueStep
  <2>8. CASE ~PutStore /\ ~PutCount /\ \A w \in Workers : ~GetTake(w) /\ ~GetCount(w)
    BY <1>1, <2>1, <2>3, <2>8, OtherStep DEF QueueStep
  <2> QED BY <2>4, <2>5, <2>6, <2>7, <2>8
<1>2. RingInv /\ RingInv' /\ [Next]_vars => [NotOverdrawn /\ ~TakesNothing => QueueStep]_vars
  BY <1>1
<1> QED BY <1>2, RingInvAlways, PTL DEF Spec
=============================================================================
