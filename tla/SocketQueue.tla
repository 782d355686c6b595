---------------------------- MODULE SocketQueue ----------------------------
(***************************************************************************)
(* The hand-off queue of the pool server ("multi-threaded client and       *)
(* server/pool_server.c"): the ring buffer q[300] with its indices and its *)
(* counter, the three pthread mutexes around it, the main thread that      *)
(* accepts sockets and calls putOnQ, and the worker threads that call      *)
(* getOffQ and handle what they got.                                       *)
(*                                                                         *)
(* One action per statement that touches shared state.  numInQ++ and       *)
(* numInQ-- are a load and a store, so that what protects them is the      *)
(* mutex of the code and not the grain of the model.  handle_request is    *)
(* reduced here to its last effect, close(); module FileTransfer has the   *)
(* whole of it.                                                            *)
(*                                                                         *)
(* pthread_mutex_unlock by a thread that does not own a default mutex, or  *)
(* of a mutex nobody holds, is undefined by POSIX; the NPTL code that gcc  *)
(* links here releases the mutex whoever calls it, and does nothing to a   *)
(* free one.  The program relies on that ("empty" and "full" are locked by *)
(* one thread and unlocked by another), so the model does too.             *)
(***************************************************************************)
EXTENDS Integers, FiniteSets

CONSTANTS Workers,   \* the N_THREADS pool threads
          Main,      \* the thread that runs accept_client_requests
          QSize,     \* 300 in the code
          Fds,       \* descriptors the process may own; 0 is its stdin
          MinCount   \* bound of the model: numInQ is not taken lower

ASSUME QSizeAssumption == QSize \in Nat \ {0}
ASSUME ThreadAssumption == Main \notin Workers
ASSUME FdAssumption == Fds \subseteq Nat /\ 0 \in Fds
ASSUME MinCountAssumption == MinCount \in Int /\ MinCount < 0

VARIABLES q, first, last, numInQ,  \* the globals of lines 20-23
          locked,                  \* which of the three mutexes are held
          pc,                      \* the statement each thread is about to run
          item,                    \* x in putOnQ, thing in getOffQ; else BadFd
          reg,                     \* numInQ as loaded by numInQ++ or numInQ--
          open                     \* the descriptors that are open

vars == <<q, first, last, numInQ, locked, pc, item, reg, open>>

Threads == Workers \cup {Main}
Mutexes == {"mutex", "empty", "full"}
BadFd == -1                        \* what accept() returns when it fails
Sockets == Fds \cup {BadFd}

PutLabels == {"accept", "putCheck", "putWait", "putLock", "putStore",
              "putCount", "putUnlock", "putSignal"}
GetLabels == {"getCheck", "getWait", "getLock", "getTake", "getCount",
              "getSignal", "getUnlock", "handle"}

Goto(t, from, to) == pc[t] = from /\ pc' = [pc EXCEPT ![t] = to]

\* The index after i: lines 32 and 47.
NextIndexNoWrap(i) == i + 1        \* (fault) the modulo is forgotten
NextIndex(i) == (i + 1) % QSize

Lock(m)   == m \notin locked /\ locked' = locked \cup {m}
Unlock(m) == locked' = locked \ {m}

-----------------------------------------------------------------------------
(* PTHREAD_MUTEX_INITIALIZER leaves all three mutexes free: the first lock *)
(* of "empty" or of "full" does not wait for anything.                     *)

Init ==
    /\ q = [i \in 0..QSize-1 |-> 0]
    /\ first = 0 /\ last = 0 /\ numInQ = 0
    /\ locked = {}
    /\ pc = [t \in Threads |-> IF t = Main THEN "accept" ELSE "getCheck"]
    /\ item = [t \in Threads |-> BadFd]
    /\ reg = [t \in Threads |-> 0]
    /\ open = {0}

-----------------------------------------------------------------------------
(* The main thread: accept_client_requests and putOnQ.                     *)

\* accept() answers with the lowest descriptor that is free.
AcceptReturns(fd) ==
    /\ Goto(Main, "accept", "putCheck")
    /\ fd \notin open
    /\ \A f \in Fds \ open : fd <= f
    /\ open' = open \cup {fd}
    /\ item' = [item EXCEPT ![Main] = fd]
    /\ UNCHANGED <<q, first, last, numInQ, locked, reg>>

\* accept() fails and its -1 is queued like a socket: nothing tests it.
AcceptFails ==
    /\ Goto(Main, "accept", "putCheck")
    /\ item' = [item EXCEPT ![Main] = BadFd]
    /\ UNCHANGED <<q, first, last, numInQ, locked, reg, open>>

\* (fault) a full queue is not waited for
PutCheckNever ==
    /\ Goto(Main, "putCheck", "putLock")
    /\ UNCHANGED <<q, first, last, numInQ, locked, item, reg, open>>

\* The test of line 29, made without holding "mutex".
PutCheck ==
    /\ Goto(Main, "putCheck", IF numInQ = QSize THEN "putWait" ELSE "putLock")
    /\ UNCHANGED <<q, first, last, numInQ, locked, item, reg, open>>

PutWait ==
    /\ Goto(Main, "putWait", "putCheck")
    /\ Lock("full")
    /\ UNCHANGED <<q, first, last, numInQ, item, reg, open>>

PutLock ==
    /\ Goto(Main, "putLock", "putStore")
    /\ Lock("mutex")
    /\ UNCHANGED <<q, first, last, numInQ, item, reg, open>>

PutStore ==
    /\ Goto(Main, "putStore", "putCount")
    /\ q' = [q EXCEPT ![first] = item[Main]]
    /\ first' = NextIndex(first)
    /\ reg' = [reg EXCEPT ![Main] = numInQ]
    /\ UNCHANGED <<last, numInQ, locked, item, open>>

PutCount ==
    /\ Goto(Main, "putCount", "putUnlock")
    /\ numInQ' = reg[Main] + 1
    /\ item' = [item EXCEPT ![Main] = BadFd]
    /\ reg' = [reg EXCEPT ![Main] = 0]
    /\ UNCHANGED <<q, first, last, locked, open>>

PutUnlock ==
    /\ Goto(Main, "putUnlock", "putSignal")
    /\ Unlock("mutex")
    /\ UNCHANGED <<q, first, last, numInQ, item, reg, open>>

\* (fault) no consumer is woken
PutSignalNone ==
    /\ Goto(Main, "putSignal", "accept")
    /\ UNCHANGED <<q, first, last, numInQ, locked, item, reg, open>>

PutSignal ==
    /\ Goto(Main, "putSignal", "accept")
    /\ Unlock("empty")
    /\ UNCHANGED <<q, first, last, numInQ, item, reg, open>>

PutOnQ == \/ PutCheck \/ PutWait \/ PutLock \/ PutStore
          \/ PutCount \/ PutUnlock \/ PutSignal

-----------------------------------------------------------------------------
(* A worker: thread_work and getOffQ.                                      *)

\* The test of line 44, made without holding "mutex".
GetCheck(w) ==
    /\ numInQ > MinCount
    /\ Goto(w, "getCheck", IF numInQ = 0 THEN "getWait" ELSE "getLock")
    /\ UNCHANGED <<q, first, last, numInQ, locked, item, reg, open>>

\* (fault) "if" for "while": the queue is not tested again
GetWaitOnce(w) ==
    /\ Goto(w, "getWait", "getLock")
    /\ Lock("empty")
    /\ UNCHANGED <<q, first, last, numInQ, item, reg, open>>

GetWait(w) ==
    /\ Goto(w, "getWait", "getCheck")
    /\ Lock("empty")
    /\ UNCHANGED <<q, first, last, numInQ, item, reg, open>>

\* (fault) the consumer's side takes no mutex
GetLockNone(w) ==
    /\ Goto(w, "getLock", "getTake")
    /\ UNCHANGED <<q, first, last, numInQ, locked, item, reg, open>>

GetLock(w) ==
    /\ Goto(w, "getLock", "getTake")
    /\ Lock("mutex")
    /\ UNCHANGED <<q, first, last, numInQ, item, reg, open>>

GetTake(w) ==
    /\ Goto(w, "getTake", "getCount")
    /\ item' = [item EXCEPT ![w] = q[last]]
    /\ last' = NextIndex(last)
    /\ reg' = [reg EXCEPT ![w] = numInQ]
    /\ UNCHANGED <<q, first, numInQ, locked, open>>

GetCount(w) ==
    /\ Goto(w, "getCount", "getSignal")
    /\ numInQ' = reg[w] - 1
    /\ reg' = [reg EXCEPT ![w] = 0]
    /\ UNCHANGED <<q, first, last, locked, item, open>>

\* (fault) the producer is not woken
GetSignalNone(w) ==
    /\ Goto(w, "getSignal", "getUnlock")
    /\ UNCHANGED <<q, first, last, numInQ, locked, item, reg, open>>

GetSignal(w) ==
    /\ Goto(w, "getSignal", "getUnlock")
    /\ Unlock("full")
    /\ UNCHANGED <<q, first, last, numInQ, item, reg, open>>

GetUnlock(w) ==
    /\ Goto(w, "getUnlock", "handle")
    /\ Unlock("mutex")
    /\ UNCHANGED <<q, first, last, numInQ, item, reg, open>>

\* handle_request returns: whatever the descriptor stood for, it is closed.
Handled(w) ==
    /\ Goto(w, "handle", "getCheck")
    /\ open' = open \ {item[w]}
    /\ item' = [item EXCEPT ![w] = BadFd]
    /\ UNCHANGED <<q, first, last, numInQ, locked, reg>>

GetOffQ(w) == \/ GetCheck(w) \/ GetWait(w) \/ GetLock(w) \/ GetTake(w)
              \/ GetCount(w) \/ GetSignal(w) \/ GetUnlock(w)

Accept == AcceptFails \/ \E fd \in Fds : AcceptReturns(fd)

Next == Accept \/ PutOnQ \/ \E w \in Workers : GetOffQ(w) \/ Handled(w)

Spec == Init /\ [][Next]_vars

\* The scheduler runs every thread that can run, and a request that is being
\* handled comes to an end; nothing makes a client connect.
FairSpec == /\ Spec
            /\ WF_vars(PutOnQ)
            /\ \A w \in Workers : WF_vars(GetOffQ(w)) /\ WF_vars(Handled(w))

-----------------------------------------------------------------------------
(* What holds for any number of workers.                                   *)

TypeOK ==
    /\ q \in [0..QSize-1 -> Sockets]
    /\ first \in 0..QSize-1 /\ last \in 0..QSize-1 /\ numInQ \in Int
    /\ locked \subseteq Mutexes
    /\ pc \in [Threads -> PutLabels \cup GetLabels]
    /\ pc[Main] \in PutLabels
    /\ \A w \in Workers : pc[w] \in GetLabels
    /\ item \in [Threads -> Sockets]
    /\ reg \in [Threads -> Int]
    /\ open \subseteq Fds

InCritical(t) == pc[t] \in {"putStore", "putCount", "putUnlock",
                            "getTake", "getCount", "getSignal", "getUnlock"}

\* Between lock(&mutex) and unlock(&mutex) there is one thread at a time, so
\* no update of q, first, last or numInQ is lost (lines 30-34 and 45-50).
MutualExclusion ==
    \A t, u \in Threads : InCritical(t) /\ InCritical(u) => t = u

\* An index moves one statement before numInQ follows it.
Uncounted == (IF pc[Main] = "putCount" THEN 1 ELSE 0)
             - (IF \E w \in Workers : pc[w] = "getCount" THEN 1 ELSE 0)

\* The three ways of counting stay in step: the distance from last to first
\* around the ring is the number of queued items numInQ claims (modulo the
\* ring), however many threads put and get.
CountersAgree == (first - last) % QSize = (numInQ + Uncounted) % QSize

\* putOnQ tests numInQ before it takes the mutex, and still never stores
\* into a slot that holds an item nobody has taken: only its own thread can
\* make the queue longer after the test.
NoOverflow ==
    /\ numInQ <= QSize
    /\ pc[Main] \in {"putLock", "putStore", "putCount"} => numInQ < QSize

\* The main thread is not left asleep on "full" (line 29) with room in the
\* queue: the worker that made the room is still to unlock "full".
ProducerNotForgotten ==
    pc[Main] = "putWait" /\ "full" \in locked /\ numInQ < QSize
        => \E w \in Workers : pc[w] = "getSignal"

\* The workers are not all left asleep on "empty" (line 44) with a socket in
\* the queue: a wakeup lost between the test and the lock is kept by "empty"
\* being free, and if "empty" is held putOnQ is still to unlock it.
WorkersNotForgotten ==
    numInQ > 0 /\ "empty" \in locked /\ (\A w \in Workers : pc[w] = "getWait")
        => pc[Main] \in {"putUnlock", "putSignal"}

\* While something is queued, some worker gets to take an item off.
Drains == numInQ > 0 ~> \E w \in Workers : pc[w] = "getCount"

\* getOffQ's comment (lines 38-40): "The thread will be suspended if there
\* is nothing on the queue."  Nothing is taken from an empty queue.
NoUnderflow == numInQ >= 0

-----------------------------------------------------------------------------
(* The inductive invariants the proofs use.  Mutual exclusion rests on     *)
(* whoever is inside holding "mutex"; the counters on the value loaded by  *)
(* numInQ++ or numInQ-- being current until it is stored back.             *)

LockInv ==
    /\ TypeOK
    /\ \A t \in Threads : InCritical(t) => "mutex" \in locked
    /\ MutualExclusion

CountInv ==
    /\ pc[Main] = "putCount" => reg[Main] = numInQ
    /\ \A w \in Workers : pc[w] = "getCount" => reg[w] = numInQ
    /\ CountersAgree
    /\ NoOverflow

WakeInv == ProducerNotForgotten /\ WorkersNotForgotten

\* With one worker, its test of numInQ stays true until it has counted.
SingleInv ==
    /\ NoUnderflow
    /\ \A w \in Workers : pc[w] \in {"getLock", "getTake", "getCount"} => numInQ > 0

-----------------------------------------------------------------------------
(* What holds for one worker only, beside NoUnderflow.                     *)

\* The worker handles a socket that is open, that it alone holds, and that
\* is no longer in the queue (or the -1 of a failed accept).
ServesOwnSocket ==
    \A w \in Workers : pc[w] = "handle" /\ item[w] # BadFd =>
        /\ item[w] \in open
        /\ \A t \in Threads \ {w} : item[t] # item[w]
        /\ \A i \in 0..numInQ-1 : q[(last + i) % QSize] # item[w]

\* The queue is the FIFO of BoundedFifo: what is stored and counted is in
\* the queue, and a worker has its item from the moment it has read it.
Length == numInQ - (IF \E w \in Workers : pc[w] = "getCount" THEN 1 ELSE 0)
Holding(t) == pc[t] \in {"putCheck", "putWait", "putLock", "putStore", "putCount",
                         "getCount", "getSignal", "getUnlock", "handle"}
HandOf(T) == IF \E t \in T : Holding(t)
             THEN <<item[CHOOSE t \in T : Holding(t)]>> ELSE <<>>

Fifo == INSTANCE BoundedFifo
            WITH Items <- Sockets, Capacity <- QSize,
                 incoming <- HandOf({Main}), outgoing <- HandOf(Workers),
                 queue <- [i \in 1..Length |-> q[(last + i - 1) % QSize]]

\* One main thread and one worker implement the bounded FIFO, its progress
\* included: every socket put is handed out, once and in order.
ImplementsFifo == Fifo!Spec

\* What of it is safety: every step of the code is one of the FIFO's.
StepsOfFifo == Fifo!Init /\ [][Fifo!Next]_(Fifo!vars)
=============================================================================
