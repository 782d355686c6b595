-------------------------- MODULE PoolServerProofs --------------------------
(***************************************************************************)
(* The pool server with any number of workers and clients and any size of  *)
(* its queue, failing accepts included, up to the first take from the      *)
(* empty queue: a connection is in one place on its way through the        *)
(* threads, and server and clients implement the copying service.          *)
(***************************************************************************)
EXTENDS PoolServer, FileTransferProofs, FiniteSetTheorems, TLAPS

Labels == {"test", "take", "read", "open", "send", "close"}

\* The connections main has accepted and no worker has taken yet.
OnQ == {queue[i] : i \in 1..Len(queue)}
Held == ({accepted} \cup OnQ) \ {None}

\* The descriptors -1 apart, nothing is on the queue twice, nor both on it and
\* in main's hand; a worker that is on its way to the queue has nothing.
QueueInv ==
    /\ \A i, j \in 1..Len(queue) : queue[i] = queue[j] /\ queue[i] # None => i = j
    /\ accepted # None => mpc = "put" /\ accepted \notin OnQ
    /\ \A w \in Handlers : hpc[w] \in {"test", "take"} => socket[w] = None

\* A connection is somewhere on its way until it is closed.
NotLost ==
    \A c \in Copiers : cpc[c] # "connect" =>
        hung[c] \/ c \in Queued \cup Held \/ \E w \in Handlers : socket[w] = c

PoolInv == /\ TypeOK /\ QueueInv /\ NotLost
           /\ ConnInv(Held) /\ TransferInv(Held) /\ PrefixInv

LEMMA HeldStays ==
    ASSUME NEW W, W = Held, UNCHANGED Held
    PROVE  /\ ConnInv(Held) <=> ConnInv(W)
           /\ ConnInv(W)' => ConnInv(Held)'
           /\ TransferInv(Held) <=> TransferInv(W)
           /\ TransferInv(W)' => TransferInv(Held)'
<1>1. Held' = W
  OBVIOUS
<1> HIDE DEF Held
<1>2. ConnInv(W)' => ConnInv(Held)'
  BY <1>1 DEF ConnInv, HandlersApart, QueuedOnce, NotInUse
<1>3. TransferInv(W)' => TransferInv(Held)'
  BY <1>1 DEF TransferInv, WaitingData
<1>4. ConnInv(Held) <=> ConnInv(W)
  BY DEF ConnInv, HandlersApart, QueuedOnce, NotInUse
<1>5. TransferInv(Held) <=> TransferInv(W)
  BY DEF TransferInv, WaitingData
<1> QED BY <1>2, <1>3, <1>4, <1>5

LEMMA HeldType == TypeOK => Held \subseteq Copiers
BY DEF TypeOK, Held, OnQ

\* What putOnQ does to the queue ...
LEMMA AtLast ==
    ASSUME NEW s \in Seq(Copiers \cup {None}), NEW x \in Copiers \cup {None}
    PROVE  /\ Append(s, x) \in Seq(Copiers \cup {None}) /\ Len(Append(s, x)) = Len(s) + 1
           /\ \A i \in 1..Len(s) : Append(s, x)[i] = s[i]
           /\ Append(s, x)[Len(s) + 1] = x /\ Len(s) \in Nat
OBVIOUS

\* ... and getOffQ.
LEMMA AtFirst ==
    ASSUME NEW s \in Seq(Copiers \cup {None}), s # <<>>
    PROVE  /\ Tail(s) \in Seq(Copiers \cup {None}) /\ Len(Tail(s)) = Len(s) - 1
           /\ Head(s) = s[1] /\ Head(s) \in Copiers \cup {None} /\ Len(s) \in Nat \ {0}
           /\ \A i \in 1..Len(s) - 1 : Tail(s)[i] = s[i + 1]
OBVIOUS

\* A step that moves no connection and does not write on one.
LEMMA PoolQuiet ==
    ASSUME PoolInv, TypeOK', QueueInv', UNCHANGED Held, PrefixInv',
           UNCHANGED <<server, clientVars, netVars, socket>>,
           \A w \in Handlers : socket[w] # None /\ Live(socket[w]) =>
              /\ UNCHANGED <<hpc[w], name[w], sent[w]>>
    PROVE  PoolInv' /\ ServiceStep
<1> USE DEF clientVars, netVars
<1> PICK W : W = Held
  OBVIOUS
<1>1. ConnInv(W) /\ TransferInv(W)
  BY HeldStays DEF PoolInv
<1>2. ConnInv(W)'
  BY <1>1 DEF ConnInv, HandlersApart, QueuedOnce, NotInUse, Queued
<1>3. TransferInv(W)'
  <2>1. Queued' = Queued /\ \A d : (Live(d)' <=> Live(d)) /\ (Clean(d)' <=> Clean(d))
    BY DEF Live, Clean, Queued
  <2>2. CopierData'
    BY <1>1, <2>1 DEF TransferInv, CopierData
  <2>3. WaitingData(W)'
    BY <1>1, <2>1 DEF TransferInv, WaitingData
  <2>4. HandlerData'
    BY <1>1, <2>1 DEF TransferInv, HandlerData
  <2> QED BY <2>2, <2>3, <2>4 DEF TransferInv
<1>4. NotLost'
  BY DEF PoolInv, NotLost, Queued
<1>5. ServiceStep
  BY ServerImplements
<1> QED BY <1>2, <1>3, <1>4, <1>5, HeldStays DEF PoolInv

LEMMA ArmStep ==
    ASSUME PoolInv, Arm \/ AcceptFails
    PROVE  PoolInv' /\ ServiceStep
<1>1. /\ UNCHANGED <<server, clientVars, netVars, handlerVars, queue, accepted, underflowed>>
      /\ armed' \in BOOLEAN /\ mpc' \in {"accept", "put"} /\ mpc # "put"
  BY DEF Arm, AcceptFails, MainGoto, PoolInv, TypeOK, FileTypeOK
<1> USE DEF handlerVars
<1>2. TypeOK'
  BY <1>1, ServerTypes DEF PoolInv, TypeOK, FileTypeOK
<1>3. QueueInv'
  BY <1>1 DEF PoolInv, QueueInv, OnQ
<1>4. UNCHANGED Held
  BY <1>1 DEF Held, OnQ
<1>5. PrefixInv'
  BY <1>1, PrefixStays DEF PoolInv
<1> QED BY <1>1, <1>2, <1>3, <1>4, <1>5, PoolQuiet

\* accept() moves a connection from the backlog to main.
LEMMA AcceptStep ==
    ASSUME PoolInv, Accept
    PROVE  PoolInv' /\ ServiceStep
<1> USE DEF MainGoto, clientVars, netVars, handlerVars
<1> PICK c : c = Head(backlog)
  OBVIOUS
<1>1. c \in Queued \cap Copiers /\ backlog' \in Seq(Copiers) /\ Queued' = Queued \ {c}
      /\ \A i, j \in 1..Len(backlog') : backlog'[i] = backlog'[j] => i = j
  BY Dequeue DEF Accept, PoolInv, TypeOK, ConnInv
<1>2. /\ UNCHANGED <<server, armed, client, at, cpc, copy, missed, asked, wire, hung, hpc, socket,
                     name, sent, queue, underflowed>>
      /\ server = "up" /\ mpc = "accept" /\ mpc' = "put" /\ accepted' = c
  BY DEF Accept
<1>3. Held' = Held \cup {c} /\ c # None /\ c \notin Held /\ OnQ' = OnQ /\ c \notin OnQ
  <2>1. c # None /\ accepted = None /\ OnQ' = OnQ /\ c \notin Held
    BY <1>1, <1>2, PlanAssumption DEF PoolInv, QueueInv, OnQ, ConnInv, QueuedOnce
  <2> QED BY <1>2, <2>1 DEF Held
<1>4. TypeOK'
  BY <1>1, <1>2 DEF PoolInv, TypeOK, FileTypeOK
<1>5. QueueInv'
  BY <1>2, <1>3 DEF PoolInv, QueueInv
<1>6. NotLost'
  BY <1>1, <1>2, <1>3 DEF PoolInv, NotLost
<1> HIDE DEF Held
<1>7. ConnInv(Held)'
  <2>1. HandlersApart(Held)'
    BY <1>1, <1>2, <1>3 DEF PoolInv, ConnInv, HandlersApart
  <2>2. QueuedOnce(Held)'
    BY <1>1, <1>2, <1>3 DEF PoolInv, ConnInv, QueuedOnce
  <2>3. NotInUse(Held)'
    BY <1>1, <1>2, <1>3 DEF PoolInv, ConnInv, NotInUse
  <2> QED BY <2>1, <2>2, <2>3 DEF ConnInv
<1>8. TransferInv(Held)'
  <2>1. \A d : (Live(d)' <=> Live(d)) /\ (Clean(d)' <=> Clean(d))
    BY <1>2 DEF Live, Clean
  <2>2. CopierData'
    BY <1>2, <2>1 DEF PoolInv, TransferInv, CopierData
  <2>3. WaitingData(Held)'
    BY <1>1, <1>3, <2>1 DEF PoolInv, TransferInv, WaitingData
  <2>4. HandlerData'
    BY <1>2, <2>1 DEF PoolInv, TransferInv, HandlerData
  <2> QED BY <2>2, <2>3, <2>4 DEF TransferInv
<1>9. PrefixInv'
  <2>1. \A d \in Copiers : CopierPrefix(d)'
    BY <1>2, OtherPrefix DEF PoolInv, PrefixInv
  <2> QED BY <1>2, <2>1 DEF PoolInv, PrefixInv, AllSent
<1> QED BY <1>2, <1>4, <1>5, <1>6, <1>7, <1>8, <1>9, ServerImplements DEF PoolInv

\* putOnQ moves what main holds, a -1 too, to the end of the queue.
LEMMA PutStep ==
    ASSUME PoolInv, PutOnQ
    PROVE  PoolInv' /\ ServiceStep
<1> USE DEF MainGoto, clientVars, netVars, handlerVars
<1>0. queue \in Seq(Copiers \cup {None}) /\ accepted \in Copiers \cup {None} /\ QSize \in Nat
  BY PoolAssumption DEF PoolInv, TypeOK
<1>1. /\ UNCHANGED <<server, armed, clientVars, netVars, handlerVars, underflowed>>
      /\ mpc' = "accept" /\ accepted' = None /\ queue' = Append(queue, accepted)
      /\ Len(queue) < QSize
  BY DEF PutOnQ
<1>2. /\ queue' \in Seq(Copiers \cup {None}) /\ Len(queue') = Len(queue) + 1
      /\ \A i \in 1..Len(queue) : queue'[i] = queue[i]
      /\ queue'[Len(queue) + 1] = accepted /\ Len(queue) \in Nat
  BY <1>0, <1>1, AtLast
<1>3. TypeOK'
  BY <1>0, <1>1, <1>2 DEF PoolInv, TypeOK, FileTypeOK
<1>4. OnQ' = OnQ \cup {accepted}
  <2>1. \A i \in 1..Len(queue') : queue'[i] \in OnQ \cup {accepted}
    BY <1>2 DEF OnQ
  <2>2. \A i \in 1..Len(queue) : queue[i] \in OnQ'
    BY <1>2 DEF OnQ
  <2>3. accepted \in OnQ'
    BY <1>2 DEF OnQ
  <2> QED BY <2>1, <2>2, <2>3 DEF OnQ
<1>5. QueueInv'
  <2>1. ASSUME NEW i \in 1..Len(queue'), NEW j \in 1..Len(queue'),
               queue'[i] = queue'[j], queue'[i] # None
        PROVE  i = j
    <3>1. \A k \in 1..Len(queue) : queue[k] # None => queue[k] # accepted
      BY DEF PoolInv, QueueInv, OnQ
    <3>2. \A k \in 1..Len(queue') : k \in 1..Len(queue) \/ k = Len(queue) + 1
      BY <1>2
    <3> QED BY <1>2, <2>1, <3>1, <3>2 DEF PoolInv, QueueInv
  <2> QED BY <1>1, <2>1 DEF PoolInv, QueueInv
<1>6. UNCHANGED Held
  BY <1>1, <1>4 DEF Held
<1>7. PrefixInv'
  BY <1>1, PrefixStays DEF PoolInv
<1> QED BY <1>1, <1>3, <1>5, <1>6, <1>7, PoolQuiet

\* The test and the first take from an empty queue.
LEMMA TestStep ==
    ASSUME PoolInv, NEW w \in Handlers, Test(w) \/ Underflow(w)
    PROVE  PoolInv' /\ ServiceStep
<1> USE DEF HandlerAt, HandlerGoto, poolVars, handlerVars
<1>1. /\ UNCHANGED <<server, armed, clientVars, netVars, socket, name, sent, queue, mpc,
                     accepted>>
      /\ underflowed' \in BOOLEAN /\ hpc[w] \in {"test", "take"}
      /\ UNCHANGED hpc \/ hpc' = [hpc EXCEPT ![w] = "take"]
      /\ hpc \in [Handlers -> Labels]
  BY DEF Test, Underflow, PoolInv, TypeOK, Labels
<1>2. hpc' \in [Handlers -> Labels] /\ \A g \in Handlers : g # w => hpc'[g] = hpc[g]
      /\ hpc'[w] \in {"test", "take"}
  BY <1>1 DEF Labels
<1>3. TypeOK'
  BY <1>1, <1>2 DEF PoolInv, TypeOK, FileTypeOK, Labels, clientVars, netVars
<1>4. QueueInv'
  BY <1>1, <1>2 DEF PoolInv, QueueInv, OnQ
<1>5. UNCHANGED Held
  BY <1>1 DEF Held, OnQ
<1>6. PrefixInv'
  <2>1. \A d \in Copiers : CopierPrefix(d)'
    BY <1>1, OtherPrefix DEF PoolInv, PrefixInv, clientVars, netVars
  <2> QED BY <1>1, <1>2, <2>1 DEF PoolInv, PrefixInv, AllSent
<1>7. socket[w] = None
  BY <1>1 DEF PoolInv, QueueInv
<1> QED BY <1>1, <1>2, <1>3, <1>4, <1>5, <1>6, <1>7, PoolQuiet

\* getOffQ moves what is at the head of the queue to the worker.
LEMMA TakeStep ==
    ASSUME PoolInv, NEW w \in Handlers, Take(w)
    PROVE  PoolInv' /\ ServiceStep
<1> USE DEF HandlerAt, HandlerGoto, clientVars, netVars
<1> PICK c : c = Head(queue)
  OBVIOUS
<1>1. /\ UNCHANGED <<server, armed, client, at, cpc, copy, missed, backlog, asked, wire, hung, name,
                     sent, mpc, accepted, underflowed>>
      /\ hpc[w] = "take" /\ hpc' = [hpc EXCEPT ![w] = "read"] /\ server = "up"
      /\ socket' = [socket EXCEPT ![w] = c] /\ queue' = Tail(queue) /\ queue # <<>>
      /\ hpc \in [Handlers -> Labels] /\ socket \in [Handlers -> Copiers \cup {None}]
      /\ queue \in Seq(Copiers \cup {None}) /\ Len(queue) <= QSize /\ socket[w] = None
      /\ QSize \in Nat
  BY PoolAssumption DEF Take, PoolInv, TypeOK, FileTypeOK, Labels, QueueInv
<1>2. /\ queue' \in Seq(Copiers \cup {None}) /\ Len(queue') = Len(queue) - 1
      /\ c = queue[1] /\ c \in Copiers \cup {None} /\ Len(queue) \in Nat \ {0}
      /\ \A i \in 1..Len(queue) - 1 : queue'[i] = queue[i + 1]
  BY <1>1, AtFirst
<1>3. /\ hpc'[w] = "read" /\ socket'[w] = c
      /\ hpc' \in [Handlers -> Labels] /\ socket' \in [Handlers -> Copiers \cup {None}]
      /\ \A g \in Handlers : g # w => hpc'[g] = hpc[g] /\ socket'[g] = socket[g]
  BY <1>1, <1>2 DEF Labels
<1>4. TypeOK'
  <2>1. FileTypeOK'
    BY <1>1, <1>3 DEF PoolInv, TypeOK, FileTypeOK
  <2>2. queue' \in Seq(Copiers \cup {None}) /\ Len(queue') <= QSize
    BY <1>1, <1>2
  <2>3. hpc' \in [Handlers -> {"test", "take", "read", "open", "send", "close"}]
    BY <1>3 DEF Labels
  <2> QED BY <1>1, <2>1, <2>2, <2>3 DEF PoolInv, TypeOK
<1>5. \A i, j \in 1..Len(queue) : queue[i] = queue[j] /\ queue[i] # None => i = j
  BY DEF PoolInv, QueueInv
<1>6. OnQ' \ {None} = OnQ \ {c, None} /\ c \in OnQ
  <2>1. ASSUME NEW i \in 1..Len(queue') PROVE queue'[i] \in OnQ /\ (queue'[i] # None => queue'[i] # c)
    <3>1. i + 1 \in 1..Len(queue) /\ 1 \in 1..Len(queue) /\ i + 1 # 1 /\ queue'[i] = queue[i + 1]
      BY <1>2
    <3> QED BY <1>2, <1>5, <3>1 DEF OnQ
  <2>2. ASSUME NEW i \in 1..Len(queue), queue[i] # c PROVE queue[i] \in OnQ'
    <3>1. i - 1 \in 1..Len(queue') /\ queue'[i - 1] = queue[i]
      BY <1>2, <2>2
    <3> QED BY <3>1 DEF OnQ
  <2>3. c \in OnQ
    BY <1>2 DEF OnQ
  <2> QED BY <2>1, <2>2, <2>3 DEF OnQ
<1>7. QueueInv'
  <2>1. \A i, j \in 1..Len(queue') : queue'[i] = queue'[j] /\ queue'[i] # None => i = j
    <3> SUFFICES ASSUME NEW i \in 1..Len(queue'), NEW j \in 1..Len(queue'),
                        queue'[i] = queue'[j], queue'[i] # None
                 PROVE  i = j
      OBVIOUS
    <3>1. /\ i + 1 \in 1..Len(queue) /\ queue'[i] = queue[i + 1] /\ i \in Int
          /\ j + 1 \in 1..Len(queue) /\ queue'[j] = queue[j + 1] /\ j \in Int
      BY <1>2
    <3>2. i + 1 = j + 1
      BY <1>5, <3>1
    <3> QED BY <3>1, <3>2
  <2> QED BY <1>1, <1>3, <1>6, <2>1 DEF PoolInv, QueueInv
<1>8. Held' = Held \ {c} /\ (c # None => c \in Held)
  BY <1>1, <1>6 DEF Held, PoolInv, QueueInv
<1>9. NotLost'
  <2>1. \A g \in Handlers : socket[g] # None => socket'[g] = socket[g]
    BY <1>1, <1>3
  <2>2. \A d \in Copiers : d # None
    BY PlanAssumption
  <2> QED BY <1>1, <1>3, <1>8, <2>1, <2>2 DEF PoolInv, NotLost, Queued
<1> HIDE DEF Held
<1>10. ConnInv(Held)'
  <2>1. Queued' = Queued
    BY <1>1 DEF Queued
  <2>2. HandlersApart(Held)'
    BY <1>1, <1>3, <1>8, <2>1 DEF PoolInv, ConnInv, HandlersApart, QueuedOnce
  <2>3. QueuedOnce(Held)'
    BY <1>1, <1>8, <2>1 DEF PoolInv, ConnInv, QueuedOnce
  <2>4. NotInUse(Held)'
    BY <1>1, <1>3, <1>8, <2>1, PlanAssumption DEF PoolInv, ConnInv, NotInUse
  <2> QED BY <2>2, <2>3, <2>4 DEF ConnInv
<1>11. TransferInv(Held)'
  <2>1. Queued' = Queued /\ \A d : (Live(d)' <=> Live(d)) /\ (Clean(d)' <=> Clean(d))
    BY <1>1 DEF Live, Clean, Queued
  <2>2. CopierData'
    BY <1>1, <2>1 DEF PoolInv, TransferInv, CopierData
  <2>3. WaitingData(Held)'
    BY <1>8, <2>1 DEF PoolInv, TransferInv, WaitingData
  <2>4. HandlerData'
    <3>1. c # None /\ Live(c) => Clean(c)
      BY <1>8 DEF PoolInv, TransferInv, WaitingData
    <3> QED BY <1>1, <1>3, <2>1, <3>1 DEF PoolInv, TransferInv, HandlerData
  <2> QED BY <2>2, <2>3, <2>4 DEF TransferInv
<1>12. PrefixInv'
  <2>1. \A d \in Copiers : CopierPrefix(d)'
    BY <1>1, OtherPrefix DEF PoolInv, PrefixInv
  <2> QED BY <1>1, <1>3, <2>1 DEF PoolInv, PrefixInv, AllSent
<1> QED BY <1>1, <1>4, <1>7, <1>9, <1>10, <1>11, <1>12, ServerImplements DEF PoolInv

\* The calls on a socket that is -1, or whose client has gone: whatever they
\* leave behind, no connection is concerned.
LEMMA BadSocketStep ==
    ASSUME PoolInv, NEW w \in Handlers,
           \/ ReadFails(w) \/ WriteNowhere(w) \/ CloseNothing(w)
           \/ /\ socket[w] = None /\ (OpenFile(w) \/ EndOfFile(w))
              /\ UNCHANGED poolVars
    PROVE  PoolInv' /\ ServiceStep
<1> USE DEF HandlerAt, HandlerGoto, poolVars
<1>0. /\ hpc \in [Handlers -> Labels] /\ name \in [Handlers -> Files \cup {None}]
      /\ sent \in [Handlers -> Nat] /\ socket \in [Handlers -> Copiers \cup {None}]
      /\ \A g \in Handlers : hpc[g] = "send" => name[g] \in Served /\ sent[g] <= Blocks[name[g]]
      /\ \A f \in Served : Blocks[f] \in Nat
  BY BlocksAssumption DEF PoolInv, TypeOK, FileTypeOK, Labels, Served
<1>1. /\ UNCHANGED <<server, armed, clientVars, netVars, socket, queue, mpc, accepted, underflowed>>
      /\ socket[w] # None => ~Live(socket[w])
  BY DEF ReadFails, WriteNowhere, CloseNothing, OpenFile, EndOfFile, Live
<1>2. /\ hpc' \in [Handlers -> Labels] /\ name' \in [Handlers -> Files \cup {None}]
      /\ sent' \in [Handlers -> Nat]
      /\ \A g \in Handlers : g # w => UNCHANGED <<hpc[g], name[g], sent[g]>>
      /\ hpc'[w] \in {"open", "send", "close", "test"}
      /\ hpc'[w] = "send" => name'[w] \in Served /\ sent'[w] <= Blocks[name'[w]]
      /\ hpc'[w] = "close" => name'[w] \in Served /\ sent'[w] = Blocks[name'[w]]
      /\ hpc'[w] = "test" => socket[w] = None
  <2>1. CASE ReadFails(w)
    BY <1>0, <2>1 DEF ReadFails, Labels
  <2>2. CASE WriteNowhere(w)
    BY <1>0, <2>2 DEF WriteNowhere, Labels
  <2>3. CASE CloseNothing(w)
    BY <1>0, <2>3 DEF CloseNothing, Labels
  <2>4. CASE OpenFile(w)
    BY <1>0, <2>4 DEF OpenFile, Labels
  <2>5. CASE EndOfFile(w)
    BY <1>0, <2>5 DEF EndOfFile, Labels
  <2> QED BY <2>1, <2>2, <2>3, <2>4, <2>5
<1>3. TypeOK'
  <2>1. \A g \in Handlers : hpc'[g] = "send" => name'[g] \in Served /\ sent'[g] <= Blocks[name'[g]]
    BY <1>0, <1>2
  <2> QED BY <1>1, <1>2, <2>1 DEF PoolInv, TypeOK, FileTypeOK, Labels, clientVars, netVars
<1>4. QueueInv'
  BY <1>0, <1>1, <1>2 DEF PoolInv, QueueInv, OnQ
<1>5. UNCHANGED Held
  BY <1>1 DEF Held, OnQ
<1>6. PrefixInv'
  <2>1. \A d \in Copiers : CopierPrefix(d)'
    BY <1>1, OtherPrefix DEF PoolInv, PrefixInv, clientVars, netVars
  <2>2. AllSent'
    BY <1>2 DEF PoolInv, PrefixInv, AllSent
  <2> QED BY <2>1, <2>2 DEF PrefixInv
<1> QED BY <1>1, <1>2, <1>3, <1>4, <1>5, <1>6, PoolQuiet

LEMMA HandleStep ==
    ASSUME PoolInv, NEW w \in Handlers, socket[w] # None, HandleRequest(w, "test"),
           UNCHANGED poolVars
    PROVE  PoolInv' /\ ServiceStep
<1> USE DEF HandlerAt, HandlerGoto, poolVars
<1>1. /\ FileTypeOK /\ hpc \in [Handlers -> Labels] /\ "test" # "send"
      /\ "test" \in {"lock", "exited", "test"} /\ socket[w] \in Copiers
      /\ socket \in [Handlers -> Copiers \cup {None}]
      /\ hung \in [Copiers -> BOOLEAN]
  BY DEF PoolInv, TypeOK, FileTypeOK, Labels
<1>2. /\ \/ UNCHANGED <<hpc, socket, hung>>
         \/ /\ \E to \in {"open", "send", "close"} : hpc' = [hpc EXCEPT ![w] = to]
            /\ UNCHANGED <<socket, hung>>
         \/ /\ hpc' = [hpc EXCEPT ![w] = "test"] /\ socket' = [socket EXCEPT ![w] = None]
            /\ hung' = [hung EXCEPT ![socket[w]] = TRUE]
      /\ UNCHANGED <<backlog, cpc>>
  BY DEF HandleRequest, ReadRequest, ReadNothing, OpenFails, OpenFile, SendBlock,
         SendLost, SendKills, EndOfFile, CloseSocket, ServerExits, handlerVars, netVars,
         clientVars
<1>3. /\ hpc' \in [Handlers -> Labels]
      /\ \A g \in Handlers : hpc'[g] \in {"test", "take"} => socket'[g] = None
      /\ \A g \in Handlers : socket'[g] = socket[g] \/ hung'[socket[g]]
      /\ \A c \in Copiers : hung[c] => hung'[c]
  <2>1. \A g \in Handlers : hpc[g] \in {"test", "take"} => socket[g] = None
    BY DEF PoolInv, QueueInv
  <2>2. CASE UNCHANGED <<hpc, socket, hung>>
    BY <1>1, <2>1, <2>2
  <2>3. ASSUME NEW to \in {"open", "send", "close"},
               hpc' = [hpc EXCEPT ![w] = to], UNCHANGED <<socket, hung>>
        PROVE  <1>3!1 /\ <1>3!2 /\ <1>3!3 /\ <1>3!4
    BY <1>1, <2>1, <2>3 DEF Labels
  <2>4. CASE /\ hpc' = [hpc EXCEPT ![w] = "test"] /\ socket' = [socket EXCEPT ![w] = None]
             /\ hung' = [hung EXCEPT ![socket[w]] = TRUE]
    BY <1>1, <2>1, <2>4 DEF Labels
  <2> QED BY <1>2, <2>2, <2>3, <2>4
<1>4. FileTypeOK'
  BY <1>1, HandlerTypes
<1>5. TypeOK' /\ QueueInv'
  BY <1>3, <1>4 DEF PoolInv, TypeOK, QueueInv, OnQ, Labels
<1>6. UNCHANGED Held
  BY DEF Held, OnQ
<1>7. NotLost'
  BY <1>2, <1>3, <1>6 DEF PoolInv, NotLost, Queued
<1> PICK W : W = Held
  OBVIOUS
<1>8. W \subseteq Copiers /\ ConnInv(W) /\ TransferInv(W) /\ PrefixInv
  BY <1>6, HeldStays, HeldType DEF PoolInv
<1>9. ConnInv(W)'
  BY <1>1, <1>8, HandlerConns
<1>10. TransferInv(W)'
  BY <1>1, <1>8, HandlerMoves
<1>11. PrefixInv'
  BY <1>1, <1>8, HandlerKeepsPrefix
<1> QED BY <1>5, <1>6, <1>7, <1>9, <1>10, <1>11, HeldStays, HandlerImplements DEF PoolInv

\* The server ends or starts to listen, or nothing happens.
LEMMA ServerStep ==
    ASSUME PoolInv, UNCHANGED <<clientVars, netVars, handlerVars, poolVars>>,
           server' \in {"starting", "up", "down"}, armed' \in BOOLEAN,
           server # "down" \/ UNCHANGED server
    PROVE  PoolInv' /\ ServiceStep
<1> USE DEF poolVars
<1>1. TypeOK'
  BY ServerTypes DEF PoolInv, TypeOK, handlerVars
<1>2. QueueInv' /\ NotLost' /\ UNCHANGED Held
  BY DEF PoolInv, QueueInv, NotLost, Held, OnQ, Queued, handlerVars, netVars, clientVars
<1> PICK W : W = Held
  OBVIOUS
<1>3. ConnInv(W) /\ TransferInv(W) /\ PrefixInv
  BY <1>2, HeldStays DEF PoolInv
<1> USE DEF clientVars, netVars, handlerVars
<1>4. ConnInv(W)'
  BY <1>3 DEF ConnInv, HandlersApart, QueuedOnce, NotInUse, Queued
<1>5. TransferInv(W)'
  <2>1. Queued' = Queued /\ \A c : (Live(c)' => Live(c)) /\ (Clean(c)' <=> Clean(c))
    BY DEF Live, Clean, Queued
  <2>2. CopierData'
    BY <1>3, <2>1 DEF TransferInv, CopierData
  <2>3. WaitingData(W)'
    BY <1>3, <2>1 DEF TransferInv, WaitingData
  <2>4. HandlerData'
    BY <1>3, <2>1 DEF TransferInv, HandlerData
  <2> QED BY <2>2, <2>3, <2>4 DEF TransferInv
<1>6. PrefixInv'
  <2>1. ASSUME NEW c \in Copiers PROVE CopierPrefix(c)'
    <3>1. CopierPrefix(c)
      BY <1>3 DEF PrefixInv
    <3> QED BY <3>1 DEF CopierPrefix, UnderWay
  <2> QED BY <1>3, <2>1 DEF PrefixInv, AllSent
<1> QED BY <1>1, <1>2, <1>4, <1>5, <1>6, HeldStays, ServerImplements DEF PoolInv

LEMMA ClientStep ==
    ASSUME PoolInv, UNCHANGED poolVars,
           \/ \E c \in Copiers : CopierStep(c)
           \/ \E p \in Clients : Interrupt(p)
    PROVE  PoolInv' /\ ServiceStep
<1> USE DEF poolVars
<1>1. UNCHANGED handlerVars
  BY DEF CopierStep, Connect, ConnectRefused, Request, RequestFails, Receive, EndOfCopy, Interrupt
<1>2. QueueInv' /\ UNCHANGED Held
  BY <1>1 DEF PoolInv, QueueInv, Held, OnQ, handlerVars
<1>3. NotLost'
  <2>1. ASSUME NEW c \in Copiers, Connect(c) PROVE NotLost'
    <3>1. /\ backlog' = Append(backlog, c) /\ hung' = [hung EXCEPT ![c] = FALSE]
          /\ cpc' = [cpc EXCEPT ![c] = "request"] /\ backlog \in Seq(Copiers)
          /\ cpc \in [Copiers -> {"connect", "request", "receive"}] /\ hung \in [Copiers -> BOOLEAN]
      BY <2>1 DEF Connect, CopierGoto, PoolInv, TypeOK, FileTypeOK
    <3>2. /\ Len(backlog') = Len(backlog) + 1 /\ Len(backlog) \in Nat
          /\ \A i \in 1..Len(backlog) : backlog'[i] = backlog[i]
          /\ backlog'[Len(backlog) + 1] = c
      BY <3>1
    <3>3. Queued \cup {c} \subseteq Queued'
      <4>1. \A i \in 1..Len(backlog) : backlog[i] \in Queued'
        BY <3>2 DEF Queued
      <4>2. c \in Queued'
        BY <3>2 DEF Queued
      <4> QED BY <4>1, <4>2 DEF Queued
    <3> QED BY <1>1, <1>2, <3>1, <3>3 DEF PoolInv, NotLost, handlerVars
  <2>2. ASSUME NEW c \in Copiers, \/ ConnectRefused(c) \/ Request(c) \/ RequestFails(c)
                                  \/ Receive(c) \/ EndOfCopy(c)
        PROVE NotLost'
    <3>1. /\ UNCHANGED <<backlog, hung>>
          /\ \A d \in Copiers : cpc'[d] # "connect" => cpc[d] # "connect"
      BY <2>2 DEF ConnectRefused, Request, RequestFails, Receive, EndOfCopy, CopierAt, CopierGoto,
                  PoolInv, TypeOK, FileTypeOK
    <3> QED BY <1>1, <1>2, <3>1 DEF PoolInv, NotLost, Queued, handlerVars
  <2>3. ASSUME NEW p \in Clients, Interrupt(p) PROVE NotLost'
    BY <1>2, <2>3 DEF Interrupt, PoolInv, NotLost, Queued, handlerVars
  <2> QED BY <2>1, <2>2, <2>3 DEF CopierStep
<1> PICK W : W = Held
  OBVIOUS
<1>4. W \subseteq Copiers /\ ConnInv(W) /\ TransferInv(W) /\ FileTypeOK /\ PrefixInv
  BY <1>2, HeldStays, HeldType DEF PoolInv, TypeOK
<1>5. FileTypeOK' /\ ConnInv(W)' /\ TransferInv(W)' /\ PrefixInv' /\ ServiceStep
  <2>1. CASE \E c \in Copiers : CopierStep(c)
    BY <1>4, <2>1, CopierTypes, CopierConns, CopierMoves, CopierKeepsPrefix, CopierImplements
  <2>2. CASE \E p \in Clients : Interrupt(p)
    <3>1. ConnInv(W)'
      BY <1>4, <2>2, ConnStays DEF Interrupt, handlerVars
    <3> QED BY <1>4, <2>2, <3>1, ExitTypes, ExitData, ExitPrefix, ExitImplements DEF Interrupt
  <2> QED BY <2>1, <2>2
<1>6. TypeOK'
  BY <1>1, <1>5 DEF PoolInv, TypeOK, handlerVars
<1> QED BY <1>2, <1>3, <1>5, <1>6, HeldStays DEF PoolInv

LEMMA StepOK == PoolInv /\ [Next]_vars => PoolInv' /\ ServiceStep
<1> SUFFICES ASSUME PoolInv, [Next]_vars PROVE PoolInv' /\ ServiceStep
  OBVIOUS
<1>0. /\ server \in {"starting", "up", "down"} /\ armed \in BOOLEAN
  BY DEF PoolInv, TypeOK, FileTypeOK
<1>1. CASE MainStep \/ AcceptFails
  BY <1>1, ArmStep, AcceptStep, PutStep DEF MainStep
<1>2. ASSUME NEW w \in Handlers, Worker(w) PROVE PoolInv' /\ ServiceStep
  <2>1. CASE Test(w) \/ Underflow(w)
    BY <2>1, TestStep
  <2>2. CASE Take(w)
    BY <2>2, TakeStep
  <2>3. CASE ReadFails(w) \/ WriteNowhere(w) \/ CloseNothing(w)
    BY <2>3, BadSocketStep
  <2>4. CASE Handle(w)
    <3>1. CASE socket[w] # None /\ HandleRequest(w, "test") /\ UNCHANGED poolVars
      BY <3>1, HandleStep
    <3>2. CASE socket[w] = None /\ (OpenFile(w) \/ EndOfFile(w)) /\ UNCHANGED poolVars
      BY <3>2, BadSocketStep
    <3>3. CASE socket[w] = None /\ OpenFails(w) /\ UNCHANGED poolVars
      BY <1>0, <3>3, ServerStep DEF OpenFails, ServerExits, HandlerAt
    <3> QED BY <2>4, <3>1, <3>2, <3>3 DEF Handle
  <2> QED BY <1>2, <2>1, <2>2, <2>3, <2>4 DEF Worker
<1>3. CASE World
  <2>1. CASE (Listen \/ TimeOut) /\ UNCHANGED poolVars
    BY <1>0, <2>1, ServerStep DEF Listen, TimeOut, ServerExits
  <2>2. CASE /\ (\E c \in Copiers : CopierStep(c)) \/ \E p \in Clients : Interrupt(p)
             /\ UNCHANGED poolVars
    BY <2>2, ClientStep
  <2> QED BY <1>3, <2>1, <2>2 DEF World
<1>4. CASE UNCHANGED vars
  BY <1>0, <1>4, ServerStep DEF vars
<1> QED BY <1>1, <1>2, <1>3, <1>4 DEF Next, Pool

LEMMA InitOK == Init => PoolInv /\ Service!Init
<1> SUFFICES ASSUME Init PROVE PoolInv
  BY InitImplements DEF Init
<1> USE DEF Init, FileInit
<1>1. /\ Len(Plan) \in Nat /\ 1 \in 1..Len(Plan)+1
      /\ <<>> \in Seq(Files \X Nat) /\ <<>> \in Seq(Copiers) /\ <<>> \in Seq(Copiers \cup {None})
      /\ Len(queue) = 0 /\ Len(backlog) = 0 /\ QSize \in Nat
  BY PlanAssumption, PoolAssumption
<1>2. FileTypeOK
  BY <1>1 DEF FileTypeOK
<1>3. TypeOK
  <2>1. hpc \in [Handlers -> Labels]
    BY DEF Labels
  <2>2. queue \in Seq(Copiers \cup {None}) /\ Len(queue) <= QSize
    BY <1>1
  <2> QED BY <1>2, <2>1, <2>2 DEF TypeOK, Labels
<1>4. Queued = {} /\ OnQ = {} /\ Held = {}
  BY <1>1 DEF Held, OnQ, Queued
<1>5. QueueInv /\ NotLost /\ PrefixInv
  <2>1. QueueInv
    BY <1>1, <1>4 DEF QueueInv
  <2>2. NotLost
    BY DEF NotLost
  <2>3. FileInit /\ \A h \in Handlers : hpc[h] # "close"
    OBVIOUS
  <2>4. PrefixInv
    BY <2>3, PrefixInit
  <2> QED BY <2>1, <2>2, <2>4
<1>6. ConnInv(Held)
  BY <1>1, <1>4, PlanAssumption DEF ConnInv, HandlersApart, QueuedOnce, NotInUse
<1>7. TransferInv(Held)
  BY <1>1, <1>4 DEF TransferInv, CopierData, WaitingData, HandlerData, Clean
<1> QED BY <1>3, <1>5, <1>6, <1>7 DEF PoolInv

LEMMA PoolInvAlways == Spec => []PoolInv
BY InitOK, StepOK, PTL DEF Spec

-----------------------------------------------------------------------------
(* In how many places a connection is.                                     *)

LEMMA OneOrNone ==
    ASSUME NEW S, \A x, y \in S : x = y
    PROVE  Cardinality(S) = IF S = {} THEN 0 ELSE 1
<1>1. CASE S = {}
  BY <1>1, FS_EmptySet
<1>2. CASE S # {}
  <2>1. PICK x : x \in S
    BY <1>2
  <2>2. S = {x}
    BY <2>1
  <2> QED BY <1>2, <2>2, FS_Singleton
<1> QED BY <1>1, <1>2

LEMMA PlacesCounted ==
    ASSUME PoolInv, NEW c \in Copiers
    PROVE  Places(c) = (IF c \in Queued THEN 1 ELSE 0) + (IF accepted = c THEN 1 ELSE 0)
                       + (IF c \in OnQ THEN 1 ELSE 0)
                       + (IF \E w \in Handlers : socket[w] = c THEN 1 ELSE 0)
<1>0. /\ c # None /\ DOMAIN backlog = 1..Len(backlog) /\ DOMAIN queue = 1..Len(queue)
  BY PlanAssumption DEF PoolInv, TypeOK, FileTypeOK
<1>1. Cardinality({i \in DOMAIN backlog : backlog[i] = c}) = IF c \in Queued THEN 1 ELSE 0
  <2>1. \A i, j \in {k \in DOMAIN backlog : backlog[k] = c} : i = j
    BY <1>0 DEF PoolInv, ConnInv, QueuedOnce
  <2>2. {k \in DOMAIN backlog : backlog[k] = c} = {} <=> c \notin Queued
    BY <1>0 DEF Queued
  <2> QED BY <2>1, <2>2, OneOrNone
<1>2. Cardinality({i \in DOMAIN queue : queue[i] = c}) = IF c \in OnQ THEN 1 ELSE 0
  <2>1. \A i, j \in {k \in DOMAIN queue : queue[k] = c} : i = j
    BY <1>0 DEF PoolInv, QueueInv
  <2>2. {k \in DOMAIN queue : queue[k] = c} = {} <=> c \notin OnQ
    BY <1>0 DEF OnQ
  <2> QED BY <2>1, <2>2, OneOrNone
<1>3. Cardinality({w \in Handlers : socket[w] = c})
        = IF \E w \in Handlers : socket[w] = c THEN 1 ELSE 0
  <2>1. \A v, w \in {u \in Handlers : socket[u] = c} : v = w
    BY <1>0 DEF PoolInv, ConnInv, HandlersApart
  <2>2. {u \in Handlers : socket[u] = c} = {} <=> ~\E w \in Handlers : socket[w] = c
    OBVIOUS
  <2> QED BY <2>1, <2>2, OneOrNone
<1> QED BY <1>1, <1>2, <1>3 DEF Places

\* With any number of workers and clients and up to the first take from the
\* empty queue, a connection that is not closed is in one place - the backlog,
\* main's hand, the queue or one worker - and one that is closed in none: as
\* long as getOffQ finds something, it and putOnQ lose and repeat nothing
\* (lines 28-52, 113, 139-149).
THEOREM OnePlaceAlways == Spec => []OnePlace
<1>1. PoolInv => OnePlace
  <2> SUFFICES ASSUME PoolInv, NEW c \in Copiers, Connected(c)
               PROVE  Places(c) = IF hung[c] THEN 0 ELSE 1
    BY DEF OnePlace
  <2>0. c # None /\ (c \in Held <=> accepted = c \/ c \in OnQ)
    BY PlanAssumption DEF Held
  <2>1. CASE hung[c]
    <3>1. c \notin Queued /\ accepted # c /\ c \notin OnQ /\ ~\E w \in Handlers : socket[w] = c
      BY <2>0, <2>1 DEF PoolInv, ConnInv, QueuedOnce, HandlersApart
    <3> QED BY <2>1, <3>1, PlacesCounted
  <2>2. CASE ~hung[c]
    <3>1. c \in Queued \/ accepted = c \/ c \in OnQ \/ \E w \in Handlers : socket[w] = c
      BY <2>0, <2>2 DEF Connected, PoolInv, NotLost
    <3>2. /\ c \in Queued => accepted # c /\ c \notin OnQ /\ ~\E w \in Handlers : socket[w] = c
          /\ accepted = c => c \notin OnQ /\ ~\E w \in Handlers : socket[w] = c
          /\ c \in OnQ => ~\E w \in Handlers : socket[w] = c
      BY <2>0 DEF PoolInv, ConnInv, QueuedOnce, HandlersApart, QueueInv
    <3> QED BY <2>2, <3>1, <3>2, PlacesCounted
  <2> QED BY <2>1, <2>2
<1> QED BY <1>1, PoolInvAlways, PTL

\* The variables of the pool server keep their types, a -1 on the queue and
\* whatever name a failed read() left included.
THEOREM TypeCorrect == Spec => []TypeOK
<1>1. PoolInv => TypeOK
  BY DEF PoolInv
<1> QED BY <1>1, PoolInvAlways, PTL

\* Up to the first take from the empty queue, what a worker has sent is, in
\* order and without a gap, what the client has read, of which its file has all
\* that its own open() and write() did not lose, followed by what is on the way;
\* and it is of the file the client asked for (lines 85-114, client.c 69-116).
THEOREM NothingLostOrRepeatedAlways == Spec => []NothingLostOrRepeated
<1>1. PoolInv => NothingLostOrRepeated
  BY DEF PoolInv, TransferInv, HandlerData, NothingLostOrRepeated, Connected, Live, FirstBlocks,
         TypeOK, FileTypeOK
<1> QED BY <1>1, PoolInvAlways, PTL

\* Every step of the pool, its queue and its clients up to the first take from
\* the empty queue is a step of the copying service, or one it takes no notice
\* of: also beside workers that handle -1 a local file is a beginning of the
\* file asked for but for the blocks the client's own open() or write() lost,
\* and ends early only after the server has ended.
THEOREM StepsImplementCopyService == Spec => StepsOfService
BY InitOK, StepOK, PTL DEF Spec, StepsOfService, ServiceStep
=============================================================================
