---------------------------- MODULE SerialProofs ----------------------------
(***************************************************************************)
(* The semaphores of the serial interface driver match its buffers, for    *)
(* any number of tasks, any characters, and buffers of any size.           *)
(*                                                                         *)
(* TokensOK is not inductive.  IInv adds where a task may be while it waits*)
(* for a semaphore, that a semaphore with waiters has no count, that the   *)
(* send buffer does not overflow, that a right which is gone is nowhere    *)
(* else, and that a closed port is quiet.  It says without cardinalities   *)
(* who has the right to send and to receive, so that a step is a question  *)
(* about sets; the lemma Counts brings the counts back.                    *)
(***************************************************************************)
EXTENDS SerialProperties, FiniteSetTheorems, SequenceTheorems, TLAPS

Char == CHAR \cup PEERSENDS \cup {"CR", "LF", "NUL", "START", "STOP"}

Semaphore == [semcnt : {0, 1}, wait_queue : Seq(TSK)]

Port == [openFlag : BOOLEAN, errorFlag : BOOLEAN,
         ioControl : SUBSET {"ECHO", "CRLF", "FCSND", "FCANY", "FCRCV"},
         receive : Seq(Char), receiveFlowControl : Char, receiveStopped : BOOLEAN,
         send : Seq(Char), sendStopped : BOOLEAN]

PC == {"idle", "wait_send", "wait_receive", "put", "put_lf", "wait_send_lf",
       "signal_send", "get", "signal_receive"}

Task == [pc : PC, op : {"none", "write", "read"}, left : Int, c : Char,
         empty : BOOLEAN]

Types ==
    /\ port \in Port
    /\ SendSemaphore \in Semaphore
    /\ ReceiveSemaphore \in Semaphore
    /\ rxreg \in Char
    /\ task \in [TSK -> Task]

-----------------------------------------------------------------------------
(* Semaphores.                                                             *)

Waiting(sem) == ToSet(sem.wait_queue)

(* Nobody waits twice, and nobody waits for a semaphore with a count.      *)
SemaphoreOK(sem) ==
    /\ sem \in Semaphore
    /\ \A i, j \in 1 .. Len(sem.wait_queue) :
          sem.wait_queue[i] = sem.wait_queue[j] => i = j
    /\ sem.semcnt = 1 => sem.wait_queue = <<>>

(* A semaphore after initialization or ini_sem.                            *)
LEMMA NewSemaphore ==
    ASSUME NEW n \in {0, 1}
    PROVE  SemaphoreOK(new_sem(n)) /\ new_sem(n).semcnt = n /\ Waiting(new_sem(n)) = {}
BY DEF SemaphoreOK, Semaphore, new_sem, Waiting, ToSet

(* The tasks that wait are those of the queue.                             *)
LEMMA NobodyWaits ==
    ASSUME NEW sem, SemaphoreOK(sem)
    PROVE  Waiting(sem) = {} <=> sem.wait_queue = <<>>
BY DEF SemaphoreOK, Semaphore, Waiting, ToSet

(* Waiting takes the count or puts the task among those who wait.          *)
LEMMA WaitEffect ==
    ASSUME NEW sem, SemaphoreOK(sem), NEW t \in TSK, t \notin Waiting(sem)
    PROVE  /\ SemaphoreOK(wait(sem, t))
           /\ wait(sem, t).semcnt = 0
           /\ Waiting(wait(sem, t)) =
                 IF sem.semcnt = 1 THEN Waiting(sem) ELSE Waiting(sem) \cup {t}
<1> USE DEF SemaphoreOK, Semaphore
<1> DEFINE q == sem.wait_queue
<1>1. CASE sem.semcnt = 1
  BY <1>1 DEF wait, Waiting, ToSet
<1>2. CASE sem.semcnt = 0
  <2>1. wait(sem, t) = [semcnt |-> 0, wait_queue |-> Append(q, t)]
    BY <1>2 DEF wait
  <2>2. /\ Append(q, t) \in Seq(TSK)
        /\ Len(Append(q, t)) = Len(q) + 1
        /\ \A i \in 1 .. Len(q) : Append(q, t)[i] = q[i]
        /\ Append(q, t)[Len(q) + 1] = t
    BY AppendProperties
  <2>3. \A i \in 1 .. Len(q) : q[i] # t
    BY DEF Waiting, ToSet
  <2>4. DOMAIN q = 1 .. Len(q) /\ DOMAIN Append(q, t) = 1 .. Len(q) + 1 /\ Len(q) \in Nat
    BY <2>2
  <2>5. ToSet(Append(q, t)) = ToSet(q) \cup {t}
    BY <2>2, <2>4 DEF ToSet
  <2>6. SemaphoreOK(wait(sem, t))
    BY <2>1, <2>2, <2>3, <2>4
  <2> QED BY <1>2, <2>1, <2>5, <2>6 DEF Waiting
<1> QED BY <1>1, <1>2

(* Signalling gives the count back or lets one of those who wait go on.    *)
LEMMA SignalEffect ==
    ASSUME NEW sem, SemaphoreOK(sem)
    PROVE  /\ SemaphoreOK(signal(sem))
           /\ \/ /\ Waiting(sem) = {} /\ Waiting(signal(sem)) = {}
                 /\ signal(sem).semcnt = 1
              \/ /\ signal(sem).semcnt = 0
                 /\ \E u \in Waiting(sem) : Waiting(signal(sem)) = Waiting(sem) \ {u}
<1> USE DEF SemaphoreOK, Semaphore
<1> DEFINE q == sem.wait_queue
<1>1. CASE q = <<>>
  BY <1>1 DEF signal, Waiting, ToSet
<1>2. CASE q # <<>>
  <2>1. signal(sem) = [semcnt |-> 0, wait_queue |-> Tail(q)]
    BY <1>2 DEF signal
  <2>2. /\ Tail(q) \in Seq(TSK)
        /\ Len(Tail(q)) = Len(q) - 1
        /\ \A i \in 1 .. Len(Tail(q)) : Tail(q)[i] = q[i + 1]
    BY <1>2, HeadTailProperties
  <2>3. DOMAIN q = 1 .. Len(q) /\ DOMAIN Tail(q) = 1 .. Len(q) - 1 /\ Len(q) \in Nat \ {0}
    BY <1>2, <2>2
  <2>4. ToSet(Tail(q)) = ToSet(q) \ {q[1]}
    <3>1. ASSUME NEW x \in ToSet(Tail(q)) PROVE x \in ToSet(q) \ {q[1]}
      BY <2>2, <2>3 DEF ToSet
    <3>2. ASSUME NEW x \in ToSet(q) \ {q[1]} PROVE x \in ToSet(Tail(q))
      <4>1. PICK i \in 1 .. Len(q) : x = q[i]
        BY <2>3 DEF ToSet
      <4>2. i - 1 \in 1 .. Len(Tail(q)) /\ x = Tail(q)[i - 1]
        BY <3>2, <4>1, <2>2, <2>3
      <4> QED BY <4>2, <2>2, <2>3 DEF ToSet
    <3> QED BY <3>1, <3>2
  <2>5. q[1] \in Waiting(sem)
    BY <2>3 DEF Waiting, ToSet
  <2>6. SemaphoreOK(signal(sem))
    BY <2>1, <2>2, <2>3
  <2> QED BY <2>1, <2>4, <2>5, <2>6 DEF Waiting
<1> QED BY <1>1, <1>2

(* A task taken out of a queue in which nobody waits twice.                *)
LEMMA RemovedOnce ==
    ASSUME NEW q \in Seq(TSK), NEW k \in 1 .. Len(q),
           \A i, j \in 1 .. Len(q) : q[i] = q[j] => i = j
    PROVE  LET r == RemoveFirst(q, q[k]) IN
           /\ r \in Seq(TSK) /\ Len(r) = Len(q) - 1
           /\ \A i \in 1 .. Len(q) - 1 : r[i] = IF i < k THEN q[i] ELSE q[i + 1]
<1> DEFINE a == SubSeq(q, 1, k - 1)
           b == SubSeq(q, k + 1, Len(q))
<1>1. RemoveFirst(q, q[k]) = a \o b
  <2>1. {i \in 1 .. Len(q) : q[i] = q[k]} = {k}
    OBVIOUS
  <2>2. Min({k}) = k
    BY DEF Min
  <2>3. SelectInSeq(q, LAMBDA v : v = q[k]) = k
    BY <2>1, <2>2 DEF SelectInSeq
  <2> QED BY <2>3 DEF RemoveFirst, RemoveAt
<1>2. /\ a \in Seq(TSK) /\ Len(a) = k - 1
      /\ \A i \in 1 .. k - 1 : a[i] = q[i]
  OBVIOUS
<1>3. /\ b \in Seq(TSK) /\ Len(b) = Len(q) - k
      /\ \A i \in 1 .. Len(q) - k : b[i] = q[k + i]
  OBVIOUS
<1> HIDE DEF a, b
<1>4. a \o b \in Seq(TSK) /\ Len(a \o b) = Len(a) + Len(b)
  BY <1>2, <1>3, ConcatProperties
<1>5. Len(a) + Len(b) = Len(q) - 1
  BY <1>2, <1>3
<1>6. ASSUME NEW i \in 1 .. Len(q) - 1
      PROVE  (a \o b)[i] = IF i < k THEN q[i] ELSE q[i + 1]
  <2>1. (a \o b)[i] = IF i <= Len(a) THEN a[i] ELSE b[i - Len(a)]
    BY <1>2, <1>3, <1>4, <1>5, ConcatProperties
  <2>2. CASE i < k
    BY <1>2, <2>1, <2>2
  <2>3. CASE ~(i < k)
    <3>1. i - Len(a) \in 1 .. Len(q) - k /\ ~(i <= Len(a)) /\ k + (i - Len(a)) = i + 1
      BY <1>2, <2>3
    <3> QED BY <1>3, <2>1, <2>3, <3>1
  <2> QED BY <2>2, <2>3
<1> QED BY <1>1, <1>4, <1>5, <1>6

(* A wait that is broken off leaves the count and the others alone.        *)
LEMMA CancelEffect ==
    ASSUME NEW sem, SemaphoreOK(sem), NEW t \in TSK
    PROVE  /\ SemaphoreOK(cancel(sem, t))
           /\ cancel(sem, t).semcnt = sem.semcnt
           /\ Waiting(cancel(sem, t)) = Waiting(sem) \ {t}
<1> USE DEF SemaphoreOK, Semaphore
<1> DEFINE q == sem.wait_queue
           r == RemoveFirst(q, t)
<1>1. cancel(sem, t) = [semcnt |-> sem.semcnt, wait_queue |-> r]
  BY DEF cancel
<1>2. DOMAIN q = 1 .. Len(q) /\ Len(q) \in Nat
  OBVIOUS
<1>3. CASE t \notin Waiting(sem)
  <2>1. ~ \E i \in 1 .. Len(q) : q[i] = t
    BY <1>2, <1>3 DEF Waiting, ToSet
  <2>2. r = q
    BY <2>1 DEF RemoveFirst
  <2>3. cancel(sem, t) = sem
    BY <1>1, <2>2
  <2> QED BY <1>3, <2>3
<1>4. ASSUME NEW k \in 1 .. Len(q), q[k] = t
      PROVE  /\ SemaphoreOK(cancel(sem, t))
             /\ cancel(sem, t).semcnt = sem.semcnt
             /\ Waiting(cancel(sem, t)) = Waiting(sem) \ {t}
  <2>1. /\ r \in Seq(TSK) /\ Len(r) = Len(q) - 1
        /\ \A i \in 1 .. Len(q) - 1 : r[i] = IF i < k THEN q[i] ELSE q[i + 1]
    BY <1>4, RemovedOnce
  <2> HIDE DEF r
  <2>2. DOMAIN r = 1 .. Len(q) - 1
    BY <2>1
  <2>3. \A i, j \in 1 .. Len(r) : r[i] = r[j] => i = j
    BY <1>2, <2>1
  <2>4. ToSet(r) = ToSet(q) \ {t}
    <3>1. ASSUME NEW x \in ToSet(r) PROVE x \in ToSet(q) \ {t}
      <4>1. PICK i \in 1 .. Len(q) - 1 : x = r[i]
        BY <2>2 DEF ToSet
      <4>2. PICK j \in 1 .. Len(q) : x = q[j] /\ j # k
        BY <1>2, <2>1, <4>1
      <4> QED BY <1>2, <1>4, <4>2 DEF ToSet
    <3>2. ASSUME NEW x \in ToSet(q) \ {t} PROVE x \in ToSet(r)
      <4>1. PICK j \in 1 .. Len(q) : x = q[j]
        BY <1>2 DEF ToSet
      <4>2. j # k
        BY <1>4, <3>2, <4>1
      <4>3. PICK i \in 1 .. Len(q) - 1 : x = r[i]
        <5>1. CASE j < k
          BY <1>2, <2>1, <4>1, <5>1
        <5>2. CASE j > k
          <6>1. j - 1 \in 1 .. Len(q) - 1 /\ ~(j - 1 < k) /\ (j - 1) + 1 = j
            BY <1>2, <5>2
          <6> QED BY <2>1, <4>1, <6>1
        <5> QED BY <4>2, <5>1, <5>2
      <4> QED BY <2>2, <4>3 DEF ToSet
    <3> QED BY <3>1, <3>2
  <2>5. sem.semcnt # 1
    BY <1>2, <1>4
  <2> QED BY <1>1, <2>1, <2>3, <2>4, <2>5 DEF Waiting
<1>5. t \in Waiting(sem) => \E k \in 1 .. Len(q) : q[k] = t
  BY <1>2 DEF Waiting, ToSet
<1> QED BY <1>3, <1>4, <1>5

-----------------------------------------------------------------------------
(* The inductive invariant.                                                *)

Sends(self) == self.pc \in {"put", "put_lf", "signal_send"}

Receives(self) == self.pc = "get" \/ ~self.empty

(* What a task may wait for, and what it is there for, at each place.      *)
SelfOK(self) ==
    /\ self.pc = "idle" <=> self.op = "none"
    /\ self.pc \in {"wait_receive", "get", "signal_receive"} => self.op = "read"
    /\ self.pc = "signal_receive" => ~self.empty
    /\ self.pc = "wait_receive" => self.empty
    /\ self.op # "read" => self.empty

TasksOK ==
    \A t \in TSK :
       /\ SelfOK(task[t])
       /\ t \in Waiting(SendSemaphore) => task[t].pc \in {"put", "put_lf"}
       /\ t \in Waiting(ReceiveSemaphore) => task[t].pc = "get"

Full == Len(port.send) = SENDSZ

OneSends ==
    /\ Len(port.send) <= SENDSZ
    /\ \A t, u \in Senders : t = u
    /\ Senders = {} <=> Full \/ SendSemaphore.semcnt = 1 \/ "send" \in abandoned
    /\ ~(Full /\ SendSemaphore.semcnt = 1)
    /\ "send" \in abandoned => ~Full /\ SendSemaphore.semcnt = 0

OneReceives ==
    /\ \A t, u \in Receivers : t = u
    /\ port.receive = <<>> =>
          Receivers = {} /\ ReceiveSemaphore.semcnt = 0 /\ "receive" \notin abandoned
    /\ port.receive # <<>> =>
          (Receivers = {} <=> ReceiveSemaphore.semcnt = 1 \/ "receive" \in abandoned)
    /\ "receive" \in abandoned => ReceiveSemaphore.semcnt = 0

Quiet ==
    /\ SendSemaphore.semcnt = 1 /\ ReceiveSemaphore.semcnt = 0
    /\ Waiting(SendSemaphore) = {} /\ Waiting(ReceiveSemaphore) = {}
    /\ sio = {} /\ abandoned = {}
    /\ \A t \in TSK : task[t].pc = "idle"

SemaphoresOK == SemaphoreOK(SendSemaphore) /\ SemaphoreOK(ReceiveSemaphore)

IInv ==
    /\ Types
    /\ SemaphoresOK
    /\ TasksOK
    /\ port.openFlag => OneSends /\ OneReceives /\ ~port.errorFlag
    /\ ~port.openFlag => Quiet

(* Senders and Receivers, before and after a step.                         *)
LEMMA SendersAre ==
    /\ Senders \subseteq TSK /\ Senders' \subseteq TSK
    /\ \A t \in TSK :
          /\ t \in Senders <=> Sends(task[t]) /\ t \notin Waiting(SendSemaphore)
          /\ t \in Senders' <=> Sends(task'[t]) /\ t \notin Waiting(SendSemaphore')
BY DEF Senders, MaySend, Sends, Waiting

(* The same for the receivers.                                             *)
LEMMA ReceiversAre ==
    /\ Receivers \subseteq TSK /\ Receivers' \subseteq TSK
    /\ \A t \in TSK :
          /\ t \in Receivers <=> Receives(task[t]) /\ t \notin Waiting(ReceiveSemaphore)
          /\ t \in Receivers' <=> Receives(task'[t]) /\ t \notin Waiting(ReceiveSemaphore')
BY DEF Receivers, MayReceive, Receives, Waiting

(* The counts of TokensOK are those of sets with at most one element.      *)
LEMMA Counts ==
    IInv => TokensOK
<1> SUFFICES ASSUME IInv, port.openFlag
             PROVE  /\ SendSemaphore.semcnt + Cardinality(Senders) + One(Len(port.send) = SENDSZ)
                          + One("send" \in abandoned) = 1
                    /\ ReceiveSemaphore.semcnt + Cardinality(Receivers)
                          + One("receive" \in abandoned) = One(port.receive # <<>>)
                    /\ ~port.errorFlag
  BY DEF TokensOK
<1>1. IsFiniteSet(Senders) /\ IsFiniteSet(Receivers)
  BY SerialPortAssumption, FS_Subset DEF Senders, MaySend, Receivers, MayReceive
<1>2. ASSUME NEW S, IsFiniteSet(S), \A t, u \in S : t = u
      PROVE  Cardinality(S) = IF S = {} THEN 0 ELSE 1
  <2>1. ASSUME NEW x \in S PROVE S = {x}
    BY <1>2
  <2> QED BY <2>1, FS_EmptySet, FS_Singleton
<1>3. /\ Cardinality(Senders) = IF Senders = {} THEN 0 ELSE 1
      /\ Cardinality(Receivers) = IF Receivers = {} THEN 0 ELSE 1
  BY <1>1, <1>2 DEF IInv, OneSends, OneReceives
<1>4. SendSemaphore.semcnt \in {0, 1} /\ ReceiveSemaphore.semcnt \in {0, 1}
  BY DEF IInv, Types, Semaphore
<1> QED BY <1>3, <1>4 DEF IInv, OneSends, OneReceives, Full, One

(* The invariant holds initially: the port is closed and quiet.            *)
LEMMA InitIInv ==
    Init => IInv
<1> SUFFICES ASSUME Init PROVE IInv
  OBVIOUS
<1>1. Types
  BY DEF Init, Types, Port, Char, Semaphore, new_sem, Task, PC, idle
<1>2. SemaphoresOK /\ Quiet
  BY NewSemaphore DEF Init, SemaphoresOK, Quiet, idle
<1>3. TasksOK
  BY <1>2 DEF Init, TasksOK, Quiet, SelfOK, idle
<1> QED BY <1>1, <1>2, <1>3 DEF Init, IInv

-----------------------------------------------------------------------------
(* The tasks.                                                              *)

(* serialPort_writeChar stores its character or hands it to the SCIF.      *)
LEMMA PutMoves ==
    ASSUME NEW t \in TSK, NEW c, NEW after, Put(t, c, after)
    PROVE  /\ \E full \in BOOLEAN : \E self \in after[full] :
                 /\ task' = [task EXCEPT ![t] = self]
                 /\ \/ ~full /\ port' = port
                    \/ /\ port' = [port EXCEPT !.send = Append(port.send, c)]
                       /\ full <=> Len(Append(port.send, c)) = SENDSZ
           /\ UNCHANGED <<SendSemaphore, ReceiveSemaphore, rxreg, abandoned>>
<1> DEFINE stored == Append(port.send, c)
           store  == /\ port' = [port EXCEPT !.send = stored]
                     /\ \E self \in after[Len(stored) = SENDSZ] :
                           task' = [task EXCEPT ![t] = self]
           done   == /\ port' = port
                     /\ \E self \in after[FALSE] : task' = [task EXCEPT ![t] = self]
<1>1. store \/ done
  BY DEF Put, sendChar
<1>2. CASE done
  BY <1>2 DEF Put
<1>3. CASE store
  <2> DEFINE full == Len(stored) = SENDSZ
  <2>1. full \in BOOLEAN
    OBVIOUS
  <2> QED BY <1>3, <2>1 DEF Put
<1> QED BY <1>1, <1>2, <1>3

(* A task with the right to send keeps it unless its character has filled  *)
(* the buffer.                                                             *)
LEMMA SendStep ==
    ASSUME IInv, NEW t \in Senders, NEW c \in Char, NEW full \in BOOLEAN,
           NEW self \in Task, SelfOK(self),
           Sends(self) <=> ~full,
           Receives(self) <=> Receives(task[t]),
           task' = [task EXCEPT ![t] = self],
           \/ ~full /\ port' = port
           \/ /\ port' = [port EXCEPT !.send = Append(port.send, c)]
              /\ full <=> Len(Append(port.send, c)) = SENDSZ,
           UNCHANGED <<SendSemaphore, ReceiveSemaphore, rxreg, abandoned>>
    PROVE  IInv'
<1>1. /\ t \in TSK /\ Sends(task[t]) /\ t \notin Waiting(SendSemaphore)
      /\ t \notin Waiting(ReceiveSemaphore)
  BY SendersAre DEF IInv, TasksOK, Sends
<1>2. port.openFlag
  BY <1>1 DEF IInv, Quiet, Sends
<1>3. /\ ~Full /\ SendSemaphore.semcnt = 0 /\ Len(port.send) < SENDSZ
      /\ "send" \notin abandoned
  BY <1>2, SerialPortAssumption DEF IInv, OneSends, Full, Types, Port, Semaphore
<1>4. Append(port.send, c) \in Seq(Char) /\ Len(Append(port.send, c)) = Len(port.send) + 1
  BY AppendProperties DEF IInv, Types, Port
<1>5. /\ port'.openFlag = port.openFlag /\ port'.errorFlag = port.errorFlag /\ port'.receive = port.receive
      /\ Len(port'.send) <= SENDSZ
      /\ full <=> Len(port'.send) = SENDSZ
      /\ port' \in Port
  <2>1. CASE ~full /\ port' = port
    <3>1. Len(port.send) # SENDSZ /\ Len(port.send) <= SENDSZ /\ port \in Port
      BY <1>2, <1>3 DEF IInv, Types, Full, OneSends
    <3>2. Len(port'.send) # SENDSZ /\ Len(port'.send) <= SENDSZ /\ port' \in Port
      BY <2>1, <3>1
    <3>3. full <=> Len(port'.send) = SENDSZ
      BY <2>1, <3>2
    <3>4. port'.openFlag = port.openFlag /\ port'.errorFlag = port.errorFlag /\ port'.receive = port.receive
      BY <2>1
    <3> QED BY <3>2, <3>3, <3>4
  <2>2. CASE /\ port' = [port EXCEPT !.send = Append(port.send, c)]
             /\ full <=> Len(Append(port.send, c)) = SENDSZ
    <3>1. /\ port' \in Port /\ port'.send = Append(port.send, c)
          /\ port'.openFlag = port.openFlag /\ port'.errorFlag = port.errorFlag
          /\ port'.receive = port.receive
      BY <2>2, <1>4 DEF IInv, Types, Port
    <3>2. Len(port'.send) <= SENDSZ
      BY <3>1, <1>3, <1>4, SerialPortAssumption DEF IInv, Types, Port
    <3>3. full <=> Len(port'.send) = SENDSZ
      BY <2>2, <3>1
    <3> QED BY <3>1, <3>2, <3>3
  <2> QED BY <2>1, <2>2
<1>6. Types' /\ task'[t] = self /\ \A u \in TSK \ {t} : task'[u] = task[u]
  BY <1>1, <1>5 DEF IInv, Types
<1>7. SemaphoresOK' /\ TasksOK'
  BY <1>1, <1>6 DEF IInv, SemaphoresOK, TasksOK
<1>8. Senders' = IF full THEN {} ELSE {t}
  <2>1. Senders = {t}
    BY <1>2 DEF IInv, OneSends
  <2> QED BY <1>1, <1>6, <2>1 DEF Senders, MaySend, Sends, Waiting
<1>9. Receivers' = Receivers
  <2>1. ASSUME NEW u \in TSK PROVE u \in Receivers' <=> u \in Receivers
    BY <1>6, ReceiversAre
  <2> QED BY <2>1, ReceiversAre
<1>10. OneSends'
  BY <1>3, <1>5, <1>8 DEF OneSends, Full
<1>11. OneReceives'
  BY <1>2, <1>5, <1>9 DEF IInv, OneReceives
<1> QED BY <1>2, <1>5, <1>6, <1>7, <1>10, <1>11 DEF IInv

-----------------------------------------------------------------------------
(* Where a task goes after a character.                                    *)
LEMMA NextRead ==
    ASSUME NEW self \in Task, self.op = "read"
    PROVE  /\ next_read(self) \in Task
           /\ SelfOK(next_read(self))
           /\ ~Sends(next_read(self))
           /\ Receives(next_read(self)) <=> ~self.empty
BY DEF next_read, idle, Task, PC, Char, SelfOK, Sends, Receives

(* After a character the task keeps its rights, but for a full buffer.     *)
LEMMA AfterChar ==
    ASSUME NEW self \in Task, SelfOK(self), self.op # "none", self.pc \in {"put", "put_lf"},
           NEW full \in BOOLEAN, NEW next \in after_char(self, full)
    PROVE  /\ next \in Task
           /\ SelfOK(next)
           /\ Sends(next) <=> ~full
           /\ Receives(next) <=> Receives(self)
<1>1. CASE self.op = "write" /\ self.left = 0
  <2>1. next = IF full THEN idle ELSE [self EXCEPT !.pc = "signal_send"]
    BY <1>1 DEF after_char, next_write
  <2>2. CASE full
    BY <1>1, <2>1, <2>2 DEF idle, Task, PC, Char, SelfOK, Sends, Receives
  <2>3. CASE ~full
    BY <1>1, <2>1, <2>3 DEF Task, PC, SelfOK, Sends, Receives
  <2> QED BY <2>2, <2>3
<1>2. CASE self.op = "write" /\ self.left # 0
  <2>1. PICK c \in CHAR : next = [self EXCEPT !.pc = IF full THEN "wait_send" ELSE "put",
                                             !.c = c, !.left = @ - 1]
    BY <1>2 DEF after_char, next_write
  <2>2. c \in Char
    BY DEF Char
  <2> DEFINE pc == IF full THEN "wait_send" ELSE "put"
  <2>3. next.pc = pc /\ next.op = "write" /\ next.empty = self.empty
    BY <1>2, <2>1 DEF Task
  <2>4. next \in Task
    <3>1. next.left \in Int /\ next.c \in Char /\ pc \in PC
      BY <1>2, <2>1, <2>2 DEF Task, PC
    <3>2. next = [pc |-> pc, op |-> self.op, left |-> self.left - 1, c |-> c,
                  empty |-> self.empty]
      BY <1>2, <2>1 DEF Task
    <3> QED BY <3>1, <3>2 DEF Task
  <2> QED BY <1>2, <2>3, <2>4 DEF SelfOK, Sends, Receives
<1>3. CASE self.op = "read" /\ full
  <2>1. next = next_read(self)
    BY <1>3 DEF after_char
  <2> QED BY <1>3, <2>1, NextRead DEF Receives
<1>4. CASE self.op = "read" /\ ~full
  BY <1>4 DEF after_char, Task, PC, SelfOK, Sends, Receives
<1> QED BY <1>1, <1>2, <1>3, <1>4 DEF Task

(* serialPort_writeChar, for a character, a CR and the LF after a CR.      *)
LEMMA PutStep ==
    ASSUME IInv, NEW t \in TSK, put(t) \/ put_lf(t)
    PROVE  IInv'
<1> DEFINE self == task[t]
           cr   == [full \in BOOLEAN |->
                      {[self EXCEPT !.pc = IF full THEN "wait_send_lf" ELSE "put_lf"]}]
           rest == [full \in BOOLEAN |-> after_char(self, full)]
<1>1. /\ self \in Task /\ SelfOK(self) /\ self.op # "none" /\ t \in Senders
      /\ self.pc \in {"put", "put_lf"}
  BY SendersAre DEF IInv, Types, TasksOK, SelfOK, put, put_lf, At, Blocked, Sends, Waiting
<1>2. \/ put(t) /\ Put(t, "CR", cr)
      \/ \E c \in Char : Put(t, c, rest)
  BY <1>1 DEF put, put_lf, Task, Char
<1>3. ASSUME put(t), Put(t, "CR", cr)
      PROVE  IInv'
  <2>0. PICK full \in BOOLEAN : \E next \in cr[full] :
             /\ task' = [task EXCEPT ![t] = next]
             /\ \/ ~full /\ port' = port
                \/ /\ port' = [port EXCEPT !.send = Append(port.send, "CR")]
                   /\ full <=> Len(Append(port.send, "CR")) = SENDSZ
    BY <1>3, PutMoves
  <2>1. PICK next \in cr[full] :
             /\ task' = [task EXCEPT ![t] = next]
             /\ \/ ~full /\ port' = port
                \/ /\ port' = [port EXCEPT !.send = Append(port.send, "CR")]
                   /\ full <=> Len(Append(port.send, "CR")) = SENDSZ
    BY <2>0
  <2>2. /\ next \in Task /\ SelfOK(next)
        /\ (Sends(next) <=> ~full) /\ (Receives(next) <=> Receives(self))
    BY <1>1, <1>3 DEF Task, PC, SelfOK, Sends, Receives, put, At
  <2>3. UNCHANGED <<SendSemaphore, ReceiveSemaphore, rxreg, abandoned>> /\ "CR" \in Char
    BY <1>3, PutMoves DEF Char
  <2> QED BY <1>1, <2>1, <2>2, <2>3, SendStep
<1>4. ASSUME NEW c \in Char, Put(t, c, rest)
      PROVE  IInv'
  <2>0. PICK full \in BOOLEAN : \E next \in rest[full] :
             /\ task' = [task EXCEPT ![t] = next]
             /\ \/ ~full /\ port' = port
                \/ /\ port' = [port EXCEPT !.send = Append(port.send, c)]
                   /\ full <=> Len(Append(port.send, c)) = SENDSZ
    BY <1>4, PutMoves
  <2>1. PICK next \in rest[full] :
             /\ task' = [task EXCEPT ![t] = next]
             /\ \/ ~full /\ port' = port
                \/ /\ port' = [port EXCEPT !.send = Append(port.send, c)]
                   /\ full <=> Len(Append(port.send, c)) = SENDSZ
    BY <2>0
  <2>2. /\ next \in Task /\ SelfOK(next)
        /\ (Sends(next) <=> ~full) /\ (Receives(next) <=> Receives(self))
    BY <1>1, AfterChar
  <2>3. UNCHANGED <<SendSemaphore, ReceiveSemaphore, rxreg, abandoned>>
    BY <1>4, PutMoves
  <2> QED BY <1>1, <2>1, <2>2, <2>3, SendStep
<1> QED BY <1>2, <1>3, <1>4

(* One task goes on without a right to send or to receive, before and      *)
(* after.                                                                  *)
LEMMA PlainStep ==
    ASSUME IInv, port.openFlag, NEW t \in TSK, NEW self \in Task, SelfOK(self),
           ~Sends(task[t]), ~Receives(task[t]), ~Sends(self), ~Receives(self),
           task' = [task EXCEPT ![t] = self],
           UNCHANGED <<port, SendSemaphore, ReceiveSemaphore, rxreg, abandoned>>
    PROVE  IInv'
<1>1. Types' /\ task'[t] = self /\ \A u \in TSK \ {t} : task'[u] = task[u]
  BY DEF IInv, Types
<1>2. t \notin Waiting(SendSemaphore) /\ t \notin Waiting(ReceiveSemaphore)
  <2>1. task[t].pc = "get" => task[t].op = "read"
    BY DEF IInv, TasksOK, SelfOK
  <2> QED BY <2>1 DEF IInv, TasksOK, Sends, Receives
<1>3. SemaphoresOK' /\ TasksOK'
  BY <1>1, <1>2 DEF IInv, SemaphoresOK, TasksOK
<1>4. Senders' = Senders
  BY <1>1 DEF Senders, MaySend, Sends
<1>5. Receivers' = Receivers
  BY <1>1 DEF Receivers, MayReceive, Receives
<1>6. OneSends' /\ OneReceives'
  BY <1>4, <1>5 DEF IInv, OneSends, OneReceives, Full
<1> QED BY <1>1, <1>3, <1>6 DEF IInv

(* A task outside the calls.                                               *)
LEMMA IdleTask ==
    /\ idle \in Task /\ SelfOK(idle) /\ ~Sends(idle) /\ ~Receives(idle)
    /\ idle.pc = "idle" /\ idle.empty
BY DEF idle, Task, PC, Char, SelfOK, Sends, Receives

(* A call starts without any right.                                        *)
LEMMA CallStep ==
    ASSUME IInv, NEW t \in TSK, NEW length \in Nat, write(t, length) \/ read(t, length)
    PROVE  IInv'
<1>1. port.openFlag /\ UNCHANGED <<port, SendSemaphore, ReceiveSemaphore, rxreg, abandoned>>
  BY DEF write, read, Usable, Hardware
<1>2. task[t].pc = "idle" /\ task[t].op = "none" /\ task[t].empty
  BY DEF write, read, At, IInv, TasksOK, SelfOK
<1>3. PICK self \in Task : /\ task' = [task EXCEPT ![t] = self]
                          /\ SelfOK(self) /\ ~Sends(self) /\ ~Receives(self)
  <2>1. CASE write(t, length)
    <3>1. PICK c \in CHAR :
             task' = [task EXCEPT ![t] = [idle EXCEPT !.pc = "wait_send", !.op = "write",
                                                      !.left = length - 1, !.c = c]]
      BY <2>1 DEF write
    <3> DEFINE called(base) == [base EXCEPT !.pc = "wait_send", !.op = "write",
                                            !.left = length - 1, !.c = c]
    <3>2. ASSUME NEW base \in Task
          PROVE  /\ called(base) \in Task /\ called(base).pc = "wait_send"
                 /\ called(base).op = "write" /\ called(base).empty = base.empty
      <4>1. c \in Char /\ length - 1 \in Int
        BY DEF Char
      <4> QED BY <4>1 DEF Task, PC
    <3>3. /\ called(idle) \in Task /\ called(idle).pc = "wait_send"
          /\ called(idle).op = "write" /\ called(idle).empty
      BY <3>2, IdleTask
    <3>4. SelfOK(called(idle)) /\ ~Sends(called(idle)) /\ ~Receives(called(idle))
      BY <3>3 DEF SelfOK, Sends, Receives
    <3> QED BY <3>1, <3>3, <3>4
  <2>2. CASE read(t, length)
    <3> DEFINE called(base) == [base EXCEPT !.pc = "wait_receive", !.op = "read",
                                            !.left = length]
    <3>1. ASSUME NEW base \in Task
          PROVE  /\ called(base) \in Task /\ called(base).pc = "wait_receive"
                 /\ called(base).op = "read" /\ called(base).empty = base.empty
      <4>1. length \in Int
        OBVIOUS
      <4> QED BY <4>1 DEF Task, PC
    <3>2. /\ called(idle) \in Task /\ called(idle).pc = "wait_receive"
          /\ called(idle).op = "read" /\ called(idle).empty
      BY <3>1, IdleTask
    <3>3. SelfOK(called(idle)) /\ ~Sends(called(idle)) /\ ~Receives(called(idle))
      BY <3>2 DEF SelfOK, Sends, Receives
    <3> QED BY <2>2, <3>2, <3>3 DEF read
  <2> QED BY <2>1, <2>2
<1>4. ~Sends(task[t]) /\ ~Receives(task[t])
  BY <1>2 DEF Sends, Receives
<1> QED BY <1>1, <1>3, <1>4, PlainStep

(* A task waits for the right to send.                                     *)
LEMMA WaitSendStep ==
    ASSUME IInv, NEW t \in TSK, wait_send(t)
    PROVE  IInv'
<1> DEFINE pc == IF task[t].pc = "wait_send" THEN "put" ELSE "put_lf"
<1>1. /\ task[t].pc \in {"wait_send", "wait_send_lf"}
      /\ t \notin Waiting(SendSemaphore) /\ t \notin Waiting(ReceiveSemaphore)
      /\ port.openFlag
  BY DEF wait_send, Blocked, Waiting, IInv, Quiet
<1>2. /\ SemaphoreOK(SendSemaphore') /\ SendSemaphore'.semcnt = 0
      /\ Waiting(SendSemaphore') = IF SendSemaphore.semcnt = 1
                                   THEN Waiting(SendSemaphore)
                                   ELSE Waiting(SendSemaphore) \cup {t}
  BY <1>1, WaitEffect DEF wait_send, IInv, SemaphoresOK
<1>3. /\ UNCHANGED <<port, ReceiveSemaphore, rxreg, abandoned>>
      /\ task' \in [TSK -> Task]
      /\ task'[t].pc = pc /\ task'[t].op = task[t].op /\ task'[t].empty = task[t].empty
      /\ \A u \in TSK \ {t} : task'[u] = task[u]
  BY DEF wait_send, Hardware, IInv, Types, Task, PC
<1>4. Types'
  BY <1>2, <1>3 DEF IInv, Types, SemaphoreOK
<1>5. SemaphoresOK' /\ TasksOK'
  BY <1>1, <1>2, <1>3 DEF IInv, SemaphoresOK, TasksOK, SelfOK
<1>6. Receivers' = Receivers
  BY <1>1, <1>3 DEF Receivers, MayReceive
<1>7. CASE SendSemaphore.semcnt = 1
  <2>1. Senders = {}
    BY <1>1, <1>7 DEF IInv, OneSends
  <2>2. Senders' = {t}
    BY <1>1, <1>2, <1>3, <1>7, <2>1 DEF Senders, MaySend, Waiting
  <2>3. OneSends'
    BY <1>1, <1>2, <1>3, <1>7, <2>2 DEF IInv, OneSends, Full
  <2> QED BY <1>1, <1>3, <1>4, <1>5, <1>6, <2>3 DEF IInv, OneReceives
<1>8. CASE SendSemaphore.semcnt = 0
  <2>1. Senders' = Senders
    BY <1>1, <1>2, <1>3, <1>8 DEF Senders, MaySend, Waiting
  <2>2. OneSends'
    BY <1>1, <1>2, <1>3, <1>8, <2>1 DEF IInv, OneSends, Full
  <2> QED BY <1>1, <1>3, <1>4, <1>5, <1>6, <2>2 DEF IInv, OneReceives
<1> QED BY <1>7, <1>8 DEF IInv, Types, Semaphore

(* A task waits for the right to receive.                                  *)
LEMMA WaitReceiveStep ==
    ASSUME IInv, NEW t \in TSK, wait_receive(t)
    PROVE  IInv'
<1>1. /\ task[t].pc = "wait_receive"
      /\ t \notin Waiting(SendSemaphore) /\ t \notin Waiting(ReceiveSemaphore)
      /\ port.openFlag
      /\ task[t].op = "read" /\ task[t].empty
  BY DEF wait_receive, At, Blocked, Waiting, IInv, Quiet, TasksOK, SelfOK
<1>2. /\ SemaphoreOK(ReceiveSemaphore') /\ ReceiveSemaphore'.semcnt = 0
      /\ Waiting(ReceiveSemaphore') = IF ReceiveSemaphore.semcnt = 1
                                      THEN Waiting(ReceiveSemaphore)
                                      ELSE Waiting(ReceiveSemaphore) \cup {t}
  BY <1>1, WaitEffect DEF wait_receive, IInv, SemaphoresOK
<1>3. /\ UNCHANGED <<port, SendSemaphore, rxreg, abandoned>>
      /\ task' \in [TSK -> Task]
      /\ task'[t].pc = "get" /\ task'[t].op = task[t].op /\ task'[t].empty = task[t].empty
      /\ \A u \in TSK \ {t} : task'[u] = task[u]
  BY DEF wait_receive, Hardware, IInv, Types, Task, PC
<1>4. Types'
  BY <1>2, <1>3 DEF IInv, Types, SemaphoreOK
<1>5. SemaphoresOK' /\ TasksOK'
  BY <1>1, <1>2, <1>3 DEF IInv, SemaphoresOK, TasksOK, SelfOK
<1>6. Senders' = Senders
  BY <1>1, <1>3 DEF Senders, MaySend
<1>7. CASE ReceiveSemaphore.semcnt = 1
  <2>1. Receivers = {} /\ port.receive # <<>> /\ "receive" \notin abandoned
    BY <1>1, <1>7 DEF IInv, OneReceives
  <2>2. Receivers' = {t}
    BY <1>1, <1>2, <1>3, <1>7, <2>1, ReceiversAre DEF Receives
  <2>3. OneReceives'
    BY <1>2, <1>3, <2>1, <2>2 DEF OneReceives
  <2> QED BY <1>1, <1>3, <1>4, <1>5, <1>6, <2>3 DEF IInv, OneSends, Full
<1>8. CASE ReceiveSemaphore.semcnt = 0
  <2>1. Receivers' = Receivers
    <3>1. ASSUME NEW u \in TSK PROVE u \in Receivers' <=> u \in Receivers
      BY <1>1, <1>2, <1>3, <1>8, ReceiversAre DEF Receives
    <3> QED BY <3>1, ReceiversAre
  <2>2. OneReceives'
    BY <1>1, <1>2, <1>3, <1>8, <2>1 DEF IInv, OneReceives
  <2> QED BY <1>1, <1>3, <1>4, <1>5, <1>6, <2>2 DEF IInv, OneSends, Full
<1> QED BY <1>7, <1>8 DEF IInv, Types, Semaphore

(* The right to send goes back, or to the first task that waits for it.    *)
LEMMA SignalSendStep ==
    ASSUME IInv, NEW t \in TSK, signal_send(t)
    PROVE  IInv'
<1> DEFINE self == IF task[t].op = "write" THEN idle ELSE next_read(task[t])
<1>1. /\ task[t] \in Task /\ SelfOK(task[t])
      /\ task[t].pc = "signal_send" /\ task[t].op \in {"write", "read"}
      /\ t \notin Waiting(SendSemaphore) /\ t \notin Waiting(ReceiveSemaphore)
      /\ port.openFlag /\ t \in Senders
  BY SendersAre DEF signal_send, At, Blocked, Waiting, IInv, Quiet, TasksOK, SelfOK,
                    Types, Task, Sends
<1>2. /\ ~Full /\ SendSemaphore.semcnt = 0 /\ ~E_QOVR(SendSemaphore) /\ Senders = {t}
      /\ "send" \notin abandoned
  BY <1>1 DEF IInv, OneSends, Types, Semaphore, E_QOVR
<1>3. /\ port' \in Port /\ port'.openFlag /\ ~port'.errorFlag
      /\ port'.send = port.send /\ port'.receive = port.receive
  BY <1>1, <1>2 DEF signal_send, IInv, Types, Port
<1>4. self \in Task /\ SelfOK(self) /\ ~Sends(self) /\ (Receives(self) <=> Receives(task[t]))
  BY <1>1, NextRead, IdleTask DEF Receives, SelfOK
<1>5. task' = [task EXCEPT ![t] = self]
  BY <1>1, <1>2 DEF signal_send
<1>6. /\ UNCHANGED <<ReceiveSemaphore, rxreg, abandoned>>
      /\ task' \in [TSK -> Task] /\ task'[t] = self /\ \A u \in TSK \ {t} : task'[u] = task[u]
  BY <1>4, <1>5 DEF signal_send, Hardware, IInv, Types
<1>7. SemaphoreOK(SendSemaphore') /\ SemaphoreOK(ReceiveSemaphore')
  BY <1>6, SignalEffect DEF signal_send, IInv, SemaphoresOK
<1>8. \/ /\ Waiting(SendSemaphore) = {} /\ Waiting(SendSemaphore') = {}
         /\ SendSemaphore'.semcnt = 1
      \/ /\ SendSemaphore'.semcnt = 0
         /\ \E u \in Waiting(SendSemaphore) :
               Waiting(SendSemaphore') = Waiting(SendSemaphore) \ {u}
  BY SignalEffect DEF signal_send, IInv, SemaphoresOK
<1>9. Types'
  BY <1>3, <1>6, <1>7 DEF IInv, Types, SemaphoreOK
<1>10. TasksOK'
  BY <1>1, <1>4, <1>6, <1>8 DEF IInv, TasksOK
<1>11. Receivers' = Receivers
  BY <1>1, <1>4, <1>6 DEF Receivers, MayReceive, Receives
<1>12. OneReceives'
  BY <1>1, <1>3, <1>6, <1>11 DEF IInv, OneReceives
<1>13. OneSends'
  <2>1. CASE /\ Waiting(SendSemaphore) = {} /\ Waiting(SendSemaphore') = {}
             /\ SendSemaphore'.semcnt = 1
    <3>1. Senders' = {}
      <4>1. ASSUME NEW u \in TSK PROVE u \notin Senders'
        BY <1>2, <1>4, <1>6, <2>1, SendersAre
      <4> QED BY <4>1, SendersAre
    <3> QED BY <1>1, <1>2, <1>3, <1>6, <2>1, <3>1 DEF IInv, OneSends, Full
  <2>2. ASSUME SendSemaphore'.semcnt = 0, NEW u \in Waiting(SendSemaphore),
               Waiting(SendSemaphore') = Waiting(SendSemaphore) \ {u}
        PROVE  OneSends'
    <3>1. u \in TSK
      BY <2>2 DEF IInv, Types, Semaphore, Waiting, ToSet
    <3>2. Senders' = {u}
      <4>1. u # t /\ Sends(task[u])
        BY <1>1, <2>2, <3>1 DEF Sends, IInv, TasksOK
      <4>2. ASSUME NEW v \in TSK PROVE v \in Senders' <=> v = u
        BY <1>2, <1>4, <1>6, <2>2, <3>1, <4>1, SendersAre
      <4> QED BY <3>1, <4>2, SendersAre
    <3> QED BY <1>1, <1>2, <1>3, <1>6, <2>2, <3>2 DEF IInv, OneSends, Full
  <2> QED BY <1>8, <2>1, <2>2
<1> QED BY <1>3, <1>7, <1>9, <1>10, <1>12, <1>13 DEF IInv, SemaphoresOK

(* A task takes a character and goes on with the right to receive if there *)
(* is another one.                                                         *)
LEMMA GetStep ==
    ASSUME IInv, NEW t \in TSK, get(t)
    PROVE  IInv'
<1> DEFINE rest  == Tail(port.receive)
           empty == rest = <<>>
           self  == [task[t] EXCEPT !.left = @ - 1, !.empty = empty]
           next  == IF "ECHO" \in port.ioControl
                    THEN [self EXCEPT !.pc = "wait_send", !.c = Head(port.receive)]
                    ELSE next_read(self)
<1>1. /\ task[t] \in Task /\ task[t].pc = "get" /\ task[t].op = "read"
      /\ t \notin Waiting(SendSemaphore) /\ t \notin Waiting(ReceiveSemaphore)
      /\ port.openFlag /\ t \in Receivers
  BY ReceiversAre DEF get, At, Blocked, Waiting, IInv, Quiet, TasksOK, SelfOK,
                      Types, Receives
<1>2. port.receive # <<>> /\ ReceiveSemaphore.semcnt = 0 /\ Receivers = {t}
  BY <1>1 DEF IInv, OneReceives, Types, Semaphore
<1>3. Head(port.receive) \in Char /\ rest \in Seq(Char)
  BY <1>2, HeadTailProperties DEF IInv, Types, Port
<1>4. /\ port' \in Port /\ port'.openFlag /\ ~port'.errorFlag
      /\ port'.send = port.send /\ port'.receive = rest
  <2> DEFINE taken == [port EXCEPT !.receive = rest]
             sent  == [taken EXCEPT !.receiveStopped = FALSE]
             kept  == [sent EXCEPT !.receiveFlowControl = "START"]
  <2>1. port' \in {taken, sent, kept}
    BY DEF get, sendChar
  <2>2. /\ taken \in Port /\ taken.openFlag /\ ~taken.errorFlag
        /\ taken.send = port.send /\ taken.receive = rest
    BY <1>1, <1>3 DEF IInv, Types, Port
  <2>3. ASSUME NEW p \in Port
        PROVE  LET q == [p EXCEPT !.receiveStopped = FALSE]
               IN  /\ q \in Port /\ q.openFlag = p.openFlag /\ q.errorFlag = p.errorFlag
                   /\ q.send = p.send /\ q.receive = p.receive
    BY DEF Port
  <2>4. ASSUME NEW p \in Port
        PROVE  LET q == [p EXCEPT !.receiveFlowControl = "START"]
               IN  /\ q \in Port /\ q.openFlag = p.openFlag /\ q.errorFlag = p.errorFlag
                   /\ q.send = p.send /\ q.receive = p.receive
    BY DEF Port, Char
  <2> HIDE DEF taken, rest
  <2>5. /\ sent \in Port /\ sent.openFlag /\ ~sent.errorFlag
        /\ sent.send = port.send /\ sent.receive = rest
    BY <2>2, <2>3
  <2> HIDE DEF sent
  <2>6. /\ kept \in Port /\ kept.openFlag /\ ~kept.errorFlag
        /\ kept.send = port.send /\ kept.receive = rest
    BY <2>4, <2>5
  <2> HIDE DEF kept
  <2> QED BY <2>1, <2>2, <2>5, <2>6
<1>5. self \in Task /\ self.op = "read" /\ (self.empty <=> empty)
  <2>1. empty \in BOOLEAN
    OBVIOUS
  <2>2. ASSUME NEW r \in Task, NEW e \in BOOLEAN
        PROVE  LET s == [r EXCEPT !.left = @ - 1, !.empty = e]
               IN  s \in Task /\ s.op = r.op /\ (s.empty <=> e)
    <3>1. r.left - 1 \in Int
      BY DEF Task
    <3>2. ASSUME NEW n \in Int
          PROVE  LET s == [r EXCEPT !.left = n, !.empty = e]
                 IN  s \in Task /\ s.op = r.op /\ s.empty = e
      BY DEF Task
    <3> QED BY <3>1, <3>2
  <2> HIDE DEF empty
  <2> QED BY <1>1, <2>1, <2>2
<1>6. next \in Task /\ SelfOK(next) /\ ~Sends(next) /\ (Receives(next) <=> ~empty)
  <2> HIDE DEF self, empty
  <2>1. CASE "ECHO" \in port.ioControl
    <3> DEFINE echo == [self EXCEPT !.pc = "wait_send", !.c = Head(port.receive)]
    <3>1. echo \in Task /\ echo.op = "read" /\ echo.pc = "wait_send" /\ echo.empty = self.empty
      BY <1>3, <1>5 DEF Task, PC
    <3> QED BY <1>5, <2>1, <3>1 DEF SelfOK, Sends, Receives
  <2>2. CASE "ECHO" \notin port.ioControl
    BY <1>5, <2>2, NextRead
  <2> QED BY <2>1, <2>2
<1>7. task' = [task EXCEPT ![t] = next]
  BY DEF get
<1> HIDE DEF next, empty
<1>8. /\ UNCHANGED <<SendSemaphore, ReceiveSemaphore, rxreg, abandoned>>
      /\ task' \in [TSK -> Task] /\ task'[t] = next /\ \A u \in TSK \ {t} : task'[u] = task[u]
  BY <1>6, <1>7 DEF get, IInv, Types
<1>9. Types' /\ SemaphoresOK' /\ TasksOK'
  BY <1>1, <1>4, <1>6, <1>8 DEF IInv, Types, SemaphoresOK, TasksOK
<1>10. Senders' = Senders
  BY <1>1, <1>6, <1>8 DEF Senders, MaySend, Sends
<1>11. Receivers' = IF empty THEN {} ELSE {t}
  BY <1>1, <1>2, <1>6, <1>8, ReceiversAre DEF Receivers, MayReceive, Receives, Waiting
<1>12. OneSends'
  BY <1>1, <1>4, <1>8, <1>10 DEF IInv, OneSends, Full
<1>13. OneReceives'
  BY <1>1, <1>2, <1>4, <1>8, <1>11 DEF IInv, OneReceives, empty
<1> QED BY <1>4, <1>9, <1>12, <1>13 DEF IInv

(* The right to receive goes back, or to the first task that waits for it. *)
LEMMA SignalReceiveStep ==
    ASSUME IInv, NEW t \in TSK, signal_receive(t)
    PROVE  IInv'
<1>1. /\ task[t] \in Task /\ task[t].pc = "signal_receive"
      /\ task[t].op = "read" /\ ~task[t].empty
      /\ t \notin Waiting(SendSemaphore) /\ t \notin Waiting(ReceiveSemaphore)
      /\ port.openFlag /\ t \in Receivers
  BY ReceiversAre DEF signal_receive, At, Blocked, Waiting, IInv, Quiet, TasksOK, SelfOK,
                      Types, Receives
<1>2. /\ port.receive # <<>> /\ ReceiveSemaphore.semcnt = 0 /\ ~E_QOVR(ReceiveSemaphore)
      /\ Receivers = {t}
  BY <1>1 DEF IInv, OneReceives, Types, Semaphore, E_QOVR
<1>3. /\ port' \in Port /\ port'.openFlag /\ ~port'.errorFlag
      /\ port'.send = port.send /\ port'.receive = port.receive
  BY <1>1, <1>2 DEF signal_receive, IInv, Types, Port
<1>4. /\ UNCHANGED <<SendSemaphore, rxreg, abandoned>>
      /\ task' \in [TSK -> Task] /\ task'[t] = idle /\ \A u \in TSK \ {t} : task'[u] = task[u]
  BY IdleTask DEF signal_receive, Hardware, IInv, Types
<1>5. SemaphoreOK(SendSemaphore') /\ SemaphoreOK(ReceiveSemaphore')
  BY <1>4, SignalEffect DEF signal_receive, IInv, SemaphoresOK
<1>6. \/ /\ Waiting(ReceiveSemaphore) = {} /\ Waiting(ReceiveSemaphore') = {}
         /\ ReceiveSemaphore'.semcnt = 1
      \/ /\ ReceiveSemaphore'.semcnt = 0
         /\ \E u \in Waiting(ReceiveSemaphore) :
               Waiting(ReceiveSemaphore') = Waiting(ReceiveSemaphore) \ {u}
  BY SignalEffect DEF signal_receive, IInv, SemaphoresOK
<1>7. Types'
  BY <1>3, <1>4, <1>5 DEF IInv, Types, SemaphoreOK
<1>8. TasksOK'
  BY <1>1, <1>4, <1>6, IdleTask DEF IInv, TasksOK
<1>9. Senders' = Senders
  BY <1>1, <1>4, IdleTask DEF Senders, MaySend, Sends
<1>10. OneSends'
  BY <1>1, <1>3, <1>4, <1>9 DEF IInv, OneSends, Full
<1>11. OneReceives'
  <2>1. CASE /\ Waiting(ReceiveSemaphore) = {} /\ Waiting(ReceiveSemaphore') = {}
             /\ ReceiveSemaphore'.semcnt = 1
    <3>1. Receivers' = {}
      BY <1>2, <1>4, <2>1, IdleTask, ReceiversAre
    <3> QED BY <1>1, <1>2, <1>3, <1>4, <2>1, <3>1 DEF IInv, OneReceives
  <2>2. ASSUME ReceiveSemaphore'.semcnt = 0, NEW u \in Waiting(ReceiveSemaphore),
               Waiting(ReceiveSemaphore') = Waiting(ReceiveSemaphore) \ {u}
        PROVE  OneReceives'
    <3>1. u \in TSK /\ u # t
      BY <1>1, <2>2 DEF IInv, Types, Semaphore, Waiting, ToSet
    <3>2. Receives(task[u])
      BY <2>2, <3>1 DEF IInv, TasksOK, SelfOK, Receives
    <3>3. Receivers' = {u}
      BY <1>2, <1>4, <2>2, <3>1, <3>2, IdleTask, ReceiversAre
    <3> QED BY <1>1, <1>2, <1>3, <1>4, <2>2, <3>3 DEF IInv, OneReceives
  <2> QED BY <1>6, <2>1, <2>2
<1> QED BY <1>3, <1>5, <1>7, <1>8, <1>10, <1>11 DEF IInv, SemaphoresOK

-----------------------------------------------------------------------------
(* The interrupt handlers.                                                 *)

(* A step that leaves the buffers, the semaphores and the tasks alone.     *)
LEMMA SamePlaces ==
    ASSUME IInv, port' \in Port, rxreg' \in Char,
           port'.openFlag = port.openFlag, port'.errorFlag = port.errorFlag,
           port'.send = port.send, port'.receive = port.receive,
           UNCHANGED <<SendSemaphore, ReceiveSemaphore, task, abandoned>>,
           ~port.openFlag => sio' = {}
    PROVE  IInv'
<1>1. Types' /\ SemaphoresOK' /\ TasksOK'
  BY DEF IInv, Types, SemaphoresOK, TasksOK
<1>2. Senders' = Senders /\ Receivers' = Receivers
  BY DEF Senders, MaySend, Receivers, MayReceive
<1>3. CASE port.openFlag
  <2>1. OneSends' /\ OneReceives'
    BY <1>2, <1>3 DEF IInv, OneSends, OneReceives, Full
  <2>2. port'.openFlag /\ ~port'.errorFlag
    BY <1>3 DEF IInv
  <2> QED BY <1>1, <2>1, <2>2 DEF IInv
<1>4. CASE ~port.openFlag
  <2>1. Quiet'
    BY <1>4 DEF IInv, Quiet
  <2>2. ~port'.openFlag
    BY <1>4
  <2> QED BY <1>1, <2>1, <2>2 DEF IInv
<1> QED BY <1>3, <1>4

(* A character leaves the send buffer: if it was full, the right to send is*)
(* there again.                                                            *)
LEMMA CharacterLeaves ==
    ASSUME IInv, port.openFlag, port.send # <<>>,
           port' \in Port, rxreg' \in Char,
           port'.openFlag, port'.receive = port.receive,
           port'.send = Tail(port.send),
           port'.errorFlag = (port.errorFlag \/ (Full /\ E_QOVR(SendSemaphore))),
           SendSemaphore' = IF Full THEN signal(SendSemaphore) ELSE SendSemaphore,
           UNCHANGED <<ReceiveSemaphore, task, abandoned>>
    PROVE  IInv'
<1>1. OneSends /\ OneReceives /\ ~port.errorFlag
  BY DEF IInv
<1>2. ~port'.errorFlag
  BY <1>1 DEF OneSends, E_QOVR
<1>3. Len(port'.send) < Len(port.send) /\ Len(port'.send) \in Nat /\ Len(port.send) \in Nat
  BY HeadTailProperties DEF IInv, Types, Port
<1>4. ~Full' /\ Len(port'.send) <= SENDSZ
  BY <1>1, <1>3, SerialPortAssumption DEF OneSends, Full
<1>5. SemaphoreOK(SendSemaphore') /\ SemaphoreOK(ReceiveSemaphore')
  BY SignalEffect DEF IInv, SemaphoresOK
<1>6. Types'
  BY <1>5 DEF IInv, Types, SemaphoreOK
<1>7. \/ ~Full /\ UNCHANGED SendSemaphore
      \/ /\ Full /\ Waiting(SendSemaphore) = {} /\ Waiting(SendSemaphore') = {}
         /\ SendSemaphore'.semcnt = 1
      \/ /\ Full /\ SendSemaphore'.semcnt = 0
         /\ \E u \in Waiting(SendSemaphore) :
               Waiting(SendSemaphore') = Waiting(SendSemaphore) \ {u}
  BY SignalEffect DEF IInv, SemaphoresOK
<1>8. TasksOK'
  BY <1>7 DEF IInv, TasksOK
<1>9. OneReceives'
  <2>1. Receivers' = Receivers
    BY DEF Receivers, MayReceive
  <2> QED BY <1>1, <2>1 DEF OneReceives
<1>10. OneSends'
  <2>1. CASE ~Full /\ UNCHANGED SendSemaphore
    <3>1. Senders' = Senders
      BY <2>1 DEF Senders, MaySend
    <3> QED BY <1>1, <1>4, <2>1, <3>1 DEF OneSends
  <2>2. CASE /\ Full /\ Waiting(SendSemaphore) = {} /\ Waiting(SendSemaphore') = {}
             /\ SendSemaphore'.semcnt = 1
    <3>1. Senders' = Senders
      BY <2>2 DEF Senders, MaySend, Waiting
    <3> QED BY <1>1, <1>4, <2>2, <3>1 DEF OneSends
  <2>3. ASSUME Full, SendSemaphore'.semcnt = 0, NEW u \in Waiting(SendSemaphore),
               Waiting(SendSemaphore') = Waiting(SendSemaphore) \ {u}
        PROVE  OneSends'
    <3>1. u \in TSK
      BY <2>3 DEF IInv, Types, Semaphore, Waiting, ToSet
    <3>2. Senders = {}
      BY <1>1, <2>3 DEF OneSends
    <3>3. Senders' = {u}
      <4>1. Sends(task[u])
        BY <2>3, <3>1 DEF Sends, IInv, TasksOK
      <4>2. ASSUME NEW v \in TSK PROVE v \in Senders' <=> v = u
        BY <2>3, <3>1, <3>2, <4>1, SendersAre
      <4> QED BY <3>1, <4>2, SendersAre
    <3> QED BY <1>1, <1>4, <2>3, <3>3 DEF OneSends
  <2> QED BY <1>7, <2>1, <2>2, <2>3
<1> QED BY <1>2, <1>5, <1>6, <1>8, <1>9, <1>10 DEF IInv, SemaphoresOK

(* A character comes into the receive buffer: if it is the only one, the   *)
(* right to receive is there again.                                        *)
LEMMA CharacterArrives ==
    ASSUME IInv, port.openFlag, NEW c \in Char,
           port' \in Port, rxreg' \in Char,
           port'.openFlag, port'.send = port.send,
           port'.receive = Append(port.receive, c),
           port'.errorFlag = (port.errorFlag \/ (port.receive = <<>> /\ E_QOVR(ReceiveSemaphore))),
           ReceiveSemaphore' = IF port.receive = <<>> THEN signal(ReceiveSemaphore)
                               ELSE ReceiveSemaphore,
           UNCHANGED <<SendSemaphore, task, abandoned>>
    PROVE  IInv'
<1> DEFINE First == port.receive = <<>>
<1>1. OneSends /\ OneReceives /\ ~port.errorFlag
  BY DEF IInv
<1>2. ~port'.errorFlag
  <2>1. ~(First /\ E_QOVR(ReceiveSemaphore))
    BY <1>1 DEF OneReceives, E_QOVR
  <2> QED BY <1>1, <2>1, Zenon
<1>3. port'.receive # <<>>
  BY AppendProperties DEF IInv, Types, Port
<1>4. SemaphoreOK(SendSemaphore') /\ SemaphoreOK(ReceiveSemaphore')
  BY SignalEffect DEF IInv, SemaphoresOK
<1>5. Types'
  BY <1>4 DEF IInv, Types, SemaphoreOK
<1>6. \/ ~First /\ UNCHANGED ReceiveSemaphore
      \/ /\ First /\ Waiting(ReceiveSemaphore) = {} /\ Waiting(ReceiveSemaphore') = {}
         /\ ReceiveSemaphore'.semcnt = 1
      \/ /\ First /\ ReceiveSemaphore'.semcnt = 0
         /\ \E u \in Waiting(ReceiveSemaphore) :
               Waiting(ReceiveSemaphore') = Waiting(ReceiveSemaphore) \ {u}
  BY SignalEffect DEF IInv, SemaphoresOK
<1>7. TasksOK'
  BY <1>6 DEF IInv, TasksOK
<1>8. OneSends'
  <2>1. Senders' = Senders
    BY DEF Senders, MaySend
  <2> QED BY <1>1, <2>1 DEF OneSends, Full
<1>9. OneReceives'
  <2>1. CASE ~First /\ UNCHANGED ReceiveSemaphore
    <3>1. Receivers' = Receivers
      BY <2>1 DEF Receivers, MayReceive
    <3> QED BY <1>1, <1>3, <2>1, <3>1 DEF OneReceives
  <2>2. CASE /\ First /\ Waiting(ReceiveSemaphore) = {} /\ Waiting(ReceiveSemaphore') = {}
             /\ ReceiveSemaphore'.semcnt = 1
    <3>1. Receivers' = Receivers
      BY <2>2 DEF Receivers, MayReceive, Waiting
    <3> QED BY <1>1, <1>3, <2>2, <3>1 DEF OneReceives
  <2>3. ASSUME First, ReceiveSemaphore'.semcnt = 0, NEW u \in Waiting(ReceiveSemaphore),
               Waiting(ReceiveSemaphore') = Waiting(ReceiveSemaphore) \ {u}
        PROVE  OneReceives'
    <3>1. u \in TSK
      BY <2>3 DEF IInv, Types, Semaphore, Waiting, ToSet
    <3>2. Receives(task[u])
      BY <2>3, <3>1 DEF IInv, TasksOK, SelfOK, Receives
    <3>3. Receivers = {}
      BY <1>1, <2>3 DEF OneReceives
    <3>4. Receivers' = {u}
      <4>1. ASSUME NEW v \in TSK PROVE v \in Receivers' <=> v = u
        BY <2>3, <3>1, <3>2, <3>3, ReceiversAre
      <4> QED BY <3>1, <4>1, ReceiversAre
    <3> QED BY <1>1, <1>3, <2>3, <3>4 DEF OneReceives
  <2> QED BY <1>6, <2>1, <2>2, <2>3
<1> QED BY <1>2, <1>4, <1>5, <1>7, <1>8, <1>9 DEF IInv, SemaphoresOK

(* Fields of the port that the semaphores do not depend on.                *)
LEMMA PortFields ==
    ASSUME NEW p \in Port
    PROVE  /\ \A b \in BOOLEAN : LET q == [p EXCEPT !.sendStopped = b] IN
                 /\ q \in Port /\ q.openFlag = p.openFlag /\ q.errorFlag = p.errorFlag
                 /\ q.send = p.send /\ q.receive = p.receive
           /\ \A b \in BOOLEAN : LET q == [p EXCEPT !.receiveStopped = b] IN
                 /\ q \in Port /\ q.openFlag = p.openFlag /\ q.errorFlag = p.errorFlag
                 /\ q.send = p.send /\ q.receive = p.receive
           /\ \A c \in {"NUL", "STOP", "START"} :
                 LET q == [p EXCEPT !.receiveFlowControl = c] IN
                 /\ q \in Port /\ q.openFlag = p.openFlag /\ q.errorFlag = p.errorFlag
                 /\ q.send = p.send /\ q.receive = p.receive
BY DEF Port, Char

(* A character leaves the send buffer, with the semaphore's overflow error.*)
LEMMA PortSends ==
    ASSUME NEW p \in Port, p.send # <<>>, NEW e \in BOOLEAN
    PROVE  LET q == [p EXCEPT !.send = Tail(@), !.errorFlag = @ \/ e] IN
           /\ q \in Port /\ q.openFlag = p.openFlag /\ q.errorFlag = (p.errorFlag \/ e)
           /\ q.send = Tail(p.send) /\ q.receive = p.receive
<1>1. Tail(p.send) \in Seq(Char)
  BY HeadTailProperties DEF Port
<1>2. (p.errorFlag \/ e) \in BOOLEAN
  OBVIOUS
<1>3. ASSUME NEW rest \in Seq(Char), NEW error \in BOOLEAN
      PROVE  LET q == [p EXCEPT !.send = rest, !.errorFlag = error] IN
             /\ q \in Port /\ q.openFlag = p.openFlag /\ q.errorFlag = error
             /\ q.send = rest /\ q.receive = p.receive
  BY DEF Port
<1> QED BY <1>1, <1>2, <1>3

(* eiSIOCBR_readySend.                                                     *)
LEMMA ReadySendStep ==
    ASSUME IInv, readySend
    PROVE  IInv'
<1>1. port.openFlag /\ port \in Port /\ rxreg' \in Char /\ UNCHANGED <<ReceiveSemaphore, task, abandoned>>
  BY DEF readySend, IInv, Quiet, Types
<1>2. CASE /\ port' = [port EXCEPT !.receiveFlowControl = "NUL"]
           /\ UNCHANGED SendSemaphore
  <2>1. /\ port' \in Port /\ port'.openFlag = port.openFlag
        /\ port'.errorFlag = port.errorFlag
        /\ port'.send = port.send /\ port'.receive = port.receive
    BY <1>1, <1>2, PortFields
  <2> QED BY <1>1, <1>2, <2>1, SamePlaces
<1>3. CASE port.send # <<>> /\ next_from_buffer
  <2> DEFINE e == Full /\ E_QOVR(SendSemaphore)
  <2>1. /\ port' \in Port /\ port'.openFlag = port.openFlag
        /\ port'.errorFlag = (port.errorFlag \/ e)
        /\ port'.send = Tail(port.send) /\ port'.receive = port.receive
    <3>1. e \in BOOLEAN
      OBVIOUS
    <3>2. port' = [port EXCEPT !.send = Tail(@), !.errorFlag = @ \/ e]
      BY <1>3 DEF next_from_buffer, Full
    <3> HIDE DEF e
    <3> QED BY <1>1, <1>3, <3>1, <3>2, PortSends
  <2>2. SendSemaphore' = IF Full THEN signal(SendSemaphore) ELSE SendSemaphore
    BY <1>3 DEF next_from_buffer, Full
  <2> QED BY <1>1, <1>3, <2>1, <2>2, CharacterLeaves
<1>4. CASE UNCHANGED <<port, SendSemaphore>>
  BY <1>1, <1>4, SamePlaces
<1> QED BY <1>2, <1>3, <1>4 DEF readySend

(* eiSIOCBR_readyReceive.                                                  *)
LEMMA ReadyReceiveStep ==
    ASSUME IInv, readyReceive
    PROVE  IInv'
<1>1. /\ port.openFlag /\ port \in Port /\ rxreg \in Char /\ rxreg' \in Char
      /\ UNCHANGED <<task, abandoned>>
  BY DEF readyReceive, IInv, Quiet, Types, Char
<1>2. CASE stop_sending
  <2>1. /\ port' \in Port /\ port'.openFlag = port.openFlag
        /\ port'.errorFlag = port.errorFlag
        /\ port'.send = port.send /\ port'.receive = port.receive
    BY <1>1, <1>2, PortFields DEF stop_sending
  <2> QED BY <1>1, <1>2, <2>1, SamePlaces DEF stop_sending
<1>3. CASE resume_sending
  <2> DEFINE resumed == [port EXCEPT !.sendStopped = FALSE]
             e       == Full /\ E_QOVR(SendSemaphore)
  <2>1. /\ resumed \in Port /\ resumed.openFlag = port.openFlag
        /\ resumed.errorFlag = port.errorFlag
        /\ resumed.send = port.send /\ resumed.receive = port.receive
    BY <1>1, PortFields
  <2>2. UNCHANGED ReceiveSemaphore
    BY <1>3 DEF resume_sending
  <2>3. \/ port' = resumed /\ UNCHANGED SendSemaphore
        \/ /\ port.send # <<>>
           /\ port' = [resumed EXCEPT !.send = Tail(@), !.errorFlag = @ \/ e]
           /\ SendSemaphore' = IF Full THEN signal(SendSemaphore) ELSE SendSemaphore
    BY <1>3 DEF resume_sending, sendChar, Full
  <2>4. e \in BOOLEAN
    OBVIOUS
  <2> HIDE DEF resumed, e
  <2>5. CASE port' = resumed /\ UNCHANGED SendSemaphore
    BY <1>1, <2>1, <2>2, <2>5, SamePlaces
  <2>6. CASE /\ port.send # <<>>
             /\ port' = [resumed EXCEPT !.send = Tail(@), !.errorFlag = @ \/ e]
             /\ SendSemaphore' = IF Full THEN signal(SendSemaphore) ELSE SendSemaphore
    <3>1. /\ port' \in Port /\ port'.openFlag = port.openFlag
          /\ port'.errorFlag = (port.errorFlag \/ e)
          /\ port'.send = Tail(port.send) /\ port'.receive = port.receive
      <4>1. ASSUME NEW b \in BOOLEAN
            PROVE  LET q == [resumed EXCEPT !.send = Tail(@), !.errorFlag = @ \/ b] IN
                   /\ q \in Port /\ q.openFlag = resumed.openFlag
                   /\ q.errorFlag = (resumed.errorFlag \/ b)
                   /\ q.send = Tail(resumed.send) /\ q.receive = resumed.receive
        BY <2>1, <2>6, PortSends
      <4>2. LET q == [resumed EXCEPT !.send = Tail(@), !.errorFlag = @ \/ e] IN
                   /\ q \in Port /\ q.openFlag = resumed.openFlag
                   /\ q.errorFlag = (resumed.errorFlag \/ e)
                   /\ q.send = Tail(resumed.send) /\ q.receive = resumed.receive
        BY <4>1, <2>4, Zenon
      <4> QED BY <4>2, <2>1, <2>6
    <3> QED BY <1>1, <2>2, <2>6, <3>1, CharacterLeaves DEF e
  <2> QED BY <2>3, <2>5, <2>6
<1>4. CASE store_received(rxreg)
  <2> DEFINE e    == port.receive = <<>> /\ E_QOVR(ReceiveSemaphore)
             stored == Append(port.receive, rxreg)
             kept == [port EXCEPT !.receive = stored, !.errorFlag = @ \/ e]
             sent == [kept EXCEPT !.receiveStopped = TRUE]
             told == [sent EXCEPT !.receiveFlowControl = "STOP"]
             Stores(q) == /\ q \in Port /\ q.openFlag = port.openFlag
                          /\ q.errorFlag = (port.errorFlag \/ e)
                          /\ q.send = port.send
                          /\ q.receive = stored
  <2>1. port' \in {kept, sent, told}
    BY <1>4 DEF store_received, sendChar
  <2>2. /\ ReceiveSemaphore' = IF port.receive = <<>> THEN signal(ReceiveSemaphore)
                               ELSE ReceiveSemaphore
        /\ UNCHANGED SendSemaphore
    BY <1>4 DEF store_received
  <2>3. e \in BOOLEAN
    OBVIOUS
  <2>4. stored \in Seq(Char)
    BY <1>1, AppendProperties DEF Port
  <2> HIDE DEF e, stored
  <2>5. Stores(kept)
    <3>1. ASSUME NEW b \in BOOLEAN
          PROVE  LET q == [port EXCEPT !.receive = stored, !.errorFlag = @ \/ b] IN
                 /\ q \in Port /\ q.openFlag = port.openFlag
                 /\ q.errorFlag = (port.errorFlag \/ b)
                 /\ q.send = port.send /\ q.receive = stored
      <4>1. (port.errorFlag \/ b) \in BOOLEAN
        OBVIOUS
      <4>2. ASSUME NEW error \in BOOLEAN
            PROVE  LET q == [port EXCEPT !.receive = stored, !.errorFlag = error] IN
                   /\ q \in Port /\ q.openFlag = port.openFlag /\ q.errorFlag = error
                   /\ q.send = port.send /\ q.receive = stored
        BY <1>1, <2>4 DEF Port
      <4> QED BY <4>1, <4>2
    <3> QED BY <2>3, <3>1, Zenon
  <2> HIDE DEF kept
  <2>6. Stores(sent)
    BY <2>5, PortFields
  <2> HIDE DEF sent
  <2>7. Stores(told)
    BY <2>6, PortFields
  <2> HIDE DEF told
  <2>8. Stores(port')
    BY <2>1, <2>5, <2>6, <2>7
  <2> QED BY <1>1, <2>2, <2>8, CharacterArrives DEF e, stored
<1>5. CASE UNCHANGED <<port, SendSemaphore, ReceiveSemaphore>>
  BY <1>1, <1>5, SamePlaces
<1> QED BY <1>2, <1>3, <1>4, <1>5 DEF readyReceive

-----------------------------------------------------------------------------
(* Opening and closing.                                                    *)

(* Opening finds the semaphores as initialized and empties the buffers.    *)
LEMMA OpenStep ==
    ASSUME IInv, NEW t \in TSK, open(t)
    PROVE  IInv'
<1>1. Quiet
  BY DEF open, IInv
<1>2. /\ port' \in Port /\ port'.openFlag /\ ~port'.errorFlag
      /\ port'.send = <<>> /\ port'.receive = <<>>
      /\ rxreg' \in Char
      /\ UNCHANGED <<SendSemaphore, ReceiveSemaphore, task, abandoned>>
  <2>1. port' = [openFlag |-> TRUE, errorFlag |-> FALSE,
                 ioControl |-> {"ECHO", "CRLF", "FCSND", "FCRCV"},
                 receive |-> <<>>, receiveFlowControl |-> "NUL",
                 receiveStopped |-> FALSE, send |-> <<>>, sendStopped |-> FALSE]
    BY DEF open, IInv, Types, Port
  <2>2. rxreg' \in Char /\ UNCHANGED <<SendSemaphore, ReceiveSemaphore, task, abandoned>>
    BY DEF open, IInv, Types, Char
  <2> QED BY <2>1, <2>2 DEF Port, Char
<1>3. Types' /\ SemaphoresOK' /\ TasksOK'
  BY <1>2 DEF IInv, Types, SemaphoresOK, TasksOK
<1>4. Senders' = {}
  BY <1>1, <1>2 DEF Senders, MaySend, Quiet
<1>5. Receivers' = {}
  <2>1. \A u \in TSK : ~Receives(task[u])
    BY <1>1 DEF IInv, Quiet, TasksOK, SelfOK, Receives
  <2> QED BY <1>2, <2>1, ReceiversAre
<1>6. OneSends' /\ OneReceives'
  BY <1>1, <1>2, <1>4, <1>5, SerialPortAssumption DEF OneSends, OneReceives, Full, Quiet
<1> QED BY <1>2, <1>3, <1>6 DEF IInv

(* Closing initializes the semaphores and releases the tasks that wait.    *)
LEMMA CloseStep ==
    ASSUME IInv, NEW t \in TSK, close(t)
    PROVE  IInv'
<1>1. /\ port' \in Port /\ ~port'.openFlag /\ rxreg' \in Char
      /\ sio' = {} /\ abandoned' = {}
  BY DEF close, IInv, Types, Port
<1>2. /\ SemaphoresOK' /\ SendSemaphore'.semcnt = 1 /\ ReceiveSemaphore'.semcnt = 0
      /\ Waiting(SendSemaphore') = {} /\ Waiting(ReceiveSemaphore') = {}
  BY NewSemaphore DEF close, SemaphoresOK
<1>3. task' \in [TSK -> Task] /\ \A u \in TSK : task'[u] = idle
  BY IdleTask DEF close
<1>4. Types'
  BY <1>1, <1>2, <1>3 DEF Types, SemaphoresOK, SemaphoreOK
<1>5. TasksOK'
  BY <1>2, <1>3, IdleTask DEF TasksOK
<1>7. Quiet'
  BY <1>1, <1>2, <1>3, IdleTask DEF Quiet
<1> QED BY <1>1, <1>2, <1>4, <1>5, <1>7 DEF IInv

(* A call is broken off: the task's rights go with it.                     *)
LEMMA BreakOffStep ==
    ASSUME IInv, NEW t \in TSK, break_off(t)
    PROVE  IInv'
<1>1. /\ UNCHANGED <<port, rxreg, sio>> /\ task[t] # idle
      /\ SendSemaphore' = cancel(SendSemaphore, t)
      /\ ReceiveSemaphore' = cancel(ReceiveSemaphore, t)
      /\ task' = [task EXCEPT ![t] = idle]
  BY DEF break_off, Hardware
<1>2. /\ "send" \in abandoned' <=> "send" \in abandoned \/ t \in Senders
      /\ "receive" \in abandoned' <=> "receive" \in abandoned \/ t \in Receivers
  BY DEF break_off, Senders, Receivers
<1>3. /\ SemaphoreOK(SendSemaphore') /\ SendSemaphore'.semcnt = SendSemaphore.semcnt
      /\ Waiting(SendSemaphore') = Waiting(SendSemaphore) \ {t}
      /\ SemaphoreOK(ReceiveSemaphore') /\ ReceiveSemaphore'.semcnt = ReceiveSemaphore.semcnt
      /\ Waiting(ReceiveSemaphore') = Waiting(ReceiveSemaphore) \ {t}
  BY <1>1, CancelEffect DEF IInv, SemaphoresOK
<1>4. /\ task' \in [TSK -> Task] /\ task'[t] = idle
      /\ \A u \in TSK \ {t} : task'[u] = task[u]
  BY <1>1, IdleTask DEF IInv, Types
<1>5. Types'
  BY <1>1, <1>3, <1>4 DEF IInv, Types, SemaphoreOK
<1>6. SemaphoresOK' /\ TasksOK'
  BY <1>3, <1>4, IdleTask DEF IInv, SemaphoresOK, TasksOK
<1>7. Senders' = Senders \ {t}
  BY <1>3, <1>4, IdleTask, SendersAre
<1>8. Receivers' = Receivers \ {t}
  BY <1>3, <1>4, IdleTask, ReceiversAre
<1>9. CASE port.openFlag
  <2>1. OneSends /\ OneReceives /\ ~port.errorFlag
    BY <1>9 DEF IInv
  <2>2. OneSends'
    BY <1>1, <1>2, <1>3, <1>7, <2>1 DEF OneSends, Full, IInv, Types, Semaphore
  <2>3. OneReceives'
    BY <1>1, <1>2, <1>3, <1>8, <2>1 DEF OneReceives, IInv, Types, Semaphore
  <2> QED BY <1>1, <1>5, <1>6, <1>9, <2>1, <2>2, <2>3 DEF IInv
<1>10. CASE ~port.openFlag
  <2>1. Quiet /\ t \notin Senders /\ t \notin Receivers
    <3>1. Quiet /\ task[t].pc = "idle"
      BY <1>10 DEF IInv, Quiet
    <3>2. ~Sends(task[t]) /\ ~Receives(task[t])
      BY <3>1 DEF IInv, TasksOK, SelfOK, Sends, Receives
    <3> QED BY <3>1, <3>2, SendersAre, ReceiversAre
  <2>2. abandoned' = {}
    BY <2>1 DEF break_off, Quiet, Senders, Receivers
  <2>3. Quiet'
    BY <1>1, <1>3, <1>4, <2>1, <2>2, IdleTask DEF Quiet
  <2> QED BY <1>1, <1>5, <1>6, <1>10, <2>3 DEF IInv
<1> QED BY <1>9, <1>10

(* eSerialPort_control changes settings only.                              *)
LEMMA ControlStep ==
    ASSUME IInv, NEW t \in TSK, NEW ioctl \in IOCONTROL, control(t, ioctl)
    PROVE  IInv'
<1>1. ioctl \in SUBSET {"ECHO", "CRLF", "FCSND", "FCANY", "FCRCV"}
  BY SerialPortAssumption
<1>2. /\ port' \in Port /\ port'.openFlag = port.openFlag
      /\ port'.errorFlag = port.errorFlag
      /\ port'.send = port.send /\ port'.receive = port.receive
  BY <1>1 DEF control, IInv, Types, Port
<1>3. /\ UNCHANGED <<SendSemaphore, ReceiveSemaphore, task, abandoned>>
      /\ port.openFlag /\ rxreg' \in Char
  BY DEF control, Usable, IInv, Types
<1> QED BY <1>2, <1>3, SamePlaces

(* Every step preserves the invariant.                                     *)
LEMMA NextIInv ==
    IInv /\ [Next]_vars => IInv'
<1> SUFFICES ASSUME IInv, [Next]_vars PROVE IInv'
  OBVIOUS
<1>1. ASSUME NEW t \in TSK, TaskStep(t) PROVE IInv'
  BY <1>1, WaitSendStep, WaitReceiveStep, PutStep, SignalSendStep, GetStep,
     SignalReceiveStep DEF TaskStep
<1>2. ASSUME NEW t \in TSK, open(t) \/ close(t) PROVE IInv'
  BY <1>2, OpenStep, CloseStep
<1>3. ASSUME NEW t \in TSK, NEW ioctl \in IOCONTROL, control(t, ioctl) PROVE IInv'
  BY <1>3, ControlStep
<1>4. ASSUME NEW t \in TSK, NEW length \in WRITE[t], write(t, length) PROVE IInv'
  <2>1. length \in Nat
    BY <1>4, SerialPortAssumption
  <2> QED BY <1>4, <2>1, CallStep
<1>5. ASSUME NEW t \in TSK, NEW length \in READ[t], read(t, length) PROVE IInv'
  <2>1. length \in Nat
    BY <1>5, SerialPortAssumption
  <2> QED BY <1>5, <2>1, CallStep
<1>6. CASE readySend \/ readyReceive
  BY <1>6, ReadySendStep, ReadyReceiveStep
<1>7. CASE transmit
  BY <1>7, SamePlaces DEF transmit, IInv, Types, Quiet
<1>8. ASSUME NEW c \in PEERSENDS, peer_sends(c) PROVE IInv'
  BY <1>8, SamePlaces DEF peer_sends, IInv, Types, Quiet, Char
<1>9. ASSUME NEW t \in BROKENOFF, break_off(t) PROVE IInv'
  <2>1. t \in TSK
    BY <1>9, SerialPortAssumption
  <2> QED BY <1>9, <2>1, BreakOffStep
<1>10. CASE UNCHANGED vars
  BY <1>10, SamePlaces DEF vars, IInv, Types, Quiet
<1> QED BY <1>1, <1>2, <1>3, <1>4, <1>5, <1>6, <1>7, <1>8, <1>9, <1>10 DEF Next

(* In every reachable state of an open port the right to send is with the  *)
(* semaphore, with one task or with the full buffer, the right to receive  *)
(* is with the semaphore or one task exactly while there is something to   *)
(* receive, unless a task whose call was broken off has taken one along:   *)
(* then it is gone until the port is closed, and nobody has it.  No signal *)
(* has ever overflowed (tSerialPortMain.c: errorFlag, and the error exits  *)
(* of eSerialPort_write and eSerialPort_read).                             *)
THEOREM SemaphoresMatchBuffers ==
    Spec => []TokensOK
<1>1. Init => IInv
  BY InitIInv
<1>2. IInv /\ [Next]_vars => IInv'
  BY NextIInv
<1>3. IInv => TokensOK
  BY Counts
<1> QED BY <1>1, <1>2, <1>3, PTL DEF Spec

=============================================================================
