----------------------------- MODULE WaitProofs -----------------------------
(***************************************************************************)
(* What the operations of TaskOps do to the ready queues and to the choice *)
(* of the task that should run, and what those of WaitOps and MutexOps,    *)
(* from which the service calls are composed, do to tasks, ready queues    *)
(* and wait queues.                                                        *)
(***************************************************************************)
EXTENDS MutexOps, SequenceTheorems, WellFoundedInduction, TLAPS

(* A set of natural numbers has a least element, which Min chooses.        *)
LEMMA LeastOf ==
    ASSUME NEW S \in SUBSET Nat, S # {}
    PROVE  Min(S) \in S /\ \A y \in S : Min(S) <= y
<1>1. PICK x \in S : \A y \in S : ~ (<<y, x>> \in OpToRel(<, Nat))
  BY WFMin, NatLessThanWellFounded
<1>2. \A y \in S : ~ (y < x)
  BY <1>1 DEF OpToRel
<1>3. \A y \in S : x <= y
  BY <1>2
<1> QED BY <1>3 DEF Min

-----------------------------------------------------------------------------
(* Queues without duplicates.                                              *)

(* Queue q holds the elements of S, a part of T, each once.                *)
Lists(q, S, T) ==
    /\ q \in Seq(T)
    /\ \A i, j \in 1 .. Len(q) : q[i] = q[j] => i = j
    /\ S = {q[i] : i \in 1 .. Len(q)}

LEMMA EmptyLists ==
    ASSUME NEW T PROVE Lists(<<>>, {}, T)
BY DEF Lists

LEMMA ListsEmpty ==
    ASSUME NEW T, NEW S, NEW q, Lists(q, S, T)
    PROVE  /\ S = {} <=> q = <<>>
           /\ S \in SUBSET T
           /\ q # <<>> => Head(q) \in S
<1>1. q \in Seq(T) /\ Len(q) \in Nat
  BY DEF Lists
<1>2. CASE q = <<>>
  BY <1>2 DEF Lists
<1>3. CASE q # <<>>
  <2>1. 1 \in 1 .. Len(q) /\ Head(q) = q[1]
    BY <1>1, <1>3
  <2>2. Head(q) \in S
    BY <2>1 DEF Lists
  <2>3. S \in SUBSET T
    BY <1>1 DEF Lists
  <2> QED BY <1>3, <2>2, <2>3
<1> QED BY <1>2, <1>3

LEMMA AppendLists ==
    ASSUME NEW T, NEW S, NEW q, Lists(q, S, T), NEW t \in T, t \notin S
    PROVE  /\ Lists(Append(q, t), S \cup {t}, T)
           /\ Append(q, t) # <<>>
           /\ Head(Append(q, t)) = IF q = <<>> THEN t ELSE Head(q)
<1> DEFINE r == Append(q, t)
<1>1. /\ q \in Seq(T) /\ Len(q) \in Nat
      /\ r \in Seq(T) /\ Len(r) = Len(q) + 1
      /\ \A i \in 1 .. Len(q) : r[i] = q[i]
      /\ r[Len(q) + 1] = t
  BY DEF Lists
<1>2. \A i \in 1 .. Len(q) : q[i] # t
  BY DEF Lists
<1>3. \A i, j \in 1 .. Len(r) : r[i] = r[j] => i = j
  BY <1>1, <1>2 DEF Lists
<1>4. S \cup {t} = {r[i] : i \in 1 .. Len(r)}
  <2>1. ASSUME NEW x \in S \cup {t} PROVE \E i \in 1 .. Len(r) : x = r[i]
    BY <1>1 DEF Lists
  <2>2. ASSUME NEW i \in 1 .. Len(r) PROVE r[i] \in S \cup {t}
    BY <1>1 DEF Lists
  <2> QED BY <2>1, <2>2
<1>5. r # <<>> /\ Head(r) = IF q = <<>> THEN t ELSE Head(q)
  BY <1>1, HeadTailAppend
<1> QED BY <1>1, <1>3, <1>4, <1>5 DEF Lists

LEMMA FirstInEmpty ==
    ASSUME NEW T, NEW q, Lists(q, {}, T), NEW t \in T
    PROVE  q = <<>> /\ Head(Append(q, t)) = t
<1>1. q = <<>>
  BY ListsEmpty
<1>2. Head(Append(q, t)) = t
  BY AppendLists, <1>1
<1> QED BY <1>1, <1>2

LEMMA ConsLists ==
    ASSUME NEW T, NEW S, NEW q, Lists(q, S, T), NEW t \in T, t \notin S
    PROVE  /\ Lists(Cons(t, q), S \cup {t}, T)
           /\ Cons(t, q) # <<>>
           /\ Head(Cons(t, q)) = t
<1> DEFINE r == Cons(t, q)
<1>1. /\ q \in Seq(T) /\ Len(q) \in Nat
      /\ r \in Seq(T) /\ Len(r) = Len(q) + 1
      /\ r[1] = t
      /\ \A i \in 2 .. Len(r) : r[i] = q[i - 1]
  BY DEF Lists, Cons
<1>2. \A i \in 1 .. Len(q) : q[i] # t
  BY DEF Lists
<1>3. \A i, j \in 1 .. Len(r) : r[i] = r[j] => i = j
  <2> TAKE i, j \in 1 .. Len(r)
  <2> HAVE r[i] = r[j]
  <2>1. CASE i = 1 /\ j = 1
    BY <2>1
  <2>2. CASE i = 1 /\ j # 1
    BY <1>1, <1>2, <2>2
  <2>3. CASE i # 1 /\ j = 1
    BY <1>1, <1>2, <2>3
  <2>4. CASE i # 1 /\ j # 1
    <3>1. i - 1 \in 1 .. Len(q) /\ j - 1 \in 1 .. Len(q) /\ q[i - 1] = q[j - 1]
      BY <1>1, <2>4
    <3> QED BY <3>1 DEF Lists
  <2> QED BY <2>1, <2>2, <2>3, <2>4
<1>4. S \cup {t} = {r[i] : i \in 1 .. Len(r)}
  <2>1. ASSUME NEW i \in 1 .. Len(q) PROVE i + 1 \in 2 .. Len(r) /\ r[i + 1] = q[i]
    BY <1>1
  <2>2. ASSUME NEW x \in S \cup {t} PROVE \E i \in 1 .. Len(r) : x = r[i]
    <3>1. CASE x = t
      BY <1>1, <3>1
    <3>2. CASE x \in S
      <4>1. PICK i \in 1 .. Len(q) : x = q[i]
        BY <3>2 DEF Lists
      <4> QED BY <4>1, <2>1, <1>1
    <3> QED BY <3>1, <3>2
  <2>3. ASSUME NEW i \in 1 .. Len(r) PROVE r[i] \in S \cup {t}
    <3>1. CASE i = 1
      BY <1>1, <3>1
    <3>2. CASE i # 1
      <4>1. i - 1 \in 1 .. Len(q) /\ r[i] = q[i - 1]
        BY <1>1, <3>2
      <4> QED BY <4>1 DEF Lists
    <3> QED BY <3>1, <3>2
  <2> QED BY <2>2, <2>3
<1> QED BY <1>1, <1>3, <1>4 DEF Lists

LEMMA TailLists ==
    ASSUME NEW T, NEW S, NEW q, Lists(q, S, T), q # <<>>
    PROVE  /\ Lists(Tail(q), S \ {Head(q)}, T)
           /\ Head(q) \in S
           /\ Len(Tail(q)) = Len(q) - 1
<1> DEFINE r == Tail(q)
<1>1. /\ q \in Seq(T) /\ Len(q) \in Nat \ {0} /\ Head(q) = q[1]
      /\ r \in Seq(T) /\ Len(r) = Len(q) - 1
      /\ \A i \in 1 .. Len(r) : r[i] = q[i + 1]
  BY DEF Lists
<1>2. \A i, j \in 1 .. Len(r) : r[i] = r[j] => i = j
  <2> TAKE i, j \in 1 .. Len(r)
  <2> HAVE r[i] = r[j]
  <2>1. i + 1 \in 1 .. Len(q) /\ j + 1 \in 1 .. Len(q) /\ q[i + 1] = q[j + 1]
    BY <1>1
  <2>2. i + 1 = j + 1
    BY <2>1 DEF Lists
  <2> QED BY <2>2
<1>3. S \ {Head(q)} = {r[i] : i \in 1 .. Len(r)}
  <2>1. ASSUME NEW x \in S, x # q[1] PROVE \E i \in 1 .. Len(r) : x = r[i]
    <3>1. PICK i \in 1 .. Len(q) : x = q[i]
      BY DEF Lists
    <3>2. i - 1 \in 1 .. Len(r) /\ r[i - 1] = q[i]
      BY <1>1, <2>1, <3>1
    <3> QED BY <3>1, <3>2
  <2>2. ASSUME NEW i \in 1 .. Len(r) PROVE r[i] \in S /\ r[i] # q[1]
    <3>1. i + 1 \in 1 .. Len(q) /\ r[i] = q[i + 1] /\ i + 1 # 1 /\ 1 \in 1 .. Len(q)
      BY <1>1
    <3> QED BY <3>1 DEF Lists
  <2> QED BY <1>1, <2>1, <2>2
<1> QED BY <1>1, <1>2, <1>3, ListsEmpty DEF Lists

(* What is left when element t of q is taken out.                          *)
LEMMA DeleteAt ==
    ASSUME NEW T, NEW S, NEW q, Lists(q, S, T), NEW t \in S
    PROVE  \E k \in 1 .. Len(q) :
              /\ q[k] = t
              /\ Len(queue_delete(q, t)) = Len(q) - 1
              /\ queue_delete(q, t) \in Seq(T)
              /\ \A i \in 1 .. Len(q) - 1 :
                    queue_delete(q, t)[i] = IF i < k THEN q[i] ELSE q[i + 1]
<1>1. q \in Seq(T) /\ Len(q) \in Nat
  BY DEF Lists
<1>2. PICK k \in 1 .. Len(q) : q[k] = t
  BY DEF Lists
<1>3. {i \in 1 .. Len(q) : q[i] = t} = {k}
  BY <1>2 DEF Lists
<1>4. Min({k}) = k
  BY <1>1, <1>2, LeastOf
<1>5. SelectInSeq(q, LAMBDA v : v = t) = k
  BY <1>3, <1>4 DEF SelectInSeq
<1>6. queue_delete(q, t) = SubSeq(q, 1, k - 1) \o SubSeq(q, k + 1, Len(q))
  BY <1>2, <1>5 DEF queue_delete, RemoveFirst, RemoveAt
<1> DEFINE a == SubSeq(q, 1, k - 1)
           b == SubSeq(q, k + 1, Len(q))
<1>7. /\ a \in Seq(T) /\ Len(a) = k - 1
      /\ \A i \in 1 .. k - 1 : a[i] = q[i]
  BY <1>1
<1>8. /\ b \in Seq(T) /\ Len(b) = Len(q) - k
      /\ \A i \in 1 .. Len(q) - k : b[i] = q[k + i]
  BY <1>1
<1> HIDE DEF a, b
<1>9. /\ a \o b \in Seq(T) /\ Len(a \o b) = Len(q) - 1
      /\ \A i \in 1 .. Len(q) - 1 : (a \o b)[i] = IF i < k THEN q[i] ELSE q[i + 1]
  <2>1. /\ a \o b \in Seq(T) /\ Len(a \o b) = Len(q) - 1
    <3>1. a \o b \in Seq(T) /\ Len(a \o b) = Len(a) + Len(b)
      BY <1>7, <1>8, ConcatProperties
    <3>2. Len(a) + Len(b) = Len(q) - 1
      BY <1>1, <1>2, <1>7, <1>8
    <3> QED BY <3>1, <3>2
  <2>2. ASSUME NEW i \in 1 .. Len(q) - 1
        PROVE  (a \o b)[i] = IF i < k THEN q[i] ELSE q[i + 1]
    <3>1. (a \o b)[i] = IF i <= Len(a) THEN a[i] ELSE b[i - Len(a)]
      BY <1>1, <1>7, <1>8, <2>1, ConcatProperties
    <3>2. CASE i < k
      BY <1>1, <1>7, <3>1, <3>2
    <3>3. CASE ~(i < k)
      <4>1. i - Len(a) \in 1 .. Len(q) - k /\ ~(i <= Len(a)) /\ k + (i - Len(a)) = i + 1
        BY <1>1, <1>7, <3>3
      <4> QED BY <1>8, <3>1, <3>3, <4>1
    <3> QED BY <3>2, <3>3
  <2> QED BY <2>1, <2>2
<1> QED BY <1>2, <1>6, <1>9 DEF a, b

LEMMA DeleteLists ==
    ASSUME NEW T, NEW S, NEW q, Lists(q, S, T), NEW t \in S
    PROVE  /\ Lists(queue_delete(q, t), S \ {t}, T)
           /\ Head(q) # t => /\ queue_delete(q, t) # <<>>
                             /\ Head(queue_delete(q, t)) = Head(q)
           /\ Len(queue_delete(q, t)) = Len(q) - 1
<1> DEFINE r == queue_delete(q, t)
<1>1. PICK k \in 1 .. Len(q) : 
              /\ q[k] = t
              /\ Len(r) = Len(q) - 1
              /\ r \in Seq(T)
              /\ \A i \in 1 .. Len(q) - 1 : r[i] = IF i < k THEN q[i] ELSE q[i + 1]
  BY DeleteAt
<1> HIDE DEF r
<1>2. q \in Seq(T) /\ Len(q) \in Nat /\ Len(r) \in Nat
  BY <1>1 DEF Lists
<1>3. \A i, j \in 1 .. Len(r) : r[i] = r[j] => i = j
  <2> TAKE i, j \in 1 .. Len(r)
  <2> HAVE r[i] = r[j]
  <2>1. PICK ii \in {i, i + 1} : /\ ii \in 1 .. Len(q) /\ r[i] = q[ii]
                                 /\ IF i < k THEN ii = i ELSE ii = i + 1
    BY <1>1, <1>2
  <2>2. PICK jj \in {j, j + 1} : /\ jj \in 1 .. Len(q) /\ r[j] = q[jj]
                                 /\ IF j < k THEN jj = j ELSE jj = j + 1
    BY <1>1, <1>2
  <2>3. ii = jj
    BY <2>1, <2>2 DEF Lists
  <2> QED BY <1>2, <2>1, <2>2, <2>3
<1>4. S \ {t} = {r[i] : i \in 1 .. Len(r)}
  <2>1. ASSUME NEW x \in S, x # t PROVE \E i \in 1 .. Len(r) : x = r[i]
    <3>1. PICK i \in 1 .. Len(q) : x = q[i]
      BY DEF Lists
    <3>2. i # k
      BY <1>1, <2>1, <3>1
    <3>3. CASE i < k
      <4>1. i \in 1 .. Len(r) /\ r[i] = q[i]
        BY <1>1, <1>2, <3>3
      <4> QED BY <3>1, <4>1
    <3>4. CASE i > k
      <4>1. i - 1 \in 1 .. Len(r) /\ r[i - 1] = q[i]
        BY <1>1, <1>2, <3>4
      <4> QED BY <3>1, <4>1
    <3> QED BY <1>2, <3>2, <3>3, <3>4
  <2>2. ASSUME NEW i \in 1 .. Len(r) PROVE r[i] \in S /\ r[i] # t
    <3>1. PICK j \in 1 .. Len(q) : r[i] = q[j] /\ j # k
      <4>1. i \in 1 .. Len(q) /\ i + 1 \in 1 .. Len(q)
        BY <1>1, <1>2
      <4> QED BY <1>1, <1>2, <4>1
    <3> QED BY <1>1, <3>1 DEF Lists
  <2> QED BY <2>1, <2>2
<1>5. Head(q) # t => r # <<>> /\ Head(r) = Head(q)
  <2> SUFFICES ASSUME Head(q) # t PROVE r # <<>> /\ Head(r) = Head(q)
    OBVIOUS
  <2>1. q # <<>> /\ Head(q) = q[1]
    BY <1>1, <1>2
  <2>2. k # 1
    BY <1>1, <2>1
  <2>3. 1 \in 1 .. Len(r) /\ r[1] = q[1]
    BY <1>1, <1>2, <2>2
  <2> QED BY <1>1, <1>2, <2>1, <2>3
<1> QED BY <1>1, <1>3, <1>4, <1>5 DEF Lists, r

(* The tasks of a queue in the order of their priorities.                  *)
Sorted(s, q) ==
    \A i, j \in 1 .. Len(q) : i < j => s.tcb[q[i]].priority <= s.tcb[q[j]].priority

LEMMA TailSorted ==
    ASSUME NEW T, NEW S, NEW q, Lists(q, S, T), q # <<>>, NEW s, Sorted(s, q)
    PROVE  Sorted(s, Tail(q))
<1>1. /\ q \in Seq(T) /\ Len(q) \in Nat \ {0}
      /\ Len(Tail(q)) = Len(q) - 1
      /\ \A i \in 1 .. Len(Tail(q)) : Tail(q)[i] = q[i + 1]
  BY DEF Lists
<1>2. ASSUME NEW i \in 1 .. Len(Tail(q)), NEW j \in 1 .. Len(Tail(q)), i < j
      PROVE  s.tcb[Tail(q)[i]].priority <= s.tcb[Tail(q)[j]].priority
  <2>1. i + 1 \in 1 .. Len(q) /\ j + 1 \in 1 .. Len(q) /\ i + 1 < j + 1
    BY <1>1, <1>2
  <2> QED BY <1>1, <2>1 DEF Sorted
<1> QED BY <1>2 DEF Sorted

LEMMA DeleteSorted ==
    ASSUME NEW T, NEW S, NEW q, Lists(q, S, T), NEW t \in S, NEW s, Sorted(s, q)
    PROVE  Sorted(s, queue_delete(q, t))
<1> DEFINE r == queue_delete(q, t)
<1>1. PICK k \in 1 .. Len(q) :
              /\ Len(r) = Len(q) - 1
              /\ \A i \in 1 .. Len(q) - 1 : r[i] = IF i < k THEN q[i] ELSE q[i + 1]
  BY DeleteAt
<1> HIDE DEF r
<1>2. Len(q) \in Nat
  BY DEF Lists
<1>3. ASSUME NEW i \in 1 .. Len(r), NEW j \in 1 .. Len(r), i < j
      PROVE  s.tcb[r[i]].priority <= s.tcb[r[j]].priority
  <2>1. PICK ii \in 1 .. Len(q), jj \in 1 .. Len(q) : r[i] = q[ii] /\ r[j] = q[jj] /\ ii < jj
    <3> DEFINE m(x) == IF x < k THEN x ELSE x + 1
    <3>1. m(i) \in 1 .. Len(q) /\ m(j) \in 1 .. Len(q) /\ m(i) < m(j)
      BY <1>1, <1>2, <1>3
    <3>2. r[i] = q[m(i)] /\ r[j] = q[m(j)]
      BY <1>1, <1>3
    <3> QED BY <3>1, <3>2
  <2> QED BY <2>1 DEF Sorted
<1> QED BY <1>3 DEF Sorted, r

(* Queue r is q with t at place k, ...                                     *)
InsertedAt(q, t, k, r) ==
    /\ Len(r) = Len(q) + 1
    /\ \A i \in 1 .. Len(q) + 1 :
          r[i] = IF i < k THEN q[i] ELSE IF i = k THEN t ELSE q[i - 1]

(* ... which is behind all the tasks of its priority.                      *)
BehindEquals(s, q, t, k) ==
    /\ \A i \in 1 .. k - 1 : ~(s.tcb[t].priority < s.tcb[q[i]].priority)
    /\ k <= Len(q) => s.tcb[t].priority < s.tcb[q[k]].priority

LEMMA InsertWhere ==
    ASSUME NEW T, NEW S, NEW q, Lists(q, S, T), NEW t \in T, NEW s
    PROVE  /\ queue_insert_tpri(s, q, t) \in Seq(T)
           /\ \E k \in 1 .. Len(q) + 1 :
                 /\ InsertedAt(q, t, k, queue_insert_tpri(s, q, t))
                 /\ BehindEquals(s, q, t, k)
<1> DEFINE Later == {i \in 1 .. Len(q) : s.tcb[t].priority < s.tcb[q[i]].priority}
           r == queue_insert_tpri(s, q, t)
<1>1. q \in Seq(T) /\ Len(q) \in Nat
  BY DEF Lists
<1>2. CASE Later = {}
  <2>1. r = Append(q, t)
    BY <1>2 DEF queue_insert_tpri, SelectInSeq
  <2>2. /\ r \in Seq(T) /\ Len(r) = Len(q) + 1
        /\ \A i \in 1 .. Len(q) : r[i] = q[i]
        /\ r[Len(q) + 1] = t
    BY <1>1, <2>1
  <2>3. \A i \in 1 .. Len(q) : ~(s.tcb[t].priority < s.tcb[q[i]].priority)
    BY <1>2
  <2> HIDE DEF r, Later
  <2>4. \A i \in 1 .. Len(q) + 1 :
           r[i] = IF i < Len(q) + 1 THEN q[i] ELSE IF i = Len(q) + 1 THEN t ELSE q[i - 1]
    BY <1>1, <2>2
  <2>5. Len(q) + 1 \in 1 .. Len(q) + 1 /\ ~(Len(q) + 1 <= Len(q)) /\ (Len(q) + 1) - 1 = Len(q)
    BY <1>1
  <2> QED BY <2>2, <2>3, <2>4, <2>5 DEF r, InsertedAt, BehindEquals
<1>3. CASE Later # {}
  <2> DEFINE k == Min(Later)
  <2>1. k \in Later /\ \A y \in Later : k <= y
    <3>1. Later \in SUBSET Nat
      BY <1>1
    <3> HIDE DEF Later
    <3> QED BY <1>3, <3>1, LeastOf
  <2>2. k \in 1 .. Len(q)
    BY <2>1
  <2>3. r = InsertAt(q, k, t)
    BY <1>3, <2>2 DEF queue_insert_tpri, SelectInSeq
  <2> DEFINE a == SubSeq(q, 1, k - 1)
             b == SubSeq(q, k, Len(q))
  <2>4. r = (a \o <<t>>) \o b
    BY <2>3 DEF InsertAt
  <2>6. /\ a \in Seq(T) /\ Len(a) = k - 1
        /\ \A i \in 1 .. k - 1 : a[i] = q[i]
    <3> HIDE DEF k
    <3> QED BY <1>1, <2>2
  <2>7. /\ b \in Seq(T) /\ Len(b) = Len(q) - k + 1
        /\ \A i \in 1 .. Len(q) - k + 1 : b[i] = q[k + i - 1]
    <3> HIDE DEF k
    <3> QED BY <1>1, <2>2
  <2>8. \A i \in 1 .. k - 1 : ~(s.tcb[t].priority < s.tcb[q[i]].priority)
    BY <1>1, <2>1, <2>2
  <2>9. s.tcb[t].priority < s.tcb[q[k]].priority
    BY <2>1
  <2> HIDE DEF k, a, b, r
  <2>10. /\ a \o <<t>> \in Seq(T) /\ Len(a \o <<t>>) = k
         /\ \A i \in 1 .. k : (a \o <<t>>)[i] = IF i < k THEN q[i] ELSE t
    <3>1. /\ <<t>> \in Seq(T) /\ Len(<<t>>) = 1 /\ <<t>>[1] = t
      OBVIOUS
    <3>2. /\ a \o <<t>> \in Seq(T) /\ Len(a \o <<t>>) = Len(a) + 1
          /\ \A i \in 1 .. Len(a) + 1 :
                (a \o <<t>>)[i] = IF i <= Len(a) THEN a[i] ELSE <<t>>[i - Len(a)]
      BY <2>6, <3>1, ConcatProperties
    <3> QED BY <1>1, <2>2, <2>6, <3>1, <3>2
  <2> DEFINE c == a \o <<t>>
  <2> HIDE DEF c
  <2>11. /\ r \in Seq(T) /\ Len(r) = Len(c) + Len(b)
         /\ \A i \in 1 .. Len(c) + Len(b) : r[i] = IF i <= Len(c) THEN c[i] ELSE b[i - Len(c)]
    BY <2>4, <2>7, <2>10, ConcatProperties DEF c
  <2>12. Len(c) = k /\ \A i \in 1 .. k : c[i] = IF i < k THEN q[i] ELSE t
    BY <2>10 DEF c
  <2>13. Len(c) + Len(b) = Len(q) + 1
    BY <1>1, <2>2, <2>7, <2>12
  <2>14. ASSUME NEW i \in 1 .. Len(q) + 1
         PROVE  r[i] = IF i < k THEN q[i] ELSE IF i = k THEN t ELSE q[i - 1]
    <3>1. CASE i <= k
      BY <1>1, <2>2, <2>11, <2>12, <2>13, <3>1
    <3>2. CASE ~(i <= k)
      <4>1. r[i] = b[i - k] /\ i - k \in 1 .. Len(q) - k + 1 /\ k + (i - k) - 1 = i - 1
        BY <1>1, <2>2, <2>11, <2>12, <2>13, <3>2
      <4> QED BY <1>1, <2>2, <2>7, <3>2, <4>1
    <3> QED BY <3>1, <3>2
  <2>15. k \in 1 .. Len(q) + 1
    BY <1>1, <2>2
  <2> QED BY <2>8, <2>9, <2>11, <2>13, <2>14, <2>15 DEF r, InsertedAt, BehindEquals
<1> QED BY <1>2, <1>3

LEMMA InsertLists ==
    ASSUME NEW T, NEW S, NEW q, Lists(q, S, T), NEW t \in T, t \notin S, NEW s
    PROVE  Lists(queue_insert_tpri(s, q, t), S \cup {t}, T)
<1> DEFINE r == queue_insert_tpri(s, q, t)
<1>0. PICK k \in 1 .. Len(q) + 1 : InsertedAt(q, t, k, r)
  BY InsertWhere
<1>1. /\ r \in Seq(T)
      /\ Len(r) = Len(q) + 1
      /\ \A i \in 1 .. Len(q) + 1 :
            r[i] = IF i < k THEN q[i] ELSE IF i = k THEN t ELSE q[i - 1]
  BY <1>0, InsertWhere DEF InsertedAt
<1> HIDE DEF r
<1>2. Len(q) \in Nat /\ \A i \in 1 .. Len(q) : q[i] # t
  BY DEF Lists
<1>3. ASSUME NEW i \in 1 .. Len(q)
      PROVE  \E j \in 1 .. Len(r) : r[j] = q[i]
  <2>1. CASE i < k
    BY <1>1, <1>2, <2>1
  <2>2. CASE ~(i < k)
    <3>1. i + 1 \in 1 .. Len(r) /\ ~(i + 1 < k) /\ i + 1 # k /\ (i + 1) - 1 = i
      BY <1>1, <1>2, <2>2
    <3> QED BY <1>1, <3>1
  <2> QED BY <2>1, <2>2
<1>4. \A i \in 1 .. Len(r) : i # k =>
         \E j \in 1 .. Len(q) : r[i] = q[j] /\ j = IF i < k THEN i ELSE i - 1
  <2> TAKE i \in 1 .. Len(r)
  <2>1. CASE i < k
    BY <1>1, <1>2, <2>1
  <2>2. CASE i > k
    <3>1. i - 1 \in 1 .. Len(q) /\ r[i] = q[i - 1]
      BY <1>1, <1>2, <2>2
    <3> QED BY <2>2, <3>1
  <2> QED BY <1>1, <1>2, <2>1, <2>2
<1>5. r[k] = t /\ k \in 1 .. Len(r)
  BY <1>1
<1>6. ASSUME NEW i \in 1 .. Len(r), NEW j \in 1 .. Len(r), r[i] = r[j]
      PROVE  i = j
  <2>1. CASE i = k \/ j = k
    BY <1>2, <1>4, <1>5, <1>6, <2>1
  <2>2. CASE i # k /\ j # k
    <3>1. PICK ii \in 1 .. Len(q) : r[i] = q[ii] /\ ii = IF i < k THEN i ELSE i - 1
      BY <1>4, <2>2
    <3>2. PICK jj \in 1 .. Len(q) : r[j] = q[jj] /\ jj = IF j < k THEN j ELSE j - 1
      BY <1>4, <2>2
    <3>3. ii = jj
      BY <1>6, <3>1, <3>2 DEF Lists
    <3> QED BY <1>1, <1>2, <2>2, <3>1, <3>2, <3>3
  <2> QED BY <2>1, <2>2
<1>7. S \cup {t} = {r[i] : i \in 1 .. Len(r)}
  <2>1. ASSUME NEW x \in S PROVE \E j \in 1 .. Len(r) : x = r[j]
    BY <1>3 DEF Lists
  <2>2. ASSUME NEW i \in 1 .. Len(r) PROVE r[i] \in S \cup {t}
    BY <1>4, <1>5 DEF Lists
  <2> QED BY <1>5, <2>1, <2>2
<1> QED BY <1>1, <1>6, <1>7 DEF Lists, r

LEMMA InsertSorted ==
    ASSUME NEW T, NEW S, NEW q, Lists(q, S, T), NEW t \in T, NEW s, Sorted(s, q),
           \A u \in T : s.tcb[u].priority \in Int
    PROVE  Sorted(s, queue_insert_tpri(s, q, t))
<1> DEFINE r == queue_insert_tpri(s, q, t)
           pri(u) == s.tcb[u].priority
<1>0. PICK k \in 1 .. Len(q) + 1 : InsertedAt(q, t, k, r) /\ BehindEquals(s, q, t, k)
  BY InsertWhere
<1>1. /\ Len(r) = Len(q) + 1
      /\ \A i \in 1 .. Len(q) + 1 :
            r[i] = IF i < k THEN q[i] ELSE IF i = k THEN t ELSE q[i - 1]
      /\ \A i \in 1 .. k - 1 : ~(pri(t) < pri(q[i]))
      /\ k <= Len(q) => pri(t) < pri(q[k])
  BY <1>0 DEF InsertedAt, BehindEquals
<1> HIDE DEF r
<1>2. /\ Len(q) \in Nat
      /\ \A i \in 1 .. Len(q) : q[i] \in T
      /\ \A i, j \in 1 .. Len(q) : i < j => pri(q[i]) <= pri(q[j])
  BY DEF Lists, Sorted
<1>3. \A i \in 1 .. Len(q) : k <= i => pri(t) <= pri(q[i])
  <2> TAKE i \in 1 .. Len(q)
  <2> HAVE k <= i
  <2>1. k \in 1 .. Len(q) /\ pri(t) < pri(q[k])
    BY <1>1, <1>2
  <2>2. pri(q[k]) <= pri(q[i])
    BY <1>2, <2>1
  <2> QED BY <1>2, <2>1, <2>2
<1>4. \A i \in 1 .. Len(q) : i < k => pri(q[i]) <= pri(t)
  BY <1>1, <1>2
<1>5. ASSUME NEW i \in 1 .. Len(r), NEW j \in 1 .. Len(r), i < j
      PROVE  pri(r[i]) <= pri(r[j])
  <2>1. CASE j < k
    BY <1>1, <1>2, <1>5, <2>1
  <2>2. CASE j = k
    BY <1>1, <1>2, <1>4, <1>5, <2>2
  <2>3. CASE i = k
    <3>1. j - 1 \in 1 .. Len(q) /\ k <= j - 1 /\ r[j] = q[j - 1] /\ r[i] = t
      BY <1>1, <1>2, <1>5, <2>3
    <3> QED BY <1>3, <3>1
  <2>4. CASE i < k /\ j > k
    <3>1. j - 1 \in 1 .. Len(q) /\ k <= j - 1 /\ r[j] = q[j - 1]
      BY <1>1, <1>2, <1>5, <2>4
    <3>2. i \in 1 .. Len(q) /\ r[i] = q[i]
      BY <1>1, <1>2, <1>5, <2>4
    <3>3. pri(q[i]) <= pri(t) /\ pri(t) <= pri(q[j - 1])
      BY <1>3, <1>4, <2>4, <3>1, <3>2
    <3> QED BY <1>2, <3>1, <3>2, <3>3
  <2>5. CASE i > k
    <3>1. j - 1 \in 1 .. Len(q) /\ r[j] = q[j - 1] /\ i - 1 \in 1 .. Len(q) /\ r[i] = q[i - 1]
      BY <1>1, <1>2, <1>5, <2>5
    <3>2. i - 1 < j - 1
      BY <1>2, <1>5
    <3> QED BY <1>2, <3>1, <3>2
  <2> QED BY <1>1, <1>2, <1>5, <2>1, <2>2, <2>3, <2>4, <2>5
<1> QED BY <1>5 DEF Sorted, r

-----------------------------------------------------------------------------
(* The kernel state as a record: its fields and the types of those that    *)
(* matter to scheduling and waiting.                                       *)

KernelField == {"tcb", "tinib", "free_tcb", "wobj", "mtx", "free_mtxcb", "sem",
                "flg", "dtq", "pdq", "mpf", "free_cb", "ready_queue",
                "ready_primap", "p_schedtsk", "p_runtsk", "enadsp", "dspflg",
                "ipm", "tmevtb", "out"}

TcbField == {"tstat", "bpriority", "priority", "actque", "wupque", "raster",
             "enater", "lastmtx", "winfo", "p_wobjcb", "wobjdata", "prelock",
             "insvc"}

WobjField == {"wait_queue", "rwait_queue", "wobjatr"}

(* A record with exactly the fields F.                                     *)
HasFields(r, F) == r = [f \in F |-> r[f]]

TcbOK(b) ==
    /\ HasFields(b, TcbField)
    /\ b.priority \in TPRI /\ b.bpriority \in TPRI
    /\ b.lastmtx \in Seq(MTX)

WellFormed(s) ==
    /\ HasFields(s, KernelField)
    /\ HasFields(s.tcb, TSK)
    /\ HasFields(s.tinib, TSK)
    /\ HasFields(s.wobj, WOBJ)
    /\ HasFields(s.mtx, MTX)
    /\ HasFields(s.ready_queue, TPRI)
    /\ HasFields(s.tmevtb, TSK)
    /\ HasFields(s.free_cb, OBJKIND)
    /\ \A t \in TSK : TcbOK(s.tcb[t])
    /\ \A t \in TSK : /\ HasFields(s.tinib[t], {"tskatr", "ipriority"})
                      /\ s.tinib[t].ipriority \in TPRI
    /\ \A w \in WOBJ : HasFields(s.wobj[w], WobjField)
    /\ \A m \in MTX : /\ HasFields(s.mtx[m], {"p_loctsk", "ceilpri"})
                      /\ s.mtx[m].p_loctsk \in TSK \cup {NULL}
                      /\ s.mtx[m].ceilpri \in TPRI

(* States s and r differ in the fields D only.                             *)
Agree(s, r, D) == \A f \in KernelField \ D : r[f] = s[f]

ReadyFields == {"ready_queue", "ready_primap", "p_schedtsk"}

-----------------------------------------------------------------------------
(* The scheduler's data when the tasks of R are those in the ready queue.  *)

(* The tasks of R with priority p.                                         *)
OfPriority(s, R, p) == {t \in R : s.tcb[t].priority = p}

QueuesOK(s, R) ==
    /\ \A p \in TPRI : Lists(s.ready_queue[p], OfPriority(s, R, p), TSK)
    /\ s.ready_primap = {p \in TPRI : s.ready_queue[p] # <<>>}

(* Task t is the first of the highest priority.                            *)
IsFirst(s, R, t) ==
    /\ t \in R
    /\ Head(s.ready_queue[s.tcb[t].priority]) = t
    /\ \A u \in R : s.tcb[t].priority <= s.tcb[u].priority

Scheduled(s, R) ==
    IF s.dspflg
    THEN IF R = {} THEN s.p_schedtsk = NULL ELSE IsFirst(s, R, s.p_schedtsk)
    ELSE s.p_schedtsk = s.p_runtsk /\ s.p_runtsk \in R

Sched(s, R) == R \in SUBSET TSK /\ QueuesOK(s, R) /\ Scheduled(s, R)

LEMMA Priorities == TPRI \in SUBSET Nat /\ \A p \in TPRI : p \in Nat /\ p <= p
BY TaskOpsAssumption DEF TPRI

(* The search finds the first task.                                        *)
LEMMA SearchFirst ==
    ASSUME NEW s, NEW R \in SUBSET TSK, QueuesOK(s, R),
           \A t \in R : s.tcb[t].priority \in TPRI, R # {}
    PROVE  IsFirst(s, R, search_schedtsk(s)) /\ s.ready_primap # {}
<1> DEFINE p == Min(s.ready_primap)
<1>1. PICK t \in R : TRUE
  OBVIOUS
<1>2. ASSUME NEW u \in R PROVE s.tcb[u].priority \in s.ready_primap
  <2>1. s.tcb[u].priority \in TPRI
    OBVIOUS
  <2>2. Lists(s.ready_queue[s.tcb[u].priority],
              OfPriority(s, R, s.tcb[u].priority), TSK)
    BY <2>1 DEF QueuesOK
  <2>3. u \in OfPriority(s, R, s.tcb[u].priority)
    BY DEF OfPriority
  <2>4. s.ready_queue[s.tcb[u].priority] # <<>>
    BY <2>2, <2>3, ListsEmpty
  <2> QED BY <2>1, <2>4 DEF QueuesOK
<1>3. s.ready_primap \in SUBSET Nat
  BY Priorities DEF QueuesOK
<1>4. p \in s.ready_primap /\ \A y \in s.ready_primap : p <= y
  BY <1>1, <1>2, <1>3, LeastOf
<1> HIDE DEF p
<1>5. p \in TPRI /\ s.ready_queue[p] # <<>>
  BY <1>4 DEF QueuesOK
<1>6. Head(s.ready_queue[p]) \in OfPriority(s, R, p)
  <2>1. Lists(s.ready_queue[p], OfPriority(s, R, p), TSK)
    BY <1>5 DEF QueuesOK
  <2> QED BY <1>5, <2>1, ListsEmpty
<1>7. search_schedtsk(s) = Head(s.ready_queue[p])
  BY DEF search_schedtsk, primap_search, p
<1> QED BY <1>1, <1>2, <1>4, <1>6, <1>7 DEF IsFirst, OfPriority

(* There is only one.                                                      *)
LEMMA FirstUnique ==
    ASSUME NEW s, NEW R \in SUBSET TSK, \A t \in R : s.tcb[t].priority \in TPRI,
           NEW t, NEW u, IsFirst(s, R, t), IsFirst(s, R, u)
    PROVE  t = u
<1>1. s.tcb[t].priority \in Nat /\ s.tcb[u].priority \in Nat
  BY Priorities DEF IsFirst
<1>2. s.tcb[t].priority <= s.tcb[u].priority /\ s.tcb[u].priority <= s.tcb[t].priority
  BY DEF IsFirst
<1>3. s.tcb[t].priority = s.tcb[u].priority
  BY <1>1, <1>2
<1> QED BY <1>3 DEF IsFirst

LEMMA make_runnable_effect ==
    ASSUME NEW s, WellFormed(s), NEW t \in TSK
    PROVE  LET r   == make_runnable(s, t)
               pri == s.tcb[t].priority
               preempt == s.p_schedtsk = NULL \/ pri < s.tcb[s.p_schedtsk].priority
           IN  /\ WellFormed(r)
               /\ Agree(s, r, ReadyFields)
               /\ \A p \in TPRI : r.ready_queue[p] = IF p = pri
                                                     THEN Append(s.ready_queue[p], t)
                                                     ELSE s.ready_queue[p]
               /\ r.ready_primap = s.ready_primap \cup {pri}
               /\ r.p_schedtsk = IF s.dspflg /\ preempt THEN t ELSE s.p_schedtsk
<1> USE DEF make_runnable, queue_insert_prev
<1>1. s.tcb[t].priority \in TPRI
  BY DEF WellFormed, TcbOK
<1>2. Agree(s, make_runnable(s, t), ReadyFields)
  BY DEF WellFormed, HasFields, KernelField, Agree, ReadyFields
<1>3. WellFormed(make_runnable(s, t))
  <2>1. HasFields(make_runnable(s, t), KernelField)
    BY DEF WellFormed, HasFields, KernelField
  <2>2. HasFields(make_runnable(s, t).ready_queue, TPRI)
    BY <1>1 DEF WellFormed, HasFields, KernelField
  <2> HIDE DEF make_runnable
  <2> QED BY <1>2, <2>1, <2>2 DEF WellFormed, Agree, KernelField, ReadyFields
<1> QED BY <1>1, <1>2, <1>3 DEF WellFormed, HasFields, KernelField

LEMMA make_runnable_sched ==
    ASSUME NEW s, WellFormed(s), NEW R, Sched(s, R), NEW t \in TSK, t \notin R
    PROVE  Sched(make_runnable(s, t), R \cup {t})
<1> DEFINE r   == make_runnable(s, t)
           pri == s.tcb[t].priority
           preempt == s.p_schedtsk = NULL \/ pri < s.tcb[s.p_schedtsk].priority
           Q   == R \cup {t}
<1>1. /\ \A p \in TPRI : r.ready_queue[p] = IF p = pri
                                            THEN Append(s.ready_queue[p], t)
                                            ELSE s.ready_queue[p]
      /\ r.ready_primap = s.ready_primap \cup {pri}
      /\ r.p_schedtsk = IF s.dspflg /\ preempt THEN t ELSE s.p_schedtsk
      /\ Agree(s, r, ReadyFields)
  BY make_runnable_effect
<1>2. r.tcb = s.tcb /\ r.p_runtsk = s.p_runtsk /\ r.dspflg = s.dspflg
  BY <1>1 DEF Agree, KernelField, ReadyFields
<1> HIDE DEF r
<1>3. pri \in TPRI /\ \A u \in Q : s.tcb[u].priority \in TPRI
  BY DEF WellFormed, TcbOK, Sched
<1>4. ASSUME NEW p \in TPRI
      PROVE  Lists(r.ready_queue[p], OfPriority(r, Q, p), TSK)
  <2>1. Lists(s.ready_queue[p], OfPriority(s, R, p), TSK)
    BY DEF Sched, QueuesOK
  <2>2. CASE p = pri
    <3>1. /\ OfPriority(r, Q, p) = OfPriority(s, R, p) \cup {t}
          /\ t \notin OfPriority(s, R, p)
      BY <1>2, <2>2 DEF OfPriority
    <3>2. Lists(Append(s.ready_queue[p], t), OfPriority(s, R, p) \cup {t}, TSK)
      BY <2>1, <3>1, AppendLists
    <3> QED BY <1>1, <2>2, <3>1, <3>2
  <2>3. CASE p # pri
    <3>1. OfPriority(r, Q, p) = OfPriority(s, R, p)
      BY <1>2, <2>3 DEF OfPriority
    <3> QED BY <1>1, <2>1, <2>3, <3>1
  <2> QED BY <2>2, <2>3
<1>5. \A p \in TPRI : r.ready_queue[p] # <<>> <=> p \in s.ready_primap \cup {pri}
  <2> TAKE p \in TPRI
  <2>1. Lists(s.ready_queue[p], OfPriority(s, R, p), TSK)
    BY DEF Sched, QueuesOK
  <2>2. Append(s.ready_queue[p], t) # <<>>
    BY <2>1, AppendProperties DEF Lists
  <2> QED BY <1>1, <2>2 DEF Sched, QueuesOK
<1>6. r.ready_primap = {p \in TPRI : r.ready_queue[p] # <<>>}
  BY <1>1, <1>3, <1>5 DEF Sched, QueuesOK
<1>7. QueuesOK(r, Q)
  BY <1>4, <1>6 DEF QueuesOK
<1>8. Scheduled(r, Q)
  <2>1. CASE ~s.dspflg
    BY <1>1, <1>2, <2>1 DEF Sched, Scheduled
  <2>2. CASE s.dspflg /\ R = {}
    <3>1. s.p_schedtsk = NULL
      BY <2>2 DEF Sched, Scheduled
    <3>2. r.p_schedtsk = t
      BY <1>1, <2>2, <3>1
    <3>3. Lists(s.ready_queue[pri], {}, TSK)
      BY <1>3, <2>2 DEF Sched, QueuesOK, OfPriority
    <3>4. Head(r.ready_queue[pri]) = t
      <4>1. Head(Append(s.ready_queue[pri], t)) = t
        BY <3>3, FirstInEmpty
      <4> QED BY <1>1, <1>3, <4>1
    <3>5. s.tcb[t].priority <= s.tcb[t].priority
      BY <1>3, Priorities
    <3>6. IsFirst(r, Q, t)
      BY <1>2, <2>2, <3>4, <3>5 DEF IsFirst
    <3> QED BY <1>2, <2>2, <3>2, <3>6 DEF Scheduled
  <2>3. CASE s.dspflg /\ R # {}
    <3> DEFINE c == s.p_schedtsk
    <3>1. IsFirst(s, R, c) /\ c \in TSK /\ c # NULL
      BY <2>3, TaskOpsAssumption DEF Sched, Scheduled, IsFirst
    <3>2. s.tcb[c].priority \in Nat /\ pri \in Nat /\ \A u \in Q : s.tcb[u].priority \in Nat
      BY <1>3, <3>1, Priorities DEF IsFirst
    <3>3. CASE pri < s.tcb[c].priority
      <4>1. r.p_schedtsk = t
        BY <1>1, <2>3, <3>3
      <4>2. \A u \in Q : pri <= s.tcb[u].priority
        BY <3>1, <3>2, <3>3 DEF IsFirst
      <4>3. OfPriority(s, R, pri) = {}
        BY <3>1, <3>2, <3>3 DEF IsFirst, OfPriority
      <4>4. Lists(s.ready_queue[pri], {}, TSK)
        BY <1>3, <4>3 DEF Sched, QueuesOK
      <4>5. Head(r.ready_queue[pri]) = t
        <5>1. Head(Append(s.ready_queue[pri], t)) = t
          BY <4>4, FirstInEmpty
        <5> QED BY <1>1, <1>3, <5>1
      <4>6. IsFirst(r, Q, t)
        BY <1>2, <4>2, <4>5 DEF IsFirst
      <4> QED BY <1>2, <2>3, <4>1, <4>6 DEF Scheduled
    <3>4. CASE ~(pri < s.tcb[c].priority)
      <4>1. r.p_schedtsk = c
        BY <1>1, <3>1, <3>4
      <4>2. s.tcb[c].priority \in TPRI
        BY <1>3, <3>1 DEF IsFirst
      <4>3. Head(r.ready_queue[s.tcb[c].priority]) = c
        <5> DEFINE p == s.tcb[c].priority
        <5>1. Lists(s.ready_queue[p], OfPriority(s, R, p), TSK)
          BY <4>2 DEF Sched, QueuesOK
        <5>2. s.ready_queue[p] # <<>> /\ Head(s.ready_queue[p]) = c
          BY <3>1, <5>1, ListsEmpty DEF IsFirst, OfPriority
        <5>3. t \notin OfPriority(s, R, p)
          BY DEF OfPriority
        <5>4. Head(Append(s.ready_queue[p], t)) = c
          BY <5>1, <5>2, <5>3, AppendLists
        <5> QED BY <1>1, <4>2, <5>2, <5>4
      <4>4. \A u \in Q : s.tcb[c].priority <= s.tcb[u].priority
        BY <3>1, <3>2, <3>4 DEF IsFirst
      <4>5. IsFirst(r, Q, c)
        BY <1>2, <3>1, <4>3, <4>4 DEF IsFirst
      <4> QED BY <1>2, <2>3, <4>1, <4>5 DEF Scheduled
    <3> QED BY <3>3, <3>4
  <2> QED BY <2>1, <2>2, <2>3
<1> QED BY <1>7, <1>8 DEF Sched, r

(* Task t, of priority pri, enters its queue, which becomes q, or leaves   *)
(* it; the priorities of the tasks in R stay.                              *)
Enters(s, r, R, t, pri, q) ==
    /\ \A u \in R : r.tcb[u].priority = s.tcb[u].priority
    /\ r.tcb[t].priority = pri
    /\ \A p \in TPRI : r.ready_queue[p] = IF p = pri THEN q ELSE s.ready_queue[p]
    /\ r.ready_primap = s.ready_primap \cup {pri}

Leaves(s, r, R, t, pri, q) ==
    /\ \A u \in R \ {t} : r.tcb[u].priority = s.tcb[u].priority
    /\ s.tcb[t].priority = pri
    /\ q = queue_delete(s.ready_queue[pri], t)
    /\ \A p \in TPRI : r.ready_queue[p] = IF p = pri THEN q ELSE s.ready_queue[p]
    /\ r.ready_primap = IF q = <<>> THEN s.ready_primap \ {pri} ELSE s.ready_primap

LEMMA EnqueueQueues ==
    ASSUME NEW s, NEW r, NEW R \in SUBSET TSK, QueuesOK(s, R), NEW t \in TSK, t \notin R,
           NEW pri \in TPRI, NEW q, Enters(s, r, R, t, pri, q), q # <<>>,
           Lists(q, OfPriority(s, R, pri) \cup {t}, TSK)
    PROVE  QueuesOK(r, R \cup {t})
<1> USE DEF Enters
<1> DEFINE Q == R \cup {t}
<1>1. ASSUME NEW p \in TPRI
      PROVE  Lists(r.ready_queue[p], OfPriority(r, Q, p), TSK)
  <2>1. CASE p = pri
    <3>1. OfPriority(r, Q, p) = OfPriority(s, R, p) \cup {t}
      BY <2>1 DEF OfPriority
    <3> QED BY <2>1, <3>1
  <2>2. CASE p # pri
    <3>1. OfPriority(r, Q, p) = OfPriority(s, R, p)
      BY <2>2 DEF OfPriority
    <3>2. Lists(s.ready_queue[p], OfPriority(s, R, p), TSK)
      BY DEF QueuesOK
    <3> QED BY <2>2, <3>1, <3>2
  <2> QED BY <2>1, <2>2
<1>2. r.ready_primap = {p \in TPRI : r.ready_queue[p] # <<>>}
  BY DEF QueuesOK
<1> QED BY <1>1, <1>2 DEF QueuesOK

LEMMA DequeueQueues ==
    ASSUME NEW s, NEW r, NEW R \in SUBSET TSK, QueuesOK(s, R), NEW t \in R,
           NEW pri \in TPRI, NEW q, Leaves(s, r, R, t, pri, q)
    PROVE  /\ QueuesOK(r, R \ {t})
           /\ Lists(q, OfPriority(s, R \ {t}, pri), TSK)
           /\ Head(s.ready_queue[pri]) # t =>
                 q # <<>> /\ Head(q) = Head(s.ready_queue[pri])
<1> USE DEF Leaves
<1> DEFINE Q == R \ {t}
           S == OfPriority(s, R, pri)
<1>1. Lists(s.ready_queue[pri], S, TSK) /\ t \in S
  BY DEF QueuesOK, OfPriority
<1>2. s.ready_queue[pri] # <<>>
  BY <1>1, ListsEmpty
<1>3. /\ Lists(q, S \ {t}, TSK)
      /\ Head(s.ready_queue[pri]) # t => q # <<>> /\ Head(q) = Head(s.ready_queue[pri])
  BY <1>1, DeleteLists
<1>4. S \ {t} = OfPriority(s, Q, pri)
  BY DEF OfPriority
<1>5. ASSUME NEW p \in TPRI
      PROVE  Lists(r.ready_queue[p], OfPriority(r, Q, p), TSK)
  <2>1. CASE p = pri
    <3>1. OfPriority(r, Q, p) = S \ {t}
      BY <2>1, <1>4 DEF OfPriority
    <3> QED BY <1>3, <2>1, <3>1
  <2>2. CASE p # pri
    <3>1. OfPriority(r, Q, p) = OfPriority(s, R, p)
      BY <2>2 DEF OfPriority
    <3>2. Lists(s.ready_queue[p], OfPriority(s, R, p), TSK)
      BY DEF QueuesOK
    <3> QED BY <2>2, <3>1, <3>2
  <2> QED BY <2>1, <2>2
<1>6. r.ready_primap = {p \in TPRI : r.ready_queue[p] # <<>>}
  BY <1>2 DEF QueuesOK
<1> QED BY <1>3, <1>4, <1>5, <1>6 DEF QueuesOK

LEMMA make_non_runnable_effect ==
    ASSUME NEW s, WellFormed(s), NEW t \in TSK
    PROVE  LET r    == make_non_runnable(s, t)
               pri  == s.tcb[t].priority
               rest == queue_delete(s.ready_queue[pri], t)
           IN  /\ WellFormed(r)
               /\ Agree(s, r, ReadyFields)
               /\ \A p \in TPRI : r.ready_queue[p] = IF p = pri THEN rest
                                                     ELSE s.ready_queue[p]
               /\ r.ready_primap = IF rest = <<>> THEN s.ready_primap \ {pri}
                                   ELSE s.ready_primap
               /\ r.p_schedtsk =
                     IF s.p_schedtsk = t
                     THEN IF rest # <<>> THEN Head(rest)
                          ELSE IF r.ready_primap = {} THEN NULL
                          ELSE search_schedtsk(r)
                     ELSE s.p_schedtsk
<1> DEFINE r    == make_non_runnable(s, t)
           pri  == s.tcb[t].priority
           rest == queue_delete(s.ready_queue[pri], t)
           del  == [s EXCEPT
                      !.ready_queue[pri] = rest,
                      !.ready_primap     = IF rest = <<>> THEN @ \ {pri} ELSE @]
           next == IF rest # <<>> THEN Head(rest)
                   ELSE IF del.ready_primap = {} THEN NULL
                   ELSE search_schedtsk(del)
<1>1. r = IF s.p_schedtsk = t THEN [del EXCEPT !.p_schedtsk = next] ELSE del
  BY DEF make_non_runnable
<1>2. pri \in TPRI
  BY DEF WellFormed, TcbOK
<1>3. /\ HasFields(del, KernelField)
      /\ Agree(s, del, {"ready_queue", "ready_primap"})
      /\ HasFields(del.ready_queue, TPRI)
      /\ \A p \in TPRI : del.ready_queue[p] = IF p = pri THEN rest ELSE s.ready_queue[p]
      /\ del.ready_primap = IF rest = <<>> THEN s.ready_primap \ {pri} ELSE s.ready_primap
  <2> HIDE DEF rest
  <2> QED BY <1>2 DEF WellFormed, HasFields, KernelField, Agree
<1> HIDE DEF del, next, rest
<1>4. /\ HasFields(r, KernelField)
      /\ Agree(del, r, {"p_schedtsk"})
      /\ r.p_schedtsk = IF s.p_schedtsk = t THEN next ELSE del.p_schedtsk
  <2> HIDE DEF r
  <2> QED BY <1>1, <1>3 DEF HasFields, KernelField, Agree
<1> HIDE DEF r
<1>5. r.ready_queue = del.ready_queue /\ r.ready_primap = del.ready_primap
  BY <1>4 DEF Agree, KernelField
<1>6. del.p_schedtsk = s.p_schedtsk
  BY <1>3 DEF Agree, KernelField
<1>7. search_schedtsk(r) = search_schedtsk(del)
  BY <1>5 DEF search_schedtsk, primap_search
<1>8. Agree(s, r, ReadyFields)
  BY <1>3, <1>4 DEF Agree, ReadyFields
<1>9. WellFormed(r)
  BY <1>3, <1>4, <1>5, <1>8 DEF WellFormed, Agree, KernelField, ReadyFields
<1> QED BY <1>3, <1>4, <1>5, <1>6, <1>7, <1>8, <1>9 DEF r, rest, next

LEMMA make_non_runnable_sched ==
    ASSUME NEW s, WellFormed(s), NEW R, Sched(s, R), NEW t \in R,
           s.dspflg \/ t # s.p_runtsk
    PROVE  Sched(make_non_runnable(s, t), R \ {t})
<1> DEFINE r    == make_non_runnable(s, t)
           pri  == s.tcb[t].priority
           rest == queue_delete(s.ready_queue[pri], t)
           Q    == R \ {t}
<1>1. /\ Agree(s, r, ReadyFields)
      /\ \A p \in TPRI : r.ready_queue[p] = IF p = pri THEN rest
                                            ELSE s.ready_queue[p]
      /\ r.ready_primap = IF rest = <<>> THEN s.ready_primap \ {pri}
                          ELSE s.ready_primap
      /\ r.p_schedtsk =
            IF s.p_schedtsk = t
            THEN IF rest # <<>> THEN Head(rest)
                 ELSE IF r.ready_primap = {} THEN NULL
                 ELSE search_schedtsk(r)
            ELSE s.p_schedtsk
  BY make_non_runnable_effect DEF Sched
<1>2. r.tcb = s.tcb /\ r.p_runtsk = s.p_runtsk /\ r.dspflg = s.dspflg
  BY <1>1 DEF Agree, KernelField, ReadyFields
<1> HIDE DEF r
<1>3. pri \in TPRI /\ \A u \in R : s.tcb[u].priority \in TPRI
  BY DEF WellFormed, TcbOK, Sched
<1>4. R \in SUBSET TSK /\ Q \in SUBSET TSK /\ QueuesOK(s, R)
  BY DEF Sched
<1>5. /\ QueuesOK(r, Q)
      /\ Lists(rest, OfPriority(s, Q, pri), TSK)
      /\ Head(s.ready_queue[pri]) # t =>
            rest # <<>> /\ Head(rest) = Head(s.ready_queue[pri])
  <2>1. Leaves(s, r, R, t, pri, rest)
    BY <1>1, <1>2 DEF Leaves
  <2> HIDE DEF pri, rest
  <2> QED BY <1>3, <1>4, <2>1, DequeueQueues
<1>6. Scheduled(r, Q)
  <2>1. CASE ~s.dspflg
    BY <1>1, <1>2, <2>1 DEF Sched, Scheduled
  <2>2. CASE s.dspflg /\ s.p_schedtsk # t
    <3> DEFINE c == s.p_schedtsk
    <3>1. IsFirst(s, R, c) /\ r.p_schedtsk = c
      BY <1>1, <2>2 DEF Sched, Scheduled
    <3>2. s.tcb[c].priority \in TPRI
      BY <1>3, <3>1 DEF IsFirst
    <3>3. Head(r.ready_queue[s.tcb[c].priority]) = c
      <4>1. CASE s.tcb[c].priority = pri
        <5>1. Head(s.ready_queue[pri]) = c
          BY <3>1, <4>1 DEF IsFirst
        <5> QED BY <1>1, <1>3, <1>5, <2>2, <4>1, <5>1
      <4>2. CASE s.tcb[c].priority # pri
        BY <1>1, <3>1, <3>2, <4>2 DEF IsFirst
      <4> QED BY <4>1, <4>2
    <3>4. IsFirst(r, Q, c)
      BY <1>2, <2>2, <3>1, <3>3 DEF IsFirst
    <3> QED BY <1>2, <2>2, <3>1, <3>4 DEF Scheduled, IsFirst
  <2>3. CASE s.dspflg /\ s.p_schedtsk = t
    <3>1. IsFirst(s, R, t)
      BY <2>3 DEF Sched, Scheduled
    <3>2. CASE rest # <<>>
      <4>1. Head(rest) \in OfPriority(s, Q, pri)
        BY <1>5, <3>2, ListsEmpty
      <4>2. IsFirst(r, Q, Head(rest))
        BY <1>1, <1>2, <1>3, <3>1, <4>1 DEF IsFirst, OfPriority
      <4>3. r.p_schedtsk = Head(rest)
        BY <1>1, <2>3, <3>2
      <4> QED BY <1>2, <2>3, <4>1, <4>2, <4>3 DEF Scheduled, OfPriority
    <3>3. CASE rest = <<>> /\ r.ready_primap = {}
      <4>1. r.p_schedtsk = NULL
        BY <1>1, <2>3, <3>3
      <4>2. Q = {}
        BY <1>2, <1>3, <1>4, <1>5, <3>3, SearchFirst
      <4> QED BY <1>2, <2>3, <4>1, <4>2 DEF Scheduled
    <3>4. CASE rest = <<>> /\ r.ready_primap # {}
      <4>1. r.p_schedtsk = search_schedtsk(r)
        BY <1>1, <2>3, <3>4
      <4>2. Q # {}
        <5>1. PICK p \in TPRI : r.ready_queue[p] # <<>>
          BY <1>5, <3>4 DEF QueuesOK
        <5>2. Lists(r.ready_queue[p], OfPriority(r, Q, p), TSK)
          BY <1>5 DEF QueuesOK
        <5>3. Head(r.ready_queue[p]) \in OfPriority(r, Q, p)
          BY <5>1, <5>2, ListsEmpty
        <5> QED BY <5>3 DEF OfPriority
      <4>3. \A u \in Q : r.tcb[u].priority \in TPRI
        BY <1>2, <1>3
      <4>4. IsFirst(r, Q, search_schedtsk(r))
        BY <1>4, <1>5, <4>2, <4>3, SearchFirst
      <4> QED BY <1>2, <2>3, <4>1, <4>2, <4>4 DEF Scheduled
    <3> QED BY <3>2, <3>3, <3>4
  <2> QED BY <2>1, <2>2, <2>3
<1> QED BY <1>4, <1>5, <1>6 DEF Sched, r

-----------------------------------------------------------------------------
(* A task whose priority changes.                                          *)

(* Only the priority of task t changes, to pri.                            *)
PriorityOnly(s, r, t, pri) ==
    /\ HasFields(r.tcb, TSK)
    /\ \A u \in TSK \ {t} : r.tcb[u] = s.tcb[u]
    /\ r.tcb[t] = [s.tcb[t] EXCEPT !.priority = pri]

LEMMA PriorityOnlyOK ==
    ASSUME NEW s, NEW r, WellFormed(s), NEW t \in TSK, NEW pri \in TPRI,
           PriorityOnly(s, r, t, pri)
    PROVE  /\ \A u \in TSK : TcbOK(r.tcb[u])
           /\ \A u \in TSK : r.tcb[u].priority = IF u = t THEN pri ELSE s.tcb[u].priority
           /\ \A u \in TSK, f \in TcbField \ {"priority"} : r.tcb[u][f] = s.tcb[u][f]
<1> DEFINE b == [s.tcb[t] EXCEPT !.priority = pri]
<1>1. TcbOK(s.tcb[t]) /\ \A u \in TSK : TcbOK(s.tcb[u])
  BY DEF WellFormed
<1>2. HasFields(b, TcbField)
  BY <1>1 DEF TcbOK, HasFields, TcbField
<1>3. /\ b.priority = pri
      /\ \A f \in TcbField \ {"priority"} : b[f] = s.tcb[t][f]
  BY <1>1 DEF TcbOK, HasFields, TcbField
<1> HIDE DEF b
<1>4. TcbOK(b)
  BY <1>1, <1>2, <1>3 DEF TcbOK, TcbField
<1>5. r.tcb[t] = b /\ \A u \in TSK \ {t} : r.tcb[u] = s.tcb[u]
  BY DEF PriorityOnly, b
<1> QED BY <1>1, <1>3, <1>4, <1>5

(* Task t goes from its queue, by way of a state d in which it is in none,  *)
(* to the head (mtxmode) or the end of the queue of priority pri.          *)
ChangesQueue(s, r, t, pri, mtxmode) ==
    \E d : /\ Leaves(s, d, TSK, t, s.tcb[t].priority,
                     queue_delete(s.ready_queue[s.tcb[t].priority], t))
           /\ Enters(d, r, TSK \ {t}, t, pri,
                     IF mtxmode THEN Cons(t, d.ready_queue[pri])
                     ELSE Append(d.ready_queue[pri], t))

LEMMA change_priority_effect ==
    ASSUME NEW s, WellFormed(s), NEW t \in TSK, NEW newpri \in TPRI, NEW mtxmode,
           TSTAT_RUNNABLE(s.tcb[t].tstat)
    PROVE  LET r == change_priority(s, t, newpri, mtxmode)
           IN  /\ WellFormed(r)
               /\ Agree(s, r, ReadyFields \cup {"tcb"})
               /\ PriorityOnly(s, r, t, newpri)
               /\ ChangesQueue(s, r, t, newpri, mtxmode)
               /\ r.p_schedtsk =
                     IF ~s.dspflg THEN s.p_schedtsk
                     ELSE IF s.p_schedtsk = t
                     THEN IF newpri >= s.tcb[t].priority THEN search_schedtsk(r) ELSE t
                     ELSE IF \/ newpri < s.tcb[s.p_schedtsk].priority
                             \/ mtxmode /\ newpri = s.tcb[s.p_schedtsk].priority
                     THEN t ELSE s.p_schedtsk
<1> DEFINE r      == change_priority(s, t, newpri, mtxmode)
           oldpri == s.tcb[t].priority
           rest   == queue_delete(s.ready_queue[oldpri], t)
           set    == [s EXCEPT !.tcb[t].priority = newpri]
           del    == [set EXCEPT
                        !.ready_queue[oldpri] = rest,
                        !.ready_primap = IF rest = <<>> THEN @ \ {oldpri} ELSE @]
           moved  == [del EXCEPT
                        !.ready_queue[newpri] = IF mtxmode
                                                THEN queue_insert_next(@, t)
                                                ELSE queue_insert_prev(@, t),
                        !.ready_primap = @ \cup {newpri}]
           sched  == IF s.p_schedtsk = t
                     THEN IF newpri >= oldpri THEN search_schedtsk(moved) ELSE t
                     ELSE IF \/ newpri < s.tcb[s.p_schedtsk].priority
                             \/ mtxmode /\ newpri = s.tcb[s.p_schedtsk].priority
                          THEN t ELSE s.p_schedtsk
<1>1. r = IF s.dspflg THEN [moved EXCEPT !.p_schedtsk = sched] ELSE moved
  BY DEF change_priority
<1>2. oldpri \in TPRI
  BY DEF WellFormed, TcbOK
<1>3. /\ HasFields(set, KernelField)
      /\ Agree(s, set, {"tcb"})
      /\ PriorityOnly(s, set, t, newpri)
  BY DEF WellFormed, HasFields, KernelField, Agree, PriorityOnly
<1> HIDE DEF set
<1>4. /\ HasFields(del, KernelField)
      /\ Agree(set, del, {"ready_queue", "ready_primap"})
      /\ HasFields(del.ready_queue, TPRI)
      /\ \A p \in TPRI : del.ready_queue[p] = IF p = oldpri THEN rest ELSE s.ready_queue[p]
      /\ del.ready_primap = IF rest = <<>> THEN s.ready_primap \ {oldpri}
                            ELSE s.ready_primap
  <2>1. HasFields(set.ready_queue, TPRI) /\ set.ready_queue = s.ready_queue
        /\ set.ready_primap = s.ready_primap
    BY <1>3 DEF WellFormed, Agree, KernelField
  <2> HIDE DEF rest, oldpri
  <2> QED BY <1>2, <1>3, <2>1 DEF HasFields, KernelField, Agree
<1> HIDE DEF del, rest
<1>5. /\ HasFields(moved, KernelField)
      /\ Agree(del, moved, {"ready_queue", "ready_primap"})
      /\ HasFields(moved.ready_queue, TPRI)
      /\ \A p \in TPRI : moved.ready_queue[p] =
                            IF p = newpri
                            THEN IF mtxmode THEN Cons(t, del.ready_queue[p])
                                 ELSE Append(del.ready_queue[p], t)
                            ELSE del.ready_queue[p]
      /\ moved.ready_primap = del.ready_primap \cup {newpri}
  BY <1>4 DEF HasFields, KernelField, Agree, queue_insert_next, queue_insert_prev
<1> HIDE DEF moved
<1>6. /\ HasFields(r, KernelField)
      /\ Agree(moved, r, {"p_schedtsk"})
      /\ r.p_schedtsk = IF s.dspflg THEN sched ELSE moved.p_schedtsk
  <2> HIDE DEF r, sched
  <2> QED BY <1>1, <1>5 DEF HasFields, KernelField, Agree
<1> HIDE DEF r
<1>7. /\ r.ready_queue = moved.ready_queue /\ r.ready_primap = moved.ready_primap
      /\ r.tcb = set.tcb /\ moved.p_schedtsk = s.p_schedtsk /\ del.tcb = set.tcb
  BY <1>3, <1>4, <1>5, <1>6 DEF Agree, KernelField
<1>8. search_schedtsk(r) = search_schedtsk(moved)
  BY <1>7 DEF search_schedtsk, primap_search
<1>9. Agree(s, r, ReadyFields \cup {"tcb"})
  BY <1>3, <1>4, <1>5, <1>6 DEF Agree, ReadyFields
<1>10. PriorityOnly(s, r, t, newpri)
  BY <1>3, <1>7 DEF PriorityOnly
<1>11. WellFormed(r)
  <2>1. \A u \in TSK : TcbOK(r.tcb[u])
    BY <1>10, PriorityOnlyOK
  <2>2. HasFields(r.tcb, TSK)
    BY <1>10 DEF PriorityOnly
  <2> QED BY <1>5, <1>6, <1>7, <1>9, <2>1, <2>2
        DEF WellFormed, Agree, KernelField, ReadyFields
<1>12. \A u \in TSK : /\ del.tcb[u].priority = r.tcb[u].priority
                      /\ r.tcb[u].priority = IF u = t THEN newpri ELSE s.tcb[u].priority
  BY <1>7, <1>10, PriorityOnlyOK
<1>13. Leaves(s, del, TSK, t, oldpri, rest)
  BY <1>4, <1>12 DEF Leaves, rest
<1>14. Enters(del, r, TSK \ {t}, t, newpri,
              IF mtxmode THEN Cons(t, del.ready_queue[newpri])
              ELSE Append(del.ready_queue[newpri], t))
  BY <1>5, <1>7, <1>12 DEF Enters
<1>15. r.p_schedtsk =
          IF ~s.dspflg THEN s.p_schedtsk
          ELSE IF s.p_schedtsk = t
          THEN IF newpri >= oldpri THEN search_schedtsk(r) ELSE t
          ELSE IF \/ newpri < s.tcb[s.p_schedtsk].priority
                  \/ mtxmode /\ newpri = s.tcb[s.p_schedtsk].priority
          THEN t ELSE s.p_schedtsk
  BY <1>6, <1>7, <1>8
<1>16. ChangesQueue(s, r, t, newpri, mtxmode)
  BY <1>13, <1>14 DEF ChangesQueue, rest
<1> QED BY <1>9, <1>10, <1>11, <1>15, <1>16 DEF r

(* A runnable task keeps its place among the runnable ones.                *)
LEMMA change_priority_sched ==
    ASSUME NEW s, WellFormed(s), NEW R, Sched(s, R), NEW t \in R, NEW newpri \in TPRI,
           NEW mtxmode, TSTAT_RUNNABLE(s.tcb[t].tstat)
    PROVE  LET r == change_priority(s, t, newpri, mtxmode)
           IN  /\ Sched(r, R)
               /\ s.p_schedtsk = t /\ newpri < s.tcb[t].priority => r.p_schedtsk = t
<1> DEFINE r      == change_priority(s, t, newpri, mtxmode)
           oldpri == s.tcb[t].priority
           rest   == queue_delete(s.ready_queue[oldpri], t)
           c      == s.p_schedtsk
           Q      == R \ {t}
<1>1. R \in SUBSET TSK /\ t \in TSK /\ QueuesOK(s, R) /\ Q \in SUBSET TSK
  BY DEF Sched
<1>2. /\ Agree(s, r, ReadyFields \cup {"tcb"})
      /\ PriorityOnly(s, r, t, newpri)
      /\ ChangesQueue(s, r, t, newpri, mtxmode)
      /\ r.p_schedtsk =
            IF ~s.dspflg THEN s.p_schedtsk
            ELSE IF s.p_schedtsk = t
            THEN IF newpri >= s.tcb[t].priority THEN search_schedtsk(r) ELSE t
            ELSE IF \/ newpri < s.tcb[s.p_schedtsk].priority
                    \/ mtxmode /\ newpri = s.tcb[s.p_schedtsk].priority
            THEN t ELSE s.p_schedtsk
  BY <1>1, change_priority_effect
<1> HIDE DEF r, rest
<1>3. r.dspflg = s.dspflg /\ r.p_runtsk = s.p_runtsk
  BY <1>2 DEF Agree, KernelField, ReadyFields
<1>4. \A u \in TSK : /\ s.tcb[u].priority \in TPRI
                     /\ r.tcb[u].priority = IF u = t THEN newpri ELSE s.tcb[u].priority
  <2>1. \A u \in TSK : s.tcb[u].priority \in TPRI
    BY DEF WellFormed, TcbOK
  <2>2. \A u \in TSK : r.tcb[u].priority = IF u = t THEN newpri ELSE s.tcb[u].priority
    BY <1>1, <1>2, PriorityOnlyOK
  <2> QED BY <2>1, <2>2
<1>5. \A p \in TPRI : p \in Nat
  BY Priorities
<1>6. PICK d : /\ Leaves(s, d, TSK, t, oldpri, rest)
               /\ Enters(d, r, TSK \ {t}, t, newpri,
                         IF mtxmode THEN Cons(t, d.ready_queue[newpri])
                         ELSE Append(d.ready_queue[newpri], t))
  BY <1>2 DEF ChangesQueue, rest
<1> DEFINE q == IF mtxmode THEN Cons(t, d.ready_queue[newpri])
                ELSE Append(d.ready_queue[newpri], t)
<1>7. oldpri \in TPRI
  BY <1>1, <1>4
<1>8. /\ QueuesOK(d, Q)
      /\ Head(s.ready_queue[oldpri]) # t =>
            rest # <<>> /\ Head(rest) = Head(s.ready_queue[oldpri])
  <2>1. Leaves(s, d, R, t, oldpri, rest)
    BY <1>1, <1>6 DEF Leaves
  <2> HIDE DEF oldpri
  <2>2. /\ QueuesOK(d, R \ {t})
        /\ Lists(rest, OfPriority(s, R \ {t}, oldpri), TSK)
        /\ Head(s.ready_queue[oldpri]) # t =>
              rest # <<>> /\ Head(rest) = Head(s.ready_queue[oldpri])
    BY <1>1, <1>7, <2>1, DequeueQueues
  <2> QED BY <2>2
<1>9. /\ \A u \in Q : d.tcb[u].priority = s.tcb[u].priority
      /\ \A p \in TPRI : d.ready_queue[p] = IF p = oldpri THEN rest ELSE s.ready_queue[p]
  BY <1>1, <1>6 DEF Leaves
<1>10. \A p \in TPRI : r.ready_queue[p] = IF p = newpri THEN q ELSE d.ready_queue[p]
  BY <1>6 DEF Enters
<1>11. /\ Lists(q, OfPriority(d, Q, newpri) \cup {t}, TSK) /\ q # <<>>
       /\ (mtxmode \/ d.ready_queue[newpri] = <<>>) => Head(q) = t
       /\ ~mtxmode /\ d.ready_queue[newpri] # <<>> => Head(q) = Head(d.ready_queue[newpri])
  <2> DEFINE x == d.ready_queue[newpri]
             S == OfPriority(d, Q, newpri)
  <2>1. Lists(x, S, TSK)
    BY <1>8 DEF QueuesOK
  <2>2. t \notin S
    BY DEF OfPriority
  <2> HIDE DEF x, S
  <2>3. /\ Lists(Append(x, t), S \cup {t}, TSK)
        /\ Append(x, t) # <<>>
        /\ Head(Append(x, t)) =
              IF x = <<>> THEN t ELSE Head(x)
    BY <1>1, <2>1, <2>2, AppendLists
  <2>4. /\ Lists(Cons(t, x), S \cup {t}, TSK)
        /\ Cons(t, x) # <<>>
        /\ Head(Cons(t, x)) = t
    BY <1>1, <2>1, <2>2, ConsLists
  <2> QED BY <2>3, <2>4 DEF x, S
<1>12. QueuesOK(r, R)
  <2>1. Enters(d, r, Q, t, newpri, q)
    BY <1>1, <1>6 DEF Enters
  <2>2. Q \cup {t} = R /\ t \notin Q
    OBVIOUS
  <2> HIDE DEF q, Q
  <2>3. QueuesOK(r, Q \cup {t})
    BY <1>1, <1>8, <1>11, <2>1, <2>2, EnqueueQueues
  <2> QED BY <2>2, <2>3
<1>13. ASSUME NEW u \in R
       PROVE  u # t => r.tcb[u].priority = s.tcb[u].priority
  BY <1>1, <1>4
<1>14. ASSUME IsFirst(s, R, c), \A u \in Q : newpri <= s.tcb[u].priority,
              mtxmode \/ d.ready_queue[newpri] = <<>>
       PROVE  IsFirst(r, R, t)
  <2>1. Head(r.ready_queue[newpri]) = t
    BY <1>10, <1>11, <1>14
  <2> QED BY <1>1, <1>4, <1>5, <1>14, <2>1 DEF IsFirst
<1>15. ASSUME \A u \in Q : newpri < s.tcb[u].priority
       PROVE  d.ready_queue[newpri] = <<>>
  <2>1. OfPriority(d, Q, newpri) = {}
    BY <1>1, <1>4, <1>5, <1>9, <1>15 DEF OfPriority
  <2>2. Lists(d.ready_queue[newpri], OfPriority(d, Q, newpri), TSK)
    BY <1>8 DEF QueuesOK
  <2> QED BY <2>1, <2>2, ListsEmpty
<1>16. Scheduled(r, R) /\ (c = t /\ newpri < oldpri => r.p_schedtsk = t)
  <2>1. CASE ~s.dspflg
    BY <1>2, <1>3, <2>1 DEF Sched, Scheduled
  <2> SUFFICES ASSUME s.dspflg
               PROVE  IsFirst(r, R, r.p_schedtsk) /\ (c = t /\ newpri < oldpri => r.p_schedtsk = t)
    BY <1>3, <2>1 DEF Scheduled
  <2>2. IsFirst(s, R, c)
    BY DEF Sched, Scheduled
  <2>3. c \in R /\ \A u \in R : s.tcb[c].priority <= s.tcb[u].priority
    BY <2>2 DEF IsFirst
  <2>4. CASE c = t /\ newpri >= oldpri
    <3>1. \A u \in R : r.tcb[u].priority \in TPRI
      BY <1>1, <1>4
    <3>2. IsFirst(r, R, search_schedtsk(r))
      BY <1>1, <1>12, <3>1, SearchFirst
    <3> QED BY <1>2, <1>5, <1>7, <2>4, <3>2
  <2>5. CASE c = t /\ ~(newpri >= oldpri)
    <3>1. \A u \in Q : newpri < s.tcb[u].priority /\ newpri <= s.tcb[u].priority
      BY <1>1, <1>4, <1>5, <1>7, <2>3, <2>5
    <3>2. IsFirst(r, R, t)
      BY <1>14, <1>15, <2>2, <3>1
    <3> QED BY <1>2, <2>5, <3>2
  <2>6. CASE c # t /\ newpri < s.tcb[c].priority
    <3>1. \A u \in Q : newpri < s.tcb[u].priority /\ newpri <= s.tcb[u].priority
      BY <1>1, <1>4, <1>5, <2>3, <2>6
    <3>2. IsFirst(r, R, t)
      BY <1>14, <1>15, <2>2, <3>1
    <3> QED BY <1>2, <2>6, <3>2
  <2>7. CASE c # t /\ mtxmode /\ newpri = s.tcb[c].priority
    <3>1. IsFirst(r, R, t)
      BY <1>14, <2>2, <2>3, <2>7
    <3> QED BY <1>2, <2>7, <3>1
  <2>8. CASE c # t /\ ~(newpri < s.tcb[c].priority)
                   /\ ~(mtxmode /\ newpri = s.tcb[c].priority)
    <3>1. r.p_schedtsk = c
      BY <1>2, <2>8
    <3> DEFINE p == s.tcb[c].priority
    <3>2. p \in TPRI /\ r.tcb[c].priority = p
      BY <1>1, <1>4, <2>3, <2>8
    <3>3. s.ready_queue[p] # <<>> /\ Head(s.ready_queue[p]) = c
      <4>1. Lists(s.ready_queue[p], OfPriority(s, R, p), TSK) /\ c \in OfPriority(s, R, p)
        BY <1>1, <2>3, <3>2 DEF QueuesOK, OfPriority
      <4> QED BY <2>2, <4>1, ListsEmpty DEF IsFirst
    <3> HIDE DEF p
    <3>4. d.ready_queue[p] # <<>> /\ Head(d.ready_queue[p]) = c
      BY <1>8, <1>9, <2>8, <3>2, <3>3
    <3>5. Head(r.ready_queue[p]) = c
      <4>1. CASE p = newpri
        BY <1>10, <1>11, <2>8, <3>2, <3>4, <4>1 DEF p
      <4>2. CASE p # newpri
        BY <1>10, <3>2, <3>4, <4>2
      <4> QED BY <4>1, <4>2
    <3>6. ASSUME NEW u \in R PROVE p <= r.tcb[u].priority
      <4>1. p <= s.tcb[u].priority
        BY <2>3 DEF p
      <4>2. p <= newpri
        BY <1>5, <2>8, <3>2 DEF p
      <4> QED BY <1>1, <1>4, <4>1, <4>2
    <3>7. IsFirst(r, R, c)
      BY <2>3, <3>2, <3>5, <3>6 DEF IsFirst
    <3> QED BY <2>8, <3>1, <3>7
  <2> QED BY <2>4, <2>5, <2>6, <2>7, <2>8
<1> QED BY <1>1, <1>12, <1>16 DEF Sched, r

-----------------------------------------------------------------------------
(* A queue that is rotated; steps that leave the ready queues alone.       *)

LEMMA RotateLists ==
    ASSUME NEW T, NEW S, NEW q, Lists(q, S, T), q # <<>>
    PROVE  Lists(Append(Tail(q), Head(q)), S, T) /\ Append(Tail(q), Head(q)) # <<>>
<1>1. Head(q) \in S /\ S \in SUBSET T
  BY ListsEmpty
<1>2. Lists(Tail(q), S \ {Head(q)}, T)
  BY TailLists
<1> DEFINE h == Head(q)
           x == Tail(q)
           V == S \ {h}
<1>3. Lists(x, V, T) /\ h \in T /\ h \notin V /\ V \cup {h} = S
  BY <1>1, <1>2
<1> HIDE DEF h, x, V
<1>4. Lists(Append(x, h), V \cup {h}, T) /\ Append(x, h) # <<>>
  BY <1>3, AppendLists
<1> QED BY <1>3, <1>4 DEF h, x

LEMMA rotate_ready_queue_sched ==
    ASSUME NEW s, WellFormed(s), NEW R, Sched(s, R), NEW pri \in TPRI,
           \A t \in R : s.tcb[t].priority \in TPRI
    PROVE  LET r == rotate_ready_queue(s, pri)
           IN  WellFormed(r) /\ Sched(r, R) /\ Agree(s, r, ReadyFields)
<1> DEFINE r       == rotate_ready_queue(s, pri)
           q       == s.ready_queue[pri]
           rotated == Append(Tail(q), Head(q))
           next    == IF s.dspflg /\ s.p_schedtsk = Head(q) THEN Head(rotated)
                      ELSE s.p_schedtsk
           S       == OfPriority(s, R, pri)
<1>1. Lists(q, S, TSK) /\ R \in SUBSET TSK
  BY DEF Sched, QueuesOK
<1>2. CASE Len(q) < 2
  <2>1. r = s
    BY <1>2 DEF rotate_ready_queue
  <2> QED BY <2>1 DEF Agree
<1>3. CASE ~(Len(q) < 2)
  <2>1. r = [s EXCEPT !.ready_queue[pri] = rotated, !.p_schedtsk = next]
    BY <1>3 DEF rotate_ready_queue
  <2>2. q # <<>>
    BY <1>1, <1>3 DEF Lists
  <2>3. Lists(rotated, S, TSK) /\ rotated # <<>>
    <3> HIDE DEF q, S
    <3> QED BY <1>1, <2>2, RotateLists
  <2>4. Head(q) \in S /\ Head(rotated) \in S
    <3> HIDE DEF rotated, q, S
    <3> QED BY <1>1, <2>2, <2>3, ListsEmpty
  <2> HIDE DEF rotated, next
  <2>5. /\ HasFields(r, KernelField)
        /\ Agree(s, r, {"ready_queue", "p_schedtsk"})
        /\ HasFields(r.ready_queue, TPRI)
        /\ \A p \in TPRI : r.ready_queue[p] = IF p = pri THEN rotated ELSE s.ready_queue[p]
        /\ r.p_schedtsk = next
    <3> HIDE DEF r
    <3> QED BY <2>1 DEF WellFormed, HasFields, KernelField, Agree
  <2> HIDE DEF r
  <2>6. /\ r.tcb = s.tcb /\ r.p_runtsk = s.p_runtsk /\ r.dspflg = s.dspflg
        /\ r.ready_primap = s.ready_primap
    BY <2>5 DEF Agree, KernelField
  <2>7. Agree(s, r, ReadyFields)
    BY <2>5 DEF Agree, ReadyFields
  <2>8. WellFormed(r)
    BY <2>5, <2>7 DEF WellFormed, Agree, KernelField, ReadyFields
  <2>9. ASSUME NEW p \in TPRI PROVE OfPriority(r, R, p) = OfPriority(s, R, p)
    BY <2>6 DEF OfPriority
  <2>10. ASSUME NEW p \in TPRI
         PROVE  /\ Lists(r.ready_queue[p], OfPriority(r, R, p), TSK)
                /\ r.ready_queue[p] # <<>> <=> s.ready_queue[p] # <<>>
    <3>1. Lists(s.ready_queue[p], OfPriority(s, R, p), TSK)
      BY DEF Sched, QueuesOK
    <3>2. CASE p = pri
      <4>1. r.ready_queue[p] = rotated /\ OfPriority(r, R, p) = S
        BY <2>5, <2>9, <3>2
      <4> QED BY <2>2, <2>3, <3>2, <4>1
    <3>3. CASE p # pri
      BY <2>5, <2>9, <3>1, <3>3
    <3> QED BY <3>2, <3>3
  <2>11. QueuesOK(r, R)
    BY <2>6, <2>10 DEF Sched, QueuesOK
  <2>12. Scheduled(r, R)
    <3>1. CASE ~s.dspflg
      BY <2>5, <2>6, <3>1 DEF Sched, Scheduled, next
    <3>2. CASE s.dspflg
      <4> DEFINE c == s.p_schedtsk
      <4>1. IsFirst(s, R, c)
        BY <2>4, <3>2 DEF Sched, Scheduled, OfPriority
      <4>2. CASE c = Head(q)
        <5>1. r.p_schedtsk = Head(rotated)
          BY <2>5, <3>2, <4>2 DEF next
        <5>2. s.tcb[Head(rotated)].priority = pri /\ Head(rotated) \in R
              /\ s.tcb[c].priority = pri
          BY <2>4, <4>2 DEF OfPriority
        <5>3. Head(r.ready_queue[pri]) = Head(rotated)
          BY <2>5
        <5>4. IsFirst(r, R, Head(rotated))
          BY <2>6, <4>1, <5>2, <5>3 DEF IsFirst
        <5> QED BY <2>6, <3>2, <4>1, <5>1, <5>4 DEF Scheduled, IsFirst
      <4>3. CASE c # Head(q)
        <5>1. r.p_schedtsk = c
          BY <2>5, <4>3 DEF next
        <5>2. s.tcb[c].priority # pri /\ s.tcb[c].priority \in TPRI
          BY <4>1, <4>3 DEF IsFirst
        <5>3. r.ready_queue[s.tcb[c].priority] = s.ready_queue[s.tcb[c].priority]
          BY <2>5, <5>2
        <5>4. IsFirst(r, R, c)
          BY <2>6, <4>1, <5>3 DEF IsFirst
        <5> QED BY <2>6, <3>2, <4>1, <5>1, <5>4 DEF Scheduled, IsFirst
      <4> QED BY <4>2, <4>3
    <3> QED BY <3>1, <3>2
  <2> QED BY <1>1, <2>7, <2>8, <2>11, <2>12 DEF Sched, r
<1> QED BY <1>2, <1>3

(* What Sched is about.                                                    *)
LEMMA SchedKept ==
    ASSUME NEW s, NEW r, NEW R, Sched(s, R),
           \A t \in R : r.tcb[t].priority = s.tcb[t].priority,
           \A f \in ReadyFields \cup {"p_runtsk", "dspflg"} : r[f] = s[f]
    PROVE  Sched(r, R)
<1>1. /\ r.ready_queue = s.ready_queue /\ r.ready_primap = s.ready_primap
      /\ r.p_schedtsk = s.p_schedtsk /\ r.p_runtsk = s.p_runtsk /\ r.dspflg = s.dspflg
  BY DEF ReadyFields
<1>2. \A p \in TPRI : OfPriority(r, R, p) = OfPriority(s, R, p)
  BY DEF OfPriority
<1>3. QueuesOK(r, R)
  BY <1>1, <1>2 DEF Sched, QueuesOK
<1>4. \A t : IsFirst(s, R, t) => IsFirst(r, R, t)
  BY <1>1 DEF IsFirst
<1> QED BY <1>1, <1>3, <1>4 DEF Sched, Scheduled

(* Dispatching becomes possible, or stays so.                              *)
LEMMA search_schedtsk_sched ==
    ASSUME NEW s, NEW r, NEW R, Sched(s, R), R # {},
           \A t \in R : s.tcb[t].priority \in TPRI,
           r.tcb = s.tcb, r.ready_queue = s.ready_queue, r.ready_primap = s.ready_primap,
           r.dspflg = TRUE, r.p_schedtsk = search_schedtsk(s)
    PROVE  Sched(r, R)
<1>1. QueuesOK(s, R) /\ R \in SUBSET TSK
  BY DEF Sched
<1>2. IsFirst(s, R, search_schedtsk(s))
  BY <1>1, SearchFirst
<1>3. IsFirst(r, R, r.p_schedtsk)
  BY <1>2 DEF IsFirst
<1>4. \A p \in TPRI : OfPriority(r, R, p) = OfPriority(s, R, p)
  BY DEF OfPriority
<1>5. QueuesOK(r, R)
  BY <1>1, <1>4 DEF QueuesOK
<1> QED BY <1>1, <1>3, <1>5 DEF Sched, Scheduled

(* While it is disabled the chosen task is the running one.                *)
LEMMA disable_sched ==
    ASSUME NEW s, NEW r, NEW R, Sched(s, R), r.dspflg = FALSE,
           r.tcb = s.tcb, r.ready_queue = s.ready_queue, r.ready_primap = s.ready_primap,
           r.p_schedtsk = s.p_schedtsk, r.p_runtsk = r.p_schedtsk, r.p_runtsk \in R
    PROVE  Sched(r, R)
<1>1. \A p \in TPRI : OfPriority(r, R, p) = OfPriority(s, R, p)
  BY DEF OfPriority
<1>2. QueuesOK(r, R)
  BY <1>1 DEF Sched, QueuesOK
<1> QED BY <1>2 DEF Sched, Scheduled

LEMMA dispatcher_sched ==
    ASSUME NEW s, NEW r, NEW R, Sched(s, R),
           r.tcb = s.tcb, r.ready_queue = s.ready_queue, r.ready_primap = s.ready_primap,
           r.p_schedtsk = s.p_schedtsk, r.p_runtsk = s.p_schedtsk, r.dspflg = s.dspflg
    PROVE  Sched(r, R)
<1>1. \A p \in TPRI : OfPriority(r, R, p) = OfPriority(s, R, p)
  BY DEF OfPriority
<1>2. QueuesOK(r, R)
  BY <1>1 DEF Sched, QueuesOK
<1>3. \A t : IsFirst(s, R, t) => IsFirst(r, R, t)
  BY DEF IsFirst
<1> QED BY <1>2, <1>3 DEF Sched, Scheduled

-----------------------------------------------------------------------------
(* The operations of WaitOps and MutexOps.                                 *)

(* The states of a task.                                                   *)
TSTATS == {TS_DORMANT, TS_RUNNABLE, TS_SUSPENDED}
          \cup {{x} : x \in TS_WAITING_MASK}
          \cup {{x, "SUSPENDED"} : x \in TS_WAITING_MASK}

RECEIVING == {"RDTQ", "RPDQ"}

LEMMA TstatFacts ==
    ASSUME NEW b \in TSTATS
    PROVE  /\ TSTAT_RUNNABLE(b) => b = TS_RUNNABLE /\ ~TSTAT_WAITING(b)
           /\ TSTAT_WAITING(b) => ~TSTAT_RUNNABLE(b)
           /\ ~TSTAT_RUNNABLE(b) /\ ~TSTAT_WAITING(b) => b \in {TS_DORMANT, TS_SUSPENDED}
           /\ TSTAT_WAIT_WOBJ(b) => TSTAT_WAITING(b)
           /\ TSTAT_WAITING(b) =>
                 \E x \in TS_WAITING_MASK : b = {x} \/ b = {x, "SUSPENDED"}
<1> USE DEF TSTATS, TS_DORMANT, TS_RUNNABLE, TS_SUSPENDED, TS_WAITING_MASK, TS_WOBJ_MASK,
            TS_WOBJCB_MASK, TSTAT_RUNNABLE, TSTAT_WAITING, TSTAT_WAIT_WOBJ
<1>1. CASE b \in {TS_DORMANT, TS_RUNNABLE, TS_SUSPENDED}
  BY <1>1
<1>2. CASE \E x \in TS_WAITING_MASK : b = {x} \/ b = {x, "SUSPENDED"}
  BY <1>2
<1> QED BY <1>1, <1>2

(* A waiting task waits for one thing, which its suspension does not hide. *)
LEMMA WaitFacts ==
    ASSUME NEW x \in TS_WAITING_MASK, NEW b, b = {x} \/ b = {x, "SUSPENDED"}
    PROVE  /\ b \in TSTATS
           /\ TSTAT_WAITING(b) /\ ~TSTAT_RUNNABLE(b)
           /\ TSTAT_WAIT_WOBJ(b) <=> x \in TS_WOBJ_MASK
           /\ TSTAT_WAIT_WOBJCB(b) <=> x \in TS_WOBJCB_MASK
           /\ queue_of(b) = IF x \in RECEIVING THEN "rwait_queue" ELSE "wait_queue"
           /\ b \cap RECEIVING # {} <=> x \in RECEIVING
           /\ "DLY" \in b <=> x = "DLY"
           /\ b # TS_DORMANT
           /\ TSTAT_SUSPENDED(b) <=> b = {x, "SUSPENDED"}
           /\ b \cup TS_SUSPENDED = {x, "SUSPENDED"}
           /\ b \ TS_SUSPENDED = {x}
<1> USE DEF TSTATS, TS_DORMANT, TS_RUNNABLE, TS_SUSPENDED, TS_WAITING_MASK, TS_WOBJ_MASK,
            TS_WOBJCB_MASK, TSTAT_RUNNABLE, TSTAT_WAITING, TSTAT_WAIT_WOBJ, RECEIVING,
            TSTAT_WAIT_WOBJCB, TSTAT_SUSPENDED, queue_of
<1>1. x # "SUSPENDED" /\ x # "RUNNABLE"
  OBVIOUS
<1>2. b \in TSTATS
  OBVIOUS
<1>3. TSTAT_WAITING(b) /\ ~TSTAT_RUNNABLE(b)
  BY <1>1
<1>4. TSTAT_WAIT_WOBJ(b) <=> x \in TS_WOBJ_MASK
  BY <1>1
<1>5. TSTAT_WAIT_WOBJCB(b) <=> x \in TS_WOBJCB_MASK
  BY <1>1
<1>6. b \cap RECEIVING # {} <=> x \in RECEIVING
  BY <1>1
<1>7. queue_of(b) = IF x \in RECEIVING THEN "rwait_queue" ELSE "wait_queue"
  BY <1>6
<1>8. "DLY" \in b <=> x = "DLY"
  BY <1>1
<1>9. TSTAT_SUSPENDED(b) <=> b = {x, "SUSPENDED"}
  BY <1>1
<1>10. b \cup TS_SUSPENDED = {x, "SUSPENDED"}
  OBVIOUS
<1>11. b \ TS_SUSPENDED = {x}
  BY <1>1
<1> QED BY <1>2, <1>3, <1>4, <1>5, <1>6, <1>7, <1>8, <1>9, <1>10, <1>11

(* The states in which a task does not wait.                               *)
LEMMA IdleFacts ==
    ASSUME NEW b, b \in {TS_DORMANT, TS_RUNNABLE, TS_SUSPENDED}
    PROVE  /\ b \in TSTATS
           /\ ~TSTAT_WAITING(b) /\ ~TSTAT_WAIT_WOBJ(b) /\ ~TSTAT_WAIT_WOBJCB(b)
           /\ TSTAT_RUNNABLE(b) <=> b = TS_RUNNABLE
           /\ TSTAT_SUSPENDED(b) <=> b = TS_SUSPENDED
           /\ b \cap RECEIVING = {}
           /\ "DLY" \notin b /\ "MTX" \notin b
           /\ TS_RUNNABLE # TS_DORMANT /\ TS_SUSPENDED # TS_DORMANT
BY DEF TSTATS, TS_DORMANT, TS_RUNNABLE, TS_SUSPENDED, TS_WAITING_MASK, TS_WOBJ_MASK,
       TS_WOBJCB_MASK, TSTAT_RUNNABLE, TSTAT_WAITING, TSTAT_WAIT_WOBJ, RECEIVING,
       TSTAT_WAIT_WOBJCB, TSTAT_SUSPENDED

-----------------------------------------------------------------------------
(* The invariant of the tasks and their queues.  The tasks of X are in     *)
(* transit: in no queue, and in any state.                                 *)

Ready(s, X)   == {t \in TSK \ X : TSTAT_RUNNABLE(s.tcb[t].tstat)}
Blocked(s, X) == {t \in TSK \ X : TSTAT_WAIT_WOBJ(s.tcb[t].tstat)}

QUEUE == {"wait_queue", "rwait_queue"}

(* The tasks of V that wait for object w in its queue f.                   *)
WaitsIn(s, V, w, f) ==
    {t \in V : s.tcb[t].p_wobjcb = w /\ queue_of(s.tcb[t].tstat) = f}

WaitOK(s, V) ==
    /\ \A w \in WOBJ, f \in QUEUE : Lists(s.wobj[w][f], WaitsIn(s, V, w, f), TSK)
    /\ \A w \in WOBJ :
          "TA_TPRI" \in s.wobj[w].wobjatr => Sorted(s, s.wobj[w].wait_queue)

Exists(s, t) == "TA_NOEXS" \notin s.tinib[t].tskatr

WobjExists(s, w) == w \in WOBJ /\ "TA_NOEXS" \notin s.wobj[w].wobjatr

(* The time event and the WINFO of a task fit its state.                   *)
WinfoOK(b, e) ==
    /\ e \in TMEVT
    /\ e # "none" <=> TSTAT_WAITING(b.tstat) /\ b.winfo = "tmevtb"
    /\ TSTAT_WAITING(b.tstat) => b.winfo \in {"tmevtb", "no_tmevtb"} /\ b.insvc
    /\ b.insvc /\ ~TSTAT_WAITING(b.tstat) => b.winfo \in WERCD
    /\ "DLY" \in b.tstat <=> e = "wait_tmout_ok"

(* Of the tasks requested to terminate, those of E could be terminated.    *)
TaskOK(s, t, E) ==
    LET b == s.tcb[t]
    IN  /\ b.tstat \in TSTATS
        /\ WinfoOK(b, s.tmevtb[t])
        /\ TSTAT_WAIT_WOBJ(b.tstat) => WobjExists(s, b.p_wobjcb)
        /\ b.tstat \cap RECEIVING # {} => b.p_wobjcb \notin MTX
        /\ b.raster => TSTAT_RUNNABLE(b.tstat) /\ (b.enater => t \in E)
        /\ ~Exists(s, t) => b.tstat = TS_DORMANT
        /\ b.tstat = TS_DORMANT => ~b.actque

Inv(s, X, E) ==
    /\ WellFormed(s)
    /\ Sched(s, Ready(s, X))
    /\ WaitOK(s, Blocked(s, X))
    /\ \A t \in TSK \ X : TaskOK(s, t, E)

(* What the invariant says of a task depends on these fields, ...          *)
TaskField == {"tstat", "priority", "p_wobjcb", "winfo", "insvc", "raster",
              "enater", "actque"}

SameTask(s, r, t) ==
    /\ \A f \in TaskField : r.tcb[t][f] = s.tcb[t][f]
    /\ r.tmevtb[t] = s.tmevtb[t]

(* ... and what it says otherwise on these.                                *)
InvField == {"ready_queue", "ready_primap", "p_schedtsk", "p_runtsk", "dspflg",
             "tinib", "wobj"}

(* A change to tasks in transit, and to what the invariant is not about.   *)
Like(s, r, X) ==
    /\ WellFormed(r)
    /\ \A f \in InvField : r[f] = s[f]
    /\ \A t \in TSK \ X : SameTask(s, r, t)

LEMMA SameTaskFields ==
    ASSUME NEW s, NEW r, NEW t, SameTask(s, r, t)
    PROVE  /\ r.tcb[t].tstat = s.tcb[t].tstat /\ r.tcb[t].priority = s.tcb[t].priority
           /\ r.tcb[t].p_wobjcb = s.tcb[t].p_wobjcb /\ r.tcb[t].winfo = s.tcb[t].winfo
           /\ r.tcb[t].insvc = s.tcb[t].insvc /\ r.tcb[t].raster = s.tcb[t].raster
           /\ r.tcb[t].enater = s.tcb[t].enater /\ r.tcb[t].actque = s.tcb[t].actque
           /\ r.tmevtb[t] = s.tmevtb[t]
BY DEF SameTask, TaskField

LEMMA LikeFields ==
    ASSUME NEW s, NEW r, NEW X, Like(s, r, X)
    PROVE  /\ WellFormed(r)
           /\ r.ready_queue = s.ready_queue /\ r.ready_primap = s.ready_primap
           /\ r.p_schedtsk = s.p_schedtsk /\ r.p_runtsk = s.p_runtsk
           /\ r.dspflg = s.dspflg /\ r.tinib = s.tinib /\ r.wobj = s.wobj
           /\ \A t \in TSK \ X : SameTask(s, r, t)
BY DEF Like, InvField

(* The invariant of one task, when its object and its control block stay;  *)
(* it does not depend on its priority.                                     *)
SameState(s, r, t) ==
    /\ \A f \in TaskField \ {"priority"} : r.tcb[t][f] = s.tcb[t][f]
    /\ r.tmevtb[t] = s.tmevtb[t]

LEMMA StateKept ==
    ASSUME NEW s, NEW r, NEW t, NEW E, TaskOK(s, t, E), SameState(s, r, t),
           r.tinib = s.tinib, \A w \in WOBJ : r.wobj[w].wobjatr = s.wobj[w].wobjatr
    PROVE  TaskOK(r, t, E)
<1>1. /\ r.tcb[t].tstat = s.tcb[t].tstat
      /\ r.tcb[t].p_wobjcb = s.tcb[t].p_wobjcb /\ r.tcb[t].winfo = s.tcb[t].winfo
      /\ r.tcb[t].insvc = s.tcb[t].insvc /\ r.tcb[t].raster = s.tcb[t].raster
      /\ r.tcb[t].enater = s.tcb[t].enater /\ r.tcb[t].actque = s.tcb[t].actque
      /\ r.tmevtb[t] = s.tmevtb[t]
  BY DEF SameState, TaskField
<1>2. WinfoOK(r.tcb[t], r.tmevtb[t])
  BY <1>1 DEF TaskOK, WinfoOK
<1> QED BY <1>1, <1>2 DEF TaskOK, WobjExists, Exists

LEMMA TaskKept ==
    ASSUME NEW s, NEW r, NEW t, NEW E, TaskOK(s, t, E), SameTask(s, r, t),
           r.tinib = s.tinib, \A w \in WOBJ : r.wobj[w].wobjatr = s.wobj[w].wobjatr
    PROVE  TaskOK(r, t, E)
<1>1. SameState(s, r, t)
  BY DEF SameState, SameTask
<1> QED BY <1>1, StateKept

LEMMA SortedKept ==
    ASSUME NEW s, NEW r, NEW q, NEW S, Lists(q, S, TSK), Sorted(s, q),
           \A t \in S : r.tcb[t].priority = s.tcb[t].priority
    PROVE  Sorted(r, q)
BY DEF Sorted, Lists

(* The wait queues depend only on the tasks that wait.                     *)
LEMMA WaitKept ==
    ASSUME NEW s, NEW r, NEW V \in SUBSET TSK, WaitOK(s, V), r.wobj = s.wobj,
           \A t \in V : /\ r.tcb[t].tstat = s.tcb[t].tstat
                        /\ r.tcb[t].p_wobjcb = s.tcb[t].p_wobjcb
                        /\ r.tcb[t].priority = s.tcb[t].priority
    PROVE  WaitOK(r, V)
<1>1. ASSUME NEW w \in WOBJ, NEW f \in QUEUE
      PROVE  /\ WaitsIn(r, V, w, f) = WaitsIn(s, V, w, f)
             /\ Lists(s.wobj[w][f], WaitsIn(s, V, w, f), TSK)
  BY DEF WaitsIn, WaitOK
<1>2. ASSUME NEW w \in WOBJ, "TA_TPRI" \in s.wobj[w].wobjatr
      PROVE  Sorted(r, s.wobj[w].wait_queue)
  <2>1. Lists(s.wobj[w].wait_queue, WaitsIn(s, V, w, "wait_queue"), TSK)
    BY DEF WaitOK, QUEUE
  <2>2. \A t \in WaitsIn(s, V, w, "wait_queue") : r.tcb[t].priority = s.tcb[t].priority
    BY DEF WaitsIn
  <2>3. Sorted(s, s.wobj[w].wait_queue)
    BY <1>2 DEF WaitOK
  <2> QED BY <2>1, <2>2, <2>3, SortedKept
<1> QED BY <1>1, <1>2 DEF WaitOK

LEMMA Change ==
    ASSUME NEW s, NEW X, NEW E, Inv(s, X, E), NEW r, Like(s, r, X)
    PROVE  Inv(r, X, E)
<1>1. Ready(r, X) = Ready(s, X) /\ Blocked(r, X) = Blocked(s, X)
  BY SameTaskFields DEF Like, Ready, Blocked
<1>2. Sched(r, Ready(s, X))
  <2>1. \A t \in Ready(s, X) : r.tcb[t].priority = s.tcb[t].priority
    BY SameTaskFields DEF Like, Ready
  <2>2. \A f \in ReadyFields \cup {"p_runtsk", "dspflg"} : r[f] = s[f]
    BY DEF Like, InvField, ReadyFields
  <2> QED BY <2>1, <2>2, SchedKept DEF Inv
<1>3. WaitOK(r, Blocked(s, X))
  <2> DEFINE V == Blocked(s, X)
  <2>1. V \in SUBSET TSK
    BY DEF Blocked
  <2>2. \A t \in V : /\ r.tcb[t].tstat = s.tcb[t].tstat
                     /\ r.tcb[t].p_wobjcb = s.tcb[t].p_wobjcb
                     /\ r.tcb[t].priority = s.tcb[t].priority
    BY SameTaskFields DEF Like, Blocked
  <2>3. WaitOK(s, V) /\ r.wobj = s.wobj
    BY LikeFields DEF Inv
  <2> HIDE DEF V
  <2>4. WaitOK(r, V)
    BY <2>1, <2>2, <2>3, WaitKept
  <2> QED BY <2>4 DEF V
<1>4. \A t \in TSK \ X : TaskOK(r, t, E)
  BY LikeFields, TaskKept DEF Inv
<1> QED BY <1>1, <1>2, <1>3, <1>4 DEF Inv, Like

-----------------------------------------------------------------------------
(* A task goes into transit, ...                                           *)

(* ... one that is in no queue;                                            *)
LEMMA Unsettle ==
    ASSUME NEW s, NEW X, NEW E, Inv(s, X, E), NEW t \in TSK,
           t \notin Ready(s, X), t \notin Blocked(s, X)
    PROVE  Inv(s, X \cup {t}, E)
<1>1. Ready(s, X \cup {t}) = Ready(s, X) /\ Blocked(s, X \cup {t}) = Blocked(s, X)
  BY DEF Ready, Blocked
<1> QED BY <1>1 DEF Inv

(* ... one that was runnable, whose control block may have changed;        *)
LEMMA Stop ==
    ASSUME NEW s, NEW X, NEW E, Inv(s, X, E), NEW t \in Ready(s, X),
           s.dspflg \/ t # s.p_runtsk,
           NEW r, Like(s, r, X \cup {t}), r.tcb[t].priority = s.tcb[t].priority
    PROVE  Inv(make_non_runnable(r, t), X \cup {t}, E)
<1> DEFINE n == make_non_runnable(r, t)
           R == Ready(s, X)
           Y == X \cup {t}
<1>1. t \in TSK \ X /\ R \in SUBSET TSK
  BY DEF Ready
<1>2. WellFormed(r) /\ r.wobj = s.wobj /\ r.tinib = s.tinib
      /\ r.dspflg = s.dspflg /\ r.p_runtsk = s.p_runtsk
      /\ \A u \in TSK \ Y : SameTask(s, r, u)
  BY LikeFields
<1>3. Sched(r, R)
  <2>1. \A u \in R : r.tcb[u].priority = s.tcb[u].priority
    BY <1>2, SameTaskFields DEF Ready
  <2>2. \A f \in ReadyFields \cup {"p_runtsk", "dspflg"} : r[f] = s[f]
    BY DEF Like, InvField, ReadyFields
  <2> QED BY <2>1, <2>2, SchedKept DEF Inv
<1>4. Sched(n, R \ {t})
  BY <1>2, <1>3, make_non_runnable_sched
<1>5. WellFormed(n) /\ Agree(r, n, ReadyFields)
  BY <1>1, <1>2, make_non_runnable_effect
<1> HIDE DEF n
<1>6. /\ n.tcb = r.tcb /\ n.tmevtb = r.tmevtb /\ n.wobj = s.wobj /\ n.tinib = s.tinib
  BY <1>2, <1>5 DEF Agree, KernelField, ReadyFields
<1>7. \A u \in TSK \ Y : SameTask(s, n, u)
  BY <1>2, <1>6 DEF SameTask
<1>8. Ready(n, Y) = R \ {t}
  BY <1>7, SameTaskFields DEF Ready
<1>9. WaitOK(n, Blocked(n, Y))
  <2> DEFINE V == Blocked(s, X)
  <2>1. t \notin V
    BY TstatFacts DEF Ready, Blocked, Inv, TaskOK
  <2>2. Blocked(n, Y) = V
    BY <1>7, <2>1, SameTaskFields DEF Blocked
  <2>3. \A u \in V : /\ n.tcb[u].tstat = s.tcb[u].tstat
                     /\ n.tcb[u].p_wobjcb = s.tcb[u].p_wobjcb
                     /\ n.tcb[u].priority = s.tcb[u].priority
    BY <1>7, <2>1, SameTaskFields DEF Blocked
  <2>4. V \in SUBSET TSK /\ WaitOK(s, V)
    BY DEF Blocked, Inv
  <2> HIDE DEF V
  <2>5. WaitOK(n, V)
    BY <1>6, <2>3, <2>4, WaitKept
  <2> QED BY <2>2, <2>5
<1>10. \A u \in TSK \ Y : TaskOK(n, u, E)
  BY <1>6, <1>7, TaskKept DEF Inv
<1> QED BY <1>4, <1>5, <1>8, <1>9, <1>10 DEF Inv, n

(* ... one that has been taken out of a wait queue.                        *)
Removed(s, r, w, f, t) ==
    /\ \A v \in WOBJ : r.wobj[v].wobjatr = s.wobj[v].wobjatr
    /\ \A v \in WOBJ, g \in QUEUE : <<v, g>> # <<w, f>> => r.wobj[v][g] = s.wobj[v][g]
    /\ \/ r.wobj[w][f] = queue_delete(s.wobj[w][f], t)
       \/ /\ s.wobj[w][f] # <<>> /\ t = Head(s.wobj[w][f])
          /\ r.wobj[w][f] = Tail(s.wobj[w][f])

LEMMA WaitRemoved ==
    ASSUME NEW s, NEW V \in SUBSET TSK, WaitOK(s, V), NEW w \in WOBJ, NEW f \in QUEUE,
           NEW t \in WaitsIn(s, V, w, f), NEW r, Removed(s, r, w, f, t),
           \A u \in V \ {t} : /\ r.tcb[u].tstat = s.tcb[u].tstat
                              /\ r.tcb[u].p_wobjcb = s.tcb[u].p_wobjcb
                              /\ r.tcb[u].priority = s.tcb[u].priority
    PROVE  WaitOK(r, V \ {t})
<1> DEFINE q == s.wobj[w][f]
           S == WaitsIn(s, V, w, f)
<1>1. Lists(q, S, TSK) /\ t \in S
  BY DEF WaitOK
<1> HIDE DEF q, S
<1>2. Lists(queue_delete(q, t), S \ {t}, TSK)
  BY <1>1, DeleteLists
<1>3. q # <<>> => Lists(Tail(q), S \ {Head(q)}, TSK)
  BY <1>1, TailLists
<1>4. Lists(r.wobj[w][f], S \ {t}, TSK)
  BY <1>2, <1>3 DEF Removed, q
<1>5. S \ {t} = WaitsIn(r, V \ {t}, w, f)
  BY DEF WaitsIn, S
<1>6. ASSUME NEW v \in WOBJ, NEW g \in QUEUE, <<v, g>> # <<w, f>>
      PROVE  /\ r.wobj[v][g] = s.wobj[v][g]
             /\ WaitsIn(r, V \ {t}, v, g) = WaitsIn(s, V, v, g)
             /\ Lists(s.wobj[v][g], WaitsIn(s, V, v, g), TSK)
  <2>1. r.wobj[v][g] = s.wobj[v][g]
    BY <1>6 DEF Removed
  <2>2. t \notin WaitsIn(s, V, v, g)
    BY <1>6 DEF WaitsIn
  <2>3. WaitsIn(r, V \ {t}, v, g) = WaitsIn(s, V, v, g)
    BY <2>2 DEF WaitsIn
  <2> QED BY <2>1, <2>3 DEF WaitOK
<1>7. ASSUME NEW v \in WOBJ, NEW g \in QUEUE
      PROVE  Lists(r.wobj[v][g], WaitsIn(r, V \ {t}, v, g), TSK)
  <2>1. CASE v = w /\ g = f
    BY <1>4, <1>5, <2>1
  <2>2. CASE <<v, g>> # <<w, f>>
    BY <1>6, <2>2
  <2> QED BY <2>1, <2>2
<1>8. ASSUME NEW v \in WOBJ, "TA_TPRI" \in r.wobj[v].wobjatr
      PROVE  Sorted(r, r.wobj[v].wait_queue)
  <2>1. Sorted(s, s.wobj[v].wait_queue)
    BY <1>8 DEF WaitOK, Removed
  <2>2. Sorted(s, r.wobj[v].wait_queue)
    <3>1. CASE v = w /\ f = "wait_queue"
      <4>1. Sorted(s, queue_delete(q, t))
        BY <1>1, <2>1, <3>1, DeleteSorted DEF q
      <4>2. q # <<>> => Sorted(s, Tail(q))
        BY <1>1, <2>1, <3>1, TailSorted DEF q
      <4> QED BY <3>1, <4>1, <4>2 DEF Removed, q
    <3>2. CASE ~(v = w /\ f = "wait_queue")
      BY <2>1, <3>2 DEF Removed, QUEUE
    <3> QED BY <3>1, <3>2
  <2> DEFINE S2 == WaitsIn(r, V \ {t}, v, "wait_queue")
             q2 == r.wobj[v].wait_queue
  <2>3. Lists(q2, S2, TSK) /\ Sorted(s, q2)
    BY <1>7, <2>2 DEF QUEUE
  <2>4. \A u \in S2 : r.tcb[u].priority = s.tcb[u].priority
    BY DEF WaitsIn
  <2> HIDE DEF S2, q2
  <2>5. Sorted(r, q2)
    BY <2>3, <2>4, SortedKept
  <2> QED BY <2>5 DEF q2
<1> QED BY <1>7, <1>8 DEF WaitOK

(* A change to tasks in transit and to wait queues.                        *)
QueueLike(s, r, X) ==
    /\ WellFormed(r)
    /\ \A f \in InvField \ {"wobj"} : r[f] = s[f]
    /\ \A t \in TSK \ X : SameTask(s, r, t)

LEMMA QueueLikeFields ==
    ASSUME NEW s, NEW r, NEW X, QueueLike(s, r, X)
    PROVE  /\ WellFormed(r)
           /\ r.ready_queue = s.ready_queue /\ r.ready_primap = s.ready_primap
           /\ r.p_schedtsk = s.p_schedtsk /\ r.p_runtsk = s.p_runtsk
           /\ r.dspflg = s.dspflg /\ r.tinib = s.tinib
           /\ \A t \in TSK \ X : SameTask(s, r, t)
BY DEF QueueLike, InvField

LEMMA ReadyKept ==
    ASSUME NEW s, NEW r, NEW X, NEW R, Sched(s, R), QueueLike(s, r, X),
           R \in SUBSET (TSK \ X)
    PROVE  Sched(r, R)
<1>1. \A t \in R : r.tcb[t].priority = s.tcb[t].priority
  BY SameTaskFields DEF QueueLike
<1>2. \A f \in ReadyFields \cup {"p_runtsk", "dspflg"} : r[f] = s[f]
  BY DEF QueueLike, InvField, ReadyFields
<1> QED BY <1>1, <1>2, SchedKept

LEMMA Unwait ==
    ASSUME NEW s, NEW X, NEW E, Inv(s, X, E), NEW w \in WOBJ, NEW f \in QUEUE,
           NEW t \in WaitsIn(s, Blocked(s, X), w, f),
           NEW r, QueueLike(s, r, X \cup {t}), Removed(s, r, w, f, t)
    PROVE  Inv(r, X \cup {t}, E)
<1> DEFINE R == Ready(s, X)
           V == Blocked(s, X)
           Y == X \cup {t}
<1>1. t \in V /\ t \in TSK \ X /\ V \in SUBSET TSK /\ t \notin R
  BY TstatFacts DEF WaitsIn, Blocked, Ready, Inv, TaskOK
<1>2. \A u \in TSK \ Y : SameTask(s, r, u)
  BY DEF QueueLike
<1>3. Ready(r, Y) = R /\ Blocked(r, Y) = V \ {t}
  BY <1>1, <1>2, SameTaskFields DEF Ready, Blocked
<1>4. Sched(r, R)
  <2>1. R \in SUBSET (TSK \ Y)
    BY <1>1 DEF Ready
  <2> QED BY <2>1, ReadyKept DEF Inv
<1>5. WaitOK(r, V \ {t})
  <2>1. \A u \in V \ {t} : /\ r.tcb[u].tstat = s.tcb[u].tstat
                           /\ r.tcb[u].p_wobjcb = s.tcb[u].p_wobjcb
                           /\ r.tcb[u].priority = s.tcb[u].priority
    BY <1>2, SameTaskFields DEF Blocked
  <2>2. WaitOK(s, V) /\ t \in WaitsIn(s, V, w, f)
    BY DEF Inv
  <2> HIDE DEF V
  <2> QED BY <1>1, <2>1, <2>2, WaitRemoved
<1>6. \A u \in TSK \ Y : TaskOK(r, u, E)
  BY <1>2, QueueLikeFields, TaskKept DEF Inv, Removed
<1> QED BY <1>3, <1>4, <1>5, <1>6 DEF Inv, QueueLike

(* The first task of a wait queue, and the tasks in it, wait in it.        *)
LEMMA HeadWaits ==
    ASSUME NEW s, NEW X, NEW E, Inv(s, X, E), NEW w \in WOBJ, NEW f \in QUEUE,
           s.wobj[w][f] # <<>>
    PROVE  Head(s.wobj[w][f]) \in WaitsIn(s, Blocked(s, X), w, f)
<1>1. Lists(s.wobj[w][f], WaitsIn(s, Blocked(s, X), w, f), TSK)
  BY DEF Inv, WaitOK
<1> DEFINE q == s.wobj[w][f]
           S == WaitsIn(s, Blocked(s, X), w, f)
<1>2. Lists(q, S, TSK) /\ q # <<>>
  BY <1>1
<1> HIDE DEF q, S
<1>3. Head(q) \in S
  BY <1>2, ListsEmpty
<1> QED BY <1>3 DEF q, S

LEMMA WaitsWhere ==
    ASSUME NEW s, NEW X, NEW E, Inv(s, X, E), NEW t \in Blocked(s, X)
    PROVE  /\ s.tcb[t].p_wobjcb \in WOBJ
           /\ queue_of(s.tcb[t].tstat) \in QUEUE
           /\ t \in WaitsIn(s, Blocked(s, X), s.tcb[t].p_wobjcb, queue_of(s.tcb[t].tstat))
BY DEF Inv, TaskOK, Blocked, WobjExists, WaitsIn, queue_of, QUEUE

(* What holds of a task that has been taken out of its wait.               *)
Waiter(s, t) ==
    /\ ~s.tcb[t].raster
    /\ Exists(s, t)
    /\ s.tmevtb[t] # "none" => s.tcb[t].winfo = "tmevtb"

LEMMA WaitingWaiter ==
    ASSUME NEW s, NEW X, NEW E, Inv(s, X, E), NEW t \in TSK \ X,
           TSTAT_WAITING(s.tcb[t].tstat)
    PROVE  Waiter(s, t)
<1>1. TaskOK(s, t, E)
  BY DEF Inv
<1>2. s.tcb[t].tstat # TS_DORMANT /\ ~TSTAT_RUNNABLE(s.tcb[t].tstat)
  BY <1>1, TstatFacts DEF TaskOK, TSTAT_WAITING, TS_DORMANT
<1> QED BY <1>1, <1>2 DEF TaskOK, WinfoOK, Waiter

LEMMA BlockedWaits ==
    ASSUME NEW s, NEW X, NEW E, Inv(s, X, E), NEW t \in Blocked(s, X)
    PROVE  t \in TSK /\ t \notin X /\ TSTAT_WAITING(s.tcb[t].tstat) /\ Waiter(s, t)
           /\ ~TSTAT_RUNNABLE(s.tcb[t].tstat)
<1>1. t \in TSK \ X /\ TSTAT_WAIT_WOBJ(s.tcb[t].tstat)
  BY DEF Blocked
<1>2. s.tcb[t].tstat \in TSTATS
  BY <1>1 DEF Inv, TaskOK
<1> QED BY <1>1, <1>2, TstatFacts, WaitingWaiter

-----------------------------------------------------------------------------
(* A task comes out of transit, ...                                        *)

(* ... and goes into no queue;                                             *)
LEMMA Settle ==
    ASSUME NEW s, NEW X, NEW E, Inv(s, X, E), NEW t \in X, t \in TSK, TaskOK(s, t, E),
           ~TSTAT_RUNNABLE(s.tcb[t].tstat), ~TSTAT_WAIT_WOBJ(s.tcb[t].tstat)
    PROVE  Inv(s, X \ {t}, E)
<1>1. Ready(s, X \ {t}) = Ready(s, X) /\ Blocked(s, X \ {t}) = Blocked(s, X)
  BY DEF Ready, Blocked
<1> QED BY <1>1 DEF Inv

(* ... and into the ready queue;                                           *)
LEMMA Start ==
    ASSUME NEW s, NEW X, NEW E, Inv(s, X, E), NEW t \in X, t \in TSK, TaskOK(s, t, E),
           s.tcb[t].tstat = TS_RUNNABLE
    PROVE  Inv(make_runnable(s, t), X \ {t}, E)
<1> DEFINE n == make_runnable(s, t)
           R == Ready(s, X)
           Y == X \ {t}
<1>1. t \notin R /\ R \in SUBSET TSK
  BY DEF Ready
<1>2. WellFormed(n) /\ Agree(s, n, ReadyFields)
  BY make_runnable_effect DEF Inv
<1>3. Sched(n, R \cup {t})
  BY <1>1, make_runnable_sched DEF Inv
<1> HIDE DEF n
<1>4. n.tcb = s.tcb /\ n.tmevtb = s.tmevtb /\ n.wobj = s.wobj /\ n.tinib = s.tinib
  BY <1>2 DEF Agree, KernelField, ReadyFields
<1>5. TSTAT_RUNNABLE(s.tcb[t].tstat) /\ ~TSTAT_WAIT_WOBJ(s.tcb[t].tstat)
  BY IdleFacts
<1>6. Ready(n, Y) = R \cup {t} /\ Blocked(n, Y) = Blocked(s, X)
  BY <1>4, <1>5 DEF Ready, Blocked
<1>7. WaitOK(n, Blocked(s, X))
  <2> DEFINE V == Blocked(s, X)
  <2>1. V \in SUBSET TSK /\ WaitOK(s, V)
    BY DEF Blocked, Inv
  <2> HIDE DEF V
  <2>2. WaitOK(n, V)
    BY <1>4, <2>1, WaitKept
  <2> QED BY <2>2 DEF V
<1>8. \A u \in TSK \ Y : TaskOK(n, u, E)
  <2>1. \A u \in TSK \ Y : TaskOK(s, u, E) /\ SameTask(s, n, u)
    BY <1>4 DEF Inv, SameTask
  <2> QED BY <1>4, <2>1, TaskKept
<1> QED BY <1>2, <1>3, <1>6, <1>7, <1>8 DEF Inv, n

(* ... and into a wait queue.                                              *)
Inserted(s, r, w, f, t) ==
    /\ \A v \in WOBJ : r.wobj[v].wobjatr = s.wobj[v].wobjatr
    /\ \A v \in WOBJ, g \in QUEUE : <<v, g>> # <<w, f>> => r.wobj[v][g] = s.wobj[v][g]
    /\ r.wobj[w][f] = IF f = "wait_queue" /\ "TA_TPRI" \in s.wobj[w].wobjatr
                      THEN queue_insert_tpri(s, s.wobj[w][f], t)
                      ELSE Append(s.wobj[w][f], t)

LEMMA WaitInserted ==
    ASSUME NEW s, NEW V \in SUBSET TSK, WaitOK(s, V), NEW w \in WOBJ, NEW f \in QUEUE,
           NEW t \in TSK, t \notin V, NEW r, Inserted(s, r, w, f, t),
           \A u \in TSK : s.tcb[u].priority \in TPRI,
           r.tcb[t].p_wobjcb = w, queue_of(r.tcb[t].tstat) = f,
           r.tcb[t].priority = s.tcb[t].priority,
           \A u \in V : /\ r.tcb[u].tstat = s.tcb[u].tstat
                        /\ r.tcb[u].p_wobjcb = s.tcb[u].p_wobjcb
                        /\ r.tcb[u].priority = s.tcb[u].priority
    PROVE  WaitOK(r, V \cup {t})
<1> DEFINE q == s.wobj[w][f]
           S == WaitsIn(s, V, w, f)
<1>1. Lists(q, S, TSK) /\ t \notin S
  BY DEF WaitOK, WaitsIn
<1> HIDE DEF q, S
<1>2. Lists(Append(q, t), S \cup {t}, TSK)
  BY <1>1, AppendLists
<1>3. Lists(queue_insert_tpri(s, q, t), S \cup {t}, TSK)
  BY <1>1, InsertLists
<1>4. Lists(r.wobj[w][f], S \cup {t}, TSK)
  BY <1>2, <1>3 DEF Inserted, q
<1>5. S \cup {t} = WaitsIn(r, V \cup {t}, w, f)
  BY DEF WaitsIn, S
<1>6. ASSUME NEW v \in WOBJ, NEW g \in QUEUE, <<v, g>> # <<w, f>>
      PROVE  /\ r.wobj[v][g] = s.wobj[v][g]
             /\ WaitsIn(r, V \cup {t}, v, g) = WaitsIn(s, V, v, g)
             /\ Lists(s.wobj[v][g], WaitsIn(s, V, v, g), TSK)
  <2>1. r.wobj[v][g] = s.wobj[v][g]
    BY <1>6 DEF Inserted
  <2>2. t \notin WaitsIn(r, V \cup {t}, v, g)
    BY <1>6 DEF WaitsIn
  <2>3. WaitsIn(r, V \cup {t}, v, g) = WaitsIn(s, V, v, g)
    BY <2>2 DEF WaitsIn
  <2> QED BY <2>1, <2>3 DEF WaitOK
<1>7. ASSUME NEW v \in WOBJ, NEW g \in QUEUE
      PROVE  Lists(r.wobj[v][g], WaitsIn(r, V \cup {t}, v, g), TSK)
  <2>1. CASE v = w /\ g = f
    BY <1>4, <1>5, <2>1
  <2>2. CASE <<v, g>> # <<w, f>>
    BY <1>6, <2>2
  <2> QED BY <2>1, <2>2
<1>8. ASSUME NEW v \in WOBJ, "TA_TPRI" \in r.wobj[v].wobjatr
      PROVE  Sorted(r, r.wobj[v].wait_queue)
  <2>1. Sorted(s, s.wobj[v].wait_queue) /\ "TA_TPRI" \in s.wobj[v].wobjatr
    BY <1>8 DEF WaitOK, Inserted
  <2>2. Sorted(s, r.wobj[v].wait_queue)
    <3>1. CASE v = w /\ f = "wait_queue"
      <4>1. Sorted(s, queue_insert_tpri(s, q, t))
        <5>1. ASSUME NEW u \in TSK PROVE s.tcb[u].priority \in Int
          <6>1. s.tcb[u].priority \in Nat
            BY Priorities
          <6> QED BY <6>1
        <5>2. Sorted(s, q)
          BY <2>1, <3>1 DEF q
        <5> QED BY <1>1, <5>1, <5>2, InsertSorted
      <4> QED BY <2>1, <3>1, <4>1 DEF Inserted, q
    <3>2. CASE ~(v = w /\ f = "wait_queue")
      BY <2>1, <3>2 DEF Inserted, QUEUE
    <3> QED BY <3>1, <3>2
  <2> DEFINE S2 == WaitsIn(r, V \cup {t}, v, "wait_queue")
             q2 == r.wobj[v].wait_queue
  <2>3. Lists(q2, S2, TSK) /\ Sorted(s, q2)
    BY <1>7, <2>2 DEF QUEUE
  <2>4. \A u \in S2 : r.tcb[u].priority = s.tcb[u].priority
    BY DEF WaitsIn
  <2> HIDE DEF S2, q2
  <2>5. Sorted(r, q2)
    BY <2>3, <2>4, SortedKept
  <2> QED BY <2>5 DEF q2
<1> QED BY <1>7, <1>8 DEF WaitOK

LEMMA Enqueue ==
    ASSUME NEW s, NEW X, NEW E, Inv(s, X, E), NEW w \in WOBJ, NEW f \in QUEUE,
           NEW t \in X, t \in TSK, NEW r, QueueLike(s, r, X), Inserted(s, r, w, f, t),
           TaskOK(r, t, E), TSTAT_WAIT_WOBJ(r.tcb[t].tstat), r.tcb[t].p_wobjcb = w,
           queue_of(r.tcb[t].tstat) = f, r.tcb[t].priority = s.tcb[t].priority
    PROVE  Inv(r, X \ {t}, E)
<1> DEFINE R == Ready(s, X)
           V == Blocked(s, X)
           Y == X \ {t}
<1>1. V \in SUBSET TSK /\ t \notin V /\ R \in SUBSET (TSK \ X)
  BY DEF Blocked, Ready
<1>2. \A u \in TSK \ X : SameTask(s, r, u)
  BY DEF QueueLike
<1>3. ~TSTAT_RUNNABLE(r.tcb[t].tstat)
  BY TstatFacts DEF TaskOK
<1>4. Ready(r, Y) = R /\ Blocked(r, Y) = V \cup {t}
  BY <1>1, <1>2, <1>3, SameTaskFields DEF Ready, Blocked
<1>5. Sched(r, R)
  BY <1>1, ReadyKept DEF Inv
<1>6. WaitOK(r, V \cup {t})
  <2>1. \A u \in V : /\ r.tcb[u].tstat = s.tcb[u].tstat
                     /\ r.tcb[u].p_wobjcb = s.tcb[u].p_wobjcb
                     /\ r.tcb[u].priority = s.tcb[u].priority
    BY <1>2, SameTaskFields DEF Blocked
  <2>2. WaitOK(s, V) /\ \A u \in TSK : s.tcb[u].priority \in TPRI
    BY DEF Inv, WellFormed, TcbOK
  <2> HIDE DEF V
  <2> QED BY <1>1, <2>1, <2>2, WaitInserted
<1>7. \A u \in TSK \ Y : TaskOK(r, u, E)
  <2>1. \A u \in TSK \ X : TaskOK(r, u, E)
    BY <1>2, QueueLikeFields, TaskKept DEF Inv, Inserted
  <2> QED BY <2>1
<1> QED BY <1>4, <1>5, <1>6, <1>7 DEF Inv, QueueLike

-----------------------------------------------------------------------------
(* Changes to one field.                                                   *)

(* States s and r differ in the fields G of the TCB of task t only.        *)
TcbEdit(s, r, t, G) ==
    /\ WellFormed(r)
    /\ Agree(s, r, {"tcb"})
    /\ \A u \in TSK \ {t} : r.tcb[u] = s.tcb[u]
    /\ \A g \in TcbField \ G : r.tcb[t][g] = s.tcb[t][g]

TcbSet(s, r, t, f, v) == TcbEdit(s, r, t, {f}) /\ r.tcb[t][f] = v

LEMMA SetTcb ==
    ASSUME NEW s, WellFormed(s), NEW t \in TSK, NEW f \in TcbField, NEW v,
           f \in {"priority", "bpriority"} => v \in TPRI,
           f = "lastmtx" => v \in Seq(MTX)
    PROVE  LET r == [s EXCEPT !.tcb[t][f] = v]
           IN  TcbSet(s, r, t, f, v)
<1> DEFINE b == [s.tcb[t] EXCEPT ![f] = v]
           r == [s EXCEPT !.tcb[t][f] = v]
<1>1. HasFields(s, KernelField) /\ HasFields(s.tcb, TSK) /\ HasFields(s.tcb[t], TcbField)
  BY DEF WellFormed, TcbOK
<1>2. b.priority \in TPRI /\ b.bpriority \in TPRI /\ b.lastmtx \in Seq(MTX)
      /\ b[f] = v /\ \A g \in TcbField \ {f} : b[g] = s.tcb[t][g]
  BY <1>1 DEF WellFormed, TcbOK, HasFields, TcbField
<1>3. HasFields(b, TcbField)
  BY <1>1 DEF HasFields
<1>4. TcbOK(b)
  BY <1>2, <1>3 DEF TcbOK
<1>5. r.tcb = [s.tcb EXCEPT ![t] = b] /\ \A g \in KernelField \ {"tcb"} : r[g] = s[g]
  BY <1>1 DEF HasFields, KernelField
<1>6. HasFields(r, KernelField)
  BY <1>1 DEF HasFields, KernelField
<1> HIDE DEF b, r
<1>7. HasFields(r.tcb, TSK) /\ r.tcb[t] = b /\ \A u \in TSK \ {t} : r.tcb[u] = s.tcb[u]
  BY <1>1, <1>5 DEF HasFields
<1>8. WellFormed(r)
  BY <1>4, <1>5, <1>6, <1>7 DEF WellFormed, KernelField
<1> QED BY <1>2, <1>5, <1>7, <1>8 DEF TcbSet, TcbEdit, Agree, r

(* ... in queue f of object w only.                                        *)
QueueEdit(s, r, w, f) ==
    /\ WellFormed(r)
    /\ Agree(s, r, {"wobj"})
    /\ \A v \in WOBJ : r.wobj[v].wobjatr = s.wobj[v].wobjatr
    /\ \A v \in WOBJ, g \in QUEUE : <<v, g>> # <<w, f>> => r.wobj[v][g] = s.wobj[v][g]

QueueSet(s, r, w, f, q) == QueueEdit(s, r, w, f) /\ r.wobj[w][f] = q

LEMMA SetQueue ==
    ASSUME NEW s, WellFormed(s), NEW w \in WOBJ, NEW f \in QUEUE, NEW q
    PROVE  LET r == [s EXCEPT !.wobj[w][f] = q]
           IN  QueueSet(s, r, w, f, q)
<1> DEFINE b == [s.wobj[w] EXCEPT ![f] = q]
           r == [s EXCEPT !.wobj[w][f] = q]
<1>1. HasFields(s, KernelField) /\ HasFields(s.wobj, WOBJ) /\ HasFields(s.wobj[w], WobjField)
  BY DEF WellFormed
<1>2. b[f] = q /\ \A g \in WobjField \ {f} : b[g] = s.wobj[w][g]
  BY <1>1 DEF HasFields, WobjField, QUEUE
<1>3. HasFields(b, WobjField)
  BY <1>1 DEF HasFields
<1>4. r.wobj = [s.wobj EXCEPT ![w] = b] /\ \A g \in KernelField \ {"wobj"} : r[g] = s[g]
  BY <1>1 DEF HasFields, KernelField
<1>5. HasFields(r, KernelField)
  BY <1>1 DEF HasFields, KernelField
<1> HIDE DEF b, r
<1>6. HasFields(r.wobj, WOBJ) /\ r.wobj[w] = b /\ \A v \in WOBJ \ {w} : r.wobj[v] = s.wobj[v]
  BY <1>1, <1>4 DEF HasFields
<1>7. WellFormed(r)
  BY <1>3, <1>4, <1>5, <1>6 DEF WellFormed, KernelField
<1>8. QueueEdit(s, r, w, f)
  BY <1>2, <1>4, <1>6, <1>7 DEF QueueEdit, Agree, WobjField, QUEUE
<1> QED BY <1>2, <1>6, <1>8 DEF QueueSet, r

(* ... in the time event of task t only.                                   *)
TmevtbEdit(s, r, t) ==
    /\ WellFormed(r)
    /\ Agree(s, r, {"tmevtb"})
    /\ \A u \in TSK \ {t} : r.tmevtb[u] = s.tmevtb[u]

TmevtbSet(s, r, t, e) == TmevtbEdit(s, r, t) /\ r.tmevtb[t] = e

LEMMA SetTmevtb ==
    ASSUME NEW s, WellFormed(s), NEW t \in TSK, NEW e
    PROVE  LET r == [s EXCEPT !.tmevtb[t] = e]
           IN  TmevtbSet(s, r, t, e)
<1> DEFINE r == [s EXCEPT !.tmevtb[t] = e]
<1>1. HasFields(s, KernelField) /\ HasFields(s.tmevtb, TSK)
  BY DEF WellFormed
<1>2. r.tmevtb = [s.tmevtb EXCEPT ![t] = e] /\ \A g \in KernelField \ {"tmevtb"} : r[g] = s[g]
  BY <1>1 DEF HasFields, KernelField
<1>3. HasFields(r, KernelField)
  BY <1>1 DEF HasFields, KernelField
<1> HIDE DEF r
<1>4. HasFields(r.tmevtb, TSK) /\ r.tmevtb[t] = e /\ \A u \in TSK \ {t} : r.tmevtb[u] = s.tmevtb[u]
  BY <1>1, <1>2 DEF HasFields
<1>5. WellFormed(r)
  BY <1>2, <1>3, <1>4 DEF WellFormed, KernelField
<1> QED BY <1>2, <1>4, <1>5 DEF TmevtbSet, TmevtbEdit, Agree, r

-----------------------------------------------------------------------------
(* What most operations leave as it is.                                    *)

Frame == {"p_runtsk", "dspflg", "enadsp", "ipm", "tinib", "free_tcb", "free_mtxcb",
          "free_cb"}

Passes(s, r) ==
    /\ \A f \in Frame : r[f] = s[f]
    /\ \A w \in WOBJ : r.wobj[w].wobjatr = s.wobj[w].wobjatr

LEMMA PassesFields ==
    ASSUME NEW s, NEW r, Passes(s, r)
    PROVE  /\ r.p_runtsk = s.p_runtsk /\ r.dspflg = s.dspflg /\ r.enadsp = s.enadsp
           /\ r.ipm = s.ipm /\ r.tinib = s.tinib /\ r.free_tcb = s.free_tcb
           /\ r.free_mtxcb = s.free_mtxcb /\ r.free_cb = s.free_cb
           /\ \A w \in WOBJ : r.wobj[w].wobjatr = s.wobj[w].wobjatr
BY DEF Passes, Frame

LEMMA PassesTrans ==
    ASSUME NEW s, NEW r, NEW n, Passes(s, r), Passes(r, n)
    PROVE  Passes(s, n)
BY DEF Passes

LEMMA AgreePasses ==
    ASSUME NEW s, NEW r, NEW D, Agree(s, r, D), D \cap Frame = {},
           \A w \in WOBJ : r.wobj[w].wobjatr = s.wobj[w].wobjatr
    PROVE  Passes(s, r)
BY DEF Passes, Agree, Frame, KernelField

(* What the operations that lock and unlock no mutex leave as it is, too:  *)
(* who holds which mutex; a task that comes to wait for one waits for a    *)
(* mutex that is locked, and a task that becomes dormant was so before.    *)
BlockedOn(s, t, m) == TSTAT_WAIT_WOBJ(s.tcb[t].tstat) /\ s.tcb[t].p_wobjcb = m

SameLock(s, r, t) ==
    /\ r.tcb[t].lastmtx = s.tcb[t].lastmtx
    /\ r.tcb[t].tstat = TS_DORMANT => s.tcb[t].tstat = TS_DORMANT
    /\ \A m \in MTX : BlockedOn(r, t, m) => BlockedOn(s, t, m) \/ s.mtx[m].p_loctsk # NULL

KeepsLocks(s, r) ==
    /\ Passes(s, r)
    /\ r.mtx = s.mtx
    /\ \A t \in TSK : SameLock(s, r, t)

(* The priority ceiling protocol, of one task: its priority is the higher  *)
(* of its base priority and the ceilings of the mutexes it holds, and its  *)
(* base priority is above none of these, nor above the ceiling of the      *)
(* mutex it waits for.                                                     *)
HoldsCeiling(s, t, m) == m \in ToSet(s.tcb[t].lastmtx) /\ MTX_CEILING(s, m)

Permits(s, bpriority, m) == MTX_CEILING(s, m) => bpriority >= s.mtx[m].ceilpri

Fit(s, t) ==
    LET b == s.tcb[t]
    IN  /\ b.priority <= b.bpriority
        /\ \A m \in MTX : HoldsCeiling(s, t, m) =>
              b.priority <= s.mtx[m].ceilpri /\ s.mtx[m].ceilpri <= b.bpriority
        /\ b.priority = b.bpriority
           \/ \E m \in MTX : HoldsCeiling(s, t, m) /\ s.mtx[m].ceilpri = b.priority
        /\ \A m \in MTX : BlockedOn(s, t, m) => Permits(s, b.bpriority, m) /\ "MTX" \in b.tstat
        /\ "MTX" \in b.tstat => b.p_wobjcb \in MTX

(* An operation that changes no priority keeps the protocol.               *)
Keeps(s, r) ==
    /\ KeepsLocks(s, r)
    /\ \A t \in TSK : Fit(s, t) => Fit(r, t)

(* The mutexes have the ceilings they had.                                 *)
SameCeilings(s, r) ==
    \A m \in MTX : /\ r.mtx[m].ceilpri = s.mtx[m].ceilpri
                   /\ r.wobj[m].wobjatr = s.wobj[m].wobjatr

(* What the protocol says of a task depends on these.                      *)
SameLevel(s, r, t) ==
    /\ r.tcb[t].priority = s.tcb[t].priority
    /\ r.tcb[t].bpriority = s.tcb[t].bpriority
    /\ r.tcb[t].lastmtx = s.tcb[t].lastmtx

WaitsLess(s, r, t) ==
    /\ \A m \in MTX : BlockedOn(r, t, m) =>
          BlockedOn(s, t, m) /\ ("MTX" \in s.tcb[t].tstat => "MTX" \in r.tcb[t].tstat)
    /\ "MTX" \in r.tcb[t].tstat =>
          "MTX" \in s.tcb[t].tstat /\ r.tcb[t].p_wobjcb = s.tcb[t].p_wobjcb

LEMMA PassesCeilings ==
    ASSUME NEW s, NEW r, Passes(s, r), r.mtx = s.mtx
    PROVE  SameCeilings(s, r)
BY TaskOpsAssumption DEF Passes, SameCeilings

LEMMA CeilingsHold ==
    ASSUME NEW s, NEW r, SameCeilings(s, r), NEW m \in MTX
    PROVE  /\ MTX_CEILING(r, m) <=> MTX_CEILING(s, m)
           /\ \A p : Permits(r, p, m) <=> Permits(s, p, m)
BY DEF SameCeilings, MTX_CEILING, Permits

LEMMA FitSame ==
    ASSUME NEW s, NEW r, NEW t, SameCeilings(s, r), SameLevel(s, r, t),
           WaitsLess(s, r, t), Fit(s, t)
    PROVE  Fit(r, t)
<1>1. \A m \in MTX : (HoldsCeiling(r, t, m) <=> HoldsCeiling(s, t, m)) /\ r.mtx[m].ceilpri = s.mtx[m].ceilpri
  BY CeilingsHold DEF SameCeilings, HoldsCeiling, SameLevel
<1> QED BY <1>1, CeilingsHold DEF SameLevel, WaitsLess, Fit

(* ... of a task that begins to wait.                                      *)
LEMMA FitWaits ==
    ASSUME NEW s, NEW r, NEW t, SameCeilings(s, r), SameLevel(s, r, t), Fit(s, t),
           \A m \in MTX : BlockedOn(r, t, m) => Permits(s, s.tcb[t].bpriority, m)
                                                /\ "MTX" \in r.tcb[t].tstat,
           "MTX" \in r.tcb[t].tstat => r.tcb[t].p_wobjcb \in MTX
    PROVE  Fit(r, t)
<1>1. \A m \in MTX : (HoldsCeiling(r, t, m) <=> HoldsCeiling(s, t, m)) /\ r.mtx[m].ceilpri = s.mtx[m].ceilpri
  BY CeilingsHold DEF SameCeilings, HoldsCeiling, SameLevel
<1> QED BY <1>1, CeilingsHold DEF SameLevel, Fit

LEMMA KeepsFit ==
    ASSUME NEW s, NEW r, KeepsLocks(s, r),
           \A t \in TSK : SameLevel(s, r, t) /\ WaitsLess(s, r, t)
    PROVE  Keeps(s, r)
<1>1. SameCeilings(s, r)
  BY PassesCeilings DEF KeepsLocks
<1>2. \A t \in TSK : Fit(s, t) => Fit(r, t)
  BY <1>1, FitSame
<1> QED BY <1>2 DEF Keeps

LEMMA SameTcbFit ==
    ASSUME NEW s, NEW r, NEW t, r.tcb[t] = s.tcb[t]
    PROVE  SameLock(s, r, t) /\ SameLevel(s, r, t) /\ WaitsLess(s, r, t)
BY DEF SameLock, SameLevel, WaitsLess, BlockedOn

LEMMA KeepsFields ==
    ASSUME NEW s, NEW r, Keeps(s, r)
    PROVE  /\ r.p_runtsk = s.p_runtsk /\ r.dspflg = s.dspflg /\ r.enadsp = s.enadsp
           /\ r.ipm = s.ipm /\ r.tinib = s.tinib /\ r.free_tcb = s.free_tcb
           /\ r.free_mtxcb = s.free_mtxcb /\ r.free_cb = s.free_cb
           /\ \A w \in WOBJ : r.wobj[w].wobjatr = s.wobj[w].wobjatr
           /\ r.mtx = s.mtx /\ Passes(s, r) /\ KeepsLocks(s, r)
BY PassesFields DEF Keeps, KeepsLocks

LEMMA LocksTrans ==
    ASSUME NEW s, NEW r, NEW n, KeepsLocks(s, r), KeepsLocks(r, n)
    PROVE  KeepsLocks(s, n)
<1>1. Passes(s, n) /\ n.mtx = s.mtx
  BY PassesTrans DEF KeepsLocks
<1>2. \A t \in TSK : SameLock(s, n, t)
  BY DEF KeepsLocks, SameLock
<1> QED BY <1>1, <1>2 DEF KeepsLocks

LEMMA KeepsTrans ==
    ASSUME NEW s, NEW r, NEW n, Keeps(s, r), Keeps(r, n)
    PROVE  Keeps(s, n)
BY LocksTrans DEF Keeps

LEMMA KeepsSelf ==
    ASSUME NEW s
    PROVE  Keeps(s, s)
BY DEF Keeps, KeepsLocks, Passes, SameLock

LEMMA AgreeKeeps ==
    ASSUME NEW s, NEW r, NEW D, Agree(s, r, D), D \cap Frame = {}, "mtx" \notin D,
           r.tcb = s.tcb, \A w \in WOBJ : r.wobj[w].wobjatr = s.wobj[w].wobjatr
    PROVE  Keeps(s, r)
<1>1. Passes(s, r) /\ r.mtx = s.mtx
  BY AgreePasses DEF Agree, KernelField
<1>2. \A t \in TSK : SameLock(s, r, t) /\ SameLevel(s, r, t) /\ WaitsLess(s, r, t)
  BY SameTcbFit
<1> QED BY <1>1, <1>2, KeepsFit DEF KeepsLocks

LEMMA TcbEditFields ==
    ASSUME NEW s, NEW r, NEW t, NEW G, TcbEdit(s, r, t, G)
    PROVE  /\ WellFormed(r)
           /\ \A f \in KernelField \ {"tcb"} : r[f] = s[f]
           /\ r.wobj = s.wobj /\ r.tmevtb = s.tmevtb /\ r.tinib = s.tinib /\ r.mtx = s.mtx
           /\ Passes(s, r)
<1>1. \A f \in KernelField \ {"tcb"} : r[f] = s[f]
  BY DEF TcbEdit, Agree
<1>2. r.wobj = s.wobj /\ r.tmevtb = s.tmevtb /\ r.tinib = s.tinib /\ r.mtx = s.mtx
  BY <1>1 DEF KernelField
<1>3. Passes(s, r)
  BY <1>2, AgreePasses DEF TcbEdit, Frame
<1> QED BY <1>1, <1>2, <1>3 DEF TcbEdit

LEMMA TcbEditLocks ==
    ASSUME NEW s, NEW r, NEW t, NEW G, TcbEdit(s, r, t, G),
           G \cap {"lastmtx", "tstat", "p_wobjcb"} = {}
    PROVE  KeepsLocks(s, r)
<1>1. Passes(s, r) /\ r.mtx = s.mtx
  BY TcbEditFields
<1>2. ASSUME NEW u \in TSK
      PROVE  SameLock(s, r, u)
  <2>1. /\ r.tcb[u].lastmtx = s.tcb[u].lastmtx /\ r.tcb[u].tstat = s.tcb[u].tstat
        /\ r.tcb[u].p_wobjcb = s.tcb[u].p_wobjcb
    BY DEF TcbEdit, TcbField
  <2> QED BY <2>1 DEF SameLock, BlockedOn
<1> QED BY <1>1, <1>2 DEF KeepsLocks

LEMMA TcbEditKeeps ==
    ASSUME NEW s, NEW r, NEW t, NEW G, TcbEdit(s, r, t, G),
           G \cap {"lastmtx", "tstat", "p_wobjcb", "priority", "bpriority"} = {}
    PROVE  Keeps(s, r)
<1>1. Passes(s, r) /\ r.mtx = s.mtx
  BY TcbEditFields
<1>2. ASSUME NEW u \in TSK
      PROVE  SameLock(s, r, u) /\ SameLevel(s, r, u) /\ WaitsLess(s, r, u)
  <2>1. /\ r.tcb[u].lastmtx = s.tcb[u].lastmtx /\ r.tcb[u].tstat = s.tcb[u].tstat
        /\ r.tcb[u].p_wobjcb = s.tcb[u].p_wobjcb /\ r.tcb[u].priority = s.tcb[u].priority
        /\ r.tcb[u].bpriority = s.tcb[u].bpriority
    BY DEF TcbEdit, TcbField
  <2> QED BY <2>1 DEF SameLock, SameLevel, WaitsLess, BlockedOn
<1> QED BY <1>1, <1>2, KeepsFit DEF KeepsLocks

(* The task stops waiting, or comes to be suspended.                       *)
LEMMA TcbStateKeeps ==
    ASSUME NEW s, NEW r, NEW t, TcbEdit(s, r, t, {"tstat"}), r.tcb[t].tstat # TS_DORMANT,
           ~TSTAT_WAIT_WOBJ(r.tcb[t].tstat), "MTX" \notin r.tcb[t].tstat
    PROVE  Keeps(s, r)
<1>1. Passes(s, r) /\ r.mtx = s.mtx
  BY TcbEditFields
<1>2. ASSUME NEW u \in TSK
      PROVE  SameLock(s, r, u) /\ SameLevel(s, r, u) /\ WaitsLess(s, r, u)
  <2>1. CASE u = t
    <3>1. /\ r.tcb[t].lastmtx = s.tcb[t].lastmtx /\ r.tcb[t].p_wobjcb = s.tcb[t].p_wobjcb
          /\ r.tcb[t].priority = s.tcb[t].priority
          /\ r.tcb[t].bpriority = s.tcb[t].bpriority
      BY DEF TcbEdit, TcbField
    <3> QED BY <2>1, <3>1 DEF SameLock, SameLevel, WaitsLess, BlockedOn
  <2>2. CASE u # t
    <3>1. r.tcb[u] = s.tcb[u]
      BY <2>2 DEF TcbEdit
    <3> QED BY <3>1, SameTcbFit
  <2> QED BY <2>1, <2>2
<1> QED BY <1>1, <1>2, KeepsFit DEF KeepsLocks

(* A change to a task in transit, or to what the invariant is not about.   *)
LEMMA TcbEditLike ==
    ASSUME NEW s, NEW r, NEW t \in TSK, NEW G, TcbEdit(s, r, t, G), NEW X,
           t \in X \/ G \cap TaskField = {}
    PROVE  Like(s, r, X)
<1>1. \A f \in InvField : r[f] = s[f]
  BY DEF TcbEdit, Agree, InvField, KernelField
<1>2. ASSUME NEW u \in TSK \ X
      PROVE  SameTask(s, r, u)
  <2>1. r.tmevtb = s.tmevtb
    BY TcbEditFields
  <2>2. CASE u = t
    BY <2>1, <2>2 DEF TcbEdit, SameTask, TaskField, TcbField
  <2>3. CASE u # t
    BY <2>1, <2>3 DEF TcbEdit, SameTask
  <2> QED BY <2>2, <2>3
<1> QED BY <1>1, <1>2 DEF Like, TcbEdit

LEMMA TmevtbEditLike ==
    ASSUME NEW s, NEW r, NEW t, TmevtbEdit(s, r, t), NEW X, t \in X
    PROVE  /\ Like(s, r, X) /\ Keeps(s, r)
           /\ r.tcb = s.tcb /\ r.wobj = s.wobj /\ r.tinib = s.tinib /\ r.mtx = s.mtx
<1>1. \A f \in InvField : r[f] = s[f]
  BY DEF TmevtbEdit, Agree, InvField, KernelField
<1>2. r.tcb = s.tcb /\ r.wobj = s.wobj /\ r.tinib = s.tinib /\ r.mtx = s.mtx
  BY DEF TmevtbEdit, Agree, KernelField
<1>3. Keeps(s, r)
  BY <1>2, AgreeKeeps DEF TmevtbEdit, Frame
<1>4. \A u \in TSK \ X : SameTask(s, r, u)
  BY <1>2 DEF SameTask, TmevtbEdit
<1> QED BY <1>1, <1>2, <1>3, <1>4 DEF Like, TmevtbEdit

LEMMA QueueEditLike ==
    ASSUME NEW s, NEW r, NEW w, NEW f, QueueEdit(s, r, w, f), NEW X
    PROVE  /\ QueueLike(s, r, X) /\ Keeps(s, r)
           /\ r.tcb = s.tcb /\ r.tmevtb = s.tmevtb /\ r.tinib = s.tinib /\ r.mtx = s.mtx
<1>1. \A g \in InvField \ {"wobj"} : r[g] = s[g]
  BY DEF QueueEdit, Agree, InvField, KernelField
<1>2. r.tcb = s.tcb /\ r.tmevtb = s.tmevtb /\ r.tinib = s.tinib /\ r.mtx = s.mtx
  BY DEF QueueEdit, Agree, KernelField
<1>3. Keeps(s, r)
  BY <1>2, AgreeKeeps DEF QueueEdit, Frame
<1>4. \A u \in TSK \ X : SameTask(s, r, u)
  BY <1>2 DEF SameTask
<1> QED BY <1>1, <1>2, <1>3, <1>4 DEF QueueLike, QueueEdit

LEMMA LikeTrans ==
    ASSUME NEW s, NEW r, NEW n, NEW X, Like(s, r, X), Like(r, n, X)
    PROVE  Like(s, n, X)
BY DEF Like, SameTask

LEMMA LikeMore ==
    ASSUME NEW s, NEW r, NEW X, NEW Y, Like(s, r, X), X \subseteq Y
    PROVE  Like(s, r, Y)
BY DEF Like

(* What the invariant is not about.                                        *)
DataField == {"sem", "flg", "dtq", "pdq", "mpf", "out"}

LEMMA DataLike ==
    ASSUME NEW s, WellFormed(s), NEW r, HasFields(r, KernelField), Agree(s, r, DataField),
           NEW X
    PROVE  /\ Like(s, r, X) /\ Keeps(s, r)
           /\ r.tcb = s.tcb /\ r.tmevtb = s.tmevtb /\ r.wobj = s.wobj
           /\ r.tinib = s.tinib /\ r.mtx = s.mtx
<1>1. /\ r.tcb = s.tcb /\ r.tinib = s.tinib /\ r.wobj = s.wobj /\ r.mtx = s.mtx
      /\ r.ready_queue = s.ready_queue /\ r.tmevtb = s.tmevtb /\ r.free_cb = s.free_cb
      /\ \A f \in InvField : r[f] = s[f]
  BY DEF Agree, KernelField, DataField, InvField
<1>2. WellFormed(r)
  BY <1>1 DEF WellFormed
<1>3. Keeps(s, r)
  BY <1>1, AgreeKeeps DEF DataField, Frame
<1>4. \A t \in TSK \ X : SameTask(s, r, t)
  BY <1>1 DEF SameTask
<1> QED BY <1>1, <1>2, <1>3, <1>4 DEF Like

-----------------------------------------------------------------------------
(* The priority of a task changes.                                         *)

(* The task waits in no queue that is in the order of priorities.          *)
LEMMA PriorityWait ==
    ASSUME NEW s, NEW V \in SUBSET TSK, WaitOK(s, V), NEW t, NEW r, r.wobj = s.wobj,
           \A u \in V : r.tcb[u].tstat = s.tcb[u].tstat /\ r.tcb[u].p_wobjcb = s.tcb[u].p_wobjcb,
           \A u \in V \ {t} : r.tcb[u].priority = s.tcb[u].priority,
           t \in V => \/ queue_of(s.tcb[t].tstat) # "wait_queue"
                      \/ "TA_TPRI" \notin s.wobj[s.tcb[t].p_wobjcb].wobjatr
    PROVE  WaitOK(r, V)
<1>1. ASSUME NEW w \in WOBJ, NEW f \in QUEUE
      PROVE  /\ WaitsIn(r, V, w, f) = WaitsIn(s, V, w, f)
             /\ Lists(s.wobj[w][f], WaitsIn(s, V, w, f), TSK)
  BY DEF WaitsIn, WaitOK
<1>2. ASSUME NEW w \in WOBJ, "TA_TPRI" \in s.wobj[w].wobjatr
      PROVE  Sorted(r, s.wobj[w].wait_queue)
  <2>1. Lists(s.wobj[w].wait_queue, WaitsIn(s, V, w, "wait_queue"), TSK)
    BY DEF WaitOK, QUEUE
  <2>2. \A u \in WaitsIn(s, V, w, "wait_queue") : r.tcb[u].priority = s.tcb[u].priority
    BY <1>2 DEF WaitsIn
  <2>3. Sorted(s, s.wobj[w].wait_queue)
    BY <1>2 DEF WaitOK
  <2> QED BY <2>1, <2>2, <2>3, SortedKept
<1> QED BY <1>1, <1>2 DEF WaitOK

(* The task goes to its place in the wait queue of its object.             *)
LEMMA ReorderWait ==
    ASSUME NEW s, NEW V \in SUBSET TSK, WaitOK(s, V), NEW w \in WOBJ,
           NEW t \in WaitsIn(s, V, w, "wait_queue"), NEW d, NEW r, r.tcb = d.tcb,
           QueueEdit(d, r, w, "wait_queue"), d.wobj = s.wobj,
           r.wobj[w].wait_queue =
               queue_insert_tpri(d, queue_delete(s.wobj[w].wait_queue, t), t),
           \A u \in TSK : d.tcb[u].priority \in TPRI,
           \A u \in V : d.tcb[u].tstat = s.tcb[u].tstat /\ d.tcb[u].p_wobjcb = s.tcb[u].p_wobjcb,
           \A u \in V \ {t} : d.tcb[u].priority = s.tcb[u].priority
    PROVE  WaitOK(r, V)
<1> DEFINE q  == s.wobj[w].wait_queue
           S  == WaitsIn(s, V, w, "wait_queue")
           q1 == queue_delete(q, t)
           q2 == queue_insert_tpri(d, q1, t)
<1>1. Lists(q, S, TSK) /\ t \in S /\ t \in TSK
  BY DEF WaitOK, QUEUE, WaitsIn
<1>2. "TA_TPRI" \in s.wobj[w].wobjatr => Sorted(s, q)
  BY DEF WaitOK
<1>3. \A u \in S \ {t} : d.tcb[u].priority = s.tcb[u].priority
  BY DEF WaitsIn
<1>4. r.wobj[w].wait_queue = q2
  OBVIOUS
<1>5. ASSUME NEW v \in WOBJ, NEW f \in QUEUE
      PROVE  WaitsIn(r, V, v, f) = WaitsIn(s, V, v, f)
  BY DEF WaitsIn
<1> HIDE DEF q, S
<1>6. Lists(q1, S \ {t}, TSK)
  BY <1>1, DeleteLists
<1>7. "TA_TPRI" \in s.wobj[w].wobjatr => Sorted(s, q1)
  BY <1>1, <1>2, DeleteSorted
<1> HIDE DEF q1
<1>8. "TA_TPRI" \in s.wobj[w].wobjatr => Sorted(d, q1)
  BY <1>3, <1>6, <1>7, SortedKept
<1>9. \A u \in TSK : d.tcb[u].priority \in Int
  <2> TAKE u \in TSK
  <2>1. d.tcb[u].priority \in Nat
    BY Priorities
  <2> QED BY <2>1
<1>10. "TA_TPRI" \in s.wobj[w].wobjatr => Sorted(d, q2)
  BY <1>1, <1>6, <1>8, <1>9, InsertSorted
<1>11. Lists(q2, (S \ {t}) \cup {t}, TSK)
  BY <1>1, <1>6, InsertLists
<1>12. (S \ {t}) \cup {t} = S
  BY <1>1
<1> HIDE DEF q2
<1>13. ASSUME NEW v \in WOBJ, NEW f \in QUEUE
       PROVE  Lists(r.wobj[v][f], WaitsIn(r, V, v, f), TSK)
  <2>1. CASE v = w /\ f = "wait_queue"
    BY <1>4, <1>5, <1>11, <1>12, <2>1 DEF S
  <2>2. CASE <<v, f>> # <<w, "wait_queue">>
    <3>1. r.wobj[v][f] = s.wobj[v][f]
      BY <2>2 DEF QueueEdit
    <3> QED BY <1>5, <3>1 DEF WaitOK
  <2> QED BY <2>1, <2>2
<1>14. ASSUME NEW v \in WOBJ, "TA_TPRI" \in r.wobj[v].wobjatr
       PROVE  Sorted(r, r.wobj[v].wait_queue)
  <2>1. "TA_TPRI" \in s.wobj[v].wobjatr
    BY <1>14 DEF QueueEdit
  <2>2. CASE v = w
    BY <1>4, <1>10, <2>1, <2>2 DEF Sorted
  <2>3. CASE v # w
    <3> DEFINE qv == s.wobj[v].wait_queue
               Sv == WaitsIn(s, V, v, "wait_queue")
    <3>1. r.wobj[v].wait_queue = qv
      BY <2>3 DEF QueueEdit, QUEUE
    <3>2. Lists(qv, Sv, TSK) /\ Sorted(s, qv)
      BY <2>1 DEF WaitOK, QUEUE
    <3>3. \A u \in Sv : r.tcb[u].priority = s.tcb[u].priority
      BY <2>3 DEF WaitsIn
    <3> HIDE DEF qv, Sv
    <3>4. Sorted(r, qv)
      BY <3>2, <3>3, SortedKept
    <3> QED BY <3>1, <3>4
  <2> QED BY <2>2, <2>3
<1> QED BY <1>13, <1>14 DEF WaitOK

(* Only the priority of task t changes, in what the invariant says of      *)
(* tasks.                                                                  *)
NewPriority(s, r, t) ==
    /\ \A u \in TSK, f \in TcbField \ {"priority"} : r.tcb[u][f] = s.tcb[u][f]
    /\ \A u \in TSK \ {t} : r.tcb[u].priority = s.tcb[u].priority
    /\ r.tmevtb = s.tmevtb /\ r.mtx = s.mtx

LEMMA NewPriorityState ==
    ASSUME NEW s, NEW r, NEW t, NewPriority(s, r, t), NEW X
    PROVE  /\ \A u \in TSK : r.tcb[u].tstat = s.tcb[u].tstat /\ r.tcb[u].p_wobjcb = s.tcb[u].p_wobjcb
           /\ \A u \in TSK : SameState(s, r, u)
           /\ Ready(r, X) = Ready(s, X) /\ Blocked(r, X) = Blocked(s, X)
<1>1. \A u \in TSK : r.tcb[u].tstat = s.tcb[u].tstat /\ r.tcb[u].p_wobjcb = s.tcb[u].p_wobjcb
  BY DEF NewPriority, TcbField
<1>2. \A u \in TSK : SameState(s, r, u)
  BY DEF NewPriority, SameState, TcbField, TaskField
<1> QED BY <1>1, <1>2 DEF Ready, Blocked

LEMMA NewPriorityLocks ==
    ASSUME NEW s, NEW r, NEW t, NewPriority(s, r, t), Passes(s, r)
    PROVE  KeepsLocks(s, r)
<1>1. ASSUME NEW u \in TSK
      PROVE  SameLock(s, r, u)
  <2>1. /\ r.tcb[u].lastmtx = s.tcb[u].lastmtx /\ r.tcb[u].tstat = s.tcb[u].tstat
        /\ r.tcb[u].p_wobjcb = s.tcb[u].p_wobjcb
    BY DEF NewPriority, TcbField
  <2> QED BY <2>1 DEF SameLock, BlockedOn
<1> QED BY <1>1 DEF KeepsLocks, NewPriority

(* A task that should run still should when its priority is raised.        *)
StaysFirst(s, r, t, newpri) ==
    s.p_schedtsk = t /\ newpri < s.tcb[t].priority => r.p_schedtsk = t

LEMMA change_priority_inv ==
    ASSUME NEW s, NEW X, NEW E, Inv(s, X, E), NEW t \in TSK \ X, NEW newpri \in TPRI,
           NEW mtxmode
    PROVE  LET r == change_priority(s, t, newpri, mtxmode)
           IN  /\ Inv(r, X, E) /\ KeepsLocks(s, r) /\ NewPriority(s, r, t)
               /\ StaysFirst(s, r, t, newpri) /\ r.tcb[t].priority = newpri
<1> DEFINE r   == change_priority(s, t, newpri, mtxmode)
           set == [s EXCEPT !.tcb[t].priority = newpri]
           R   == Ready(s, X)
           V   == Blocked(s, X)
<1>1. WellFormed(s) /\ Sched(s, R) /\ WaitOK(s, V) /\ V \in SUBSET TSK /\ R \in SUBSET TSK
      /\ \A u \in TSK \ X : TaskOK(s, u, E)
  BY DEF Inv, Ready, Blocked
<1>2. CASE TSTAT_RUNNABLE(s.tcb[t].tstat)
  <2>1. t \in R /\ t \notin V
    BY <1>1, <1>2, TstatFacts DEF Ready, Blocked, TaskOK
  <2>2. /\ WellFormed(r)
        /\ Agree(s, r, ReadyFields \cup {"tcb"})
        /\ PriorityOnly(s, r, t, newpri)
    BY <1>1, <1>2, change_priority_effect
  <2>3. Sched(r, R) /\ (s.p_schedtsk = t /\ newpri < s.tcb[t].priority => r.p_schedtsk = t)
    BY <1>1, <1>2, <2>1, change_priority_sched
  <2> HIDE DEF r
  <2>4. r.wobj = s.wobj /\ r.tmevtb = s.tmevtb /\ r.mtx = s.mtx /\ r.tinib = s.tinib
    BY <2>2 DEF Agree, KernelField, ReadyFields
  <2>5. NewPriority(s, r, t)
    BY <1>1, <2>2, <2>4, PriorityOnlyOK DEF NewPriority
  <2>6. KeepsLocks(s, r) /\ r.tcb[t].priority = newpri
    BY <1>1, <2>2, <2>4, <2>5, AgreePasses, NewPriorityLocks, PriorityOnlyOK
       DEF ReadyFields, Frame
  <2>7. Ready(r, X) = R /\ Blocked(r, X) = V
    BY <2>5, NewPriorityState
  <2>8. WaitOK(r, V)
    <3>1. \A u \in V : /\ r.tcb[u].tstat = s.tcb[u].tstat
                       /\ r.tcb[u].p_wobjcb = s.tcb[u].p_wobjcb
                       /\ r.tcb[u].priority = s.tcb[u].priority
      BY <1>1, <2>1, <2>5, NewPriorityState DEF NewPriority
    <3> HIDE DEF V
    <3> QED BY <1>1, <2>4, <3>1, WaitKept
  <2>9. \A u \in TSK \ X : TaskOK(r, u, E)
    BY <1>1, <2>4, <2>5, NewPriorityState, StateKept
  <2>10. Inv(r, X, E)
    BY <2>2, <2>3, <2>7, <2>8, <2>9 DEF Inv
  <2> QED BY <2>3, <2>5, <2>6, <2>10 DEF r, StaysFirst
<1>3. CASE ~TSTAT_RUNNABLE(s.tcb[t].tstat)
  <2> DEFINE w    == s.tcb[t].p_wobjcb
             next == queue_insert_tpri(set, queue_delete(s.wobj[w].wait_queue, t), t)
             ord  == TSTAT_WAIT_WOBJCB(s.tcb[t].tstat) /\ "TA_TPRI" \in s.wobj[w].wobjatr
  <2>1. TcbEdit(s, set, t, {"priority"}) /\ set.tcb[t].priority = newpri
    <3>1. TcbSet(s, set, t, "priority", newpri)
      BY <1>1, SetTcb DEF TcbField
    <3> QED BY <3>1 DEF TcbSet
  <2>2. set.wobj = s.wobj /\ set.tmevtb = s.tmevtb /\ set.mtx = s.mtx /\ set.tinib = s.tinib
        /\ Passes(s, set) /\ WellFormed(set) /\ \A f \in KernelField \ {"tcb"} : set[f] = s[f]
    BY <2>1, TcbEditFields
  <2>3. NewPriority(s, set, t)
    BY <2>1, <2>2 DEF NewPriority, TcbEdit, TcbField
  <2>4. r = IF ord THEN [set EXCEPT !.wobj[w].wait_queue = next] ELSE set
    BY <1>3, <2>2 DEF change_priority, wobj_change_priority
  <2>5. t \notin R
    BY <1>3 DEF Ready
  <2> HIDE DEF r, set
  <2>6. /\ \A u \in V : /\ set.tcb[u].tstat = s.tcb[u].tstat
                        /\ set.tcb[u].p_wobjcb = s.tcb[u].p_wobjcb
        /\ \A u \in V \ {t} : set.tcb[u].priority = s.tcb[u].priority
    BY <1>1, <2>3, NewPriorityState DEF NewPriority
  <2>7. /\ WellFormed(r) /\ Passes(s, r) /\ NewPriority(s, r, t) /\ WaitOK(r, V)
        /\ r.tcb[t].priority = newpri
        /\ \A f \in KernelField \ {"tcb", "wobj"} : r[f] = s[f]
    <3>1. CASE ord
      <4>1. t \in V /\ w \in WOBJ /\ queue_of(s.tcb[t].tstat) = "wait_queue"
        <5>1. s.tcb[t].tstat \in TSTATS
          BY <1>1 DEF TaskOK
        <5>2. TSTAT_WAITING(s.tcb[t].tstat)
          BY <3>1 DEF TSTAT_WAITING, TSTAT_WAIT_WOBJCB, TS_WAITING_MASK, TS_WOBJ_MASK
        <5>3. PICK x \in TS_WAITING_MASK :
                     s.tcb[t].tstat = {x} \/ s.tcb[t].tstat = {x, "SUSPENDED"}
          BY <5>1, <5>2, TstatFacts
        <5>4. x \in TS_WOBJCB_MASK
          BY <3>1, <5>3, WaitFacts
        <5>5. x \in TS_WOBJ_MASK /\ x \notin RECEIVING
          BY <5>4 DEF TS_WOBJ_MASK, TS_WOBJCB_MASK, RECEIVING
        <5>6. TSTAT_WAIT_WOBJ(s.tcb[t].tstat) /\ queue_of(s.tcb[t].tstat) = "wait_queue"
          BY <5>3, <5>5, WaitFacts
        <5>7. t \in V
          BY <5>6 DEF Blocked
        <5> QED BY <1>1, <5>6, <5>7 DEF TaskOK, WobjExists
      <4>2. t \in WaitsIn(s, V, w, "wait_queue")
        BY <4>1 DEF WaitsIn
      <4> HIDE DEF w
      <4>3. QueueEdit(set, r, w, "wait_queue") /\ r.wobj[w].wait_queue = next
        <5>1. r = [set EXCEPT !.wobj[w]["wait_queue"] = next]
          BY <2>4, <3>1
        <5> HIDE DEF next
        <5>2. QueueSet(set, r, w, "wait_queue", next)
          BY <2>2, <4>1, <5>1, SetQueue DEF QUEUE
        <5> QED BY <5>2 DEF QueueSet
      <4>4. r.tcb = set.tcb /\ r.tmevtb = set.tmevtb /\ r.mtx = set.mtx /\ Keeps(set, r)
        BY <4>3, QueueEditLike
      <4>5. \A u \in TSK : set.tcb[u].priority \in TPRI
        BY <2>2 DEF WellFormed, TcbOK
      <4> HIDE DEF V
      <4>6. WaitOK(r, V)
        BY <1>1, <2>2, <2>6, <4>1, <4>2, <4>3, <4>4, <4>5, ReorderWait DEF next
      <4>7. NewPriority(s, r, t)
        BY <2>3, <4>4 DEF NewPriority
      <4>8. Passes(s, r) /\ r.tcb[t].priority = newpri
        BY <2>1, <2>2, <4>4, KeepsFields, PassesTrans
      <4>9. \A f \in KernelField \ {"tcb", "wobj"} : r[f] = s[f]
        BY <2>2, <4>3 DEF QueueEdit, Agree
      <4> QED BY <4>3, <4>6, <4>7, <4>8, <4>9 DEF QueueEdit
    <3>2. CASE ~ord
      <4>1. r = set
        BY <2>4, <3>2
      <4>2. t \in V => queue_of(s.tcb[t].tstat) # "wait_queue" \/ "TA_TPRI" \notin s.wobj[w].wobjatr
        <5> SUFFICES ASSUME t \in V, ~TSTAT_WAIT_WOBJCB(s.tcb[t].tstat)
                     PROVE  queue_of(s.tcb[t].tstat) # "wait_queue"
          BY <3>2
        <5>1. s.tcb[t].tstat \in TSTATS /\ TSTAT_WAIT_WOBJ(s.tcb[t].tstat)
          BY <1>1 DEF TaskOK, Blocked
        <5>2. PICK x \in TS_WAITING_MASK :
                     s.tcb[t].tstat = {x} \/ s.tcb[t].tstat = {x, "SUSPENDED"}
          BY <5>1, TstatFacts
        <5>3. x \in TS_WOBJ_MASK /\ x \notin TS_WOBJCB_MASK
          BY <5>1, <5>2, WaitFacts
        <5>4. x \in RECEIVING
          BY <5>3 DEF TS_WOBJ_MASK, RECEIVING
        <5>5. queue_of(s.tcb[t].tstat) = "rwait_queue"
          BY <5>2, <5>4, WaitFacts
        <5> QED BY <5>5
      <4> HIDE DEF V
      <4>3. WaitOK(set, V)
        BY <1>1, <2>2, <2>6, <4>2, PriorityWait
      <4> QED BY <2>1, <2>2, <2>3, <4>1, <4>3
    <3> QED BY <3>1, <3>2
  <2>8. Ready(r, X) = R /\ Blocked(r, X) = V
    BY <2>7, NewPriorityState
  <2>9. Sched(r, R)
    <3>1. \A u \in R : r.tcb[u].priority = s.tcb[u].priority
      BY <1>1, <2>5, <2>7 DEF NewPriority
    <3>2. \A f \in ReadyFields \cup {"p_runtsk", "dspflg"} : r[f] = s[f]
      BY <2>7 DEF ReadyFields, KernelField
    <3> QED BY <1>1, <3>1, <3>2, SchedKept
  <2>10. \A u \in TSK \ X : TaskOK(r, u, E)
    BY <1>1, <2>7, PassesFields, NewPriorityState, StateKept
  <2>11. Inv(r, X, E)
    BY <2>7, <2>8, <2>9, <2>10 DEF Inv
  <2>12. s.p_schedtsk = t => r.p_schedtsk = t
    BY <2>7 DEF KernelField
  <2>13. KeepsLocks(s, r)
    BY <2>7, NewPriorityLocks
  <2> QED BY <2>7, <2>11, <2>12, <2>13 DEF r, StaysFirst
<1> QED BY <1>2, <1>3

-----------------------------------------------------------------------------
(* A wait ends.                                                            *)

LEMMA WaiterKept ==
    ASSUME NEW s, NEW r, NEW t, Waiter(s, t), r.tcb[t].raster = s.tcb[t].raster,
           r.tcb[t].winfo = s.tcb[t].winfo, r.tinib = s.tinib, r.tmevtb[t] = s.tmevtb[t]
    PROVE  Waiter(r, t)
BY DEF Waiter, Exists

(* The first task of a wait queue is taken out of it, ...                  *)
LEMMA TakeHead ==
    ASSUME NEW s, NEW X, NEW E, Inv(s, X, E), NEW w \in WOBJ, NEW f \in QUEUE,
           s.wobj[w][f] # <<>>
    PROVE  LET r == [s EXCEPT !.wobj[w][f] = Tail(s.wobj[w][f])]
               t == Head(s.wobj[w][f])
           IN  /\ Inv(r, X \cup {t}, E) /\ Keeps(s, r) /\ QueueEdit(s, r, w, f)
               /\ r.tcb = s.tcb /\ r.tmevtb = s.tmevtb /\ r.mtx = s.mtx
               /\ r.wobj[w][f] = Tail(s.wobj[w][f])
               /\ t \in TSK \ X /\ Waiter(s, t) /\ Waiter(r, t)
               /\ ~TSTAT_RUNNABLE(s.tcb[t].tstat)
<1> DEFINE q == s.wobj[w][f]
           r == [s EXCEPT !.wobj[w][f] = Tail(q)]
           t == Head(q)
<1>1. t \in WaitsIn(s, Blocked(s, X), w, f) /\ q # <<>>
  BY HeadWaits
<1>2. WellFormed(s)
  BY DEF Inv
<1>3. QueueEdit(s, r, w, f) /\ r.wobj[w][f] = Tail(q)
  <2> DEFINE rest == Tail(q)
  <2>1. r = [s EXCEPT !.wobj[w][f] = rest]
    OBVIOUS
  <2> HIDE DEF r, rest
  <2>2. QueueSet(s, r, w, f, rest)
    BY <1>2, <2>1, SetQueue
  <2> QED BY <2>2 DEF QueueSet, rest
<1> HIDE DEF r
<1>4. /\ QueueLike(s, r, X \cup {t}) /\ Keeps(s, r) /\ r.tinib = s.tinib
      /\ r.tcb = s.tcb /\ r.tmevtb = s.tmevtb /\ r.mtx = s.mtx
  BY <1>3, QueueEditLike
<1>5. Removed(s, r, w, f, t)
  BY <1>1, <1>3 DEF Removed, QueueEdit
<1>6. t \in Blocked(s, X)
  BY <1>1 DEF WaitsIn
<1>7. t \in TSK \ X /\ Waiter(s, t) /\ ~TSTAT_RUNNABLE(s.tcb[t].tstat)
  BY <1>6, BlockedWaits
<1> HIDE DEF q, t
<1>8. Inv(r, X \cup {t}, E)
  BY <1>1, <1>4, <1>5, Unwait
<1>9. Waiter(r, t)
  BY <1>4, <1>7, WaiterKept
<1> QED BY <1>3, <1>4, <1>7, <1>8, <1>9 DEF r, q, t

(* ... a task out of the queue it may wait in;                             *)
LEMMA wait_dequeue_wobj_inv ==
    ASSUME NEW s, NEW X, NEW E, Inv(s, X, E), NEW t \in TSK \ X,
           TSTAT_WAITING(s.tcb[t].tstat)
    PROVE  LET r == wait_dequeue_wobj(s, t)
           IN  /\ Inv(r, X \cup {t}, E) /\ Keeps(s, r) /\ Agree(s, r, {"wobj"})
               /\ r.tcb = s.tcb /\ r.tmevtb = s.tmevtb /\ r.mtx = s.mtx
               /\ Waiter(r, t)
<1> DEFINE r == wait_dequeue_wobj(s, t)
           w == s.tcb[t].p_wobjcb
           f == queue_of(s.tcb[t].tstat)
<1>1. WellFormed(s) /\ Waiter(s, t) /\ ~TSTAT_RUNNABLE(s.tcb[t].tstat)
  <2>1. s.tcb[t].tstat \in TSTATS
    BY DEF Inv, TaskOK
  <2> QED BY <2>1, TstatFacts, WaitingWaiter DEF Inv
<1>2. CASE TSTAT_WAIT_WOBJ(s.tcb[t].tstat)
  <2>1. t \in Blocked(s, X)
    BY <1>2 DEF Blocked
  <2>2. w \in WOBJ /\ f \in QUEUE /\ t \in WaitsIn(s, Blocked(s, X), w, f)
    BY <2>1, WaitsWhere
  <2>3. r = [s EXCEPT !.wobj[w][f] = queue_delete(s.wobj[w][f], t)]
    BY <1>2 DEF wait_dequeue_wobj
  <2> HIDE DEF r, w, f
  <2>4. QueueEdit(s, r, w, f) /\ r.wobj[w][f] = queue_delete(s.wobj[w][f], t)
    <3> DEFINE q == queue_delete(s.wobj[w][f], t)
    <3>1. r = [s EXCEPT !.wobj[w][f] = q]
      BY <2>3
    <3> HIDE DEF q
    <3>2. QueueSet(s, r, w, f, q)
      BY <1>1, <2>2, <3>1, SetQueue
    <3> QED BY <3>2 DEF QueueSet, q
  <2>5. /\ QueueLike(s, r, X \cup {t}) /\ Keeps(s, r) /\ r.tinib = s.tinib
        /\ r.tcb = s.tcb /\ r.tmevtb = s.tmevtb /\ r.mtx = s.mtx
    BY <2>4, QueueEditLike
  <2>6. Removed(s, r, w, f, t)
    BY <2>4 DEF Removed, QueueEdit
  <2>7. Inv(r, X \cup {t}, E)
    BY <2>2, <2>5, <2>6, Unwait
  <2>8. Waiter(r, t)
    BY <1>1, <2>5, WaiterKept
  <2> QED BY <2>4, <2>5, <2>7, <2>8 DEF r, QueueEdit
<1>3. CASE ~TSTAT_WAIT_WOBJ(s.tcb[t].tstat)
  <2>1. r = s
    BY <1>3 DEF wait_dequeue_wobj
  <2>2. t \notin Ready(s, X) /\ t \notin Blocked(s, X)
    BY <1>1, <1>3 DEF Ready, Blocked
  <2>3. Inv(s, X \cup {t}, E)
    BY <2>2, Unsettle
  <2> QED BY <1>1, <2>1, <2>3, KeepsSelf DEF Agree
<1> QED BY <1>2, <1>3

(* ... its time event is taken back;                                       *)
LEMMA wait_dequeue_tmevtb_inv ==
    ASSUME NEW s, NEW X, NEW E, Inv(s, X, E), NEW t \in X, t \in TSK, Waiter(s, t)
    PROVE  LET r == wait_dequeue_tmevtb(s, t)
           IN  /\ Inv(r, X, E) /\ Keeps(s, r) /\ Agree(s, r, {"tmevtb"})
               /\ r.tcb = s.tcb /\ r.wobj = s.wobj /\ r.mtx = s.mtx /\ r.tinib = s.tinib
               /\ r.tmevtb[t] = "none" /\ \A u \in TSK \ {t} : r.tmevtb[u] = s.tmevtb[u]
<1> DEFINE r == wait_dequeue_tmevtb(s, t)
<1>1. WellFormed(s)
  BY DEF Inv
<1>2. CASE s.tcb[t].winfo = "tmevtb"
  <2>1. r = [s EXCEPT !.tmevtb[t] = "none"]
    BY <1>2 DEF wait_dequeue_tmevtb
  <2> HIDE DEF r
  <2>2. TmevtbEdit(s, r, t) /\ r.tmevtb[t] = "none"
    <3>1. TmevtbSet(s, r, t, "none")
      BY <1>1, <2>1, SetTmevtb
    <3> QED BY <3>1 DEF TmevtbSet
  <2>3. /\ Like(s, r, X) /\ Keeps(s, r)
        /\ r.tcb = s.tcb /\ r.wobj = s.wobj /\ r.tinib = s.tinib /\ r.mtx = s.mtx
    BY <2>2, TmevtbEditLike
  <2>4. Inv(r, X, E)
    BY <2>3, Change
  <2> QED BY <2>2, <2>3, <2>4 DEF TmevtbEdit, r
<1>3. CASE s.tcb[t].winfo # "tmevtb"
  <2>1. r = s
    BY <1>3 DEF wait_dequeue_tmevtb
  <2>2. s.tmevtb[t] = "none"
    BY <1>3 DEF Waiter
  <2> QED BY <2>1, <2>2, KeepsSelf DEF Agree
<1> QED BY <1>2, <1>3

(* ... and it is runnable, or suspended, with the error code of its wait.  *)
LEMMA make_non_wait_inv ==
    ASSUME NEW s, NEW X, NEW E, Inv(s, X, E), NEW t \in X, t \in TSK,
           ~s.tcb[t].raster, Exists(s, t), s.tmevtb[t] = "none", s.tcb[t].winfo \in WERCD
    PROVE  LET r == make_non_wait(s, t)
           IN  /\ Inv(r, X \ {t}, E) /\ Keeps(s, r)
               /\ Agree(s, r, ReadyFields \cup {"tcb"})
               /\ \A u \in TSK, f \in TcbField \ {"tstat"} : r.tcb[u][f] = s.tcb[u][f]
<1> DEFINE r == make_non_wait(s, t)
           x == IF TSTAT_SUSPENDED(s.tcb[t].tstat) THEN TS_SUSPENDED ELSE TS_RUNNABLE
           m == [s EXCEPT !.tcb[t].tstat = x]
<1>1. WellFormed(s)
  BY DEF Inv
<1>2. TcbEdit(s, m, t, {"tstat"}) /\ m.tcb[t].tstat = x
  <2>1. TcbSet(s, m, t, "tstat", x)
    <3> HIDE DEF x
    <3> QED BY <1>1, SetTcb DEF TcbField
  <2> QED BY <2>1 DEF TcbSet
<1>3. r = IF TSTAT_SUSPENDED(s.tcb[t].tstat) THEN m ELSE make_runnable(m, t)
  BY DEF make_non_wait
<1> HIDE DEF m, r
<1>4. Like(s, m, X) /\ WellFormed(m) /\ m.tinib = s.tinib /\ m.tmevtb = s.tmevtb
      /\ m.wobj = s.wobj
  BY <1>2, TcbEditFields, TcbEditLike
<1>5. Inv(m, X, E)
  BY <1>4, Change
<1>6. \A u \in TSK, f \in TcbField \ {"tstat"} : m.tcb[u][f] = s.tcb[u][f]
  BY <1>2 DEF TcbEdit
<1>7. x \in {TS_DORMANT, TS_RUNNABLE, TS_SUSPENDED}
  OBVIOUS
<1>8. /\ x \in TSTATS /\ ~TSTAT_WAITING(x) /\ ~TSTAT_WAIT_WOBJ(x) /\ x # TS_DORMANT
      /\ x \cap RECEIVING = {} /\ "DLY" \notin x /\ "MTX" \notin x
      /\ TSTAT_RUNNABLE(x) <=> x = TS_RUNNABLE
  <2>1. x # TS_DORMANT
    BY DEF TS_DORMANT, TS_RUNNABLE, TS_SUSPENDED
  <2> HIDE DEF x
  <2> QED BY <1>7, <2>1, IdleFacts
<1>9. TaskOK(m, t, E)
  <2> HIDE DEF x
  <2>1. /\ m.tcb[t].winfo = s.tcb[t].winfo /\ m.tcb[t].raster = s.tcb[t].raster
        /\ m.tmevtb[t] = "none" /\ m.tcb[t].tstat = x
    BY <1>2, <1>4, <1>6 DEF TcbField
  <2>2. WinfoOK(m.tcb[t], m.tmevtb[t])
    BY <1>8, <2>1 DEF WinfoOK, TMEVT
  <2> QED BY <1>4, <1>8, <2>1, <2>2 DEF TaskOK, Exists
<1>10. Keeps(s, m)
  <2> HIDE DEF x
  <2> QED BY <1>2, <1>8, TcbStateKeeps
<1>11. CASE TSTAT_SUSPENDED(s.tcb[t].tstat)
  <2>1. r = m /\ x # TS_RUNNABLE
    BY <1>3, <1>11 DEF TS_SUSPENDED, TS_RUNNABLE
  <2>2. Inv(m, X \ {t}, E)
    BY <1>2, <1>5, <1>8, <1>9, <2>1, Settle
  <2> QED BY <1>2, <1>6, <1>10, <2>1, <2>2 DEF r, TcbEdit, Agree
<1>12. CASE ~TSTAT_SUSPENDED(s.tcb[t].tstat)
  <2>1. r = make_runnable(m, t) /\ m.tcb[t].tstat = TS_RUNNABLE
    BY <1>2, <1>3, <1>12
  <2>2. Inv(r, X \ {t}, E)
    BY <1>5, <1>9, <2>1, Start
  <2>3. Agree(m, r, ReadyFields)
    BY <1>4, <2>1, make_runnable_effect
  <2>4. r.tcb = m.tcb /\ r.wobj = m.wobj
    BY <2>3 DEF Agree, KernelField, ReadyFields
  <2>5. Keeps(m, r)
    BY <2>3, <2>4, AgreeKeeps DEF ReadyFields, Frame
  <2>6. Keeps(s, r)
    BY <1>10, <2>5, KeepsTrans
  <2>7. Agree(s, r, ReadyFields \cup {"tcb"})
    BY <1>2, <2>3 DEF Agree, TcbEdit
  <2> QED BY <1>6, <2>2, <2>4, <2>6, <2>7 DEF r
<1> QED BY <1>11, <1>12

LEMMA set_wercd_inv ==
    ASSUME NEW s, NEW X, NEW E, Inv(s, X, E), NEW t \in X, t \in TSK, NEW e
    PROVE  LET r == set_wercd(s, t, e)
           IN  /\ Inv(r, X, E) /\ Keeps(s, r) /\ TcbEdit(s, r, t, {"winfo"})
               /\ r.tcb[t].winfo = e
               /\ r.tmevtb = s.tmevtb /\ r.wobj = s.wobj /\ r.mtx = s.mtx /\ r.tinib = s.tinib
<1> DEFINE r == set_wercd(s, t, e)
<1>1. WellFormed(s)
  BY DEF Inv
<1>2. TcbSet(s, r, t, "winfo", e)
  BY <1>1, SetTcb DEF TcbField, set_wercd
<1> HIDE DEF r
<1>3. TcbEdit(s, r, t, {"winfo"}) /\ r.tcb[t].winfo = e
  BY <1>2 DEF TcbSet
<1>4. /\ Keeps(s, r) /\ Like(s, r, X)
      /\ r.tmevtb = s.tmevtb /\ r.wobj = s.wobj /\ r.mtx = s.mtx /\ r.tinib = s.tinib
  BY <1>3, TcbEditFields, TcbEditKeeps, TcbEditLike
<1>5. Inv(r, X, E)
  BY <1>4, Change
<1> QED BY <1>3, <1>4, <1>5 DEF r

(* A wait ends with error code e: wait_complete, and what follows          *)
(* wait_dequeue_wobj in rel_wai.                                           *)
EndedFields == ReadyFields \cup {"tcb", "tmevtb"}

(* Only the states and error codes of tasks have changed.                  *)
Ended(s, r) ==
    /\ Keeps(s, r) /\ Agree(s, r, EndedFields)
    /\ \A u \in TSK, f \in TcbField \ {"tstat", "winfo"} : r.tcb[u][f] = s.tcb[u][f]

LEMMA EndWait ==
    ASSUME NEW s, NEW X, NEW E, Inv(s, X, E), NEW t \in X, t \in TSK, Waiter(s, t),
           NEW e \in WERCD
    PROVE  LET r == make_non_wait(set_wercd(wait_dequeue_tmevtb(s, t), t, e), t)
           IN  Inv(r, X \ {t}, E) /\ Ended(s, r)
<1> DEFINE a == wait_dequeue_tmevtb(s, t)
           b == set_wercd(a, t, e)
           r == make_non_wait(b, t)
<1>1. /\ Inv(a, X, E) /\ Keeps(s, a) /\ Agree(s, a, {"tmevtb"})
      /\ a.tcb = s.tcb /\ a.tinib = s.tinib /\ a.tmevtb[t] = "none"
  BY wait_dequeue_tmevtb_inv
<1> HIDE DEF a
<1>2. /\ Inv(b, X, E) /\ Keeps(a, b) /\ TcbEdit(a, b, t, {"winfo"})
      /\ b.tcb[t].winfo = e /\ b.tmevtb = a.tmevtb /\ b.tinib = a.tinib
  BY <1>1, set_wercd_inv
<1> HIDE DEF b
<1>3. ~b.tcb[t].raster /\ Exists(b, t) /\ b.tmevtb[t] = "none" /\ b.tcb[t].winfo \in WERCD
  BY <1>1, <1>2 DEF Waiter, Exists, TcbEdit, TcbField
<1>4. /\ Inv(r, X \ {t}, E) /\ Keeps(b, r) /\ Agree(b, r, ReadyFields \cup {"tcb"})
      /\ \A u \in TSK, f \in TcbField \ {"tstat"} : r.tcb[u][f] = b.tcb[u][f]
  BY <1>2, <1>3, make_non_wait_inv
<1> HIDE DEF r
<1>5. Keeps(s, r)
  BY <1>1, <1>2, <1>4, KeepsTrans
<1>6. Agree(s, r, EndedFields)
  BY <1>1, <1>2, <1>4 DEF Agree, TcbEdit, EndedFields
<1>7. \A u \in TSK, f \in TcbField \ {"tstat", "winfo"} : r.tcb[u][f] = s.tcb[u][f]
  BY <1>1, <1>2, <1>4 DEF TcbEdit
<1> QED BY <1>4, <1>5, <1>6, <1>7 DEF Ended, r, b, a

LEMMA wait_complete_inv ==
    ASSUME NEW s, NEW X, NEW E, Inv(s, X, E), NEW t \in X, t \in TSK, Waiter(s, t)
    PROVE  LET r == wait_complete(s, t)
           IN  Inv(r, X \ {t}, E) /\ Ended(s, r)
<1>1. "E_OK" \in WERCD
  BY DEF WERCD
<1> QED BY <1>1, EndWait DEF wait_complete

LEMMA EndedFacts ==
    ASSUME NEW s, NEW r, Ended(s, r)
    PROVE  /\ Keeps(s, r)
           /\ r.wobj = s.wobj /\ r.mtx = s.mtx /\ r.tinib = s.tinib
           /\ r.sem = s.sem /\ r.flg = s.flg /\ r.dtq = s.dtq /\ r.pdq = s.pdq /\ r.mpf = s.mpf
           /\ \A u \in TSK : /\ r.tcb[u].lastmtx = s.tcb[u].lastmtx
                             /\ r.tcb[u].priority = s.tcb[u].priority
                             /\ r.tcb[u].bpriority = s.tcb[u].bpriority
BY DEF Ended, Agree, KernelField, EndedFields, ReadyFields, TcbField

(* A wait ends because its time event is due: the event is gone already.   *)
LEMMA TmoutWaiter ==
    ASSUME NEW s, NEW X, NEW E, Inv(s, X, E), NEW t \in X, t \in TSK, Waiter(s, t),
           NEW e \in WERCD
    PROVE  LET r == make_non_wait(set_wercd([s EXCEPT !.tmevtb[t] = "none"], t, e), t)
           IN  Inv(r, X \ {t}, E) /\ Ended(s, r)
<1> DEFINE a == [s EXCEPT !.tmevtb[t] = "none"]
           b == set_wercd(a, t, e)
           r == make_non_wait(b, t)
<1>1. TmevtbSet(s, a, t, "none")
  BY SetTmevtb DEF Inv
<1> HIDE DEF a
<1>2. /\ Like(s, a, X) /\ Keeps(s, a) /\ Agree(s, a, {"tmevtb"})
      /\ a.tcb = s.tcb /\ a.tinib = s.tinib /\ a.tmevtb[t] = "none"
  BY <1>1, TmevtbEditLike DEF TmevtbSet, TmevtbEdit
<1>3. Inv(a, X, E)
  BY <1>2, Change
<1>4. /\ Inv(b, X, E) /\ Keeps(a, b) /\ TcbEdit(a, b, t, {"winfo"})
      /\ b.tcb[t].winfo = e /\ b.tmevtb = a.tmevtb /\ b.tinib = a.tinib
  BY <1>3, set_wercd_inv
<1> HIDE DEF b
<1>5. ~b.tcb[t].raster /\ Exists(b, t) /\ b.tmevtb[t] = "none" /\ b.tcb[t].winfo \in WERCD
  BY <1>2, <1>4 DEF Waiter, Exists, TcbEdit, TcbField
<1>6. /\ Inv(r, X \ {t}, E) /\ Keeps(b, r) /\ Agree(b, r, ReadyFields \cup {"tcb"})
      /\ \A u \in TSK, f \in TcbField \ {"tstat"} : r.tcb[u][f] = b.tcb[u][f]
  BY <1>4, <1>5, make_non_wait_inv
<1> HIDE DEF r
<1>7. Keeps(s, r)
  BY <1>2, <1>4, <1>6, KeepsTrans
<1>8. Agree(s, r, EndedFields)
  BY <1>2, <1>4, <1>6 DEF Agree, TcbEdit, EndedFields
<1>9. \A u \in TSK, f \in TcbField \ {"tstat", "winfo"} : r.tcb[u][f] = s.tcb[u][f]
  BY <1>2, <1>4, <1>6 DEF TcbEdit
<1> QED BY <1>6, <1>7, <1>8, <1>9 DEF Ended, r, b, a

LEMMA wait_tmout_inv ==
    ASSUME NEW s, NEW X, NEW E, Inv(s, X, E), NEW t \in TSK \ X,
           TSTAT_WAITING(s.tcb[t].tstat)
    PROVE  LET r == wait_tmout([s EXCEPT !.tmevtb[t] = "none"], t)
           IN  Inv(r, X, E) /\ Keeps(s, r)
<1> DEFINE a == [s EXCEPT !.tmevtb[t] = "none"]
           d == wait_dequeue_wobj(s, t)
           b == [d EXCEPT !.tmevtb[t] = "none"]
           r == make_non_wait(set_wercd(b, t, "E_TMOUT"), t)
<1>1. wait_dequeue_wobj(a, t) = b
  <2>1. HasFields(s, KernelField)
    BY DEF Inv, WellFormed
  <2>2. a.tcb = s.tcb /\ a.wobj = s.wobj
    BY <2>1 DEF HasFields, KernelField
  <2>3. CASE TSTAT_WAIT_WOBJ(s.tcb[t].tstat)
    <3> DEFINE w == s.tcb[t].p_wobjcb
               f == queue_of(s.tcb[t].tstat)
               o == [s.wobj EXCEPT ![w][f] = queue_delete(@, t)]
    <3>1. wait_dequeue_wobj(a, t) = [a EXCEPT !.wobj = o]
      BY <2>2, <2>3 DEF wait_dequeue_wobj
    <3>2. d = [s EXCEPT !.wobj = o]
      BY <2>3 DEF wait_dequeue_wobj
    <3> HIDE DEF o, d
    <3>3. [a EXCEPT !.wobj = o] = b
      BY <2>1, <3>2 DEF HasFields, KernelField
    <3> QED BY <3>1, <3>3
  <2>4. CASE ~TSTAT_WAIT_WOBJ(s.tcb[t].tstat)
    BY <2>2, <2>4 DEF wait_dequeue_wobj
  <2> QED BY <2>3, <2>4
<1>2. wait_tmout(a, t) = r
  BY <1>1 DEF wait_tmout
<1>3. Inv(d, X \cup {t}, E) /\ Keeps(s, d) /\ Waiter(d, t)
  BY wait_dequeue_wobj_inv
<1> HIDE DEF d
<1>4. "E_TMOUT" \in WERCD /\ t \in X \cup {t}
  BY DEF WERCD
<1> DEFINE Y == X \cup {t}
<1>5. Inv(d, Y, E) /\ t \in Y /\ Y \ {t} = X
  BY <1>3
<1> HIDE DEF Y
<1>6. Inv(r, Y \ {t}, E) /\ Ended(d, r)
  BY <1>3, <1>4, <1>5, TmoutWaiter
<1> HIDE DEF r
<1>7. Keeps(s, r)
  BY <1>3, <1>6, KeepsTrans, EndedFacts
<1> QED BY <1>2, <1>5, <1>6, <1>7

LEMMA wait_tmout_ok_inv ==
    ASSUME NEW s, NEW X, NEW E, Inv(s, X, E), NEW t \in TSK \ X,
           s.tmevtb[t] = "wait_tmout_ok"
    PROVE  LET r == wait_tmout_ok([s EXCEPT !.tmevtb[t] = "none"], t)
           IN  Inv(r, X, E) /\ Keeps(s, r)
<1> DEFINE Y == X \cup {t}
           r == make_non_wait(set_wercd([s EXCEPT !.tmevtb[t] = "none"], t, "E_OK"), t)
<1>1. TaskOK(s, t, E)
  BY DEF Inv
<1>2. TSTAT_WAITING(s.tcb[t].tstat) /\ "DLY" \in s.tcb[t].tstat /\ s.tcb[t].tstat \in TSTATS
  BY <1>1 DEF TaskOK, WinfoOK
<1>3. PICK x \in TS_WAITING_MASK : s.tcb[t].tstat = {x} \/ s.tcb[t].tstat = {x, "SUSPENDED"}
  BY <1>2, TstatFacts
<1>4. x = "DLY"
  BY <1>2, <1>3, WaitFacts
<1>5. "DLY" \notin TS_WOBJ_MASK
  BY DEF TS_WOBJ_MASK, TS_WOBJCB_MASK
<1>6. ~TSTAT_WAIT_WOBJ(s.tcb[t].tstat) /\ ~TSTAT_RUNNABLE(s.tcb[t].tstat)
  BY <1>3, <1>4, <1>5, WaitFacts
<1>7. Inv(s, Y, E)
  BY <1>6, Unsettle DEF Ready, Blocked
<1>8. Waiter(s, t)
  BY <1>2, WaitingWaiter
<1>9. "E_OK" \in WERCD /\ t \in Y /\ t \in TSK /\ Y \ {t} = X
  BY DEF WERCD
<1> HIDE DEF Y
<1>10. Inv(r, Y \ {t}, E) /\ Ended(s, r)
  BY <1>7, <1>8, <1>9, TmoutWaiter
<1> HIDE DEF r
<1>11. Inv(r, X, E) /\ Keeps(s, r)
  BY <1>9, <1>10, EndedFacts
<1> QED BY <1>11 DEF r, wait_tmout_ok

-----------------------------------------------------------------------------
(* The running task begins to wait.                                        *)

(* Task t, which no longer runs, has the state and WINFO of a wait.        *)
Stopped(s, r, t, tstat, winfo, e) ==
    /\ Passes(s, r) /\ Agree(s, r, EndedFields)
    /\ \A u \in TSK \ {t} : r.tcb[u] = s.tcb[u]
    /\ \A f \in TcbField \ {"tstat", "winfo", "insvc"} : r.tcb[t][f] = s.tcb[t][f]
    /\ r.tcb[t].tstat = tstat /\ r.tcb[t].winfo = winfo /\ r.tcb[t].insvc
    /\ r.tmevtb[t] = e

LEMMA StoppedFields ==
    ASSUME NEW s, NEW r, NEW t, NEW tstat, NEW winfo, NEW e, Stopped(s, r, t, tstat, winfo, e)
    PROVE  /\ r.tcb[t].raster = s.tcb[t].raster /\ r.tcb[t].enater = s.tcb[t].enater
           /\ r.tcb[t].actque = s.tcb[t].actque /\ r.tcb[t].priority = s.tcb[t].priority
           /\ r.tcb[t].tstat = tstat /\ r.tcb[t].winfo = winfo /\ r.tcb[t].insvc
           /\ r.tmevtb[t] = e
           /\ r.wobj = s.wobj /\ r.tinib = s.tinib /\ r.mtx = s.mtx /\ Passes(s, r)
BY DEF Stopped, Agree, KernelField, TcbField, EndedFields, ReadyFields

LEMMA make_wait_inv ==
    ASSUME NEW s, NEW X, NEW E, Inv(s, X, E), NEW t \in Ready(s, X), t = s.p_runtsk,
           s.dspflg, NEW tstat
    PROVE  LET r == make_wait(s, tstat)
           IN  Inv(r, X \cup {t}, E) /\ Stopped(s, r, t, tstat, "no_tmevtb", "none")
<1> DEFINE Y == X \cup {t}
           a == [s EXCEPT !.tcb[t].tstat = tstat]
           b == make_non_runnable(a, t)
           c == [b EXCEPT !.tcb[t].winfo = "no_tmevtb"]
           r == [c EXCEPT !.tcb[t].insvc = TRUE]
<1>1. t \in TSK \ X /\ WellFormed(s) /\ TaskOK(s, t, E) /\ TSTAT_RUNNABLE(s.tcb[t].tstat)
  BY DEF Ready, Inv
<1>2. s.tmevtb[t] = "none"
  BY <1>1, TstatFacts DEF TaskOK, WinfoOK
<1>3. r = make_wait(s, tstat)
  BY DEF make_wait
<1>4. TcbSet(s, a, t, "tstat", tstat)
  BY <1>1, SetTcb DEF TcbField
<1> HIDE DEF a
<1>5. TcbEdit(s, a, t, {"tstat"}) /\ a.tcb[t].tstat = tstat
  BY <1>4 DEF TcbSet
<1>6. Like(s, a, Y) /\ a.tmevtb = s.tmevtb /\ a.tcb[t].priority = s.tcb[t].priority
      /\ WellFormed(a) /\ Passes(s, a)
  <2>1. t \in Y /\ t \in TSK
    BY <1>1
  <2> HIDE DEF Y
  <2>2. Like(s, a, Y)
    BY <1>5, <2>1, TcbEditLike
  <2>3. a.tmevtb = s.tmevtb /\ WellFormed(a) /\ Passes(s, a)
    BY <1>5, TcbEditFields
  <2>4. a.tcb[t].priority = s.tcb[t].priority
    BY <1>5 DEF TcbEdit, TcbField
  <2> QED BY <2>2, <2>3, <2>4
<1>7. Inv(b, Y, E)
  BY <1>6, Stop
<1>8. Agree(a, b, ReadyFields)
  BY <1>1, <1>6, make_non_runnable_effect
<1> HIDE DEF b
<1>9. b.tcb = a.tcb /\ b.tmevtb = a.tmevtb /\ b.wobj = a.wobj
  BY <1>8 DEF Agree, KernelField, ReadyFields
<1>10. Passes(a, b)
  BY <1>8, <1>9, AgreePasses DEF ReadyFields, Frame
<1>11. TcbSet(b, c, t, "winfo", "no_tmevtb")
  BY <1>1, <1>7, SetTcb DEF TcbField, Inv
<1> HIDE DEF c
<1>12. TcbEdit(b, c, t, {"winfo"}) /\ c.tcb[t].winfo = "no_tmevtb"
  BY <1>11 DEF TcbSet
<1>13. Like(b, c, Y) /\ Passes(b, c) /\ c.tmevtb = b.tmevtb /\ WellFormed(c)
  BY <1>1, <1>12, TcbEditLike, TcbEditFields
<1>14. Inv(c, Y, E)
  BY <1>7, <1>13, Change
<1>15. TcbSet(c, r, t, "insvc", TRUE)
  BY <1>1, <1>13, SetTcb DEF TcbField
<1> HIDE DEF r
<1>16. TcbEdit(c, r, t, {"insvc"}) /\ r.tcb[t].insvc
  BY <1>15 DEF TcbSet
<1>17. Like(c, r, Y) /\ Passes(c, r) /\ r.tmevtb = c.tmevtb
  BY <1>1, <1>16, TcbEditLike, TcbEditFields
<1>18. Inv(r, Y, E)
  BY <1>14, <1>17, Change
<1>19. Passes(s, r) /\ \A u \in TSK \ {t} : r.tcb[u] = s.tcb[u]
  <2>1. Passes(s, r)
    BY <1>6, <1>10, <1>13, <1>17, PassesTrans
  <2> QED BY <1>5, <1>9, <1>12, <1>16, <2>1 DEF TcbEdit
<1>20. Agree(s, r, EndedFields)
  BY <1>5, <1>8, <1>12, <1>16 DEF Agree, TcbEdit, EndedFields
<1>21. \A f \in TcbField \ {"tstat", "winfo", "insvc"} : r.tcb[t][f] = s.tcb[t][f]
  BY <1>5, <1>9, <1>12, <1>16 DEF TcbEdit
<1>22. r.tcb[t].tstat = tstat /\ r.tcb[t].winfo = "no_tmevtb" /\ r.tmevtb[t] = "none"
  BY <1>2, <1>5, <1>6, <1>9, <1>12, <1>13, <1>16, <1>17 DEF TcbEdit, TcbField
<1>23. Stopped(s, r, t, tstat, "no_tmevtb", "none")
  BY <1>16, <1>19, <1>20, <1>21, <1>22 DEF Stopped
<1> HIDE DEF Y
<1> QED BY <1>3, <1>18, <1>23 DEF Y

(* ... with a time event.                                                  *)
EventSet(s, r, t, e) == r = [s EXCEPT !.tcb[t].winfo = "tmevtb", !.tmevtb[t] = e]

LEMMA Timed ==
    ASSUME NEW s, NEW X, NEW E, NEW a, Inv(a, X, E), NEW t \in X, t \in TSK, NEW tstat,
           Stopped(s, a, t, tstat, "no_tmevtb", "none"), NEW e, NEW r, EventSet(a, r, t, e)
    PROVE  Inv(r, X, E) /\ Stopped(s, r, t, tstat, "tmevtb", e)
<1> DEFINE b == [a EXCEPT !.tcb[t].winfo = "tmevtb"]
<1>1. WellFormed(a)
  BY DEF Inv
<1>2. r = [b EXCEPT !.tmevtb[t] = e]
  BY DEF EventSet
<1>3. TcbSet(a, b, t, "winfo", "tmevtb")
  BY <1>1, SetTcb DEF TcbField
<1> HIDE DEF b
<1>4. TcbEdit(a, b, t, {"winfo"}) /\ b.tcb[t].winfo = "tmevtb"
  BY <1>3 DEF TcbSet
<1>5. Like(a, b, X) /\ Passes(a, b) /\ WellFormed(b)
  BY <1>4, TcbEditLike, TcbEditFields
<1>6. TmevtbSet(b, r, t, e)
  BY <1>2, <1>5, SetTmevtb
<1>7. TmevtbEdit(b, r, t) /\ r.tmevtb[t] = e
  BY <1>6 DEF TmevtbSet
<1>8. Like(b, r, X) /\ Passes(b, r) /\ r.tcb = b.tcb
  BY <1>7, TmevtbEditLike, KeepsFields
<1>9. Inv(r, X, E)
  BY <1>5, <1>8, LikeTrans, Change
<1>10. Passes(s, r) /\ \A u \in TSK \ {t} : r.tcb[u] = s.tcb[u]
  <2>1. Passes(s, a) /\ \A u \in TSK \ {t} : a.tcb[u] = s.tcb[u]
    BY DEF Stopped
  <2>2. Passes(s, r)
    BY <1>5, <1>8, <2>1, PassesTrans
  <2> QED BY <1>4, <1>8, <2>1, <2>2 DEF TcbEdit
<1>11. Agree(s, r, EndedFields)
  BY <1>4, <1>7 DEF Agree, TcbEdit, TmevtbEdit, EndedFields, Stopped
<1>12. \A f \in TcbField \ {"tstat", "winfo", "insvc"} : r.tcb[t][f] = s.tcb[t][f]
  BY <1>4, <1>8 DEF TcbEdit, Stopped
<1>13. r.tcb[t].tstat = tstat /\ r.tcb[t].winfo = "tmevtb" /\ r.tcb[t].insvc
  BY <1>4, <1>8 DEF TcbEdit, Stopped, TcbField
<1>14. Stopped(s, r, t, tstat, "tmevtb", e)
  BY <1>7, <1>10, <1>11, <1>12, <1>13 DEF Stopped
<1> QED BY <1>9, <1>14

LEMMA make_wait_tmout_inv ==
    ASSUME NEW s, NEW X, NEW E, Inv(s, X, E), NEW t \in Ready(s, X), t = s.p_runtsk,
           s.dspflg, NEW tstat, NEW tmout
    PROVE  LET r == make_wait_tmout(s, tstat, tmout)
           IN  /\ Inv(r, X \cup {t}, E)
               /\ \/ Stopped(s, r, t, tstat, "no_tmevtb", "none")
                  \/ Stopped(s, r, t, tstat, "tmevtb", "wait_tmout")
<1> DEFINE a == make_wait(s, tstat)
           n == [a EXCEPT !.tcb[t].winfo = "tmevtb", !.tmevtb[t] = "wait_tmout"]
           r == make_wait_tmout(s, tstat, tmout)
           Y == X \cup {t}
<1>1. Inv(a, Y, E) /\ Stopped(s, a, t, tstat, "no_tmevtb", "none")
  BY make_wait_inv
<1>2. r = IF tmout = "TMO_FEVR" THEN a ELSE n
  BY DEF make_wait_tmout
<1> HIDE DEF a, r
<1>3. t \in Y /\ t \in TSK
  BY DEF Ready
<1> HIDE DEF Y
<1>4. Inv(n, Y, E) /\ Stopped(s, n, t, tstat, "tmevtb", "wait_tmout")
  <2>1. EventSet(a, n, t, "wait_tmout")
    BY DEF EventSet
  <2> HIDE DEF n
  <2> QED BY <1>1, <1>3, <2>1, Timed
<1> HIDE DEF n
<1>5. /\ Inv(r, Y, E)
      /\ \/ Stopped(s, r, t, tstat, "no_tmevtb", "none")
         \/ Stopped(s, r, t, tstat, "tmevtb", "wait_tmout")
  BY <1>1, <1>2, <1>4
<1> QED BY <1>5 DEF r, Y

(* A task waits for a mutex only while the mutex is locked, and only for   *)
(* one with a ceiling that its base priority is not above.                 *)
LockedMutex(s, t, w) ==
    w \in MTX => s.mtx[w].p_loctsk # NULL /\ Permits(s, s.tcb[t].bpriority, w)

(* What the invariant says of a task that has begun to wait.               *)
(* ... which in state r waits for x, with or without an object.            *)
WaitsFor(s, a, r, t, x, winfo, e) ==
    /\ Stopped(s, a, t, {x}, winfo, e)
    /\ \/ winfo = "no_tmevtb" /\ e = "none" /\ x # "DLY"
       \/ winfo = "tmevtb" /\ e = "wait_tmout" /\ x # "DLY"
       \/ winfo = "tmevtb" /\ e = "wait_tmout_ok" /\ x = "DLY"
    /\ Passes(s, r) /\ r.mtx = s.mtx /\ r.tmevtb = a.tmevtb
    /\ \A u \in TSK \ {t} : r.tcb[u] = a.tcb[u]
    /\ \A f \in TcbField \ {"p_wobjcb"} : r.tcb[t][f] = a.tcb[t][f]
    /\ x \in TS_WOBJ_MASK => WobjExists(s, r.tcb[t].p_wobjcb)
                             /\ LockedMutex(s, t, r.tcb[t].p_wobjcb)
                             /\ (x = "MTX" <=> r.tcb[t].p_wobjcb \in MTX)
    /\ x \in RECEIVING => r.tcb[t].p_wobjcb \notin MTX
    /\ x = "MTX" => x \in TS_WOBJ_MASK

LEMMA StoppedOK ==
    ASSUME NEW s, NEW X, NEW E, Inv(s, X, E), NEW t \in Ready(s, X), ~s.tcb[t].raster,
           NEW x \in TS_WAITING_MASK, NEW r, NEW a, NEW winfo, NEW e,
           WaitsFor(s, a, r, t, x, winfo, e)
    PROVE  /\ TaskOK(r, t, E) /\ Keeps(s, r)
           /\ r.tcb[t].tstat = {x} /\ r.tcb[t].priority = s.tcb[t].priority
           /\ ~TSTAT_RUNNABLE(r.tcb[t].tstat)
           /\ TSTAT_WAIT_WOBJ(r.tcb[t].tstat) <=> x \in TS_WOBJ_MASK
<1>1. TaskOK(s, t, E) /\ TSTAT_RUNNABLE(s.tcb[t].tstat)
  BY DEF Ready, Inv
<1>2. Exists(s, t)
  BY <1>1 DEF TaskOK, TSTAT_RUNNABLE, TS_DORMANT
<1>0. /\ Stopped(s, a, t, {x}, winfo, e)
      /\ \/ winfo = "no_tmevtb" /\ e = "none" /\ x # "DLY"
         \/ winfo = "tmevtb" /\ e = "wait_tmout" /\ x # "DLY"
         \/ winfo = "tmevtb" /\ e = "wait_tmout_ok" /\ x = "DLY"
      /\ Passes(s, r) /\ r.mtx = s.mtx /\ r.tmevtb = a.tmevtb
      /\ \A u \in TSK \ {t} : r.tcb[u] = a.tcb[u]
      /\ \A f \in TcbField \ {"p_wobjcb"} : r.tcb[t][f] = a.tcb[t][f]
      /\ x \in TS_WOBJ_MASK => WobjExists(s, r.tcb[t].p_wobjcb)
                               /\ LockedMutex(s, t, r.tcb[t].p_wobjcb)
                               /\ (x = "MTX" <=> r.tcb[t].p_wobjcb \in MTX)
      /\ x \in RECEIVING => r.tcb[t].p_wobjcb \notin MTX
      /\ x = "MTX" => x \in TS_WOBJ_MASK
  BY DEF WaitsFor
<1>3. /\ a.tcb[t].tstat = {x} /\ a.tcb[t].winfo = winfo /\ a.tcb[t].insvc
      /\ ~a.tcb[t].raster /\ a.tcb[t].priority = s.tcb[t].priority /\ a.tmevtb[t] = e
  <2> DEFINE st == {x}
  <2>1. Stopped(s, a, t, st, winfo, e)
    BY <1>0
  <2> HIDE DEF st
  <2>2. /\ a.tcb[t].tstat = st /\ a.tcb[t].winfo = winfo /\ a.tcb[t].insvc
        /\ a.tcb[t].raster = s.tcb[t].raster /\ a.tcb[t].priority = s.tcb[t].priority
        /\ a.tmevtb[t] = e
    BY <2>1, StoppedFields
  <2> QED BY <2>2 DEF st
<1>4. /\ r.tcb[t].tstat = {x} /\ r.tcb[t].winfo = winfo /\ r.tcb[t].insvc
      /\ ~r.tcb[t].raster /\ r.tcb[t].priority = s.tcb[t].priority /\ r.tmevtb[t] = e
  BY <1>0, <1>3 DEF TcbField
<1>5. /\ {x} \in TSTATS /\ TSTAT_WAITING({x}) /\ ~TSTAT_RUNNABLE({x})
      /\ TSTAT_WAIT_WOBJ({x}) <=> x \in TS_WOBJ_MASK
      /\ {x} \cap RECEIVING # {} <=> x \in RECEIVING
      /\ "DLY" \in {x} <=> x = "DLY"
      /\ {x} # TS_DORMANT
  <2> DEFINE b == {x}
  <2>1. b = {x} \/ b = {x, "SUSPENDED"}
    OBVIOUS
  <2> HIDE DEF b
  <2>2. /\ b \in TSTATS /\ TSTAT_WAITING(b) /\ ~TSTAT_RUNNABLE(b)
        /\ TSTAT_WAIT_WOBJ(b) <=> x \in TS_WOBJ_MASK
        /\ b \cap RECEIVING # {} <=> x \in RECEIVING
        /\ "DLY" \in b <=> x = "DLY"
        /\ b # TS_DORMANT
    BY <2>1, WaitFacts
  <2> QED BY <2>2 DEF b
<1>6. WinfoOK(r.tcb[t], r.tmevtb[t])
  BY <1>0, <1>4, <1>5 DEF WinfoOK, TMEVT
<1>7. Exists(r, t) /\ (x \in TS_WOBJ_MASK => WobjExists(r, r.tcb[t].p_wobjcb))
  BY <1>0, <1>2, PassesFields DEF Exists, WobjExists
<1>8. TaskOK(r, t, E)
  BY <1>0, <1>4, <1>5, <1>6, <1>7 DEF TaskOK
<1>9. ASSUME NEW u \in TSK
      PROVE  SameLock(s, r, u) /\ (Fit(s, u) => Fit(r, u))
  <2>0. SameCeilings(s, r)
    BY <1>0, PassesCeilings
  <2>1. CASE u = t
    <3>1. a.tcb[t].lastmtx = s.tcb[t].lastmtx /\ a.tcb[t].bpriority = s.tcb[t].bpriority
      BY <1>0 DEF Stopped, TcbField
    <3>2. r.tcb[t].lastmtx = s.tcb[t].lastmtx /\ r.tcb[t].bpriority = s.tcb[t].bpriority
      BY <1>0, <3>1 DEF TcbField
    <3>3. \A m \in MTX : BlockedOn(r, t, m) =>
             s.mtx[m].p_loctsk # NULL /\ Permits(s, s.tcb[t].bpriority, m)
             /\ "MTX" \in r.tcb[t].tstat
      BY <1>0, <1>4, <1>5 DEF BlockedOn, LockedMutex
    <3>4. SameLock(s, r, t)
      BY <1>4, <1>5, <3>2, <3>3 DEF SameLock
    <3>5. SameLevel(s, r, t)
      BY <1>4, <3>2 DEF SameLevel
    <3>6. "MTX" \in r.tcb[t].tstat => r.tcb[t].p_wobjcb \in MTX
      BY <1>0, <1>4
    <3>7. Fit(s, t) => Fit(r, t)
      BY <2>0, <3>3, <3>5, <3>6, FitWaits
    <3> QED BY <2>1, <3>4, <3>7
  <2>2. CASE u # t
    <3>1. r.tcb[u] = s.tcb[u]
      BY <1>0, <2>2 DEF Stopped
    <3> QED BY <2>0, <3>1, SameTcbFit, FitSame
  <2> QED BY <2>1, <2>2
<1>10. Keeps(s, r)
  BY <1>0, <1>9 DEF Keeps, KeepsLocks
<1> QED BY <1>4, <1>5, <1>8, <1>10

(* slp_tsk, tslp_tsk, dly_tsk.                                             *)
LEMMA sleep_inv ==
    ASSUME NEW s, NEW E, Inv(s, {}, E), NEW t \in Ready(s, {}), t = s.p_runtsk,
           s.dspflg, ~s.tcb[t].raster, NEW tmout
    PROVE  LET r == make_wait_tmout(s, TS_WAITING_SLP, tmout)
           IN  Inv(r, {}, E) /\ Keeps(s, r)
<1> DEFINE r == make_wait_tmout(s, {"SLP"}, tmout)
           Y == {} \cup {t}
<1>1. /\ Inv(r, Y, E)
      /\ \/ Stopped(s, r, t, {"SLP"}, "no_tmevtb", "none")
         \/ Stopped(s, r, t, {"SLP"}, "tmevtb", "wait_tmout")
  <2> DEFINE st == {"SLP"}
  <2> HIDE DEF st
  <2>1. /\ Inv(make_wait_tmout(s, st, tmout), Y, E)
        /\ \/ Stopped(s, make_wait_tmout(s, st, tmout), t, st, "no_tmevtb", "none")
           \/ Stopped(s, make_wait_tmout(s, st, tmout), t, st, "tmevtb", "wait_tmout")
    BY make_wait_tmout_inv
  <2> QED BY <2>1 DEF st
<1> HIDE DEF r
<1>2. Passes(s, r) /\ r.mtx = s.mtx
  BY <1>1, StoppedFields
<1>3. /\ "SLP" \in TS_WAITING_MASK /\ "SLP" \notin TS_WOBJ_MASK /\ "SLP" \notin RECEIVING
      /\ "SLP" # "MTX"
  BY DEF TS_WAITING_MASK, TS_WOBJ_MASK, TS_WOBJCB_MASK, RECEIVING
<1>4. PICK winfo, e : /\ Stopped(s, r, t, {"SLP"}, winfo, e)
                      /\ \/ winfo = "no_tmevtb" /\ e = "none"
                         \/ winfo = "tmevtb" /\ e = "wait_tmout"
  BY <1>1
<1>5. TaskOK(r, t, E) /\ ~TSTAT_RUNNABLE(r.tcb[t].tstat) /\ ~TSTAT_WAIT_WOBJ(r.tcb[t].tstat)
      /\ Keeps(s, r)
  <2>1. WaitsFor(s, r, r, t, "SLP", winfo, e)
    BY <1>2, <1>3, <1>4 DEF WaitsFor
  <2> QED BY <1>3, <2>1, StoppedOK
<1>6. t \in Y /\ t \in TSK /\ Y \ {t} = {}
  BY DEF Ready
<1> HIDE DEF Y
<1>7. Inv(r, Y \ {t}, E)
  BY <1>1, <1>5, <1>6, Settle
<1> QED BY <1>5, <1>6, <1>7 DEF r, TS_WAITING_SLP

LEMMA delay_inv ==
    ASSUME NEW s, NEW E, Inv(s, {}, E), NEW t \in Ready(s, {}), t = s.p_runtsk,
           s.dspflg, ~s.tcb[t].raster
    PROVE  LET r == [make_wait(s, TS_WAITING_DLY) EXCEPT !.tcb[t].winfo = "tmevtb",
                                                        !.tmevtb[t] = "wait_tmout_ok"]
           IN  Inv(r, {}, E) /\ Keeps(s, r)
<1> DEFINE st == {"DLY"}
           a == make_wait(s, st)
           r == [a EXCEPT !.tcb[t].winfo = "tmevtb", !.tmevtb[t] = "wait_tmout_ok"]
           Y == {} \cup {t}
<1>1. Inv(a, Y, E) /\ Stopped(s, a, t, st, "no_tmevtb", "none")
  <2> HIDE DEF st
  <2> QED BY make_wait_inv
<1>2. t \in Y /\ t \in TSK /\ Y \ {t} = {}
  BY DEF Ready
<1> HIDE DEF Y, a
<1>3. Inv(r, Y, E) /\ Stopped(s, r, t, st, "tmevtb", "wait_tmout_ok")
  <2>1. EventSet(a, r, t, "wait_tmout_ok")
    BY DEF EventSet
  <2> HIDE DEF r, st
  <2> QED BY <1>1, <1>2, <2>1, Timed
<1> HIDE DEF r
<1>4. Passes(s, r) /\ r.mtx = s.mtx
  BY <1>3, StoppedFields
<1>5. /\ "DLY" \in TS_WAITING_MASK /\ "DLY" \notin TS_WOBJ_MASK /\ "DLY" \notin RECEIVING
      /\ "DLY" # "MTX"
  BY DEF TS_WAITING_MASK, TS_WOBJ_MASK, TS_WOBJCB_MASK, RECEIVING
<1>6. TaskOK(r, t, E) /\ ~TSTAT_RUNNABLE(r.tcb[t].tstat) /\ ~TSTAT_WAIT_WOBJ(r.tcb[t].tstat)
      /\ Keeps(s, r)
  <2>1. WaitsFor(s, r, r, t, "DLY", "tmevtb", "wait_tmout_ok")
    BY <1>3, <1>4, <1>5 DEF WaitsFor
  <2> QED BY <1>5, <2>1, StoppedOK
<1>7. Inv(r, Y \ {t}, E)
  BY <1>2, <1>3, <1>6, Settle
<1> QED BY <1>2, <1>6, <1>7 DEF r, a, TS_WAITING_DLY

(* ... for an object.                                                      *)
LEMMA Waits ==
    ASSUME NEW s, NEW E, Inv(s, {}, E), NEW t \in Ready(s, {}), ~s.tcb[t].raster,
           NEW x \in TS_WOBJ_MASK, NEW w, WobjExists(s, w), LockedMutex(s, t, w),
           x \in RECEIVING => w \notin MTX, x = "MTX" <=> w \in MTX,
           NEW f, f = (IF x \in RECEIVING THEN "rwait_queue" ELSE "wait_queue"),
           NEW a, Inv(a, {t}, E),
           \/ Stopped(s, a, t, {x}, "no_tmevtb", "none")
           \/ Stopped(s, a, t, {x}, "tmevtb", "wait_tmout"),
           NEW b, TcbSet(a, b, t, "p_wobjcb", w), NEW q, NEW r, QueueSet(b, r, w, f, q),
           q = IF f = "wait_queue" /\ "TA_TPRI" \in a.wobj[w].wobjatr
               THEN queue_insert_tpri(a, a.wobj[w][f], t)
               ELSE Append(a.wobj[w][f], t)
    PROVE  Inv(r, {}, E) /\ Keeps(s, r)
<1> DEFINE Y == {t}
<1>1. t \in TSK /\ t \in Y /\ Y \ {t} = {} /\ Inv(a, Y, E)
  BY DEF Ready
<1> HIDE DEF Y
<1>2. TcbEdit(a, b, t, {"p_wobjcb"}) /\ b.tcb[t].p_wobjcb = w
      /\ QueueEdit(b, r, w, f) /\ r.wobj[w][f] = q
  BY DEF TcbSet, QueueSet
<1>3. Like(a, b, Y) /\ Passes(a, b) /\ b.tmevtb = a.tmevtb /\ b.wobj = a.wobj /\ b.mtx = a.mtx
  BY <1>1, <1>2, TcbEditLike, TcbEditFields
<1>4. QueueLike(b, r, Y) /\ Passes(b, r) /\ r.tcb = b.tcb /\ r.tmevtb = b.tmevtb
      /\ r.mtx = b.mtx
  BY <1>2, QueueEditLike, KeepsFields
<1>5. QueueLike(a, r, Y)
  BY <1>3, <1>4 DEF QueueLike, Like, SameTask
<1>6. Passes(s, a) /\ a.mtx = s.mtx
  BY StoppedFields
<1>7. Passes(s, r) /\ r.mtx = s.mtx
  BY <1>3, <1>4, <1>6, PassesTrans
<1>8. Inserted(a, r, w, f, t)
  BY <1>2, <1>3 DEF Inserted, QueueEdit
<1>9. /\ \A g \in TcbField \ {"p_wobjcb"} : r.tcb[t][g] = a.tcb[t][g]
      /\ \A u \in TSK \ {t} : r.tcb[u] = a.tcb[u]
  BY <1>2, <1>4 DEF TcbEdit
<1>10. r.tcb[t].p_wobjcb = w /\ r.tmevtb = a.tmevtb
  BY <1>2, <1>3, <1>4
<1>11. x \in TS_WAITING_MASK /\ x # "DLY"
  BY DEF TS_WAITING_MASK, TS_WOBJ_MASK, TS_WOBJCB_MASK
<1>12. PICK winfo, e : /\ Stopped(s, a, t, {x}, winfo, e)
                       /\ \/ winfo = "no_tmevtb" /\ e = "none"
                          \/ winfo = "tmevtb" /\ e = "wait_tmout"
  OBVIOUS
<1>13. /\ TaskOK(r, t, E) /\ TSTAT_WAIT_WOBJ(r.tcb[t].tstat) /\ Keeps(s, r)
       /\ r.tcb[t].tstat = {x} /\ r.tcb[t].priority = s.tcb[t].priority
  <2>1. \/ winfo = "no_tmevtb" /\ e = "none" /\ x # "DLY"
        \/ winfo = "tmevtb" /\ e = "wait_tmout" /\ x # "DLY"
        \/ winfo = "tmevtb" /\ e = "wait_tmout_ok" /\ x = "DLY"
    BY <1>11, <1>12
  <2>2. /\ x \in TS_WOBJ_MASK => WobjExists(s, r.tcb[t].p_wobjcb)
                                 /\ LockedMutex(s, t, r.tcb[t].p_wobjcb)
                                 /\ (x = "MTX" <=> r.tcb[t].p_wobjcb \in MTX)
        /\ x \in RECEIVING => r.tcb[t].p_wobjcb \notin MTX
        /\ x = "MTX" => x \in TS_WOBJ_MASK
    BY <1>10
  <2>3. x \in TS_WAITING_MASK /\ Stopped(s, a, t, {x}, winfo, e) /\ r.tmevtb = a.tmevtb
    BY <1>10, <1>11, <1>12
  <2>4. /\ \A g \in TcbField \ {"p_wobjcb"} : r.tcb[t][g] = a.tcb[t][g]
        /\ \A u \in TSK \ {t} : r.tcb[u] = a.tcb[u]
    BY <1>9
  <2>5. WaitsFor(s, a, r, t, x, winfo, e)
    BY <1>7, <2>1, <2>2, <2>3, <2>4 DEF WaitsFor
  <2> QED BY <2>3, <2>5, StoppedOK
<1>14. queue_of(r.tcb[t].tstat) = f
  <2> DEFINE bits == {x}
  <2>1. bits = {x} \/ bits = {x, "SUSPENDED"}
    OBVIOUS
  <2> HIDE DEF bits
  <2>2. queue_of(bits) = f
    BY <1>11, <2>1, WaitFacts
  <2> QED BY <1>13, <2>2 DEF bits
<1>15. r.tcb[t].priority = a.tcb[t].priority
  BY <1>9 DEF TcbField
<1>16. w \in WOBJ /\ f \in QUEUE
  BY DEF WobjExists, QUEUE
<1>17. Inv(r, Y \ {t}, E)
  BY <1>1, <1>5, <1>8, <1>10, <1>13, <1>14, <1>15, <1>16, Enqueue
<1> QED BY <1>1, <1>13, <1>17

LEMMA wobj_make_wait_tmout_inv ==
    ASSUME NEW s, NEW E, Inv(s, {}, E), NEW t \in Ready(s, {}), t = s.p_runtsk, s.dspflg,
           ~s.tcb[t].raster, NEW x \in TS_WOBJCB_MASK, NEW w, WobjExists(s, w),
           LockedMutex(s, t, w), x = "MTX" <=> w \in MTX, NEW tmout
    PROVE  LET r == wobj_make_wait_tmout(s, {x}, w, tmout)
           IN  Inv(r, {}, E) /\ Keeps(s, r)
<1> DEFINE st == {x}
           a == make_wait_tmout(s, st, tmout)
           r == wobj_queue_insert(a, w)
           b == [a EXCEPT !.tcb[t].p_wobjcb = w]
           q == IF "TA_TPRI" \in a.wobj[w].wobjatr
                THEN queue_insert_tpri(a, a.wobj[w]["wait_queue"], t)
                ELSE Append(a.wobj[w]["wait_queue"], t)
           Y == {} \cup {t}
<1>1. /\ Inv(a, Y, E)
      /\ \/ Stopped(s, a, t, st, "no_tmevtb", "none")
         \/ Stopped(s, a, t, st, "tmevtb", "wait_tmout")
  <2> HIDE DEF st
  <2> QED BY make_wait_tmout_inv
<1> HIDE DEF a, st
<1>2. a.p_runtsk = t /\ WellFormed(a) /\ t \in TSK /\ w \in WOBJ
  BY <1>1, StoppedFields, PassesFields DEF Inv, Ready, WobjExists
<1>3. TcbSet(a, b, t, "p_wobjcb", w)
  <2>1. WellFormed(a) /\ t \in TSK
    BY <1>2
  <2> HIDE DEF b
  <2>2. b = [a EXCEPT !.tcb[t].p_wobjcb = w]
    BY DEF b
  <2> QED BY <2>1, <2>2, SetTcb DEF TcbField
<1>4. b.wobj = a.wobj /\ WellFormed(b)
  BY <1>3, TcbEditFields DEF TcbSet
<1>5. r = [b EXCEPT !.wobj[w].wait_queue = q]
  BY <1>2, <1>4 DEF wobj_queue_insert, queue_insert_prev
<1> HIDE DEF b, r, q
<1>6. QueueSet(b, r, w, "wait_queue", q)
  BY <1>2, <1>4, <1>5, SetQueue DEF QUEUE
<1>7. x \in TS_WOBJ_MASK /\ x \notin RECEIVING
  BY DEF TS_WOBJ_MASK, TS_WOBJCB_MASK, RECEIVING
<1>8. Inv(a, {t}, E)
  BY <1>1
<1>9. Inv(r, {}, E) /\ Keeps(s, r)
  <2>1. \/ Stopped(s, a, t, {x}, "no_tmevtb", "none")
        \/ Stopped(s, a, t, {x}, "tmevtb", "wait_tmout")
    BY <1>1 DEF st
  <2> DEFINE f == "wait_queue"
  <2>2. f = (IF x \in RECEIVING THEN "rwait_queue" ELSE "wait_queue")
    BY <1>7
  <2>3. q = IF f = "wait_queue" /\ "TA_TPRI" \in a.wobj[w].wobjatr
            THEN queue_insert_tpri(a, a.wobj[w][f], t)
            ELSE Append(a.wobj[w][f], t)
    BY DEF q
  <2>4. QueueSet(b, r, w, f, q)
    BY <1>6
  <2> HIDE DEF f
  <2> QED BY <1>3, <1>7, <1>8, <2>1, <2>2, <2>3, <2>4, Waits
<1> QED BY <1>9 DEF r, a, st, wobj_make_wait_tmout

LEMMA make_wait_receive_inv ==
    ASSUME NEW s, NEW E, Inv(s, {}, E), NEW t \in Ready(s, {}), t = s.p_runtsk, s.dspflg,
           ~s.tcb[t].raster, NEW x \in RECEIVING, NEW w, WobjExists(s, w), w \notin MTX,
           NEW tmout
    PROVE  LET r == make_wait_receive(s, {x}, w, tmout)
           IN  Inv(r, {}, E) /\ Keeps(s, r)
<1> DEFINE st == {x}
           a == make_wait_tmout(s, st, tmout)
           r == make_wait_receive(s, st, w, tmout)
           b == [a EXCEPT !.tcb[t].p_wobjcb = w]
           q == Append(a.wobj[w]["rwait_queue"], t)
           Y == {} \cup {t}
<1>1. /\ Inv(a, Y, E)
      /\ \/ Stopped(s, a, t, st, "no_tmevtb", "none")
         \/ Stopped(s, a, t, st, "tmevtb", "wait_tmout")
  <2> HIDE DEF st
  <2> QED BY make_wait_tmout_inv
<1>0. r = [a EXCEPT !.wobj[w].rwait_queue = Append(@, t), !.tcb[t].p_wobjcb = w]
  BY DEF make_wait_receive, queue_insert_prev
<1> HIDE DEF a, r, st
<1>2. a.p_runtsk = t /\ WellFormed(a) /\ t \in TSK /\ w \in WOBJ
  BY <1>1, StoppedFields, PassesFields DEF Inv, Ready, WobjExists
<1>3. TcbSet(a, b, t, "p_wobjcb", w)
  <2>1. WellFormed(a) /\ t \in TSK
    BY <1>2
  <2> HIDE DEF b
  <2>2. b = [a EXCEPT !.tcb[t].p_wobjcb = w]
    BY DEF b
  <2> QED BY <2>1, <2>2, SetTcb DEF TcbField
<1>4. b.wobj = a.wobj /\ WellFormed(b)
  BY <1>3, TcbEditFields DEF TcbSet
<1>5. r = [b EXCEPT !.wobj[w].rwait_queue = q]
  <2> DEFINE c == [a.tcb EXCEPT ![t].p_wobjcb = w]
             o == [a.wobj EXCEPT ![w].rwait_queue = q]
  <2>1. r = [a EXCEPT !.wobj = o, !.tcb = c]
    BY <1>0
  <2>2. b = [a EXCEPT !.tcb = c] /\ [b EXCEPT !.wobj[w].rwait_queue = q] = [b EXCEPT !.wobj = o]
    BY <1>4
  <2> HIDE DEF b, c, o
  <2>3. [a EXCEPT !.wobj = o, !.tcb = c] = [b EXCEPT !.wobj = o]
    BY <1>2, <2>2 DEF WellFormed, HasFields, KernelField
  <2> QED BY <2>1, <2>2, <2>3
<1> HIDE DEF b, q
<1>6. QueueSet(b, r, w, "rwait_queue", q)
  BY <1>2, <1>4, <1>5, SetQueue DEF QUEUE
<1>7. x \in TS_WOBJ_MASK /\ LockedMutex(s, t, w) /\ x # "MTX"
  BY DEF TS_WOBJ_MASK, TS_WOBJCB_MASK, RECEIVING, LockedMutex
<1>8. Inv(a, {t}, E)
  BY <1>1
<1>9. Inv(r, {}, E) /\ Keeps(s, r)
  <2>1. \/ Stopped(s, a, t, {x}, "no_tmevtb", "none")
        \/ Stopped(s, a, t, {x}, "tmevtb", "wait_tmout")
    BY <1>1 DEF st
  <2> DEFINE f == "rwait_queue"
  <2>2. f = (IF x \in RECEIVING THEN "rwait_queue" ELSE "wait_queue")
    OBVIOUS
  <2>3. q = IF f = "wait_queue" /\ "TA_TPRI" \in a.wobj[w].wobjatr
            THEN queue_insert_tpri(a, a.wobj[w][f], t)
            ELSE Append(a.wobj[w][f], t)
    BY DEF q
  <2>4. QueueSet(b, r, w, f, q)
    BY <1>6
  <2> HIDE DEF f
  <2> QED BY <1>3, <1>7, <1>8, <2>1, <2>2, <2>3, <2>4, Waits
<1> QED BY <1>9 DEF r, st

-----------------------------------------------------------------------------
(* Who holds which mutex.  The mutexes of M are in transit: in the list of *)
(* no task.                                                                *)

Owned(s, t, M) == {m \in MTX \ M : WobjExists(s, m) /\ s.mtx[m].p_loctsk = t}

(* A task has the mutexes it holds in its list, and none when it is        *)
(* dormant, and no task waits for a mutex that is free.                    *)
LockInv(s, X, M) ==
    /\ \A t \in TSK : Lists(s.tcb[t].lastmtx, Owned(s, t, M), MTX)
    /\ \A t \in TSK : s.tcb[t].tstat = TS_DORMANT => s.tcb[t].lastmtx = <<>>
    /\ \A t \in TSK \ X, m \in MTX \ M : BlockedOn(s, t, m) => s.mtx[m].p_loctsk # NULL

LEMMA Mutexes ==
    ASSUME NEW m \in MTX
    PROVE  m \in WOBJ /\ m \notin SEM \cup FLG \cup DTQ \cup PDQ \cup MPF
BY TaskOpsAssumption

(* Nothing changes but the mutexes of M.                                   *)
Beside(s, r, M) ==
    /\ \A m \in MTX \ M : /\ r.mtx[m].p_loctsk = s.mtx[m].p_loctsk
                          /\ r.wobj[m].wobjatr = s.wobj[m].wobjatr
    /\ \A t \in TSK : SameLock(s, r, t)

LEMMA BesideKept ==
    ASSUME NEW s, NEW r, NEW X, NEW M, LockInv(s, X, M), Beside(s, r, M)
    PROVE  LockInv(r, X, M)
<1>1. ASSUME NEW t \in TSK
      PROVE  Lists(r.tcb[t].lastmtx, Owned(r, t, M), MTX)
  <2>1. Owned(r, t, M) = Owned(s, t, M)
    BY DEF Beside, Owned, WobjExists
  <2> QED BY <2>1 DEF LockInv, Beside, SameLock
<1>2. ASSUME NEW t \in TSK, r.tcb[t].tstat = TS_DORMANT
      PROVE  r.tcb[t].lastmtx = <<>>
  BY <1>2 DEF LockInv, Beside, SameLock
<1>3. ASSUME NEW t \in TSK \ X, NEW m \in MTX \ M, BlockedOn(r, t, m)
      PROVE  r.mtx[m].p_loctsk # NULL
  BY <1>3 DEF LockInv, Beside, SameLock
<1> QED BY <1>1, <1>2, <1>3 DEF LockInv

LEMMA LockKept ==
    ASSUME NEW s, NEW r, NEW X, NEW M, LockInv(s, X, M), KeepsLocks(s, r)
    PROVE  LockInv(r, X, M)
<1>1. Beside(s, r, M)
  BY Mutexes, PassesFields DEF Beside, KeepsLocks
<1> QED BY <1>1, BesideKept

(* A mutex without an owner goes into transit, ...                         *)
Ownerless(s, m) == ~WobjExists(s, m) \/ s.mtx[m].p_loctsk = NULL

LEMMA OwnerlessOwned ==
    ASSUME NEW s, NEW m, Ownerless(s, m), NEW t \in TSK
    PROVE  Owned(s, t, {}) = Owned(s, t, {m})
BY TaskOpsAssumption DEF Owned, Ownerless

LEMMA LockFreed ==
    ASSUME NEW s, NEW X, LockInv(s, X, {}), NEW m, Ownerless(s, m)
    PROVE  LockInv(s, X, {m})
BY OwnerlessOwned DEF LockInv

(* ... and comes out of it if no task waits for it.                        *)
LEMMA LockSettled ==
    ASSUME NEW s, NEW X, NEW m, LockInv(s, X, {m}), Ownerless(s, m),
           \A t \in TSK \ X : ~BlockedOn(s, t, m)
    PROVE  LockInv(s, X, {})
BY OwnerlessOwned DEF LockInv

LEMMA MissingUnblocked ==
    ASSUME NEW s, NEW X, NEW E, Inv(s, X, E), NEW m, ~WobjExists(s, m)
    PROVE  \A t \in TSK \ X : ~BlockedOn(s, t, m)
BY DEF Inv, TaskOK, BlockedOn

LEMMA EmptyUnblocked ==
    ASSUME NEW s, NEW X, NEW E, Inv(s, X, E), NEW m \in MTX, s.wobj[m].wait_queue = <<>>
    PROVE  \A t \in TSK \ X : ~BlockedOn(s, t, m)
<1> SUFFICES ASSUME NEW t \in TSK \ X, BlockedOn(s, t, m) PROVE FALSE
  OBVIOUS
<1> DEFINE f == "wait_queue"
           S == WaitsIn(s, Blocked(s, X), m, f)
<1>1. m \in WOBJ /\ f \in QUEUE /\ TaskOK(s, t, E)
  BY Mutexes DEF QUEUE, Inv
<1>2. s.tcb[t].tstat \cap RECEIVING = {}
  BY <1>1 DEF TaskOK, BlockedOn
<1>3. t \in S
  BY <1>2 DEF BlockedOn, WaitsIn, Blocked, queue_of, RECEIVING
<1>4. Lists(<<>>, S, TSK)
  BY <1>1 DEF Inv, WaitOK
<1> HIDE DEF S
<1> QED BY <1>3, <1>4, ListsEmpty

-----------------------------------------------------------------------------
(* Mutexes.                                                                *)

(* A change to the mutex control blocks only.                              *)
MtxEdit(s, r) == WellFormed(r) /\ Agree(s, r, {"mtx"})

LEMMA MtxEditLike ==
    ASSUME NEW s, NEW r, MtxEdit(s, r), NEW X
    PROVE  /\ Like(s, r, X) /\ Passes(s, r)
           /\ r.tcb = s.tcb /\ r.tmevtb = s.tmevtb /\ r.wobj = s.wobj /\ r.tinib = s.tinib
<1>1. /\ r.tcb = s.tcb /\ r.tmevtb = s.tmevtb /\ r.wobj = s.wobj /\ r.tinib = s.tinib
      /\ \A f \in InvField : r[f] = s[f]
  BY DEF MtxEdit, Agree, KernelField, InvField
<1>2. Passes(s, r)
  BY <1>1, AgreePasses DEF MtxEdit, Frame
<1>3. Like(s, r, X)
  BY <1>1 DEF Like, SameTask, MtxEdit
<1> QED BY <1>1, <1>2, <1>3

LEMMA SetOwner ==
    ASSUME NEW s, WellFormed(s), NEW m \in MTX, NEW v \in TSK \cup {NULL}
    PROVE  LET r == [s EXCEPT !.mtx[m].p_loctsk = v]
           IN  /\ MtxEdit(s, r) /\ r.mtx[m].p_loctsk = v /\ SameCeilings(s, r)
               /\ \A n \in MTX \ {m} : r.mtx[n].p_loctsk = s.mtx[n].p_loctsk
<1> DEFINE b == [s.mtx[m] EXCEPT !.p_loctsk = v]
           c == [s.mtx EXCEPT ![m] = b]
           r == [s EXCEPT !.mtx = c]
<1>1. HasFields(s, KernelField) /\ HasFields(s.mtx, MTX)
      /\ HasFields(s.mtx[m], {"p_loctsk", "ceilpri"})
  BY DEF WellFormed
<1>2. /\ HasFields(b, {"p_loctsk", "ceilpri"})
      /\ b.p_loctsk \in TSK \cup {NULL} /\ b.ceilpri \in TPRI /\ b.p_loctsk = v
      /\ b.ceilpri = s.mtx[m].ceilpri
  BY <1>1 DEF HasFields, WellFormed
<1> HIDE DEF b
<1>3. /\ HasFields(c, MTX) /\ c[m] = b /\ \A n \in MTX \ {m} : c[n] = s.mtx[n]
  BY <1>1 DEF HasFields
<1> HIDE DEF c
<1>4. /\ HasFields(r, KernelField) /\ r.mtx = c
      /\ \A f \in KernelField \ {"mtx"} : r[f] = s[f]
  BY <1>1 DEF HasFields, KernelField
<1> HIDE DEF r
<1>5. WellFormed(r)
  BY <1>2, <1>3, <1>4 DEF WellFormed, KernelField
<1>6. MtxEdit(s, r)
  BY <1>4, <1>5 DEF MtxEdit, Agree
<1>7. r.mtx[m].p_loctsk = v /\ \A n \in MTX \ {m} : r.mtx[n].p_loctsk = s.mtx[n].p_loctsk
  BY <1>2, <1>3, <1>4
<1>8. SameCeilings(s, r)
  BY <1>2, <1>3, <1>4 DEF SameCeilings, KernelField
<1> QED BY <1>6, <1>7, <1>8 DEF r, c, b

(* Task t has locked mutex m.                                              *)
Recorded(s, r, t, m) ==
    /\ WellFormed(r) /\ Agree(s, r, {"mtx", "tcb"}) /\ SameCeilings(s, r)
    /\ r.mtx[m].p_loctsk = t
    /\ \A n \in MTX \ {m} : r.mtx[n].p_loctsk = s.mtx[n].p_loctsk
    /\ r.tcb[t].lastmtx = Cons(m, s.tcb[t].lastmtx)
    /\ \A u \in TSK \ {t} : r.tcb[u] = s.tcb[u]
    /\ \A f \in TcbField \ {"lastmtx"} : r.tcb[t][f] = s.tcb[t][f]

LEMMA lock_record_edit ==
    ASSUME NEW s, WellFormed(s), NEW t \in TSK, NEW m \in MTX
    PROVE  Recorded(s, lock_record(s, t, m), t, m)
<1> DEFINE a == [s EXCEPT !.mtx[m].p_loctsk = t]
           l == Cons(m, s.tcb[t].lastmtx)
           r == [a EXCEPT !.tcb[t].lastmtx = l]
<1>1. /\ MtxEdit(s, a) /\ a.mtx[m].p_loctsk = t /\ SameCeilings(s, a)
      /\ \A n \in MTX \ {m} : a.mtx[n].p_loctsk = s.mtx[n].p_loctsk
  BY SetOwner
<1>2. WellFormed(a) /\ a.tcb = s.tcb
  BY <1>1, MtxEditLike DEF MtxEdit
<1>3. lock_record(s, t, m) = r
  BY <1>2 DEF lock_record
<1>4. l \in Seq(MTX)
  <2>1. s.tcb[t].lastmtx \in Seq(MTX)
    BY DEF WellFormed, TcbOK
  <2> QED BY <2>1 DEF Cons
<1> HIDE DEF a, l, r
<1>5. TcbSet(a, r, t, "lastmtx", l)
  BY <1>2, <1>4, SetTcb DEF TcbField, r
<1>6. TcbEdit(a, r, t, {"lastmtx"}) /\ r.tcb[t].lastmtx = l
  BY <1>5 DEF TcbSet
<1>7. Agree(s, r, {"mtx", "tcb"})
  BY <1>1, <1>6 DEF MtxEdit, TcbEdit, Agree
<1>8. r.mtx = a.mtx /\ SameCeilings(s, r)
  BY <1>1, <1>6, TcbEditFields DEF SameCeilings
<1>9. r.tcb[t].lastmtx = Cons(m, s.tcb[t].lastmtx)
  BY <1>6 DEF l
<1>10. Recorded(s, r, t, m)
  BY <1>1, <1>2, <1>6, <1>7, <1>8, <1>9 DEF Recorded, TcbEdit
<1> QED BY <1>3, <1>10

LEMMA RecordedLike ==
    ASSUME NEW s, NEW r, NEW t \in TSK, NEW m, Recorded(s, r, t, m), NEW X
    PROVE  /\ Like(s, r, X) /\ Passes(s, r)
           /\ r.tmevtb = s.tmevtb /\ r.wobj = s.wobj /\ r.tinib = s.tinib
           /\ r.p_schedtsk = s.p_schedtsk
<1>1. /\ r.tmevtb = s.tmevtb /\ r.wobj = s.wobj /\ r.tinib = s.tinib
      /\ r.p_schedtsk = s.p_schedtsk
      /\ \A f \in InvField : r[f] = s[f]
  BY DEF Recorded, Agree, KernelField, InvField
<1>2. Passes(s, r)
  BY <1>1, AgreePasses DEF Recorded, Frame
<1>3. ASSUME NEW u \in TSK PROVE SameTask(s, r, u)
  <2>1. CASE u = t
    BY <1>1, <2>1 DEF SameTask, Recorded, TaskField, TcbField
  <2>2. CASE u # t
    BY <1>1, <2>2 DEF SameTask, Recorded
  <2> QED BY <2>1, <2>2
<1>4. Like(s, r, X)
  BY <1>1, <1>3 DEF Like, Recorded
<1> QED BY <1>1, <1>2, <1>4

LEMMA RecordedLocks ==
    ASSUME NEW s, NEW r, NEW t \in TSK, NEW m \in MTX, Recorded(s, r, t, m),
           NEW X, LockInv(s, X, {m}), WobjExists(s, m), s.tcb[t].tstat # TS_DORMANT
    PROVE  LockInv(r, X, {})
<1>1. /\ \A u \in TSK : r.tcb[u].tstat = s.tcb[u].tstat /\ r.tcb[u].p_wobjcb = s.tcb[u].p_wobjcb
      /\ \A u \in TSK \ {t} : r.tcb[u].lastmtx = s.tcb[u].lastmtx
      /\ r.tcb[t].lastmtx = Cons(m, s.tcb[t].lastmtx)
  BY DEF Recorded, TcbField
<1>2. /\ r.wobj = s.wobj /\ r.mtx[m].p_loctsk = t
      /\ \A n \in MTX \ {m} : r.mtx[n].p_loctsk = s.mtx[n].p_loctsk
  BY RecordedLike DEF Recorded
<1>3. ASSUME NEW u \in TSK
      PROVE  Lists(r.tcb[u].lastmtx, Owned(r, u, {}), MTX)
  <2>1. Lists(s.tcb[u].lastmtx, Owned(s, u, {m}), MTX)
    BY DEF LockInv
  <2>2. CASE u = t
    <3> DEFINE S == Owned(s, t, {m})
               q == s.tcb[t].lastmtx
    <3>1. Lists(q, S, MTX) /\ m \notin S
      BY <2>1, <2>2 DEF Owned
    <3>2. Owned(r, t, {}) = S \cup {m}
      BY <1>2 DEF Owned, WobjExists
    <3> HIDE DEF S, q
    <3>3. Lists(Cons(m, q), S \cup {m}, MTX)
      BY <3>1, ConsLists
    <3> QED BY <1>1, <2>2, <3>2, <3>3 DEF q
  <2>3. CASE u # t
    <3>1. Owned(r, u, {}) = Owned(s, u, {m})
      BY <1>2, <2>3 DEF Owned, WobjExists
    <3> QED BY <1>1, <2>1, <2>3, <3>1
  <2> QED BY <2>2, <2>3
<1>4. ASSUME NEW u \in TSK, r.tcb[u].tstat = TS_DORMANT
      PROVE  r.tcb[u].lastmtx = <<>>
  BY <1>1, <1>4 DEF LockInv
<1>5. ASSUME NEW u \in TSK \ X, NEW n \in MTX, BlockedOn(r, u, n)
      PROVE  r.mtx[n].p_loctsk # NULL
  BY <1>1, <1>2, <1>5, TaskOpsAssumption DEF LockInv, BlockedOn
<1> QED BY <1>3, <1>4, <1>5 DEF LockInv

(* A mutex leaves the list of its owner.                                   *)
LEMMA UnlinkedLocks ==
    ASSUME NEW s, NEW X, LockInv(s, X, {}), NEW m \in MTX, NEW t \in TSK,
           m \in Owned(s, t, {}), NEW l,
           \/ l = queue_delete(s.tcb[t].lastmtx, m)
           \/ m = Head(s.tcb[t].lastmtx) /\ s.tcb[t].lastmtx # <<>>
              /\ l = Tail(s.tcb[t].lastmtx),
           NEW r, TcbSet(s, r, t, "lastmtx", l)
    PROVE  LockInv(r, X, {m})
<1> DEFINE S == Owned(s, t, {})
           q == s.tcb[t].lastmtx
<1>1. TcbEdit(s, r, t, {"lastmtx"}) /\ r.tcb[t].lastmtx = l
  BY DEF TcbSet
<1>2. r.wobj = s.wobj /\ r.mtx = s.mtx
  BY <1>1, TcbEditFields
<1>3. /\ \A u \in TSK : r.tcb[u].tstat = s.tcb[u].tstat /\ r.tcb[u].p_wobjcb = s.tcb[u].p_wobjcb
      /\ \A u \in TSK \ {t} : r.tcb[u].lastmtx = s.tcb[u].lastmtx
  BY <1>1 DEF TcbEdit, TcbField
<1>4. Lists(q, S, MTX) /\ m \in S
  BY DEF LockInv
<1>5. Owned(r, t, {m}) = S \ {m}
  BY <1>2 DEF Owned, WobjExists
<1>6. Lists(l, S \ {m}, MTX)
  <2> HIDE DEF S
  <2>1. Lists(queue_delete(q, m), S \ {m}, MTX)
    <3> HIDE DEF q
    <3> QED BY <1>4, DeleteLists
  <2>2. q # <<>> => Lists(Tail(q), S \ {Head(q)}, MTX)
    <3> HIDE DEF q
    <3> QED BY <1>4, TailLists
  <2> QED BY <2>1, <2>2
<1>7. ASSUME NEW u \in TSK
      PROVE  Lists(r.tcb[u].lastmtx, Owned(r, u, {m}), MTX)
  <2>1. CASE u = t
    BY <1>1, <1>5, <1>6, <2>1
  <2>2. CASE u # t
    <3>1. Owned(r, u, {m}) = Owned(s, u, {})
      BY <1>2, <2>2 DEF Owned, WobjExists
    <3> QED BY <1>3, <2>2, <3>1 DEF LockInv
  <2> QED BY <2>1, <2>2
<1>8. ASSUME NEW u \in TSK, r.tcb[u].tstat = TS_DORMANT
      PROVE  r.tcb[u].lastmtx = <<>>
  <2>1. s.tcb[t].tstat # TS_DORMANT
    BY <1>4, ListsEmpty DEF LockInv
  <2> QED BY <1>3, <1>8, <2>1 DEF LockInv
<1>9. ASSUME NEW u \in TSK \ X, NEW n \in MTX \ {m}, BlockedOn(r, u, n)
      PROVE  r.mtx[n].p_loctsk # NULL
  BY <1>2, <1>3, <1>9 DEF LockInv, BlockedOn
<1> QED BY <1>7, <1>8, <1>9 DEF LockInv

LEMMA UnlinkedSet ==
    ASSUME NEW s, NEW X, LockInv(s, X, {}), NEW t \in TSK, NEW m \in Owned(s, t, {}), NEW l,
           \/ l = queue_delete(s.tcb[t].lastmtx, m)
           \/ m = Head(s.tcb[t].lastmtx) /\ s.tcb[t].lastmtx # <<>>
              /\ l = Tail(s.tcb[t].lastmtx)
    PROVE  ToSet(l) = ToSet(s.tcb[t].lastmtx) \ {m}
<1> DEFINE S == Owned(s, t, {})
           q == s.tcb[t].lastmtx
<1>1. Lists(q, S, MTX) /\ m \in S
  BY DEF LockInv
<1>2. l = queue_delete(q, m) \/ (m = Head(q) /\ q # <<>> /\ l = Tail(q))
  OBVIOUS
<1> SUFFICES ToSet(l) = ToSet(q) \ {m}
  OBVIOUS
<1> HIDE DEF S, q
<1>3. Lists(queue_delete(q, m), S \ {m}, MTX)
  BY <1>1, DeleteLists
<1>4. q # <<>> => Lists(Tail(q), S \ {Head(q)}, MTX)
  BY <1>1, TailLists
<1>5. Lists(l, S \ {m}, MTX)
  <2>1. CASE l = queue_delete(q, m)
    BY <1>3, <2>1
  <2>2. CASE m = Head(q) /\ q # <<>> /\ l = Tail(q)
    BY <1>4, <2>2
  <2> QED BY <1>2, <2>1, <2>2
<1>6. l \in Seq(MTX) /\ S \ {m} = {l[i] : i \in 1 .. Len(l)}
  BY <1>5 DEF Lists
<1>7. q \in Seq(MTX) /\ S = {q[i] : i \in 1 .. Len(q)}
  BY <1>1 DEF Lists
<1>8. ToSet(l) = S \ {m}
  BY <1>6 DEF ToSet
<1>9. ToSet(q) = S
  BY <1>7 DEF ToSet
<1> QED BY <1>8, <1>9

(* A task that locks a mutex, and has its priority raised to the ceiling.  *)
LEMMA ConsSet ==
    ASSUME NEW m, NEW T, NEW q \in Seq(T)
    PROVE  ToSet(Cons(m, q)) = {m} \cup ToSet(q)
<1> DEFINE r == Cons(m, q)
<1>1. /\ Len(q) \in Nat /\ Len(r) = Len(q) + 1 /\ r[1] = m
      /\ \A i \in 2 .. Len(r) : r[i] = q[i - 1]
  BY DEF Cons
<1>2. ToSet(r) = {r[i] : i \in 1 .. Len(r)} /\ ToSet(q) = {q[i] : i \in 1 .. Len(q)}
  <2>1. DOMAIN r = 1 .. Len(r)
    BY DEF Cons
  <2>2. DOMAIN q = 1 .. Len(q)
    OBVIOUS
  <2> HIDE DEF r
  <2> QED BY <2>1, <2>2 DEF ToSet
<1> HIDE DEF r
<1>3. \A i \in 1 .. Len(r) : i = 1 \/ (i \in 2 .. Len(r) /\ i - 1 \in 1 .. Len(q))
  BY <1>1
<1>4. \A i \in 1 .. Len(q) : i + 1 \in 2 .. Len(r) /\ i + 1 \in 1 .. Len(r) /\ (i + 1) - 1 = i
  BY <1>1
<1>5. 1 \in 1 .. Len(r)
  BY <1>1
<1>6. ToSet(r) \subseteq {m} \cup ToSet(q)
  BY <1>1, <1>2, <1>3
<1>7. \A i \in 1 .. Len(q) : q[i] = r[i + 1]
  BY <1>1, <1>4
<1>8. {m} \cup ToSet(q) \subseteq ToSet(r)
  BY <1>1, <1>2, <1>4, <1>5, <1>7
<1> QED BY <1>6, <1>8 DEF r

LevelRange(s, t) ==
    /\ s.tcb[t].priority \in Nat /\ s.tcb[t].bpriority \in Nat
    /\ s.tcb[t].lastmtx \in Seq(MTX)
    /\ \A m \in MTX : s.mtx[m].ceilpri \in Nat

LEMMA LevelsRange ==
    ASSUME NEW s, WellFormed(s), NEW t \in TSK
    PROVE  LevelRange(s, t)
BY Priorities DEF WellFormed, TcbOK, LevelRange

Raised(s, t, m) ==
    IF MTX_CEILING(s, m) /\ s.mtx[m].ceilpri < s.tcb[t].priority
    THEN s.mtx[m].ceilpri ELSE s.tcb[t].priority

LEMMA FitLocked ==
    ASSUME NEW s, WellFormed(s), NEW r, NEW t \in TSK, NEW m \in MTX, SameCeilings(s, r),
           Fit(s, t), WaitsLess(s, r, t), Permits(s, s.tcb[t].bpriority, m),
           r.tcb[t].lastmtx = Cons(m, s.tcb[t].lastmtx),
           r.tcb[t].bpriority = s.tcb[t].bpriority, r.tcb[t].priority = Raised(s, t, m)
    PROVE  Fit(r, t)
<1>1. LevelRange(s, t)
  BY LevelsRange
<1>2. \A n \in MTX : HoldsCeiling(r, t, n) <=> HoldsCeiling(s, t, n) \/ (n = m /\ MTX_CEILING(s, m))
  BY <1>1, ConsSet, CeilingsHold DEF HoldsCeiling, LevelRange
<1>3. \A n \in MTX : r.mtx[n].ceilpri = s.mtx[n].ceilpri
  BY DEF SameCeilings
<1>4. r.tcb[t].priority <= s.tcb[t].priority /\ r.tcb[t].priority \in Nat
  BY <1>1 DEF Raised, LevelRange
<1>5. MTX_CEILING(s, m) => r.tcb[t].priority <= s.mtx[m].ceilpri
                           /\ s.mtx[m].ceilpri <= s.tcb[t].bpriority
  BY <1>1 DEF Raised, LevelRange, Permits
<1>6. r.tcb[t].priority <= r.tcb[t].bpriority
  BY <1>1, <1>4 DEF Fit, LevelRange
<1>7. ASSUME NEW n \in MTX, HoldsCeiling(r, t, n)
      PROVE  r.tcb[t].priority <= r.mtx[n].ceilpri /\ r.mtx[n].ceilpri <= r.tcb[t].bpriority
  <2>1. CASE HoldsCeiling(s, t, n)
    BY <1>1, <1>3, <1>4, <2>1 DEF Fit, LevelRange
  <2>2. CASE n = m /\ MTX_CEILING(s, m)
    BY <1>3, <1>5, <2>2
  <2> QED BY <1>2, <1>7, <2>1, <2>2
<1>8. r.tcb[t].priority = r.tcb[t].bpriority
      \/ \E n \in MTX : HoldsCeiling(r, t, n) /\ r.mtx[n].ceilpri = r.tcb[t].priority
  <2>1. CASE r.tcb[t].priority = s.tcb[t].priority
    BY <1>2, <1>3, <2>1 DEF Fit
  <2>2. CASE r.tcb[t].priority # s.tcb[t].priority
    BY <1>2, <1>3, <2>2 DEF Raised
  <2> QED BY <2>1, <2>2
<1>9. \A n \in MTX : BlockedOn(r, t, n) => Permits(r, r.tcb[t].bpriority, n)
                                           /\ "MTX" \in r.tcb[t].tstat
  BY CeilingsHold DEF WaitsLess, Fit
<1>10. "MTX" \in r.tcb[t].tstat => r.tcb[t].p_wobjcb \in MTX
  BY DEF WaitsLess, Fit
<1> QED BY <1>6, <1>7, <1>8, <1>9, <1>10 DEF Fit

(* The priority the protocol gives a task.                                 *)
LEMMA CalcLeast ==
    ASSUME NEW s, WellFormed(s), NEW t \in TSK
    PROVE  LET p == mutex_calc_priority(s, t)
           IN  /\ p <= s.tcb[t].bpriority /\ p \in Nat
               /\ \A m \in MTX : HoldsCeiling(s, t, m) => p <= s.mtx[m].ceilpri
               /\ \/ p = s.tcb[t].bpriority
                  \/ \E m \in MTX : HoldsCeiling(s, t, m) /\ s.mtx[m].ceilpri = p
<1> DEFINE C == {s.mtx[m].ceilpri : m \in {h \in held_mtx(s, t) : MTX_CEILING(s, h)}}
           S == {s.tcb[t].bpriority} \cup C
           p == mutex_calc_priority(s, t)
<1>1. LevelRange(s, t)
  BY LevelsRange
<1>2. held_mtx(s, t) \subseteq MTX /\ held_mtx(s, t) = ToSet(s.tcb[t].lastmtx)
  BY <1>1 DEF held_mtx, ToSet, LevelRange
<1>3. S \in SUBSET Nat /\ S # {}
  BY <1>1, <1>2 DEF LevelRange
<1>4. p = Min(S)
  BY DEF mutex_calc_priority
<1>5. \A c \in C : \E m \in MTX : HoldsCeiling(s, t, m) /\ s.mtx[m].ceilpri = c
  BY <1>2 DEF HoldsCeiling
<1>6. \A m \in MTX : HoldsCeiling(s, t, m) => s.mtx[m].ceilpri \in S
  BY <1>2 DEF HoldsCeiling
<1>7. s.tcb[t].bpriority \in S /\ \A c \in S : c = s.tcb[t].bpriority \/ c \in C
  OBVIOUS
<1> HIDE DEF S, C, p
<1>8. p \in S /\ \A y \in S : p <= y
  BY <1>3, <1>4, LeastOf
<1> QED BY <1>3, <1>5, <1>6, <1>7, <1>8 DEF p

(* A task that gives up mutex m.                                           *)
Dropped(s, t, m) ==
    IF MTX_CEILING(s, m) /\ s.mtx[m].ceilpri = s.tcb[t].priority
    THEN mutex_calc_priority(s, t) ELSE s.tcb[t].priority

LEMMA FitUnlocked ==
    ASSUME NEW s, WellFormed(s), NEW r, NEW t \in TSK, NEW m, Fit(s, t), WellFormed(r),
           NEW a, WellFormed(a), SameCeilings(s, a), a.tcb[t].priority = s.tcb[t].priority,
           a.tcb[t].bpriority = s.tcb[t].bpriority, WaitsLess(s, r, t),
           ToSet(a.tcb[t].lastmtx) = ToSet(s.tcb[t].lastmtx) \ {m}, SameCeilings(a, r),
           r.tcb[t].lastmtx = a.tcb[t].lastmtx, r.tcb[t].bpriority = a.tcb[t].bpriority,
           r.tcb[t].priority = Dropped(a, t, m)
    PROVE  Fit(r, t)
<1> DEFINE p == mutex_calc_priority(a, t)
<1>1. LevelRange(s, t) /\ LevelRange(a, t) /\ LevelRange(r, t)
  BY LevelsRange
<1>2. \A n \in MTX : HoldsCeiling(a, t, n) <=> HoldsCeiling(s, t, n) /\ n # m
  BY CeilingsHold DEF HoldsCeiling
<1>3. \A n \in MTX : HoldsCeiling(r, t, n) <=> HoldsCeiling(a, t, n)
  BY CeilingsHold DEF HoldsCeiling
<1>4. \A n \in MTX : r.mtx[n].ceilpri = s.mtx[n].ceilpri /\ a.mtx[n].ceilpri = s.mtx[n].ceilpri
  BY DEF SameCeilings
<1>5. /\ p <= a.tcb[t].bpriority
      /\ \A n \in MTX : HoldsCeiling(a, t, n) => p <= a.mtx[n].ceilpri
      /\ \/ p = a.tcb[t].bpriority
         \/ \E n \in MTX : HoldsCeiling(a, t, n) /\ a.mtx[n].ceilpri = p
  BY CalcLeast
<1> HIDE DEF p
<1>6. \A n \in MTX : BlockedOn(r, t, n) => Permits(r, r.tcb[t].bpriority, n)
                                           /\ "MTX" \in r.tcb[t].tstat
  BY CeilingsHold DEF WaitsLess, Fit
<1>7. "MTX" \in r.tcb[t].tstat => r.tcb[t].p_wobjcb \in MTX
  BY DEF WaitsLess, Fit
<1>8. \A n \in MTX : HoldsCeiling(r, t, n) => r.mtx[n].ceilpri <= r.tcb[t].bpriority
  BY <1>2, <1>3, <1>4 DEF Fit
<1>9. CASE MTX_CEILING(a, m) /\ a.mtx[m].ceilpri = a.tcb[t].priority
  <2>1. r.tcb[t].priority = p
    BY <1>9 DEF Dropped, p
  <2>2. r.tcb[t].priority <= r.tcb[t].bpriority
    BY <1>5, <2>1
  <2>3. \A n \in MTX : HoldsCeiling(r, t, n) => r.tcb[t].priority <= r.mtx[n].ceilpri
    BY <1>3, <1>4, <1>5, <2>1
  <2>4. r.tcb[t].priority = r.tcb[t].bpriority
        \/ \E n \in MTX : HoldsCeiling(r, t, n) /\ r.mtx[n].ceilpri = r.tcb[t].priority
    BY <1>3, <1>4, <1>5, <2>1
  <2> QED BY <1>6, <1>7, <1>8, <2>2, <2>3, <2>4 DEF Fit
<1>10. CASE ~(MTX_CEILING(a, m) /\ a.mtx[m].ceilpri = a.tcb[t].priority)
  <2>1. r.tcb[t].priority = s.tcb[t].priority
    BY <1>10 DEF Dropped
  <2>2. r.tcb[t].priority <= r.tcb[t].bpriority
    BY <2>1 DEF Fit
  <2>3. \A n \in MTX : HoldsCeiling(r, t, n) => r.tcb[t].priority <= r.mtx[n].ceilpri
    BY <1>2, <1>3, <1>4, <2>1 DEF Fit
  <2>4. r.tcb[t].priority = r.tcb[t].bpriority
        \/ \E n \in MTX : HoldsCeiling(r, t, n) /\ r.mtx[n].ceilpri = r.tcb[t].priority
    <3>1. CASE s.tcb[t].priority = s.tcb[t].bpriority
      BY <2>1, <3>1
    <3>2. CASE \E n \in MTX : HoldsCeiling(s, t, n) /\ s.mtx[n].ceilpri = s.tcb[t].priority
      <4>1. PICK n \in MTX : HoldsCeiling(s, t, n) /\ s.mtx[n].ceilpri = s.tcb[t].priority
        BY <3>2
      <4>2. n # m
        BY <1>4, <1>10, <4>1, CeilingsHold DEF HoldsCeiling
      <4> QED BY <1>2, <1>3, <1>4, <2>1, <4>1, <4>2
    <3> QED BY <3>1, <3>2 DEF Fit
  <2> QED BY <1>6, <1>7, <1>8, <2>2, <2>3, <2>4 DEF Fit
<1> QED BY <1>9, <1>10

(* Of the tasks outside X, none leaves the protocol.                       *)
CeilingsKept(s, r, X) ==
    /\ SameCeilings(s, r)
    /\ \A u \in TSK \ X : Fit(s, u) => Fit(r, u)

(* No mutex that was free has an owner.                                    *)
NoNewOwner(s, r) ==
    \A m \in MTX : s.mtx[m].p_loctsk = NULL => r.mtx[m].p_loctsk = NULL

LEMMA CeilingsTrans ==
    ASSUME NEW s, NEW r, NEW n, NEW X, CeilingsKept(s, r, X), CeilingsKept(r, n, X)
    PROVE  CeilingsKept(s, n, X)
BY DEF CeilingsKept, SameCeilings

LEMMA KeepsCeilings ==
    ASSUME NEW s, NEW r, Keeps(s, r), NEW X
    PROVE  CeilingsKept(s, r, X)
BY PassesCeilings DEF Keeps, KeepsLocks, CeilingsKept

LEMMA mutex_calc_priority_range ==
    ASSUME NEW s, WellFormed(s), NEW t \in TSK
    PROVE  mutex_calc_priority(s, t) \in TPRI
<1> DEFINE C == {s.mtx[m].ceilpri : m \in {h \in held_mtx(s, t) : MTX_CEILING(s, h)}}
           S == {s.tcb[t].bpriority} \cup C
<1>1. held_mtx(s, t) \subseteq MTX
  <2>1. s.tcb[t].lastmtx \in Seq(MTX)
    BY DEF WellFormed, TcbOK
  <2> QED BY <2>1 DEF held_mtx, ToSet
<1>2. S \subseteq TPRI /\ S # {}
  BY <1>1 DEF WellFormed, TcbOK
<1>3. mutex_calc_priority(s, t) = Min(S)
  BY DEF mutex_calc_priority
<1> HIDE DEF S
<1>4. S \in SUBSET Nat
  BY <1>2, Priorities
<1>5. Min(S) \in S
  BY <1>2, <1>4, LeastOf
<1> QED BY <1>2, <1>3, <1>5

(* The priority of a task that gives up mutex m, ...                       *)
LEMMA mutex_drop_priority_inv ==
    ASSUME NEW s, NEW X, NEW E, Inv(s, X, E), NEW t \in TSK \ X, NEW m
    PROVE  LET r == mutex_drop_priority(s, t, m)
           IN  /\ Inv(r, X, E) /\ KeepsLocks(s, r) /\ NewPriority(s, r, t)
               /\ r.tcb[t].priority = Dropped(s, t, m)
<1> DEFINE r == mutex_drop_priority(s, t, m)
           newpri == mutex_calc_priority(s, t)
<1>1. newpri \in TPRI
  BY mutex_calc_priority_range DEF Inv
<1>2. \/ r = s /\ s.tcb[t].priority = Dropped(s, t, m)
      \/ r = change_priority(s, t, newpri, TRUE) /\ newpri = Dropped(s, t, m)
  BY DEF mutex_drop_priority, Dropped
<1> HIDE DEF r, newpri
<1>3. CASE r = s /\ s.tcb[t].priority = Dropped(s, t, m)
  BY <1>3, KeepsSelf, KeepsFields DEF r, NewPriority
<1>4. CASE r = change_priority(s, t, newpri, TRUE) /\ newpri = Dropped(s, t, m)
  <2> DEFINE mtxmode == TRUE
             n == change_priority(s, t, newpri, mtxmode)
  <2>1. r = n
    BY <1>4
  <2> HIDE DEF mtxmode
  <2>2. Inv(n, X, E) /\ KeepsLocks(s, n) /\ NewPriority(s, n, t)
        /\ n.tcb[t].priority = newpri
    BY <1>1, change_priority_inv
  <2> HIDE DEF n
  <2> QED BY <1>4, <2>1, <2>2 DEF r
<1> QED BY <1>2, <1>3, <1>4

(* ... and of one that locks it, which stays the task that should run.     *)
LEMMA mutex_acquire_inv ==
    ASSUME NEW s, NEW X, NEW E, Inv(s, X, E), NEW t \in TSK \ X, NEW m \in MTX
    PROVE  LET r == mutex_acquire(s, t, m)
           IN  /\ Inv(r, X, E) /\ Passes(s, r)
               /\ s.p_schedtsk = t => r.p_schedtsk = t
               /\ LockInv(s, X, {m}) /\ WobjExists(s, m) /\ s.tcb[t].tstat # TS_DORMANT
                     => LockInv(r, X, {})
               /\ Permits(s, s.tcb[t].bpriority, m) => CeilingsKept(s, r, {})
               /\ \A n \in MTX \ {m} : r.mtx[n].p_loctsk = s.mtx[n].p_loctsk
<1> DEFINE a == lock_record(s, t, m)
           pri == s.mtx[m].ceilpri
           r == mutex_acquire(s, t, m)
<1>1. Recorded(s, a, t, m)
  BY lock_record_edit DEF Inv
<1>2. r = IF MTX_CEILING(s, m) /\ pri < s.tcb[t].priority
          THEN change_priority(a, t, pri, TRUE) ELSE a
  BY DEF mutex_acquire
<1>3. pri \in TPRI
  BY DEF Inv, WellFormed
<1> HIDE DEF a, r, pri
<1>4. Like(s, a, X) /\ Passes(s, a) /\ a.p_schedtsk = s.p_schedtsk
  BY <1>1, RecordedLike
<1>5. Inv(a, X, E) /\ a.tcb[t].priority = s.tcb[t].priority
  BY <1>1, <1>4, Change DEF Recorded, TcbField
<1>9. /\ SameCeilings(s, a) /\ \A u \in TSK \ {t} : a.tcb[u] = s.tcb[u]
      /\ a.tcb[t].lastmtx = Cons(m, s.tcb[t].lastmtx)
      /\ \A f \in TcbField \ {"lastmtx"} : a.tcb[t][f] = s.tcb[t][f]
      /\ \A n \in MTX \ {m} : a.mtx[n].p_loctsk = s.mtx[n].p_loctsk
  BY <1>1 DEF Recorded
<1>10. NewPriority(a, r, t) /\ r.tcb[t].priority = Raised(s, t, m) /\ Passes(a, r)
  <2>1. CASE MTX_CEILING(s, m) /\ pri < s.tcb[t].priority
    <3> DEFINE mtxmode == TRUE
               n == change_priority(a, t, pri, mtxmode)
    <3>2. r = n
      BY <1>2, <2>1
    <3> HIDE DEF mtxmode
    <3>1. KeepsLocks(a, n) /\ NewPriority(a, n, t) /\ n.tcb[t].priority = pri
      BY <1>3, <1>5, change_priority_inv
    <3> HIDE DEF n
    <3> QED BY <2>1, <3>1, <3>2 DEF Raised, KeepsLocks, pri
  <2>2. CASE ~(MTX_CEILING(s, m) /\ pri < s.tcb[t].priority)
    BY <1>2, <1>5, <2>2 DEF Raised, pri, NewPriority, Passes
  <2> QED BY <2>1, <2>2
<1>11. ASSUME Permits(s, s.tcb[t].bpriority, m), NEW u \in TSK, Fit(s, u)
       PROVE  Fit(r, u)
  <2>1. SameCeilings(s, r)
    BY <1>9, <1>10, PassesCeilings DEF NewPriority, SameCeilings
  <2>2. r.tcb[u].tstat = s.tcb[u].tstat /\ r.tcb[u].p_wobjcb = s.tcb[u].p_wobjcb
        /\ r.tcb[u].bpriority = s.tcb[u].bpriority
    BY <1>9, <1>10 DEF NewPriority, TcbField
  <2>3. WaitsLess(s, r, u)
    BY <2>2 DEF WaitsLess, BlockedOn
  <2>4. CASE u = t
    <3>1. r.tcb[t].lastmtx = Cons(m, s.tcb[t].lastmtx)
      BY <1>9, <1>10 DEF NewPriority, TcbField
    <3>2. WellFormed(s)
      BY DEF Inv
    <3> QED BY <1>10, <1>11, <2>1, <2>2, <2>3, <2>4, <3>1, <3>2, FitLocked
  <2>5. CASE u # t
    <3>1. SameLevel(s, r, u)
      BY <1>9, <1>10, <2>5 DEF NewPriority, SameLevel, TcbField
    <3> QED BY <1>11, <2>1, <2>3, <3>1, FitSame
  <2> QED BY <2>4, <2>5
<1>12. Permits(s, s.tcb[t].bpriority, m) => CeilingsKept(s, r, {})
  <2>1. SameCeilings(s, r)
    BY <1>9, <1>10, PassesCeilings DEF NewPriority, SameCeilings
  <2> QED BY <1>11, <2>1 DEF CeilingsKept
<1>13. \A n \in MTX \ {m} : r.mtx[n].p_loctsk = s.mtx[n].p_loctsk
  BY <1>9, <1>10 DEF NewPriority
<1>8. LockInv(s, X, {m}) /\ WobjExists(s, m) /\ s.tcb[t].tstat # TS_DORMANT
         => LockInv(a, X, {})
  BY <1>1, RecordedLocks
<1>6. CASE MTX_CEILING(s, m) /\ pri < s.tcb[t].priority
  <2> DEFINE n == change_priority(a, t, pri, TRUE)
  <2>0. StaysFirst(a, n, t, pri)
    BY <1>3, <1>5, change_priority_inv
  <2>1. Inv(n, X, E) /\ KeepsLocks(a, n)
    BY <1>3, <1>5, change_priority_inv
  <2>2. r = n
    BY <1>2, <1>6
  <2> HIDE DEF n
  <2>3. Passes(s, r)
    BY <1>4, <1>10, PassesTrans
  <2>4. \A M : LockInv(a, X, M) => LockInv(r, X, M)
    BY <2>1, <2>2, LockKept
  <2> QED BY <1>4, <1>5, <1>6, <1>8, <1>12, <1>13, <2>0, <2>1, <2>2, <2>3, <2>4
      DEF r, StaysFirst
<1>7. CASE ~(MTX_CEILING(s, m) /\ pri < s.tcb[t].priority)
  BY <1>2, <1>4, <1>5, <1>7, <1>8, <1>12, <1>13 DEF r
<1> QED BY <1>6, <1>7

(* Tasks that an operation leaves alone, but for their state.              *)
Spares(s, r, X) ==
    \A u \in X \cap TSK : /\ \A f \in TcbField \ {"tstat"} : r.tcb[u][f] = s.tcb[u][f]
                          /\ r.tmevtb[u] = s.tmevtb[u]

LEMMA SparesTrans ==
    ASSUME NEW s, NEW r, NEW n, NEW X, Spares(s, r, X), Spares(r, n, X)
    PROVE  Spares(s, n, X)
BY DEF Spares

(* The first task that waits for mutex m owns it, if there is one.         *)
LEMMA mutex_release_inv ==
    ASSUME NEW s, NEW X, NEW E, Inv(s, X, E), NEW m \in MTX
    PROVE  LET r == mutex_release(s, m)
           IN  /\ Inv(r, X, E) /\ Passes(s, r) /\ Spares(s, r, X)
               /\ LockInv(s, X, {m}) /\ WobjExists(s, m) => LockInv(r, X, {})
               /\ CeilingsKept(s, r, {})
               /\ \A n \in MTX \ {m} : r.mtx[n].p_loctsk = s.mtx[n].p_loctsk
<1> DEFINE q   == s.wobj[m].wait_queue
           pri == s.mtx[m].ceilpri
           r   == mutex_release(s, m)
<1>1. WellFormed(s) /\ pri \in TPRI /\ m \in WOBJ
  BY TaskOpsAssumption DEF Inv, WellFormed
<1>2. CASE q = <<>>
  <2> DEFINE n == [s EXCEPT !.mtx[m].p_loctsk = NULL]
  <2>1. /\ MtxEdit(s, n) /\ n.mtx[m].p_loctsk = NULL /\ SameCeilings(s, n)
        /\ \A k \in MTX \ {m} : n.mtx[k].p_loctsk = s.mtx[k].p_loctsk
    <3> DEFINE v == NULL
               z == [s EXCEPT !.mtx[m].p_loctsk = v]
    <3>1. v \in TSK \cup {NULL}
      OBVIOUS
    <3> HIDE DEF v
    <3>2. /\ MtxEdit(s, z) /\ z.mtx[m].p_loctsk = v /\ SameCeilings(s, z)
          /\ \A k \in MTX \ {m} : z.mtx[k].p_loctsk = s.mtx[k].p_loctsk
      BY <1>1, <3>1, SetOwner
    <3> QED BY <3>2 DEF v
  <2>2. r = n
    BY <1>2 DEF mutex_release
  <2> HIDE DEF n, r
  <2>3. Like(s, n, X) /\ Passes(s, n) /\ n.tcb = s.tcb /\ n.tmevtb = s.tmevtb
        /\ n.wobj = s.wobj
    BY <2>1, MtxEditLike
  <2>4. Inv(n, X, E)
    BY <2>3, Change
  <2>5. ASSUME LockInv(s, X, {m})
        PROVE  LockInv(n, X, {})
    <3>1. Beside(s, n, {m})
      BY <2>1, <2>3 DEF Beside, SameLock, BlockedOn
    <3>2. LockInv(n, X, {m})
      BY <2>5, <3>1, BesideKept
    <3>3. \A t \in TSK \ X : ~BlockedOn(n, t, m)
      BY <1>2, <2>3, <2>4, EmptyUnblocked
    <3> QED BY <2>1, <3>2, <3>3, LockSettled DEF Ownerless
  <2>6. CeilingsKept(s, n, {})
    <3>1. \A u : Fit(s, u) => Fit(n, u)
      BY <2>1, <2>3, SameTcbFit, FitSame
    <3> QED BY <2>1, <3>1 DEF CeilingsKept
  <2> QED BY <2>1, <2>2, <2>3, <2>4, <2>5, <2>6 DEF Spares, r
<1>3. CASE q # <<>>
  <2> DEFINE t == Head(q)
             a == [s EXCEPT !.wobj[m].wait_queue = Tail(q)]
             b == wait_dequeue_tmevtb(a, t)
             c == set_wercd(b, t, "E_OK")
             o == lock_record(c, t, m)
             z == IF MTX_CEILING(s, m) /\ pri < s.tcb[t].priority
                  THEN [o EXCEPT !.tcb[t].priority = pri] ELSE o
             Y == X \cup {t}
  <2>1. r = make_non_wait(z, t)
    BY <1>3 DEF mutex_release
  <2>2. Inv(a, Y, E) /\ Keeps(s, a) /\ a.tcb = s.tcb /\ a.tmevtb = s.tmevtb
        /\ t \in TSK \ X /\ Waiter(a, t) /\ s.tcb[t].tstat # TS_DORMANT /\ BlockedOn(s, t, m)
    <3> DEFINE f == "wait_queue"
    <3>1. f \in QUEUE /\ s.wobj[m][f] # <<>>
      BY <1>3 DEF QUEUE
    <3> HIDE DEF f
    <3>2. LET n == [s EXCEPT !.wobj[m][f] = Tail(s.wobj[m][f])]
              h == Head(s.wobj[m][f])
          IN  /\ Inv(n, X \cup {h}, E) /\ Keeps(s, n) /\ QueueEdit(s, n, m, f)
              /\ n.tcb = s.tcb /\ n.tmevtb = s.tmevtb /\ n.mtx = s.mtx
              /\ n.wobj[m][f] = Tail(s.wobj[m][f])
              /\ h \in TSK \ X /\ Waiter(s, h) /\ Waiter(n, h)
              /\ ~TSTAT_RUNNABLE(s.tcb[h].tstat)
      BY <1>1, <3>1, TakeHead
    <3>3. Head(s.wobj[m][f]) \in Blocked(s, X)
      BY <1>1, <3>1, HeadWaits DEF WaitsIn
    <3>6. s.tcb[Head(s.wobj[m][f])].p_wobjcb = m
      BY <1>1, <3>1, HeadWaits DEF WaitsIn
    <3>7. BlockedOn(s, Head(s.wobj[m][f]), m)
      BY <3>3, <3>6 DEF BlockedOn, Blocked
    <3>4. TSTAT_WAITING(s.tcb[Head(s.wobj[m][f])].tstat)
      BY <3>3, BlockedWaits
    <3>5. s.tcb[Head(s.wobj[m][f])].tstat # TS_DORMANT
      BY <3>4 DEF TSTAT_WAITING, TS_DORMANT
    <3> QED BY <3>2, <3>5, <3>7 DEF f
  <2>3. t \in Y /\ t \in TSK /\ Y \ {t} = X
    BY <2>2
  <2> HIDE DEF a, t, Y
  <2>4. /\ Inv(b, Y, E) /\ Keeps(a, b) /\ b.tcb = a.tcb /\ b.tinib = a.tinib
        /\ b.tmevtb[t] = "none" /\ \A v \in TSK \ {t} : b.tmevtb[v] = a.tmevtb[v]
    BY <2>2, <2>3, wait_dequeue_tmevtb_inv
  <2> HIDE DEF b
  <2>5. /\ Inv(c, Y, E) /\ Keeps(b, c) /\ TcbEdit(b, c, t, {"winfo"})
        /\ c.tcb[t].winfo = "E_OK" /\ c.tmevtb = b.tmevtb /\ c.tinib = b.tinib
    BY <2>3, <2>4, set_wercd_inv
  <2> HIDE DEF c
  <2>6. Recorded(c, o, t, m)
    BY <2>3, <2>5, lock_record_edit DEF Inv
  <2> HIDE DEF o
  <2>7. Like(c, o, Y) /\ Passes(c, o) /\ o.tmevtb = c.tmevtb /\ o.tinib = c.tinib
    BY <2>3, <2>6, RecordedLike
  <2>8. Inv(o, Y, E)
    BY <2>5, <2>7, Change
  <2>9. /\ TcbEdit(o, z, t, {"priority"})
        /\ z.tcb[t].priority = IF MTX_CEILING(s, m) /\ pri < s.tcb[t].priority
                               THEN pri ELSE o.tcb[t].priority
    <3> DEFINE n == [o EXCEPT !.tcb[t].priority = pri]
    <3>1. WellFormed(o)
      BY <2>8 DEF Inv
    <3>2. TcbSet(o, n, t, "priority", pri)
      <4> HIDE DEF pri
      <4> QED BY <1>1, <2>3, <3>1, SetTcb DEF TcbField
    <3>3. TcbEdit(o, o, t, {"priority"})
      BY <3>1 DEF TcbEdit, Agree
    <3>4. z = IF MTX_CEILING(s, m) /\ pri < s.tcb[t].priority THEN n ELSE o
      OBVIOUS
    <3> HIDE DEF n, z
    <3> QED BY <3>2, <3>3, <3>4 DEF TcbSet
  <2> HIDE DEF z
  <2>10. /\ Like(o, z, Y) /\ KeepsLocks(o, z) /\ z.tmevtb = o.tmevtb /\ z.tinib = o.tinib
         /\ z.mtx = o.mtx
    <3>1. /\ Like(o, z, Y) /\ Passes(o, z) /\ z.tmevtb = o.tmevtb /\ z.tinib = o.tinib
          /\ z.mtx = o.mtx
      BY <2>3, <2>9, TcbEditLike, TcbEditFields
    <3>2. NewPriority(o, z, t)
      BY <2>9, <3>1 DEF NewPriority, TcbEdit, TcbField
    <3> QED BY <3>1, <3>2, NewPriorityLocks
  <2>11. Inv(z, Y, E)
    BY <2>8, <2>10, Change
  <2>12. /\ \A v \in TSK \ {t} : z.tcb[v] = a.tcb[v]
         /\ \A f \in TcbField \ {"winfo", "lastmtx", "priority"} : z.tcb[t][f] = a.tcb[t][f]
         /\ z.tcb[t].winfo = "E_OK"
    <3>1. \A v \in TSK \ {t} : z.tcb[v] = a.tcb[v]
      BY <2>4, <2>5, <2>6, <2>9 DEF TcbEdit, Recorded
    <3>2. \A f \in TcbField \ {"winfo", "lastmtx", "priority"} : z.tcb[t][f] = a.tcb[t][f]
      BY <2>4, <2>5, <2>6, <2>9 DEF TcbEdit, Recorded
    <3>3. z.tcb[t].winfo = c.tcb[t].winfo
      BY <2>6, <2>9 DEF TcbEdit, Recorded, TcbField
    <3> QED BY <2>5, <3>1, <3>2, <3>3
  <2>13. ~z.tcb[t].raster /\ Exists(z, t) /\ z.tmevtb[t] = "none" /\ z.tcb[t].winfo \in WERCD
    BY <2>2, <2>4, <2>5, <2>7, <2>10, <2>12 DEF Waiter, Exists, TcbField, WERCD
  <2>14. /\ Inv(r, Y \ {t}, E) /\ Keeps(z, r) /\ Agree(z, r, ReadyFields \cup {"tcb"})
         /\ \A v \in TSK, f \in TcbField \ {"tstat"} : r.tcb[v][f] = z.tcb[v][f]
    <3> DEFINE n == make_non_wait(z, t)
    <3>1. /\ Inv(n, Y \ {t}, E) /\ Keeps(z, n) /\ Agree(z, n, ReadyFields \cup {"tcb"})
          /\ \A v \in TSK, f \in TcbField \ {"tstat"} : n.tcb[v][f] = z.tcb[v][f]
      <4>1. t \in Y /\ t \in TSK
        BY <2>3
      <4>2. ~z.tcb[t].raster /\ Exists(z, t) /\ z.tmevtb[t] = "none"
        BY <2>13
      <4>3. z.tcb[t].winfo \in WERCD
        BY <2>13
      <4>4. Keeps(z, n)
        BY <4>1, <4>2, <4>3, <2>11, make_non_wait_inv
      <4> QED BY SMTT(40), <4>1, <4>2, <4>3, <2>11, make_non_wait_inv
    <3>2. r = n
      BY <2>1
    <3> HIDE DEF n, r
    <3> QED BY <3>1, <3>2
  <2> HIDE DEF r
  <2>15. /\ Passes(s, r)
         /\ LockInv(s, X, {m}) /\ WobjExists(s, m) => LockInv(r, X, {})
    <3>1. KeepsLocks(s, c) /\ KeepsLocks(o, r)
      BY <2>2, <2>4, <2>5, <2>10, <2>14, KeepsTrans, KeepsFields, LocksTrans
    <3>2. Passes(s, r)
      BY <2>7, <3>1, PassesTrans DEF KeepsLocks
    <3>3. ASSUME LockInv(s, X, {m}), WobjExists(s, m)
          PROVE  LockInv(r, X, {})
      <4>1. LockInv(c, X, {m})
        BY <3>1, <3>3, LockKept
      <4>2. WobjExists(c, m)
        BY <3>1, <3>3, PassesFields DEF KeepsLocks, WobjExists
      <4>3. c.tcb[t].tstat # TS_DORMANT
        BY <2>2, <2>4, <2>5 DEF TcbEdit, TcbField
      <4>4. LockInv(o, X, {})
        BY <2>3, <2>6, <4>1, <4>2, <4>3, RecordedLocks
      <4> QED BY <3>1, <4>4, LockKept
    <3> QED BY <3>2, <3>3
  <2>16. r.tmevtb = z.tmevtb
    BY <2>14 DEF Agree, KernelField, ReadyFields
  <2>17. Spares(s, r, X)
    <3> SUFFICES ASSUME NEW v \in X \cap TSK
                 PROVE  /\ \A f \in TcbField \ {"tstat"} : r.tcb[v][f] = s.tcb[v][f]
                        /\ r.tmevtb[v] = s.tmevtb[v]
      BY DEF Spares
    <3>1. v \in TSK \ {t}
      BY <2>2
    <3> QED BY <2>2, <2>4, <2>5, <2>7, <2>10, <2>12, <2>14, <2>16, <3>1
  <2>18. Keeps(s, c) /\ SameCeilings(s, c) /\ SameCeilings(c, z) /\ c.mtx = s.mtx
    <3>1. Keeps(s, c)
      BY <2>2, <2>4, <2>5, KeepsTrans
    <3>2. SameCeilings(o, z)
      BY <2>10, PassesCeilings DEF KeepsLocks
    <3> QED BY <2>6, <3>1, <3>2, KeepsFields, PassesCeilings DEF Recorded, SameCeilings
  <2>19. ASSUME NEW u \in TSK, Fit(s, u)
         PROVE  Fit(z, u)
    <3>1. Fit(c, u)
      BY <2>18, <2>19 DEF Keeps
    <3>2. CASE u = t
      <4>1. /\ c.tcb[t].priority = s.tcb[t].priority
            /\ c.tcb[t].bpriority = s.tcb[t].bpriority
        BY <2>2, <2>4, <2>5 DEF TcbEdit, TcbField
      <4>2. Permits(c, c.tcb[t].bpriority, m)
        BY <2>2, <2>18, <2>19, <3>2, <4>1, CeilingsHold DEF Fit
      <4>3. z.tcb[t].priority = Raised(c, t, m)
        <5>1. o.tcb[t].priority = c.tcb[t].priority
          BY <2>6 DEF Recorded, TcbField
        <5> QED BY <2>9, <2>18, <4>1, <5>1, CeilingsHold DEF Raised, pri
      <4>4. /\ z.tcb[t].lastmtx = Cons(m, c.tcb[t].lastmtx)
            /\ z.tcb[t].bpriority = c.tcb[t].bpriority
            /\ z.tcb[t].tstat = c.tcb[t].tstat /\ z.tcb[t].p_wobjcb = c.tcb[t].p_wobjcb
        BY <2>6, <2>9 DEF Recorded, TcbEdit, TcbField
      <4>5. WaitsLess(c, z, t)
        BY <4>4 DEF WaitsLess, BlockedOn
      <4>6. WellFormed(c)
        BY <2>5 DEF Inv
      <4> QED BY <2>3, <2>18, <3>1, <3>2, <4>2, <4>3, <4>4, <4>5, <4>6, FitLocked
    <3>3. CASE u # t
      <4>1. z.tcb[u] = c.tcb[u]
        BY <2>6, <2>9, <3>3 DEF Recorded, TcbEdit
      <4> QED BY <2>18, <3>1, <4>1, SameTcbFit, FitSame
    <3> QED BY <3>2, <3>3
  <2>20. CeilingsKept(s, r, {})
    <3>1. SameCeilings(z, r) /\ \A u \in TSK : Fit(z, u) => Fit(r, u)
      BY <2>14, KeepsFields, PassesCeilings DEF Keeps
    <3> QED BY <2>18, <2>19, <3>1 DEF CeilingsKept, SameCeilings
  <2>21. \A n \in MTX \ {m} : r.mtx[n].p_loctsk = s.mtx[n].p_loctsk
    BY <2>6, <2>10, <2>14, <2>18, KeepsFields DEF Recorded
  <2> QED BY <2>3, <2>14, <2>15, <2>17, <2>20, <2>21 DEF r
<1> QED BY <1>2, <1>3

(* A mutex that is deleted or initialized leaves its owner's list.         *)
LEMMA mutex_unlink_inv ==
    ASSUME NEW s, NEW X, NEW E, Inv(s, X, E), NEW t \in TSK \ X, NEW m, NEW l \in Seq(MTX)
    PROVE  LET a == [s EXCEPT !.tcb[t].lastmtx = l]
               r == mutex_drop_priority(a, t, m)
           IN  /\ Inv(r, X, E) /\ Passes(s, r) /\ TcbSet(s, a, t, "lastmtx", l)
               /\ KeepsLocks(a, r) /\ r.mtx = s.mtx
               /\ ToSet(l) = ToSet(s.tcb[t].lastmtx) \ {m} => CeilingsKept(s, r, {})
<1> DEFINE a == [s EXCEPT !.tcb[t].lastmtx = l]
           r == mutex_drop_priority(a, t, m)
<1>1. TcbSet(s, a, t, "lastmtx", l)
  BY SetTcb DEF TcbField, Inv
<1> HIDE DEF a
<1>2. Like(s, a, X) /\ Passes(s, a)
  BY <1>1, TcbEditLike, TcbEditFields DEF TcbSet, TaskField
<1>3. Inv(a, X, E)
  BY <1>2, Change
<1>4. /\ Inv(r, X, E) /\ KeepsLocks(a, r) /\ NewPriority(a, r, t)
      /\ r.tcb[t].priority = Dropped(a, t, m)
  BY <1>3, mutex_drop_priority_inv
<1> HIDE DEF r
<1>5. Passes(s, r)
  BY <1>2, <1>4, PassesTrans DEF KeepsLocks
<1>6. r.mtx = s.mtx /\ a.mtx = s.mtx
  BY <1>1, <1>4, TcbEditFields DEF TcbSet, KeepsLocks
<1>7. ASSUME ToSet(l) = ToSet(s.tcb[t].lastmtx) \ {m}
      PROVE  CeilingsKept(s, r, {})
  <2>1. /\ \A u \in TSK \ {t} : a.tcb[u] = s.tcb[u]
        /\ \A f \in TcbField \ {"lastmtx"} : a.tcb[t][f] = s.tcb[t][f]
        /\ a.tcb[t].lastmtx = l
    BY <1>1 DEF TcbSet, TcbEdit
  <2>2. SameCeilings(s, a) /\ SameCeilings(a, r) /\ SameCeilings(s, r)
    BY <1>2, <1>4, <1>5, <1>6, PassesCeilings DEF KeepsLocks
  <2>3. ASSUME NEW u \in TSK
        PROVE  WaitsLess(s, r, u)
    <3>1. r.tcb[u].tstat = s.tcb[u].tstat /\ r.tcb[u].p_wobjcb = s.tcb[u].p_wobjcb
      BY <1>4, <2>1 DEF NewPriority, TcbField
    <3> QED BY <3>1 DEF WaitsLess, BlockedOn
  <2>4. ASSUME Fit(s, t)
        PROVE  Fit(r, t)
    <3>1. /\ a.tcb[t].priority = s.tcb[t].priority /\ a.tcb[t].bpriority = s.tcb[t].bpriority
          /\ r.tcb[t].lastmtx = a.tcb[t].lastmtx /\ r.tcb[t].bpriority = a.tcb[t].bpriority
      BY <1>4, <2>1 DEF NewPriority, TcbField
    <3>2. WellFormed(s) /\ WellFormed(a) /\ WellFormed(r) /\ WaitsLess(s, r, t)
      BY <1>3, <1>4, <2>3 DEF Inv
    <3>3. ToSet(a.tcb[t].lastmtx) = ToSet(s.tcb[t].lastmtx) \ {m}
      BY <1>7, <2>1
    <3> QED BY <1>4, <2>2, <2>4, <3>1, <3>2, <3>3, FitUnlocked
  <2>5. ASSUME NEW u \in TSK \ {t}, Fit(s, u)
        PROVE  Fit(r, u)
    <3>1. SameLevel(s, r, u)
      BY <1>4, <2>1 DEF NewPriority, SameLevel, TcbField
    <3> QED BY <2>2, <2>3, <2>5, <3>1, FitSame
  <2> QED BY <2>2, <2>4, <2>5 DEF CeilingsKept
<1> QED BY <1>1, <1>4, <1>5, <1>6, <1>7 DEF r, a

-----------------------------------------------------------------------------
(* Tasks begin and end.                                                    *)

(* States s and r differ in the TCB of task t only, which is b in r.       *)
TcbIs(s, r, t, b) ==
    /\ TcbEdit(s, r, t, TcbField)
    /\ r.tcb[t] = b

LEMMA SetTask ==
    ASSUME NEW s, WellFormed(s), NEW t \in TSK, NEW b, TcbOK(b)
    PROVE  LET r == [s EXCEPT !.tcb[t] = b]
           IN  TcbIs(s, r, t, b)
<1> DEFINE r == [s EXCEPT !.tcb[t] = b]
<1>1. HasFields(s, KernelField) /\ HasFields(s.tcb, TSK)
  BY DEF WellFormed
<1>2. r.tcb = [s.tcb EXCEPT ![t] = b] /\ \A g \in KernelField \ {"tcb"} : r[g] = s[g]
  BY <1>1 DEF HasFields, KernelField
<1>3. HasFields(r, KernelField)
  BY <1>1 DEF HasFields, KernelField
<1> HIDE DEF r
<1>4. HasFields(r.tcb, TSK) /\ r.tcb[t] = b /\ \A u \in TSK \ {t} : r.tcb[u] = s.tcb[u]
  BY <1>1, <1>2 DEF HasFields
<1>5. WellFormed(r)
  BY <1>2, <1>3, <1>4 DEF WellFormed, KernelField
<1> QED BY <1>2, <1>4, <1>5 DEF TcbIs, TcbEdit, Agree, r

(* What a dormant task is.                                                 *)
Dormant(s, r, t) ==
    /\ r.tcb[t].tstat = TS_DORMANT
    /\ ~r.tcb[t].raster /\ r.tcb[t].enater /\ ~r.tcb[t].insvc
    /\ r.tcb[t].actque = s.tcb[t].actque
    /\ r.tcb[t].lastmtx = s.tcb[t].lastmtx /\ r.tcb[t].p_wobjcb = NULL
    /\ r.tcb[t].priority = r.tcb[t].bpriority

LEMMA DormantFit ==
    ASSUME NEW s, NEW r, NEW t \in TSK, Dormant(s, r, t), s.tcb[t].lastmtx = <<>>,
           WellFormed(r)
    PROVE  Fit(r, t)
<1>1. LevelRange(r, t)
  BY LevelsRange
<1>2. \A m : ~BlockedOn(r, t, m) /\ "MTX" \notin r.tcb[t].tstat
  BY IdleFacts DEF Dormant, BlockedOn
<1>3. \A m : ~HoldsCeiling(r, t, m)
  BY DEF Dormant, HoldsCeiling, ToSet
<1> QED BY <1>1, <1>2, <1>3 DEF Fit, Dormant, LevelRange

LEMMA make_dormant_inv ==
    ASSUME NEW s, NEW X, NEW E, Inv(s, X, E), NEW t \in X, t \in TSK
    PROVE  LET r == make_dormant(s, t)
           IN  /\ Inv(r, X, E) /\ Passes(s, r) /\ TcbEdit(s, r, t, TcbField)
               /\ Dormant(s, r, t)
<1> DEFINE b == [s.tcb[t] EXCEPT !.tstat     = TS_DORMANT,
                                 !.bpriority = s.tinib[t].ipriority,
                                 !.priority  = s.tinib[t].ipriority,
                                 !.wupque    = FALSE,
                                 !.raster    = FALSE,
                                 !.enater    = TRUE,
                                 !.winfo     = "no_tmevtb",
                                 !.p_wobjcb  = NULL,
                                 !.wobjdata  = NULL,
                                 !.prelock   = NULL,
                                 !.insvc     = FALSE]
           r == make_dormant(s, t)
<1>1. WellFormed(s)
  BY DEF Inv
<1>2. s.tinib[t].ipriority \in TPRI /\ TcbOK(s.tcb[t])
  BY <1>1 DEF WellFormed
<1>3. /\ b.tstat = TS_DORMANT /\ ~b.raster /\ b.enater /\ ~b.insvc
      /\ b.actque = s.tcb[t].actque /\ b.lastmtx = s.tcb[t].lastmtx /\ b.p_wobjcb = NULL
      /\ b.priority \in TPRI /\ b.bpriority \in TPRI /\ b.lastmtx \in Seq(MTX)
      /\ b.priority = b.bpriority
  BY <1>2 DEF TcbOK, HasFields, TcbField
<1>4. HasFields(b, TcbField)
  BY <1>2 DEF TcbOK, HasFields, TcbField
<1>5. TcbOK(b)
  BY <1>3, <1>4 DEF TcbOK
<1>6. r = [s EXCEPT !.tcb[t] = b]
  BY DEF make_dormant
<1> HIDE DEF b
<1>7. TcbIs(s, [s EXCEPT !.tcb[t] = b], t, b)
  BY <1>1, <1>5, SetTask
<1>8. TcbEdit(s, r, t, TcbField) /\ r.tcb[t] = b
  BY <1>6, <1>7 DEF TcbIs
<1> HIDE DEF r
<1>9. Like(s, r, X) /\ Passes(s, r)
  BY <1>8, TcbEditLike, TcbEditFields
<1>10. Inv(r, X, E)
  BY <1>9, Change
<1> QED BY <1>3, <1>8, <1>9, <1>10 DEF Dormant, r

(* A task that has given up its mutexes is dormant.                        *)
LEMMA DormantLocks ==
    ASSUME NEW s, NEW t \in TSK, LockInv(s, {t}, {}), s.tcb[t].lastmtx = <<>>,
           NEW r, TcbEdit(s, r, t, TcbField), Dormant(s, r, t)
    PROVE  LockInv(r, {}, {})
<1>1. r.wobj = s.wobj /\ r.mtx = s.mtx
  BY TcbEditFields
<1>2. \A u \in TSK \ {t} : r.tcb[u] = s.tcb[u]
  BY DEF TcbEdit
<1>3. /\ r.tcb[t].lastmtx = <<>> /\ r.tcb[t].tstat = TS_DORMANT
      /\ \A m : ~BlockedOn(r, t, m)
  BY IdleFacts DEF Dormant, BlockedOn
<1>4. \A u \in TSK : r.tcb[u].lastmtx = s.tcb[u].lastmtx
  BY <1>2, <1>3
<1>5. \A u : Owned(r, u, {}) = Owned(s, u, {})
  BY <1>1 DEF Owned, WobjExists
<1> QED BY <1>1, <1>2, <1>3, <1>4, <1>5 DEF LockInv, BlockedOn

(* A task that does not wait is made ready.                                *)
Idle(s, t) ==
    /\ ~s.tcb[t].raster
    /\ s.tcb[t].insvc => s.tcb[t].winfo \in WERCD
    /\ s.tmevtb[t] = "none"
    /\ Exists(s, t)

LEMMA make_active_inv ==
    ASSUME NEW s, NEW X, NEW E, Inv(s, X, E), NEW t \in X, t \in TSK, Idle(s, t)
    PROVE  LET r == make_active(s, t)
           IN  Inv(r, X \ {t}, E) /\ Keeps(s, r) /\ \A u \in TSK \ {t} : r.tcb[u] = s.tcb[u]
<1> DEFINE f == "tstat"
           v == TS_RUNNABLE
           a == [s EXCEPT !.tcb[t][f] = v]
           r == make_runnable(a, t)
<1>1. WellFormed(s) /\ f \in TcbField /\ f \notin {"priority", "bpriority", "lastmtx"}
  BY DEF Inv, TcbField
<1>2. make_active(s, t) = r
  BY DEF make_active
<1> HIDE DEF f, v
<1>3. TcbSet(s, a, t, f, v)
  BY <1>1, SetTcb
<1> HIDE DEF a
<1>4. TcbEdit(s, a, t, {"tstat"}) /\ a.tcb[t].tstat = TS_RUNNABLE
  BY <1>3 DEF TcbSet, f, v
<1>5. Like(s, a, X) /\ Keeps(s, a) /\ a.tinib = s.tinib /\ a.tmevtb = s.tmevtb
  BY <1>4, IdleFacts, TcbEditLike, TcbEditFields, TcbStateKeeps
<1>6. Inv(a, X, E)
  BY <1>5, Change
<1>7. TaskOK(a, t, E)
  <2>1. ~a.tcb[t].raster /\ (a.tcb[t].insvc => a.tcb[t].winfo \in WERCD)
        /\ a.tmevtb[t] = "none"
    BY <1>4, <1>5 DEF Idle, TcbEdit, TcbField
  <2>2. WinfoOK(a.tcb[t], a.tmevtb[t])
    BY <1>4, <2>1, IdleFacts DEF WinfoOK, TMEVT
  <2> QED BY <1>4, <1>5, <2>1, <2>2, IdleFacts DEF TaskOK, Exists, Idle
<1>8. Inv(r, X \ {t}, E)
  BY <1>4, <1>6, <1>7, Start
<1>9. Keeps(a, r) /\ r.tcb = a.tcb
  <2>1. WellFormed(a)
    BY <1>6 DEF Inv
  <2>2. Agree(a, r, ReadyFields)
    BY <2>1, make_runnable_effect
  <2>3. r.wobj = a.wobj /\ r.tcb = a.tcb
    BY <2>2 DEF Agree, KernelField, ReadyFields
  <2> QED BY <2>2, <2>3, AgreeKeeps DEF ReadyFields, Frame
<1> HIDE DEF r
<1>10. Keeps(s, r)
  BY <1>5, <1>9, KeepsTrans
<1>11. \A u \in TSK \ {t} : r.tcb[u] = s.tcb[u]
  BY <1>4, <1>9 DEF TcbEdit
<1> QED BY <1>2, <1>8, <1>10, <1>11

(* What ends of a task that gives up its mutexes.                          *)
Passed(s, r, t) ==
    r.tmevtb[t] = s.tmevtb[t] /\ r.tcb[t].actque = s.tcb[t].actque

LEMMA mutex_release_last_inv ==
    ASSUME NEW s, NEW X, NEW E, Inv(s, X, E), NEW t \in X, t \in TSK,
           s.tcb[t].lastmtx # <<>>
    PROVE  LET r == mutex_release_last(s, t)
           IN  /\ Inv(r, X, E) /\ Passes(s, r) /\ Passed(s, r, t)
               /\ Len(r.tcb[t].lastmtx) = Len(s.tcb[t].lastmtx) - 1
               /\ LockInv(s, X, {}) => LockInv(r, X, {}) /\ NoNewOwner(s, r)
               /\ CeilingsKept(s, r, {t})
<1> DEFINE held == s.tcb[t].lastmtx
           f    == "lastmtx"
           l    == Tail(held)
           m    == Head(held)
           a    == [s EXCEPT !.tcb[t][f] = l]
           r    == mutex_release(a, m)
<1>1. WellFormed(s) /\ held \in Seq(MTX)
  BY DEF Inv, WellFormed, TcbOK
<1>2. l \in Seq(MTX) /\ m \in MTX /\ Len(l) = Len(held) - 1
  BY <1>1
<1>12. LockInv(s, X, {}) => m \in Owned(s, t, {})
  <2>1. LockInv(s, X, {}) => Lists(held, Owned(s, t, {}), MTX)
    BY DEF LockInv
  <2> HIDE DEF held
  <2> QED BY <2>1, ListsEmpty DEF held
<1>3. mutex_release_last(s, t) = r
  BY DEF mutex_release_last
<1>4. f \in TcbField /\ f \notin {"priority", "bpriority"}
  BY DEF TcbField
<1> HIDE DEF l, m, f, held
<1>5. TcbSet(s, a, t, f, l)
  BY <1>1, <1>2, <1>4, SetTcb
<1> HIDE DEF a
<1>6. TcbEdit(s, a, t, {"lastmtx"}) /\ a.tcb[t].lastmtx = l
  BY <1>5 DEF TcbSet, f
<1>7. Like(s, a, X) /\ Passes(s, a) /\ a.tmevtb = s.tmevtb
  BY <1>6, TcbEditLike, TcbEditFields
<1>8. Inv(a, X, E)
  BY <1>7, Change
<1>9. /\ Inv(r, X, E) /\ Passes(a, r) /\ Spares(a, r, X)
      /\ LockInv(a, X, {m}) /\ WobjExists(a, m) => LockInv(r, X, {})
      /\ CeilingsKept(a, r, {})
      /\ \A n \in MTX \ {m} : r.mtx[n].p_loctsk = a.mtx[n].p_loctsk
  BY <1>2, <1>8, mutex_release_inv
<1>14. CeilingsKept(s, r, {t})
  <2>1. CeilingsKept(s, a, {t})
    <3>1. \A u \in TSK \ {t} : a.tcb[u] = s.tcb[u]
      BY <1>6 DEF TcbEdit
    <3>2. SameCeilings(s, a)
      BY <1>6, TcbEditFields, PassesCeilings
    <3>3. \A u \in TSK \ {t} : Fit(s, u) => Fit(a, u)
      BY <3>1, <3>2, SameTcbFit, FitSame
    <3> QED BY <3>2, <3>3 DEF CeilingsKept
  <2>2. CeilingsKept(a, r, {t})
    BY <1>9 DEF CeilingsKept
  <2> QED BY <2>1, <2>2, CeilingsTrans
<1>13. ASSUME LockInv(s, X, {})
       PROVE  LockInv(r, X, {}) /\ NoNewOwner(s, r)
  <2>1. m \in Owned(s, t, {})
    BY <1>12, <1>13
  <2>5. s.mtx[m].p_loctsk # NULL
    BY <2>1, TaskOpsAssumption DEF Owned
  <2>6. a.mtx = s.mtx
    BY <1>6, TcbEditFields
  <2>7. NoNewOwner(s, r)
    BY <1>9, <2>5, <2>6 DEF NoNewOwner
  <2>2. WobjExists(a, m)
    BY <1>7, <2>1, PassesFields DEF Owned, WobjExists
  <2>3. TcbSet(s, a, t, "lastmtx", l) /\ m = Head(s.tcb[t].lastmtx)
        /\ l = Tail(s.tcb[t].lastmtx)
    BY <1>5 DEF f, m, l, held
  <2>4. LockInv(a, X, {m})
    BY <1>2, <1>13, <2>1, <2>3, UnlinkedLocks
  <2> QED BY <1>9, <2>2, <2>4, <2>7
<1> HIDE DEF r
<1>10. Passes(s, r)
  BY <1>7, <1>9, PassesTrans
<1>11. r.tcb[t].lastmtx = l /\ Passed(s, r, t)
  BY <1>6, <1>7, <1>9 DEF Spares, Passed, TcbEdit, TcbField
<1> QED BY <1>2, <1>3, <1>9, <1>10, <1>11, <1>13, <1>14 DEF held

(* The turns of the loop of mutex_release_all, ...                         *)
LEMMA mutex_release_all_turns ==
    ASSUME NEW s, NEW t, Len(s.tcb[t].lastmtx) \in Nat
    PROVE  LET turns == Len(s.tcb[t].lastmtx)
           IN  \E after : /\ mutex_release_all(s, t) = after[turns] /\ after[0] = s
                          /\ \A n \in 1 .. turns : after[n] = mutex_release_last(after[n - 1], t)
<1> DEFINE turns == Len(s.tcb[t].lastmtx)
           after[n \in 0 .. turns] ==
               IF n = 0 THEN s ELSE mutex_release_last(after[n - 1], t)
           Turned(k) == \E g : g = [n \in 0 .. k |->
                                      IF n = 0 THEN s ELSE mutex_release_last(g[n - 1], t)]
<1>1. turns \in Nat
  OBVIOUS
<1> HIDE DEF turns
<1>2. \A k \in Nat : Turned(k)
  <2> DEFINE S == {k \in Nat : ~Turned(k)}
             k == Min(S)
  <2> SUFFICES ASSUME S # {} PROVE FALSE
    OBVIOUS
  <2>1. k \in S /\ \A y \in S : k <= y
    BY LeastOf
  <2> HIDE DEF k
  <2>2. CASE k = 0
    <3>1. [n \in 0 .. 0 |-> s] = [n \in 0 .. 0 |-> IF n = 0 THEN s
                 ELSE mutex_release_last([i \in 0 .. 0 |-> s][n - 1], t)]
      OBVIOUS
    <3>2. Turned(0)
      BY <3>1
    <3> HIDE DEF Turned
    <3> QED BY <2>1, <2>2, <3>2
  <2>3. CASE k # 0
    <3>0. k \in Nat \ {0} /\ k - 1 \in Nat /\ ~(k <= k - 1)
      BY <2>1, <2>3
    <3>1. k \in Nat \ {0} /\ k - 1 \in Nat /\ Turned(k - 1)
      <4> HIDE DEF Turned
      <4> QED BY <2>1, <3>0
    <3>2. PICK g : g = [n \in 0 .. k - 1 |->
                          IF n = 0 THEN s ELSE mutex_release_last(g[n - 1], t)]
      BY <3>1
    <3> DEFINE h == [n \in 0 .. k |-> IF n = k THEN mutex_release_last(g[k - 1], t) ELSE g[n]]
    <3>3. ASSUME NEW n \in 0 .. k
          PROVE  h[n] = IF n = 0 THEN s ELSE mutex_release_last(h[n - 1], t)
      <4>1. CASE n = 0
        BY <3>1, <3>2, <4>1
      <4>2. CASE n = k
        <5>1. h[k - 1] = g[k - 1]
          BY <3>1
        <5> QED BY <3>1, <4>2, <5>1
      <4>3. CASE n # 0 /\ n # k
        <5>1. n \in 0 .. k - 1 /\ n - 1 \in 0 .. k /\ n - 1 # k
          BY <3>1, <4>3
        <5>2. h[n - 1] = g[n - 1] /\ h[n] = g[n]
          BY <4>3, <5>1
        <5>3. g[n] = mutex_release_last(g[n - 1], t)
          BY <3>2, <4>3, <5>1
        <5> QED BY <4>3, <5>2, <5>3
      <4> QED BY <4>1, <4>2, <4>3
    <3>4. h = [n \in 0 .. k |-> IF n = 0 THEN s ELSE mutex_release_last(h[n - 1], t)]
      BY <3>3
    <3> HIDE DEF h
    <3>5. Turned(k)
      BY <3>4
    <3> QED BY <2>1, <3>5
  <2> QED BY <2>2, <2>3
<1>3. Turned(turns)
  BY <1>1, <1>2
<1>4. after = [n \in 0 .. turns |->
                 IF n = 0 THEN s ELSE mutex_release_last(after[n - 1], t)]
  BY <1>3 DEF after
<1>5. mutex_release_all(s, t) = after[turns]
  BY DEF mutex_release_all, turns
<1> HIDE DEF after, Turned
<1>6. after[0] = s
  BY <1>1, <1>4
<1>7. \A n \in 1 .. turns : after[n] = mutex_release_last(after[n - 1], t)
  BY <1>1, <1>4
<1> QED BY <1>5, <1>6, <1>7 DEF turns

LEMMA mutex_release_all_inv ==
    ASSUME NEW s, NEW X, NEW E, Inv(s, X, E), NEW t \in X, t \in TSK
    PROVE  LET r == mutex_release_all(s, t)
           IN  /\ Inv(r, X, E) /\ Passes(s, r) /\ Passed(s, r, t)
               /\ LockInv(s, X, {}) => LockInv(r, X, {}) /\ NoNewOwner(s, r)
               /\ r.tcb[t].lastmtx = <<>> /\ CeilingsKept(s, r, {t})
<1> DEFINE turns == Len(s.tcb[t].lastmtx)
<1>1. turns \in Nat
  BY DEF Inv, WellFormed, TcbOK
<1>5. PICK after : /\ mutex_release_all(s, t) = after[turns] /\ after[0] = s
                    /\ \A n \in 1 .. turns : after[n] = mutex_release_last(after[n - 1], t)
  BY <1>1, mutex_release_all_turns
<1> DEFINE Holds(n) == /\ Inv(after[n], X, E) /\ Passes(s, after[n])
                       /\ Passed(s, after[n], t) /\ CeilingsKept(s, after[n], {t})
                       /\ LockInv(s, X, {}) =>
                             LockInv(after[n], X, {}) /\ NoNewOwner(s, after[n])
                       /\ Len(after[n].tcb[t].lastmtx) = turns - n
           S == {n \in 0 .. turns : ~Holds(n)}
           k == Min(S)
<1>6. Holds(0)
  <2>1. after[0] = s
    BY <1>5
  <2> QED BY <1>1, <2>1 DEF Passes, Passed, CeilingsKept, SameCeilings, NoNewOwner
<1>7. ASSUME NEW n \in 0 .. turns, n # 0, Holds(n - 1)
      PROVE  Holds(n)
  <2> DEFINE a == after[n - 1]
  <2>1. after[n] = mutex_release_last(a, t)
    BY <1>1, <1>5, <1>7
  <2>2. /\ Inv(a, X, E) /\ Passes(s, a) /\ Passed(s, a, t) /\ CeilingsKept(s, a, {t})
        /\ LockInv(s, X, {}) => LockInv(a, X, {}) /\ NoNewOwner(s, a)
        /\ Len(a.tcb[t].lastmtx) = turns - (n - 1)
    BY <1>7
  <2>3. a.tcb[t].lastmtx # <<>>
    <3> DEFINE l == a.tcb[t].lastmtx
    <3>1. n - 1 < turns /\ Len(l) = turns - (n - 1)
      BY <1>1, <1>7, <2>2
    <3> HIDE DEF l
    <3>2. Len(l) # 0
      BY <1>1, <1>7, <3>1
    <3>3. l # <<>>
      BY <3>2
    <3> QED BY <3>3 DEF l
  <2> HIDE DEF a
  <2> DEFINE r == mutex_release_last(a, t)
  <2>4. /\ Inv(r, X, E) /\ Passes(a, r) /\ Passed(a, r, t) /\ CeilingsKept(a, r, {t})
        /\ Len(r.tcb[t].lastmtx) = Len(a.tcb[t].lastmtx) - 1
        /\ LockInv(a, X, {}) => LockInv(r, X, {}) /\ NoNewOwner(a, r)
    BY <2>2, <2>3, mutex_release_last_inv
  <2> HIDE DEF r
  <2>5. /\ Passes(s, r) /\ Passed(s, r, t) /\ CeilingsKept(s, r, {t})
        /\ LockInv(s, X, {}) => LockInv(r, X, {}) /\ NoNewOwner(s, r)
    BY <2>2, <2>4, PassesTrans, CeilingsTrans DEF Passed, NoNewOwner
  <2>6. Len(r.tcb[t].lastmtx) = turns - n
    BY <1>1, <1>7, <2>2, <2>4
  <2>7. after[n] = r
    BY <2>1 DEF r
  <2> QED BY <2>4, <2>5, <2>6, <2>7
<1>8. Holds(turns)
  <2> HIDE DEF Holds
  <2> SUFFICES ASSUME ~Holds(turns) PROVE FALSE
    OBVIOUS
  <2>1. S \in SUBSET Nat /\ S # {}
    BY <1>1
  <2>2. k \in S /\ \A y \in S : k <= y
    BY <2>1, LeastOf
  <2> HIDE DEF k
  <2>3. k \in 0 .. turns /\ k # 0
    BY <1>6, <2>2
  <2>4. k - 1 \in 0 .. turns /\ ~(k <= k - 1)
    BY <1>1, <2>3
  <2>5. Holds(k - 1)
    BY <2>2, <2>4
  <2> QED BY <1>7, <2>2, <2>3, <2>5
<1>9. after[turns].tcb[t].lastmtx = <<>>
  <2> DEFINE l == after[turns].tcb[t].lastmtx
  <2>1. l \in Seq(MTX) /\ Len(l) = turns - turns
    BY <1>8 DEF Inv, WellFormed, TcbOK
  <2> HIDE DEF l
  <2>2. Len(l) = 0
    BY <1>1, <2>1
  <2>3. l = <<>>
    BY <2>1, <2>2
  <2> QED BY <2>3 DEF l
<1> QED BY <1>5, <1>8, <1>9

LEMMA Forget ==
    ASSUME NEW s, NEW X, NEW E, Inv(s, X, E), NEW t \in X
    PROVE  Inv(s, X, E \ {t})
<1>1. ASSUME NEW u \in TSK \ X PROVE TaskOK(s, u, E \ {t})
  BY <1>1 DEF Inv, TaskOK
<1> QED BY <1>1 DEF Inv

(* A task that exists and is not dormant goes into transit.                *)
LEMMA StopTask ==
    ASSUME NEW s, NEW E, Inv(s, {}, E), NEW t \in TSK, Exists(s, t),
           s.tcb[t].tstat # TS_DORMANT,
           TSTAT_RUNNABLE(s.tcb[t].tstat) => s.dspflg \/ t # s.p_runtsk
    PROVE  LET tstat == s.tcb[t].tstat
               r == IF TSTAT_RUNNABLE(tstat) THEN make_non_runnable(s, t)
                    ELSE IF TSTAT_WAITING(tstat)
                    THEN wait_dequeue_tmevtb(wait_dequeue_wobj(s, t), t)
                    ELSE s
           IN  Inv(r, {t}, E) /\ Keeps(s, r) /\ r.tcb = s.tcb /\ r.tmevtb[t] = "none"
<1> DEFINE tstat == s.tcb[t].tstat
           X == {}
           Y == X \cup {t}
<1>1. TaskOK(s, t, E) /\ WellFormed(s) /\ Inv(s, X, E)
  BY DEF Inv
<1>2. tstat \in TSTATS /\ WinfoOK(s.tcb[t], s.tmevtb[t])
  BY <1>1 DEF TaskOK
<1>3. ~TSTAT_WAITING(tstat) => s.tmevtb[t] = "none"
  BY <1>2 DEF WinfoOK
<1>4. Y = {t} /\ t \in Y /\ t \in TSK \ X
  OBVIOUS
<1>5. t \in Ready(s, X) <=> TSTAT_RUNNABLE(tstat)
  BY DEF Ready
<1>6. t \in Blocked(s, X) <=> TSTAT_WAIT_WOBJ(tstat)
  BY DEF Blocked
<1> HIDE DEF X, Y
<1>7. CASE TSTAT_RUNNABLE(tstat)
  <2> DEFINE r == make_non_runnable(s, t)
  <2>0. WellFormed(s) /\ t \in Ready(s, X) /\ (s.dspflg \/ t # s.p_runtsk)
    BY <1>1, <1>5, <1>7
  <2>1. Like(s, s, X \cup {t})
    BY <1>1 DEF Like, SameTask
  <2>2. Inv(r, X \cup {t}, E)
    BY <1>1, <2>0, <2>1, Stop
  <2>3. Agree(s, r, ReadyFields)
    BY <1>1, make_non_runnable_effect
  <2> HIDE DEF r
  <2>4. r.tcb = s.tcb /\ r.tmevtb = s.tmevtb /\ r.wobj = s.wobj
    BY <2>3 DEF Agree, KernelField, ReadyFields
  <2>5. Keeps(s, r)
    BY <2>3, <2>4, AgreeKeeps DEF ReadyFields, Frame
  <2>6. s.tmevtb[t] = "none"
    BY <1>2, <1>3, <1>7, TstatFacts
  <2>7. Inv(r, {t}, E)
    BY <1>4, <2>2 DEF Y
  <2> QED BY <1>7, <2>4, <2>5, <2>6, <2>7 DEF r
<1>8. CASE ~TSTAT_RUNNABLE(tstat) /\ TSTAT_WAITING(tstat)
  <2> DEFINE a == wait_dequeue_wobj(s, t)
             r == wait_dequeue_tmevtb(a, t)
  <2>1. /\ Inv(a, X \cup {t}, E) /\ Keeps(s, a) /\ a.tcb = s.tcb /\ Waiter(a, t)
    BY <1>1, <1>4, <1>8, wait_dequeue_wobj_inv
  <2> HIDE DEF a
  <2>2. Inv(a, Y, E)
    BY <2>1 DEF Y
  <2>3. Inv(r, Y, E) /\ Keeps(a, r) /\ r.tcb = a.tcb /\ r.tmevtb[t] = "none"
    BY <1>4, <2>1, <2>2, wait_dequeue_tmevtb_inv
  <2> HIDE DEF r
  <2>4. Keeps(s, r)
    BY <2>1, <2>3, KeepsTrans
  <2>5. Inv(r, {t}, E)
    BY <1>4, <2>3
  <2> QED BY <1>8, <2>1, <2>3, <2>4, <2>5 DEF r, a
<1>9. CASE ~TSTAT_RUNNABLE(tstat) /\ ~TSTAT_WAITING(tstat)
  <2>1. ~TSTAT_WAIT_WOBJ(tstat)
    BY <1>2, <1>9, TstatFacts
  <2>2. Inv(s, X \cup {t}, E)
    BY <1>1, <1>5, <1>6, <1>9, <2>1, Unsettle
  <2>3. Inv(s, {t}, E) /\ Keeps(s, s)
    BY <1>4, <2>2, KeepsSelf DEF Y
  <2> QED BY <1>3, <1>9, <2>3
<1> QED BY <1>7, <1>8, <1>9

(* The task that ends is dormant, or active again if its activation was    *)
(* requested; no request to terminate it is left.                          *)
LEMMA task_terminate_inv ==
    ASSUME NEW s, NEW E, Inv(s, {}, E), NEW t \in TSK, Exists(s, t),
           s.tcb[t].tstat # TS_DORMANT,
           TSTAT_RUNNABLE(s.tcb[t].tstat) => s.dspflg \/ t # s.p_runtsk
    PROVE  LET r == task_terminate(s, t)
           IN  /\ Inv(r, {}, E \ {t}) /\ Passes(s, r)
               /\ LockInv(s, {}, {}) => LockInv(r, {}, {}) /\ NoNewOwner(s, r)
               /\ CeilingsKept(s, r, {})
<1> DEFINE tstat == s.tcb[t].tstat
           X == {t}
           D == E \ {t}
           a == IF TSTAT_RUNNABLE(tstat) THEN make_non_runnable(s, t)
                ELSE IF TSTAT_WAITING(tstat)
                THEN wait_dequeue_tmevtb(wait_dequeue_wobj(s, t), t)
                ELSE s
           b == mutex_release_all(a, t)
           c == make_dormant(b, t)
           d == [c EXCEPT !.tcb[t].actque = FALSE]
           r == task_terminate(s, t)
<1>1. r = IF s.tcb[t].actque THEN make_active(d, t) ELSE c
  BY DEF task_terminate
<1>2. t \in X /\ X \ {t} = {}
  OBVIOUS
<1>3. Inv(a, X, E) /\ Keeps(s, a) /\ a.tcb = s.tcb /\ a.tmevtb[t] = "none"
  BY StopTask
<1> HIDE DEF a, X, D, r
<1>4. Inv(a, X, D)
  BY <1>2, <1>3, Forget DEF D
<1>5. /\ Inv(b, X, D) /\ Passes(a, b) /\ Passed(a, b, t) /\ b.tcb[t].lastmtx = <<>>
      /\ CeilingsKept(a, b, {t})
      /\ LockInv(a, X, {}) => LockInv(b, X, {}) /\ NoNewOwner(a, b)
  BY <1>2, <1>4, mutex_release_all_inv
<1> HIDE DEF b
<1>6. Inv(c, X, D) /\ Passes(b, c) /\ TcbEdit(b, c, t, TcbField) /\ Dormant(b, c, t)
  BY <1>2, <1>5, make_dormant_inv
<1> HIDE DEF c
<1>7. c.tmevtb[t] = "none" /\ c.tcb[t].actque = s.tcb[t].actque
  BY <1>3, <1>5, <1>6, TcbEditFields DEF Passed, Dormant
<1>8. Passes(s, c)
  BY <1>3, <1>5, <1>6, KeepsFields, PassesTrans
<1>9. Exists(c, t)
  BY <1>8, PassesFields DEF Exists
<1>12. ASSUME LockInv(s, {}, {})
       PROVE  LockInv(c, {}, {}) /\ NoNewOwner(s, c)
  <2>1. LockInv(s, {t}, {})
    BY <1>12 DEF LockInv
  <2>2. LockInv(b, {t}, {}) /\ NoNewOwner(a, b)
    <3>1. LockInv(a, {t}, {})
      BY <1>3, <2>1, KeepsFields, LockKept
    <3> QED BY <1>5, <3>1 DEF X
  <2>3. a.mtx = s.mtx /\ c.mtx = b.mtx
    BY <1>3, <1>6, KeepsFields, TcbEditFields
  <2>4. NoNewOwner(s, c)
    BY <2>2, <2>3 DEF NoNewOwner
  <2> QED BY <1>5, <1>6, <2>2, <2>4, DormantLocks
<1>13. CeilingsKept(s, c, {})
  <2>1. CeilingsKept(s, b, {t})
    BY <1>3, <1>5, KeepsCeilings, CeilingsTrans
  <2>2. SameCeilings(b, c) /\ WellFormed(c) /\ \A u \in TSK \ {t} : c.tcb[u] = b.tcb[u]
    <3> DEFINE G == TcbField
    <3>1. TcbEdit(b, c, t, G)
      BY <1>6
    <3> HIDE DEF G
    <3>2. Passes(b, c) /\ c.mtx = b.mtx
      BY <3>1, TcbEditFields
    <3> QED BY <3>1, <3>2, PassesCeilings DEF TcbEdit
  <2>3. \A u \in TSK \ {t} : Fit(b, u) => Fit(c, u)
    BY <2>2, SameTcbFit, FitSame
  <2>4. Fit(c, t)
    BY <1>5, <1>6, <2>2, DormantFit
  <2> QED BY <2>1, <2>2, <2>3, <2>4 DEF CeilingsKept, SameCeilings
<1>10. CASE s.tcb[t].actque
  <2> DEFINE f == "actque"
             v == FALSE
             e == [c EXCEPT !.tcb[t][f] = v]
             n == make_active(d, t)
  <2>0. WellFormed(c) /\ f \in TcbField /\ f \notin {"priority", "bpriority", "lastmtx"}
    BY <1>6 DEF Inv, TcbField
  <2>1. d = e
    OBVIOUS
  <2> HIDE DEF d, f, v
  <2>2. TcbSet(c, e, t, f, v)
    BY <2>0, SetTcb
  <2>3. TcbEdit(c, d, t, {"actque"})
    BY <2>1, <2>2 DEF TcbSet, f
  <2>4. Like(c, d, X) /\ Keeps(c, d) /\ d.tmevtb = c.tmevtb /\ d.tinib = c.tinib
    BY <1>2, <2>3, TcbEditLike, TcbEditFields, TcbEditKeeps
  <2>5. Inv(d, X, D)
    BY <1>6, <2>4, Change
  <2>6. ~d.tcb[t].raster /\ ~d.tcb[t].insvc
    BY <1>6, <2>3 DEF Dormant, TcbEdit, TcbField
  <2>7. Idle(d, t)
    BY <1>7, <1>9, <2>4, <2>6 DEF Exists, Idle
  <2>8. Inv(n, X \ {t}, D) /\ Keeps(d, n)
    BY <1>2, <2>5, <2>7, make_active_inv
  <2> HIDE DEF n
  <2>9. /\ Passes(s, n) /\ CeilingsKept(s, n, {})
        /\ LockInv(s, {}, {}) => LockInv(n, {}, {}) /\ NoNewOwner(s, n)
    <3>1. Keeps(c, n)
      BY <2>4, <2>8, KeepsTrans
    <3>3. NoNewOwner(c, n)
      BY <3>1, KeepsFields DEF NoNewOwner
    <3>2. CeilingsKept(s, n, {})
      BY <1>13, <3>1, KeepsCeilings, CeilingsTrans
    <3> QED BY <1>8, <1>12, <3>1, <3>2, <3>3, KeepsFields, PassesTrans, LockKept
            DEF NoNewOwner
  <2>10. r = n
    BY <1>1, <1>10 DEF n
  <2> QED BY <1>2, <2>8, <2>9, <2>10 DEF D, r
<1>11. CASE ~s.tcb[t].actque
  <2>1. WinfoOK(c.tcb[t], c.tmevtb[t])
    BY <1>6, <1>7, IdleFacts DEF WinfoOK, TMEVT, Dormant
  <2>2. TaskOK(c, t, D)
    BY <1>6, <1>7, <1>9, <1>11, <2>1, IdleFacts DEF TaskOK, Dormant
  <2>3. Inv(c, X \ {t}, D)
    <3>1. ~TSTAT_RUNNABLE(c.tcb[t].tstat) /\ ~TSTAT_WAIT_WOBJ(c.tcb[t].tstat)
      BY <1>6, IdleFacts DEF Dormant, TS_DORMANT, TS_RUNNABLE
    <3> QED BY <1>2, <1>6, <2>2, <3>1, Settle
  <2> QED BY <1>1, <1>2, <1>8, <1>11, <1>12, <1>13, <2>3 DEF D, r
<1> QED BY <1>10, <1>11

-----------------------------------------------------------------------------
(* The waits for an object that is deleted or initialized end.             *)

(* Only waits in queue f of object w have ended.                           *)
Drains(s, r, w, f) ==
    /\ Keeps(s, r) /\ Agree(s, r, EndedFields \cup {"wobj"})
    /\ \A v \in WOBJ, g \in QUEUE : <<v, g>> # <<w, f>> => r.wobj[v][g] = s.wobj[v][g]
    /\ \A u \in TSK, g \in TcbField \ {"tstat", "winfo"} : r.tcb[u][g] = s.tcb[u][g]

LEMMA DrainsTrans ==
    ASSUME NEW s, NEW r, NEW n, NEW w, NEW f, Drains(s, r, w, f), Drains(r, n, w, f)
    PROVE  Drains(s, n, w, f)
<1>1. Keeps(s, n)
  BY KeepsTrans DEF Drains
<1>2. Agree(s, n, EndedFields \cup {"wobj"})
  BY DEF Drains, Agree
<1> QED BY <1>1, <1>2 DEF Drains

LEMMA DrainsSelf ==
    ASSUME NEW s, NEW w, NEW f
    PROVE  Drains(s, s, w, f)
BY KeepsSelf DEF Drains, Agree

LEMMA init_wait_queue_turn_inv ==
    ASSUME NEW s, NEW E, Inv(s, {}, E), NEW w \in WOBJ, NEW f \in QUEUE,
           s.wobj[w][f] # <<>>
    PROVE  LET r == init_wait_queue_turn(s, w, f)
           IN  /\ Inv(r, {}, E) /\ Drains(s, r, w, f)
               /\ r.wobj[w][f] = Tail(s.wobj[w][f])
<1> DEFINE X == {}
           t == Head(s.wobj[w][f])
           a == [s EXCEPT !.wobj[w][f] = Tail(s.wobj[w][f])]
           Y == X \cup {t}
           r == make_non_wait(set_wercd(wait_dequeue_tmevtb(a, t), t, "E_DLT"), t)
<1>1. init_wait_queue_turn(s, w, f) = r
  BY DEF init_wait_queue_turn
<1>2. Y \ {t} = {} /\ t \in Y
  OBVIOUS
<1>3. Inv(s, X, E)
  OBVIOUS
<1> HIDE DEF X, r
<1>4. /\ Inv(a, X \cup {t}, E) /\ Keeps(s, a) /\ QueueEdit(s, a, w, f)
      /\ a.tcb = s.tcb /\ a.tmevtb = s.tmevtb
      /\ a.wobj[w][f] = Tail(s.wobj[w][f])
      /\ t \in TSK \ X /\ Waiter(a, t)
  <2>1. LET n == [s EXCEPT !.wobj[w][f] = Tail(s.wobj[w][f])]
            h == Head(s.wobj[w][f])
        IN  /\ Inv(n, X \cup {h}, E) /\ Keeps(s, n) /\ QueueEdit(s, n, w, f)
            /\ n.tcb = s.tcb /\ n.tmevtb = s.tmevtb /\ n.mtx = s.mtx
            /\ n.wobj[w][f] = Tail(s.wobj[w][f])
            /\ h \in TSK \ X /\ Waiter(s, h) /\ Waiter(n, h)
            /\ ~TSTAT_RUNNABLE(s.tcb[h].tstat)
    BY <1>3, TakeHead
  <2> QED BY <2>1
<1>5. Inv(a, Y, E) /\ t \in TSK
  BY <1>4
<1> HIDE DEF a, t, Y
<1> DEFINE e == "E_DLT"
           n == make_non_wait(set_wercd(wait_dequeue_tmevtb(a, t), t, e), t)
<1>6. e \in WERCD
  BY DEF WERCD
<1>7. r = n
  BY DEF r
<1> HIDE DEF e
<1>8. Inv(n, Y \ {t}, E) /\ Ended(a, n)
  BY <1>2, <1>4, <1>5, <1>6, EndWait
<1> HIDE DEF n
<1>9. n.wobj = a.wobj
  BY <1>8, EndedFacts
<1>10. Drains(s, n, w, f)
  <2>1. Keeps(s, n)
    BY <1>4, <1>8, KeepsTrans DEF Ended
  <2>2. Agree(s, n, EndedFields \cup {"wobj"})
    BY <1>4, <1>8 DEF Agree, QueueEdit, Ended
  <2>3. \A v \in WOBJ, g \in QUEUE : <<v, g>> # <<w, f>> => n.wobj[v][g] = s.wobj[v][g]
    BY <1>4, <1>9 DEF QueueEdit
  <2>4. \A u \in TSK, g \in TcbField \ {"tstat", "winfo"} : n.tcb[u][g] = s.tcb[u][g]
    BY <1>4, <1>8 DEF Ended
  <2> QED BY <2>1, <2>2, <2>3, <2>4 DEF Drains
<1>11. n.wobj[w][f] = Tail(s.wobj[w][f])
  BY <1>4, <1>9
<1> QED BY <1>1, <1>2, <1>7, <1>8, <1>10, <1>11

(* The turns of the loop of init_wait_queue.                                *)
LEMMA init_wait_queue_turns ==
    ASSUME NEW s, NEW w, NEW f, Len(s.wobj[w][f]) \in Nat
    PROVE  LET turns == Len(s.wobj[w][f])
           IN  \E after : /\ init_wait_queue(s, w, f) = after[turns] /\ after[0] = s
                          /\ \A n \in 1 .. turns : after[n] = init_wait_queue_turn(after[n - 1], w, f)
<1> DEFINE turns == Len(s.wobj[w][f])
           after[n \in 0 .. turns] ==
               IF n = 0 THEN s ELSE init_wait_queue_turn(after[n - 1], w, f)
           Turned(k) == \E g : g = [n \in 0 .. k |->
                                      IF n = 0 THEN s ELSE init_wait_queue_turn(g[n - 1], w, f)]
<1>1. turns \in Nat
  OBVIOUS
<1> HIDE DEF turns
<1>2. \A k \in Nat : Turned(k)
  <2> DEFINE S == {k \in Nat : ~Turned(k)}
             k == Min(S)
  <2> SUFFICES ASSUME S # {} PROVE FALSE
    OBVIOUS
  <2>1. k \in S /\ \A y \in S : k <= y
    BY LeastOf
  <2> HIDE DEF k
  <2>2. CASE k = 0
    <3>1. [n \in 0 .. 0 |-> s] = [n \in 0 .. 0 |-> IF n = 0 THEN s
                 ELSE init_wait_queue_turn([i \in 0 .. 0 |-> s][n - 1], w, f)]
      OBVIOUS
    <3>2. Turned(0)
      BY <3>1
    <3> HIDE DEF Turned
    <3> QED BY <2>1, <2>2, <3>2
  <2>3. CASE k # 0
    <3>0. k \in Nat \ {0} /\ k - 1 \in Nat /\ ~(k <= k - 1)
      BY <2>1, <2>3
    <3>1. k \in Nat \ {0} /\ k - 1 \in Nat /\ Turned(k - 1)
      <4> HIDE DEF Turned
      <4> QED BY <2>1, <3>0
    <3>2. PICK g : g = [n \in 0 .. k - 1 |->
                          IF n = 0 THEN s ELSE init_wait_queue_turn(g[n - 1], w, f)]
      BY <3>1
    <3> DEFINE h == [n \in 0 .. k |-> IF n = k THEN init_wait_queue_turn(g[k - 1], w, f)
                                      ELSE g[n]]
    <3>3. ASSUME NEW n \in 0 .. k
          PROVE  h[n] = IF n = 0 THEN s ELSE init_wait_queue_turn(h[n - 1], w, f)
      <4>1. CASE n = 0
        BY <3>1, <3>2, <4>1
      <4>2. CASE n = k
        <5>1. h[k - 1] = g[k - 1]
          BY <3>1
        <5> QED BY <3>1, <4>2, <5>1
      <4>3. CASE n # 0 /\ n # k
        <5>1. n \in 0 .. k - 1 /\ n - 1 \in 0 .. k /\ n - 1 # k
          BY <3>1, <4>3
        <5>2. h[n - 1] = g[n - 1] /\ h[n] = g[n]
          BY <4>3, <5>1
        <5>3. g[n] = init_wait_queue_turn(g[n - 1], w, f)
          BY <3>2, <4>3, <5>1
        <5> QED BY <4>3, <5>2, <5>3
      <4> QED BY <4>1, <4>2, <4>3
    <3>4. h = [n \in 0 .. k |-> IF n = 0 THEN s ELSE init_wait_queue_turn(h[n - 1], w, f)]
      BY <3>3
    <3> HIDE DEF h
    <3>5. Turned(k)
      BY <3>4
    <3> QED BY <2>1, <3>5
  <2> QED BY <2>2, <2>3
<1>3. Turned(turns)
  BY <1>1, <1>2
<1>4. after = [n \in 0 .. turns |->
                 IF n = 0 THEN s ELSE init_wait_queue_turn(after[n - 1], w, f)]
  BY <1>3 DEF after
<1>5. init_wait_queue(s, w, f) = after[turns]
  BY DEF init_wait_queue, turns
<1> HIDE DEF after, Turned
<1>6. after[0] = s
  BY <1>1, <1>4
<1>7. \A n \in 1 .. turns : after[n] = init_wait_queue_turn(after[n - 1], w, f)
  BY <1>1, <1>4
<1> QED BY <1>5, <1>6, <1>7 DEF turns

LEMMA init_wait_queue_inv ==
    ASSUME NEW s, NEW E, Inv(s, {}, E), NEW w \in WOBJ, NEW f \in QUEUE
    PROVE  LET r == init_wait_queue(s, w, f)
           IN  Inv(r, {}, E) /\ Drains(s, r, w, f) /\ r.wobj[w][f] = <<>>
<1> DEFINE turns == Len(s.wobj[w][f])
<1>1. turns \in Nat /\ s.wobj[w][f] \in Seq(TSK)
  <2>1. Lists(s.wobj[w][f], WaitsIn(s, Blocked(s, {}), w, f), TSK)
    BY DEF Inv, WaitOK
  <2> QED BY <2>1 DEF Lists
<1>5. PICK after : /\ init_wait_queue(s, w, f) = after[turns] /\ after[0] = s
                    /\ \A n \in 1 .. turns : after[n] = init_wait_queue_turn(after[n - 1], w, f)
  BY <1>1, init_wait_queue_turns
<1> DEFINE Holds(n) == /\ Inv(after[n], {}, E) /\ Drains(s, after[n], w, f)
                       /\ after[n].wobj[w][f] \in Seq(TSK)
                       /\ Len(after[n].wobj[w][f]) = turns - n
           S == {n \in 0 .. turns : ~Holds(n)}
           k == Min(S)
<1>6. Holds(0)
  <2>1. after[0] = s
    BY <1>5
  <2> QED BY <1>1, <2>1, DrainsSelf
<1>7. ASSUME NEW n \in 0 .. turns, n # 0, Holds(n - 1)
      PROVE  Holds(n)
  <2> DEFINE a == after[n - 1]
             q == a.wobj[w][f]
             r == init_wait_queue_turn(a, w, f)
  <2>1. after[n] = r
    BY <1>1, <1>5, <1>7
  <2>2. /\ Inv(a, {}, E) /\ Drains(s, a, w, f)
        /\ q \in Seq(TSK) /\ Len(q) = turns - (n - 1)
    BY <1>7
  <2> HIDE DEF a
  <2>3. Len(q) # 0 /\ Len(q) - 1 = turns - n
    <3> HIDE DEF q
    <3> QED BY <1>1, <1>7, <2>2
  <2>4. q # <<>> /\ Tail(q) \in Seq(TSK) /\ Len(Tail(q)) = Len(q) - 1
    <3> HIDE DEF q
    <3> QED BY <2>2, <2>3
  <2>5. Inv(r, {}, E) /\ Drains(a, r, w, f) /\ r.wobj[w][f] = Tail(a.wobj[w][f])
    BY <2>2, <2>4, init_wait_queue_turn_inv
  <2> HIDE DEF r
  <2>6. Drains(s, r, w, f)
    BY <2>2, <2>5, DrainsTrans
  <2> QED BY <2>1, <2>3, <2>4, <2>5, <2>6
<1>8. Holds(turns)
  <2> HIDE DEF Holds
  <2> SUFFICES ASSUME ~Holds(turns) PROVE FALSE
    OBVIOUS
  <2>1. S \in SUBSET Nat /\ S # {}
    BY <1>1
  <2>2. k \in S /\ \A y \in S : k <= y
    BY <2>1, LeastOf
  <2> HIDE DEF k
  <2>3. k \in 0 .. turns /\ k # 0
    BY <1>6, <2>2
  <2>4. k - 1 \in 0 .. turns /\ ~(k <= k - 1)
    BY <1>1, <2>3
  <2>5. Holds(k - 1)
    BY <2>2, <2>4
  <2> QED BY <1>7, <2>2, <2>3, <2>5
<1>9. after[turns].wobj[w][f] = <<>>
  <2> DEFINE q == after[turns].wobj[w][f]
  <2>1. q \in Seq(TSK) /\ Len(q) = turns - turns
    BY <1>8
  <2> HIDE DEF q, turns
  <2>2. Len(q) = 0
    BY <1>1, <2>1
  <2>3. q = <<>>
    BY <2>1, <2>2
  <2> QED BY <2>3 DEF q
<1> QED BY <1>5, <1>8, <1>9

(* Both queues of an object are empty at the end.                          *)
LEMMA init_wait_queues_inv ==
    ASSUME NEW s, NEW E, Inv(s, {}, E), NEW w \in WOBJ
    PROVE  LET r == init_wait_queues(s, w)
           IN  /\ Inv(r, {}, E) /\ Keeps(s, r) /\ Agree(s, r, EndedFields \cup {"wobj"})
               /\ \A f \in QUEUE : r.wobj[w][f] = <<>>
<1> DEFINE f == "wait_queue"
           g == "rwait_queue"
           a == init_wait_queue(s, w, f)
           r == init_wait_queue(a, w, g)
<1>1. QUEUE = {f, g} /\ f # g
  BY DEF QUEUE
<1>2. init_wait_queues(s, w) = r
  BY DEF init_wait_queues
<1> HIDE DEF f, g
<1>3. Inv(a, {}, E) /\ Drains(s, a, w, f) /\ a.wobj[w][f] = <<>>
  BY <1>1, init_wait_queue_inv
<1> HIDE DEF a
<1>4. Inv(r, {}, E) /\ Drains(a, r, w, g) /\ r.wobj[w][g] = <<>>
  BY <1>1, <1>3, init_wait_queue_inv
<1> HIDE DEF r
<1>5. r.wobj[w][f] = <<>>
  BY <1>1, <1>3, <1>4 DEF Drains
<1>6. Keeps(s, r)
  BY <1>3, <1>4, KeepsTrans DEF Drains
<1>7. Agree(s, r, EndedFields \cup {"wobj"})
  BY <1>3, <1>4 DEF Drains, Agree
<1> QED BY <1>1, <1>2, <1>4, <1>5, <1>6, <1>7


-----------------------------------------------------------------------------
(* What service calls do to one task or one object.                        *)

(* A field that the invariant is not about.                                *)
LEMMA PlainEdit ==
    ASSUME NEW s, NEW E, Inv(s, {}, E), NEW t \in TSK, NEW G, NEW r, TcbEdit(s, r, t, G),
           G \cap TaskField = {}, "lastmtx" \notin G
    PROVE  /\ Inv(r, {}, E) /\ KeepsLocks(s, r) /\ r.p_schedtsk = s.p_schedtsk
           /\ Ready(r, {}) = Ready(s, {})
           /\ "bpriority" \notin G => Keeps(s, r)
<1> DEFINE X == {}
<1>1. Inv(s, X, E)
  OBVIOUS
<1>0. G \cap {"lastmtx", "tstat", "p_wobjcb", "priority"} = {}
  BY DEF TaskField
<1> HIDE DEF X
<1>2. /\ Like(s, r, X) /\ KeepsLocks(s, r)
      /\ "bpriority" \notin G => Keeps(s, r)
  BY <1>0, TcbEditLike, TcbEditKeeps, TcbEditLocks
<1>3. Inv(r, X, E)
  BY <1>1, <1>2, Change
<1>4. r.p_schedtsk = s.p_schedtsk
  BY <1>2, LikeFields
<1>5. \A u \in TSK \ X : r.tcb[u].tstat = s.tcb[u].tstat
  BY <1>2, SameTaskFields DEF Like
<1> QED BY <1>2, <1>3, <1>4, <1>5 DEF X, Ready

(* Task t stays in the queues it is in.                                    *)
InPlace(s, r, t) ==
    LET b == s.tcb[t]
        c == r.tcb[t]
    IN  /\ c.priority = b.priority
        /\ TSTAT_RUNNABLE(c.tstat) <=> TSTAT_RUNNABLE(b.tstat)
        /\ TSTAT_WAIT_WOBJ(c.tstat) <=> TSTAT_WAIT_WOBJ(b.tstat)
        /\ TSTAT_WAIT_WOBJ(b.tstat) => /\ c.p_wobjcb = b.p_wobjcb
                                       /\ queue_of(c.tstat) = queue_of(b.tstat)

LEMMA WaitInPlace ==
    ASSUME NEW s, NEW r, NEW V \in SUBSET TSK, WaitOK(s, V), r.wobj = s.wobj,
           \A t \in V : /\ queue_of(r.tcb[t].tstat) = queue_of(s.tcb[t].tstat)
                        /\ r.tcb[t].p_wobjcb = s.tcb[t].p_wobjcb
                        /\ r.tcb[t].priority = s.tcb[t].priority
    PROVE  WaitOK(r, V)
<1>1. \A w \in WOBJ, f \in QUEUE : WaitsIn(r, V, w, f) = WaitsIn(s, V, w, f)
  BY DEF WaitsIn
<1>2. \A w \in WOBJ, f \in QUEUE : Lists(r.wobj[w][f], WaitsIn(r, V, w, f), TSK)
  BY <1>1 DEF WaitOK
<1>3. ASSUME NEW w \in WOBJ, "TA_TPRI" \in r.wobj[w].wobjatr
      PROVE  Sorted(r, r.wobj[w].wait_queue)
  <2> DEFINE q == s.wobj[w].wait_queue
             S == WaitsIn(s, V, w, "wait_queue")
  <2>1. Lists(q, S, TSK) /\ Sorted(s, q)
    BY <1>3 DEF WaitOK, QUEUE
  <2>2. \A t \in S : r.tcb[t].priority = s.tcb[t].priority
    BY DEF WaitsIn
  <2> HIDE DEF q, S
  <2>3. Sorted(r, q)
    BY <2>1, <2>2, SortedKept
  <2> QED BY <2>3 DEF q
<1> QED BY <1>2, <1>3 DEF WaitOK

(* ... and what is said of it holds again.                                 *)
LEMMA Restate ==
    ASSUME NEW s, NEW E, Inv(s, {}, E), NEW t \in TSK, NEW G, NEW r, TcbEdit(s, r, t, G),
           InPlace(s, r, t), TaskOK(r, t, E), r.tcb[t].lastmtx = s.tcb[t].lastmtx,
           r.tcb[t].tstat = TS_DORMANT => s.tcb[t].tstat = TS_DORMANT,
           r.tcb[t].bpriority = s.tcb[t].bpriority, WaitsLess(s, r, t)
    PROVE  Inv(r, {}, E) /\ Keeps(s, r) /\ r.p_schedtsk = s.p_schedtsk
<1> DEFINE X == {}
<1>1. Inv(s, X, E) /\ t \in TSK \ X
  OBVIOUS
<1> HIDE DEF X
<1>3. \A u \in TSK \ {t} : r.tcb[u] = s.tcb[u]
  BY DEF TcbEdit
<1>2. /\ WellFormed(r) /\ Keeps(s, r) /\ r.wobj = s.wobj /\ r.tmevtb = s.tmevtb
      /\ r.tinib = s.tinib /\ \A f \in KernelField \ {"tcb"} : r[f] = s[f]
  <2>1. SameLock(s, r, t)
    BY DEF SameLock, BlockedOn, InPlace
  <2>2. \A u \in TSK \ {t} : SameLock(s, r, u)
    BY <1>3 DEF SameLock, BlockedOn
  <2>3. KeepsLocks(s, r)
    BY <2>1, <2>2, TcbEditFields DEF KeepsLocks
  <2>4. SameLevel(s, r, t) /\ WaitsLess(s, r, t)
    BY DEF SameLevel, InPlace
  <2>5. \A u \in TSK \ {t} : SameLevel(s, r, u) /\ WaitsLess(s, r, u)
    BY <1>3, SameTcbFit
  <2>6. Keeps(s, r)
    BY <2>3, <2>4, <2>5, KeepsFit
  <2> QED BY <2>6, TcbEditFields
<1>4. Ready(r, X) = Ready(s, X)
  BY <1>3 DEF Ready, InPlace
<1>5. Blocked(r, X) = Blocked(s, X)
  BY <1>3 DEF Blocked, InPlace
<1>6. Sched(r, Ready(r, X))
  <2> DEFINE R == Ready(s, X)
  <2>1. Sched(s, R)
    BY <1>1 DEF Inv
  <2>2. \A u \in R : r.tcb[u].priority = s.tcb[u].priority
    BY <1>3 DEF Ready, InPlace
  <2>3. \A f \in ReadyFields \cup {"p_runtsk", "dspflg"} : r[f] = s[f]
    BY <1>2 DEF ReadyFields, KernelField
  <2> HIDE DEF R
  <2>4. Sched(r, R)
    BY <2>1, <2>2, <2>3, SchedKept
  <2> QED BY <1>4, <2>4 DEF R
<1>7. WaitOK(r, Blocked(r, X))
  <2> DEFINE V == Blocked(s, X)
  <2>1. WaitOK(s, V) /\ V \in SUBSET TSK
    BY <1>1 DEF Inv, Blocked
  <2>2. \A u \in V : /\ queue_of(r.tcb[u].tstat) = queue_of(s.tcb[u].tstat)
                     /\ r.tcb[u].p_wobjcb = s.tcb[u].p_wobjcb
                     /\ r.tcb[u].priority = s.tcb[u].priority
    BY <1>3 DEF Blocked, InPlace
  <2> HIDE DEF V
  <2>3. WaitOK(r, V)
    BY <1>2, <2>1, <2>2, WaitInPlace
  <2> QED BY <1>5, <2>3 DEF V
<1>8. ASSUME NEW u \in TSK \ X
      PROVE  TaskOK(r, u, E)
  <2>1. CASE u = t
    BY <2>1
  <2>2. CASE u # t
    <3>1. TaskOK(s, u, E)
      BY <1>1 DEF Inv
    <3>2. SameTask(s, r, u)
      BY <1>2, <1>3, <2>2 DEF SameTask
    <3> QED BY <1>2, <3>1, <3>2, TaskKept
  <2> QED BY <2>1, <2>2
<1>9. Inv(r, X, E)
  BY <1>2, <1>6, <1>7, <1>8 DEF Inv
<1> QED BY <1>2, <1>9 DEF X, KernelField

(* The first task of a wait queue, or one that has been chosen there, is   *)
(* given something and its wait ends.                                      *)
Handed(s, r, w, f, t) ==
    /\ WellFormed(r)
    /\ Agree(s, r, DataField \cup {"wobj", "tcb"})
    /\ Removed(s, r, w, f, t)
    /\ \A u \in TSK \ {t} : r.tcb[u] = s.tcb[u]
    /\ \A g \in TcbField \ {"wobjdata"} : r.tcb[t][g] = s.tcb[t][g]

LEMMA HandedMore ==
    ASSUME NEW s, NEW r, NEW n, NEW w, NEW f, NEW t, Handed(s, r, w, f, t),
           HasFields(n, KernelField), Agree(r, n, DataField)
    PROVE  Handed(s, n, w, f, t)
<1>1. WellFormed(n) /\ n.tcb = r.tcb /\ n.wobj = r.wobj
  BY DataLike DEF Handed, Like
<1>2. Agree(s, n, DataField \cup {"wobj", "tcb"})
  BY DEF Handed, Agree
<1>3. Removed(s, n, w, f, t)
  BY <1>1 DEF Handed, Removed
<1> QED BY <1>1, <1>2, <1>3 DEF Handed

(* Queue f of object w becomes q, and task t is given v.                   *)
Given(s, r, w, f, q, t, v) ==
    r = [s EXCEPT !.wobj[w][f] = q, !.tcb[t].wobjdata = v]

LEMMA GivenHanded ==
    ASSUME NEW s, NEW E, Inv(s, {}, E), NEW w \in WOBJ, NEW f \in QUEUE,
           NEW t \in TSK, NEW q, NEW v, NEW r, Given(s, r, w, f, q, t, v),
           \/ q = queue_delete(s.wobj[w][f], t)
           \/ s.wobj[w][f] # <<>> /\ t = Head(s.wobj[w][f]) /\ q = Tail(s.wobj[w][f])
    PROVE  Handed(s, r, w, f, t)
<1> DEFINE g == "wobjdata"
           a == [s EXCEPT !.wobj[w][f] = q]
           b == [a EXCEPT !.tcb[t][g] = v]
<1>0. WellFormed(s) /\ g \in TcbField /\ g \notin {"priority", "bpriority", "lastmtx"}
  BY DEF Inv, TcbField
<1>1. r = b
  BY DEF Given
<1> HIDE DEF g
<1>2. QueueSet(s, a, w, f, q)
  BY <1>0, SetQueue
<1> HIDE DEF a
<1>3. WellFormed(a)
  BY <1>2 DEF QueueSet, QueueEdit
<1>4. TcbSet(a, b, t, g, v)
  BY <1>0, <1>3, SetTcb
<1> HIDE DEF b
<1>5. TcbEdit(a, b, t, {"wobjdata"})
  BY <1>4 DEF TcbSet, g
<1>6. a.tcb = s.tcb /\ b.wobj = a.wobj
  BY <1>2, <1>5, TcbEditFields DEF QueueSet, QueueEdit, Agree, KernelField
<1>7. Agree(s, b, DataField \cup {"wobj", "tcb"})
  BY <1>2, <1>5 DEF QueueSet, QueueEdit, TcbEdit, Agree
<1>8. Removed(s, b, w, f, t)
  BY <1>2, <1>6 DEF Removed, QueueSet, QueueEdit
<1>9. /\ \A u \in TSK \ {t} : b.tcb[u] = s.tcb[u]
      /\ \A h \in TcbField \ {"wobjdata"} : b.tcb[t][h] = s.tcb[t][h]
  BY <1>5, <1>6 DEF TcbEdit
<1> QED BY <1>1, <1>5, <1>7, <1>8, <1>9 DEF Handed, TcbEdit

LEMMA HandOver ==
    ASSUME NEW s, NEW E, Inv(s, {}, E), NEW w \in WOBJ, NEW f \in QUEUE,
           NEW t \in WaitsIn(s, Blocked(s, {}), w, f), NEW d, Handed(s, d, w, f, t)
    PROVE  LET r == wait_complete(d, t)
           IN  Inv(r, {}, E) /\ Keeps(s, r) /\ r.wobj = d.wobj
<1> DEFINE X == {}
           Y == X \cup {t}
           r == wait_complete(d, t)
<1>1. Inv(s, X, E) /\ t \in WaitsIn(s, Blocked(s, X), w, f) /\ t \in Y /\ Y \ {t} = {}
  OBVIOUS
<1> HIDE DEF X
<1>2. t \in Blocked(s, X)
  BY <1>1 DEF WaitsIn
<1>3. t \in TSK /\ Waiter(s, t)
  BY <1>1, <1>2, BlockedWaits
<1>4. d.tmevtb = s.tmevtb /\ d.tinib = s.tinib /\ \A f1 \in InvField \ {"wobj"} : d[f1] = s[f1]
  BY DEF Handed, Agree, DataField, KernelField, InvField
<1>5. QueueLike(s, d, X \cup {t})
  <2>1. ASSUME NEW u \in TSK \ (X \cup {t}) PROVE SameTask(s, d, u)
    BY <1>4, <2>1 DEF Handed, SameTask
  <2> QED BY <1>4, <2>1 DEF QueueLike, Handed
<1>6. Removed(s, d, w, f, t)
  BY DEF Handed
<1>7. Inv(d, X \cup {t}, E)
  BY <1>1, <1>5, <1>6, Unwait
<1>8. Inv(d, Y, E)
  BY <1>7 DEF Y
<1>9. Waiter(d, t)
  BY <1>3, <1>4, WaiterKept DEF Handed, TcbField
<1> HIDE DEF Y
<1>10. Inv(r, Y \ {t}, E) /\ Ended(d, r)
  BY <1>1, <1>3, <1>8, <1>9, wait_complete_inv
<1> HIDE DEF r
<1>11. Keeps(s, d)
  <2>1. d.mtx = s.mtx
    BY DEF Handed, Agree, DataField, KernelField
  <2>2. Passes(s, d)
    BY <1>4, AgreePasses DEF Handed, Removed, Frame, DataField
  <2>3. ASSUME NEW u \in TSK
        PROVE  SameLock(s, d, u)
    <3>1. /\ d.tcb[u].lastmtx = s.tcb[u].lastmtx /\ d.tcb[u].tstat = s.tcb[u].tstat
          /\ d.tcb[u].p_wobjcb = s.tcb[u].p_wobjcb
      BY DEF Handed, TcbField
    <3> QED BY <3>1 DEF SameLock, BlockedOn
  <2>4. ASSUME NEW u \in TSK
        PROVE  SameLevel(s, d, u) /\ WaitsLess(s, d, u)
    <3>1. \A g \in TcbField \ {"wobjdata"} : d.tcb[u][g] = s.tcb[u][g]
      BY DEF Handed, TcbField
    <3>2. /\ d.tcb[u].lastmtx = s.tcb[u].lastmtx /\ d.tcb[u].tstat = s.tcb[u].tstat
          /\ d.tcb[u].p_wobjcb = s.tcb[u].p_wobjcb /\ d.tcb[u].priority = s.tcb[u].priority
          /\ d.tcb[u].bpriority = s.tcb[u].bpriority
      BY <3>1 DEF TcbField
    <3> QED BY <3>2 DEF SameLevel, WaitsLess, BlockedOn
  <2>5. KeepsLocks(s, d)
    BY <2>1, <2>2, <2>3 DEF KeepsLocks
  <2> QED BY <2>4, <2>5, KeepsFit
<1>12. Keeps(d, r) /\ r.wobj = d.wobj
  BY <1>10, EndedFacts
<1>13. Keeps(s, r)
  BY <1>11, <1>12, KeepsTrans
<1> QED BY <1>1, <1>10, <1>12, <1>13 DEF r

(* The first task of the queue.                                            *)
LEMMA HandOverHead ==
    ASSUME NEW s, NEW E, Inv(s, {}, E), NEW w \in WOBJ, NEW f \in QUEUE,
           s.wobj[w][f] # <<>>, NEW t, t = Head(s.wobj[w][f]), NEW d, Handed(s, d, w, f, t)
    PROVE  LET r == wait_complete(d, t)
           IN  Inv(r, {}, E) /\ Keeps(s, r)
<1> DEFINE X == {}
<1>1. Inv(s, X, E)
  OBVIOUS
<1> HIDE DEF X
<1>2. Head(s.wobj[w][f]) \in WaitsIn(s, Blocked(s, X), w, f)
  BY <1>1, HeadWaits
<1>3. t \in WaitsIn(s, Blocked(s, {}), w, f)
  BY <1>2 DEF X
<1> QED BY <1>3, HandOver

-----------------------------------------------------------------------------
(* The service calls on tasks.                                             *)

(* The facts about a task that does not wait.                              *)
LEMMA NotWaiting ==
    ASSUME NEW s, NEW E, Inv(s, {}, E), NEW t \in TSK, ~TSTAT_WAITING(s.tcb[t].tstat)
    PROVE  /\ s.tmevtb[t] = "none" /\ t \notin Blocked(s, {})
           /\ s.tcb[t].insvc => s.tcb[t].winfo \in WERCD
           /\ ~TSTAT_WAIT_WOBJ(s.tcb[t].tstat)
           /\ s.tcb[t].raster => TSTAT_RUNNABLE(s.tcb[t].tstat)
<1>1. TaskOK(s, t, E)
  BY DEF Inv
<1>2. s.tcb[t].tstat \in TSTATS /\ WinfoOK(s.tcb[t], s.tmevtb[t])
  BY <1>1 DEF TaskOK
<1>3. ~TSTAT_WAIT_WOBJ(s.tcb[t].tstat)
  BY <1>2, TstatFacts
<1> QED BY <1>1, <1>2, <1>3 DEF WinfoOK, Blocked, TaskOK

(* act_tsk of a dormant task.                                              *)
LEMMA activate_inv ==
    ASSUME NEW s, NEW E, Inv(s, {}, E), NEW t \in TSK, s.tcb[t].tstat = TS_DORMANT,
           Exists(s, t)
    PROVE  LET r == make_active(s, t)
           IN  Inv(r, {}, E) /\ Keeps(s, r)
<1> DEFINE X == {}
           Y == X \cup {t}
           r == make_active(s, t)
<1>1. ~TSTAT_WAITING(s.tcb[t].tstat) /\ ~TSTAT_RUNNABLE(s.tcb[t].tstat)
  BY IdleFacts DEF TS_DORMANT, TS_RUNNABLE
<1>2. Idle(s, t)
  BY <1>1, NotWaiting DEF Idle
<1>3. t \notin Ready(s, X) /\ t \notin Blocked(s, X) /\ Inv(s, X, E)
  BY <1>1, NotWaiting DEF Ready
<1>4. t \in Y /\ Y \ {t} = {}
  OBVIOUS
<1> HIDE DEF X
<1>5. Inv(s, X \cup {t}, E)
  BY <1>3, Unsettle
<1>6. Inv(s, Y, E)
  BY <1>5 DEF Y
<1> HIDE DEF Y
<1>7. Inv(r, Y \ {t}, E) /\ Keeps(s, r)
  BY <1>2, <1>4, <1>6, make_active_inv
<1> QED BY <1>4, <1>7

(* sus_tsk of a runnable task, ...                                         *)
LEMMA suspend_inv ==
    ASSUME NEW s, NEW E, Inv(s, {}, E), NEW t \in TSK, TSTAT_RUNNABLE(s.tcb[t].tstat),
           s.dspflg \/ t # s.p_runtsk, ~s.tcb[t].raster
    PROVE  LET r == make_non_runnable([s EXCEPT !.tcb[t].tstat = TS_SUSPENDED], t)
           IN  Inv(r, {}, E) /\ Keeps(s, r)
<1> DEFINE X == {}
           Y == X \cup {t}
           f == "tstat"
           v == TS_SUSPENDED
           a == [s EXCEPT !.tcb[t][f] = v]
           r == make_non_runnable(a, t)
<1>1. WellFormed(s) /\ f \in TcbField /\ f \notin {"priority", "bpriority", "lastmtx"}
  BY DEF Inv, TcbField
<1>2. /\ t \in Ready(s, X) /\ Inv(s, X, E) /\ TaskOK(s, t, E)
      /\ t \in Y /\ Y \ {t} = {}
  BY DEF Ready, Inv
<1>3. s.tcb[t].tstat \in TSTATS
  BY <1>2 DEF TaskOK
<1>4. Exists(s, t)
  BY <1>2 DEF TaskOK, TS_DORMANT, TSTAT_RUNNABLE
<1>5. s.tmevtb[t] = "none" /\ (s.tcb[t].insvc => s.tcb[t].winfo \in WERCD)
  BY <1>3, TstatFacts, NotWaiting
<1> HIDE DEF f, v, X
<1>6. TcbSet(s, a, t, f, v)
  BY <1>1, SetTcb
<1> HIDE DEF a
<1>7. TcbEdit(s, a, t, {"tstat"}) /\ a.tcb[t].tstat = TS_SUSPENDED
  BY <1>6 DEF TcbSet, f, v
<1>8. Like(s, a, X \cup {t}) /\ Keeps(s, a) /\ a.tinib = s.tinib /\ a.tmevtb = s.tmevtb
  BY <1>7, IdleFacts, TcbEditLike, TcbEditFields, TcbStateKeeps
<1>9. a.tcb[t].priority = s.tcb[t].priority /\ ~a.tcb[t].raster
      /\ (a.tcb[t].insvc => a.tcb[t].winfo \in WERCD)
  BY <1>5, <1>7 DEF TcbEdit, TcbField
<1>10. Inv(r, X \cup {t}, E)
  BY <1>2, <1>8, <1>9, Stop
<1>11. Inv(r, Y, E)
  BY <1>10 DEF Y
<1>12. WellFormed(a)
  BY <1>7 DEF TcbEdit
<1>13. Agree(a, r, ReadyFields)
  BY <1>12, make_non_runnable_effect
<1> HIDE DEF r, Y
<1>14. r.tcb = a.tcb /\ r.tmevtb = a.tmevtb /\ r.tinib = a.tinib /\ r.wobj = a.wobj
  BY <1>13 DEF Agree, KernelField, ReadyFields
<1>15. Keeps(s, r)
  BY <1>8, <1>13, <1>14, AgreeKeeps, KeepsTrans DEF ReadyFields, Frame
<1>16. ~TSTAT_RUNNABLE(r.tcb[t].tstat) /\ ~TSTAT_WAIT_WOBJ(r.tcb[t].tstat)
  BY <1>7, <1>14, IdleFacts DEF TS_SUSPENDED, TS_RUNNABLE
<1>17. TaskOK(r, t, E)
  <2>1. WinfoOK(r.tcb[t], r.tmevtb[t])
    BY <1>5, <1>7, <1>8, <1>9, <1>14, IdleFacts DEF WinfoOK, TMEVT
  <2> QED BY <1>4, <1>7, <1>8, <1>9, <1>14, <2>1, IdleFacts DEF TaskOK, Exists
<1>18. Inv(r, Y \ {t}, E)
  BY <1>2, <1>11, <1>16, <1>17, Settle
<1> QED BY <1>2, <1>15, <1>18 DEF r, a, f, v

(* ... and rsm_tsk of a task that is suspended and does not wait.          *)
LEMMA resume_inv ==
    ASSUME NEW s, NEW E, Inv(s, {}, E), NEW t \in TSK, Exists(s, t),
           TSTAT_SUSPENDED(s.tcb[t].tstat), ~TSTAT_WAITING(s.tcb[t].tstat)
    PROVE  LET r == make_runnable([s EXCEPT !.tcb[t].tstat = TS_RUNNABLE], t)
           IN  Inv(r, {}, E) /\ Keeps(s, r)
<1> DEFINE X == {}
           Y == X \cup {t}
           r == make_active(s, t)
<1>1. TaskOK(s, t, E)
  BY DEF Inv
<1>2. s.tcb[t].tstat \in TSTATS
  BY <1>1 DEF TaskOK
<1>3. ~TSTAT_RUNNABLE(s.tcb[t].tstat)
  BY <1>2, TstatFacts, IdleFacts DEF TS_SUSPENDED, TS_RUNNABLE, TSTAT_SUSPENDED
<1>4. Idle(s, t)
  BY <1>3, NotWaiting DEF Idle
<1>5. t \notin Ready(s, X) /\ t \notin Blocked(s, X) /\ Inv(s, X, E)
  BY <1>3, NotWaiting DEF Ready
<1>6. t \in Y /\ Y \ {t} = {}
  OBVIOUS
<1> HIDE DEF X
<1>7. Inv(s, X \cup {t}, E)
  BY <1>5, Unsettle
<1>8. Inv(s, Y, E)
  BY <1>7 DEF Y
<1> HIDE DEF Y
<1>9. Inv(r, Y \ {t}, E) /\ Keeps(s, r)
  BY <1>4, <1>6, <1>8, make_active_inv
<1> QED BY <1>6, <1>9 DEF make_active

(* sus_tsk and rsm_tsk of a task that waits: it goes on waiting.           *)
LEMMA wait_suspend_inv ==
    ASSUME NEW s, NEW E, Inv(s, {}, E), NEW t \in TSK, TSTAT_WAITING(s.tcb[t].tstat),
           NEW v, v = s.tcb[t].tstat \cup TS_SUSPENDED \/ v = s.tcb[t].tstat \ TS_SUSPENDED
    PROVE  LET r == [s EXCEPT !.tcb[t].tstat = v]
           IN  Inv(r, {}, E) /\ Keeps(s, r) /\ r.p_schedtsk = s.p_schedtsk
<1> DEFINE f == "tstat"
           r == [s EXCEPT !.tcb[t][f] = v]
           b == s.tcb[t]
<1>1. WellFormed(s) /\ f \in TcbField /\ f \notin {"priority", "bpriority", "lastmtx"}
  BY DEF Inv, TcbField
<1> HIDE DEF f
<1>2. TcbSet(s, r, t, f, v)
  BY <1>1, SetTcb
<1> HIDE DEF r
<1>3. TcbEdit(s, r, t, {"tstat"}) /\ r.tcb[t].tstat = v
  BY <1>2 DEF TcbSet, f
<1>4. TaskOK(s, t, E)
  BY DEF Inv
<1>5. b.tstat \in TSTATS
  BY <1>4 DEF TaskOK
<1>6. PICK x \in TS_WAITING_MASK : b.tstat = {x} \/ b.tstat = {x, "SUSPENDED"}
  BY <1>5, TstatFacts
<1>7. v = {x} \/ v = {x, "SUSPENDED"}
  BY <1>6, WaitFacts
<1>8. /\ TSTAT_WAITING(v) /\ ~TSTAT_RUNNABLE(v) /\ ~TSTAT_RUNNABLE(b.tstat) /\ v \in TSTATS
      /\ TSTAT_WAIT_WOBJ(v) <=> TSTAT_WAIT_WOBJ(b.tstat)
      /\ queue_of(v) = queue_of(b.tstat)
      /\ (v \cap RECEIVING # {}) <=> (b.tstat \cap RECEIVING # {})
      /\ "DLY" \in v <=> "DLY" \in b.tstat
      /\ b.tstat # TS_DORMANT /\ v # TS_DORMANT
      /\ "MTX" \in v <=> "MTX" \in b.tstat
  BY <1>6, <1>7, WaitFacts
<1>9. /\ r.tcb[t].priority = b.priority /\ r.tcb[t].p_wobjcb = b.p_wobjcb
      /\ r.tcb[t].raster = b.raster /\ r.tcb[t].winfo = b.winfo /\ r.tcb[t].insvc = b.insvc
      /\ r.tmevtb = s.tmevtb /\ r.tinib = s.tinib /\ r.wobj = s.wobj
  <2>1. \A g \in TcbField \ {"tstat"} : r.tcb[t][g] = s.tcb[t][g]
    BY <1>3 DEF TcbEdit
  <2>2. r.tmevtb = s.tmevtb /\ r.tinib = s.tinib /\ r.wobj = s.wobj
    BY <1>3, TcbEditFields
  <2> QED BY <2>1, <2>2 DEF TcbField
<1>10. InPlace(s, r, t)
  BY <1>3, <1>8, <1>9 DEF InPlace
<1>11. WinfoOK(r.tcb[t], r.tmevtb[t])
  BY <1>3, <1>4, <1>8, <1>9 DEF WinfoOK, TaskOK
<1>12. TaskOK(r, t, E)
  BY <1>3, <1>4, <1>8, <1>9, <1>11 DEF TaskOK, WobjExists, Exists
<1>13. Inv(r, {}, E) /\ Keeps(s, r) /\ r.p_schedtsk = s.p_schedtsk
  <2>1. r.tcb[t].lastmtx = b.lastmtx /\ r.tcb[t].tstat # TS_DORMANT
        /\ r.tcb[t].bpriority = b.bpriority
    BY <1>3, <1>8 DEF TcbEdit, TcbField
  <2>2. WaitsLess(s, r, t)
    BY <1>3, <1>8, <1>9 DEF WaitsLess, BlockedOn
  <2> QED BY <1>3, <1>10, <1>12, <2>1, <2>2, Restate
<1> QED BY <1>13 DEF r, f

(* rel_wai.                                                                *)
LEMMA release_wait_inv ==
    ASSUME NEW s, NEW E, Inv(s, {}, E), NEW t \in TSK, TSTAT_WAITING(s.tcb[t].tstat)
    PROVE  LET d == wait_dequeue_tmevtb(wait_dequeue_wobj(s, t), t)
               r == make_non_wait(set_wercd(d, t, "E_RLWAI"), t)
           IN  Inv(r, {}, E) /\ Keeps(s, r)
<1> DEFINE X == {}
           Y == X \cup {t}
           a == wait_dequeue_wobj(s, t)
           e == "E_RLWAI"
           r == make_non_wait(set_wercd(wait_dequeue_tmevtb(a, t), t, e), t)
<1>1. t \in TSK \ X /\ Inv(s, X, E) /\ e \in WERCD /\ t \in Y /\ Y \ {t} = {}
  BY DEF WERCD
<1> HIDE DEF X, e
<1>2. Inv(a, X \cup {t}, E) /\ Keeps(s, a) /\ Waiter(a, t)
  BY <1>1, wait_dequeue_wobj_inv
<1>3. Inv(a, Y, E)
  BY <1>2 DEF Y
<1> HIDE DEF a, Y
<1>4. Inv(r, Y \ {t}, E) /\ Ended(a, r)
  BY <1>1, <1>2, <1>3, EndWait
<1> HIDE DEF r
<1>5. Keeps(s, r)
  BY <1>2, <1>4, KeepsTrans DEF Ended
<1> QED BY <1>1, <1>4, <1>5 DEF r, a, e

(* wup_tsk of a task that sleeps.                                          *)
LEMMA wakeup_inv ==
    ASSUME NEW s, NEW E, Inv(s, {}, E), NEW t \in TSK, TSTAT_WAIT_SLP(s.tcb[t].tstat)
    PROVE  LET r == wait_complete(s, t)
           IN  Inv(r, {}, E) /\ Keeps(s, r)
<1> DEFINE X == {}
           Y == X \cup {t}
           b == s.tcb[t].tstat
           r == wait_complete(s, t)
<1>1. t \in TSK \ X /\ Inv(s, X, E) /\ t \in Y /\ Y \ {t} = {} /\ TaskOK(s, t, E)
  BY DEF Inv
<1>2. b = {"SLP"} \/ b = {"SLP", "SUSPENDED"}
  BY <1>1 DEF TaskOK, TSTATS, TSTAT_WAIT_SLP, TS_WAITING_SLP, TS_SUSPENDED, TS_DORMANT,
              TS_RUNNABLE
<1>3. "SLP" \in TS_WAITING_MASK /\ "SLP" \notin TS_WOBJ_MASK
  BY DEF TS_WAITING_MASK, TS_WOBJ_MASK, TS_WOBJCB_MASK
<1>4. TSTAT_WAITING(b) /\ ~TSTAT_RUNNABLE(b) /\ ~TSTAT_WAIT_WOBJ(b)
  BY <1>2, <1>3, WaitFacts
<1>5. t \notin Ready(s, X) /\ t \notin Blocked(s, X)
  BY <1>4 DEF Ready, Blocked
<1> HIDE DEF X
<1>6. Inv(s, X \cup {t}, E) /\ Waiter(s, t)
  BY <1>1, <1>4, <1>5, Unsettle, WaitingWaiter
<1>7. Inv(s, Y, E)
  BY <1>6 DEF Y
<1> HIDE DEF Y
<1>8. Inv(r, Y \ {t}, E) /\ Ended(s, r)
  BY <1>1, <1>6, <1>7, wait_complete_inv
<1> QED BY <1>1, <1>8 DEF Ended

-----------------------------------------------------------------------------
(* Scheduling and dispatching.                                             *)

ProcessorField == ReadyFields \cup {"p_runtsk", "dspflg", "enadsp", "ipm"}

LEMMA Switch ==
    ASSUME NEW s, NEW E, Inv(s, {}, E), NEW r, WellFormed(r), Agree(s, r, ProcessorField),
           Sched(r, Ready(s, {})), NEW D, \A t \in TSK : TaskOK(s, t, D)
    PROVE  Inv(r, {}, D)
<1> DEFINE X == {}
<1>1. Inv(s, X, E) /\ Sched(r, Ready(s, X))
  OBVIOUS
<1> HIDE DEF X
<1>2. r.tcb = s.tcb /\ r.tmevtb = s.tmevtb /\ r.wobj = s.wobj /\ r.tinib = s.tinib
  BY DEF Agree, KernelField, ProcessorField, ReadyFields
<1>3. Ready(r, X) = Ready(s, X) /\ Blocked(r, X) = Blocked(s, X)
  BY <1>2 DEF Ready, Blocked
<1>4. WaitOK(r, Blocked(s, X))
  <2> DEFINE V == Blocked(s, X)
  <2>1. V \in SUBSET TSK /\ WaitOK(s, V)
    BY <1>1 DEF Inv, Blocked
  <2> HIDE DEF V
  <2>2. WaitOK(r, V)
    BY <1>2, <2>1, WaitKept
  <2> QED BY <2>2 DEF V
<1>5. ASSUME NEW t \in TSK PROVE TaskOK(r, t, D)
  <2>1. SameTask(s, r, t) /\ TaskOK(s, t, D)
    BY <1>2 DEF SameTask
  <2> QED BY <1>2, <2>1, TaskKept
<1>6. Inv(r, X, D)
  BY <1>1, <1>3, <1>4, <1>5 DEF Inv
<1> QED BY <1>6 DEF X

LEMMA rotate_inv ==
    ASSUME NEW s, NEW E, Inv(s, {}, E), NEW pri \in TPRI
    PROVE  LET r == rotate_ready_queue(s, pri)
           IN  Inv(r, {}, E) /\ Keeps(s, r)
<1> DEFINE R == Ready(s, {})
           r == rotate_ready_queue(s, pri)
<1>1. WellFormed(s) /\ Sched(s, R) /\ \A t \in TSK : TaskOK(s, t, E)
  BY DEF Inv
<1>2. \A t \in R : s.tcb[t].priority \in TPRI
  BY <1>1 DEF WellFormed, TcbOK, Ready
<1> HIDE DEF R
<1>3. WellFormed(r) /\ Sched(r, R) /\ Agree(s, r, ReadyFields)
  BY <1>1, <1>2, rotate_ready_queue_sched
<1> HIDE DEF r
<1>4. Agree(s, r, ProcessorField) /\ r.wobj = s.wobj /\ r.tcb = s.tcb
  BY <1>3 DEF Agree, ProcessorField, ReadyFields, KernelField
<1>5. Inv(r, {}, E)
  BY <1>1, <1>3, <1>4, Switch DEF R
<1>6. Keeps(s, r)
  BY <1>3, <1>4, AgreeKeeps DEF ReadyFields, Frame
<1> QED BY <1>5, <1>6 DEF r


-----------------------------------------------------------------------------
(* Changes of priorities, and requests to terminate.                       *)

LEMMA DeleteSeq ==
    ASSUME NEW T, NEW q \in Seq(T), NEW t
    PROVE  queue_delete(q, t) \in Seq(T)
<1> DEFINE P == {i \in 1 .. Len(q) : q[i] = t}
<1>1. CASE P = {}
  BY <1>1 DEF queue_delete, RemoveFirst
<1>2. CASE P # {}
  <2> DEFINE k == Min(P)
  <2>1. k \in P
    <3>1. P \in SUBSET Nat
      OBVIOUS
    <3> HIDE DEF P
    <3> QED BY <1>2, <3>1, LeastOf
  <2>2. SelectInSeq(q, LAMBDA v : v = t) = k
    BY <1>2 DEF SelectInSeq
  <2>3. queue_delete(q, t) = SubSeq(q, 1, k - 1) \o SubSeq(q, k + 1, Len(q))
    BY <2>1, <2>2 DEF queue_delete, RemoveFirst, RemoveAt
  <2> HIDE DEF k
  <2>4. k \in 1 .. Len(q) /\ Len(q) \in Nat
    BY <2>1
  <2>5. SubSeq(q, 1, k - 1) \in Seq(T) /\ SubSeq(q, k + 1, Len(q)) \in Seq(T)
    BY <2>4
  <2> QED BY <2>3, <2>5, ConcatProperties
<1> QED BY <1>1, <1>2

(* chg_pri: the base priority changes, and with it the current one if the  *)
(* task holds no ceiling.                                                  *)
LEMMA FitRebased ==
    ASSUME NEW s, NEW E, Inv(s, {}, E), NEW t \in TSK, NEW p \in TPRI, NEW r,
           SameCeilings(s, r), WaitsLess(s, r, t), mutex_check_ceilpri(s, t, p), Fit(s, t),
           r.tcb[t].lastmtx = s.tcb[t].lastmtx, r.tcb[t].bpriority = p,
           r.tcb[t].priority = IF \E m \in MTX : HoldsCeiling(s, t, m)
                               THEN s.tcb[t].priority ELSE p
    PROVE  Fit(r, t)
<1> DEFINE b == s.tcb[t]
<1>1. LevelRange(s, t) /\ p \in Nat
  BY LevelsRange, TaskOpsAssumption DEF Inv, TPRI
<1>2. \A m \in MTX : /\ HoldsCeiling(r, t, m) <=> HoldsCeiling(s, t, m)
                     /\ r.mtx[m].ceilpri = s.mtx[m].ceilpri
  BY CeilingsHold DEF HoldsCeiling, SameCeilings
<1>3. \A m \in MTX : HoldsCeiling(s, t, m) => s.mtx[m].ceilpri <= p
  BY <1>1 DEF mutex_check_ceilpri, HoldsCeiling, held_mtx, LevelRange
<1>4. ASSUME NEW m \in MTX, BlockedOn(r, t, m)
      PROVE  Permits(r, p, m) /\ "MTX" \in r.tcb[t].tstat
  <2>1. BlockedOn(s, t, m) /\ "MTX" \in b.tstat /\ "MTX" \in r.tcb[t].tstat
    BY <1>4 DEF WaitsLess, Fit
  <2>2. b.tstat \in TSTATS
    BY DEF Inv, TaskOK
  <2>3. PICK x \in TS_WAITING_MASK : b.tstat = {x} \/ b.tstat = {x, "SUSPENDED"}
    BY <2>1, <2>2 DEF TSTATS, TS_DORMANT, TS_RUNNABLE, TS_SUSPENDED
  <2>4. x = "MTX" /\ b.tstat \ TS_SUSPENDED = {x}
    BY <2>1, <2>3, WaitFacts
  <2>5. TSTAT_WAIT_MTX(b.tstat) /\ b.p_wobjcb = m
    BY <2>1, <2>4 DEF TSTAT_WAIT_MTX, TS_WAITING_MTX, BlockedOn
  <2>6. Permits(s, p, m)
    BY <2>5 DEF mutex_check_ceilpri, Permits
  <2> QED BY <2>1, <2>6, CeilingsHold
<1>5. "MTX" \in r.tcb[t].tstat => r.tcb[t].p_wobjcb \in MTX
  BY DEF WaitsLess, Fit
<1>6. CASE \E m \in MTX : HoldsCeiling(s, t, m)
  <2>1. PICK m \in MTX : HoldsCeiling(s, t, m)
    BY <1>6
  <2>2. r.tcb[t].priority = b.priority
    BY <1>6
  <2>3. b.priority <= s.mtx[m].ceilpri /\ s.mtx[m].ceilpri <= b.bpriority
    BY <2>1 DEF Fit
  <2>4. r.tcb[t].priority <= p
    BY <1>1, <1>3, <2>1, <2>2, <2>3 DEF LevelRange
  <2>5. \E n \in MTX : HoldsCeiling(s, t, n) /\ s.mtx[n].ceilpri = b.priority
    <3>1. CASE b.priority = b.bpriority
      <4>1. s.mtx[m].ceilpri = b.priority
        BY <1>1, <2>3, <3>1 DEF LevelRange
      <4> QED BY <2>1, <4>1
    <3> QED BY <3>1 DEF Fit
  <2>6. \A n \in MTX : HoldsCeiling(s, t, n) => b.priority <= s.mtx[n].ceilpri
    BY DEF Fit
  <2> QED BY <1>2, <1>3, <1>4, <1>5, <2>2, <2>4, <2>5, <2>6 DEF Fit
<1>7. CASE ~(\E m \in MTX : HoldsCeiling(s, t, m))
  BY <1>1, <1>2, <1>4, <1>5, <1>7 DEF Fit
<1> QED BY <1>6, <1>7

LEMMA base_priority_inv ==
    ASSUME NEW s, NEW E, Inv(s, {}, E), NEW t \in TSK, NEW p \in TPRI
    PROVE  LET r == [s EXCEPT !.tcb[t].bpriority = p]
               n == change_priority(r, t, p, FALSE)
           IN  /\ Inv(r, {}, E) /\ KeepsLocks(s, r) /\ r.p_schedtsk = s.p_schedtsk
               /\ Inv(n, {}, E) /\ KeepsLocks(s, n)
               /\ mutex_check_ceilpri(s, t, p) =>
                     CeilingsKept(s, IF mutex_scan_ceilmtx(r, t) THEN r ELSE n, {})
<1> DEFINE f == "bpriority"
           X == {}
           r == [s EXCEPT !.tcb[t][f] = p]
           mtxmode == FALSE
           n == change_priority(r, t, p, mtxmode)
           c == IF mutex_scan_ceilmtx(r, t) THEN r ELSE n
<1>1. /\ WellFormed(s) /\ f \in TcbField /\ f # "lastmtx" /\ {f} \cap TaskField = {}
      /\ "lastmtx" \notin {f}
  BY DEF Inv, TcbField, TaskField
<1> HIDE DEF f
<1>2. TcbSet(s, r, t, f, p)
  BY <1>1, SetTcb
<1> HIDE DEF r
<1>3. TcbEdit(s, r, t, {f}) /\ r.tcb[t][f] = p
  BY <1>2 DEF TcbSet
<1>4. Inv(r, {}, E) /\ KeepsLocks(s, r) /\ r.p_schedtsk = s.p_schedtsk
  BY <1>1, <1>3, PlainEdit
<1>5. Inv(r, X, E) /\ t \in TSK \ X
  BY <1>4
<1> HIDE DEF X, mtxmode
<1>6. /\ Inv(n, X, E) /\ KeepsLocks(r, n) /\ NewPriority(r, n, t)
      /\ n.tcb[t].priority = p
  BY <1>5, change_priority_inv
<1> HIDE DEF n
<1>7. KeepsLocks(s, n)
  BY <1>4, <1>6, LocksTrans
<1>8. SameCeilings(s, r) /\ SameCeilings(s, n)
  BY <1>4, <1>7, PassesCeilings DEF KeepsLocks
<1>9. /\ \A g \in TcbField \ {"bpriority"} : r.tcb[t][g] = s.tcb[t][g]
      /\ r.tcb[t].bpriority = p /\ \A u \in TSK \ {t} : r.tcb[u] = s.tcb[u]
  BY <1>3 DEF TcbEdit, f
<1>10. /\ \A g \in TcbField \ {"bpriority", "priority"} : n.tcb[t][g] = s.tcb[t][g]
       /\ n.tcb[t].bpriority = p
       /\ \A u \in TSK \ {t}, g \in TcbField : n.tcb[u][g] = s.tcb[u][g]
  BY <1>6, <1>9 DEF NewPriority, TcbField
<1>11. ASSUME NEW u \in TSK \ {t}
       PROVE  (Fit(s, u) => Fit(r, u)) /\ (Fit(s, u) => Fit(n, u))
  <2>1. Fit(s, u) => Fit(r, u)
    BY <1>8, <1>9, SameTcbFit, FitSame
  <2>2. SameLevel(s, n, u) /\ WaitsLess(s, n, u)
    BY <1>10 DEF SameLevel, WaitsLess, BlockedOn, TcbField
  <2> QED BY <1>8, <2>1, <2>2, FitSame
<1>12. mutex_scan_ceilmtx(r, t) <=> \E m \in MTX : HoldsCeiling(s, t, m)
  <2>1. r.tcb[t].lastmtx = s.tcb[t].lastmtx
    BY <1>9 DEF TcbField
  <2>2. ToSet(s.tcb[t].lastmtx) \subseteq MTX
    BY <1>1, LevelsRange DEF LevelRange, ToSet
  <2> QED BY <1>8, <2>1, <2>2, CeilingsHold DEF mutex_scan_ceilmtx, held_mtx, HoldsCeiling
<1>13. ASSUME mutex_check_ceilpri(s, t, p), Fit(s, t)
       PROVE  Fit(c, t)
  <2>1. WaitsLess(s, r, t) /\ WaitsLess(s, n, t)
    BY <1>9, <1>10 DEF WaitsLess, BlockedOn, TcbField
  <2>2. /\ r.tcb[t].lastmtx = s.tcb[t].lastmtx /\ n.tcb[t].lastmtx = s.tcb[t].lastmtx
        /\ r.tcb[t].priority = s.tcb[t].priority
    BY <1>9, <1>10 DEF TcbField
  <2>3. CASE mutex_scan_ceilmtx(r, t)
    <3>1. Fit(r, t)
      BY <1>8, <1>9, <1>12, <1>13, <2>1, <2>2, <2>3, FitRebased
    <3> QED BY <2>3, <3>1
  <2>4. CASE ~mutex_scan_ceilmtx(r, t)
    <3>1. Fit(n, t)
      BY <1>6, <1>8, <1>10, <1>12, <1>13, <2>1, <2>2, <2>4, FitRebased
    <3> QED BY <2>4, <3>1
  <2> QED BY <2>3, <2>4
<1>14. mutex_check_ceilpri(s, t, p) => CeilingsKept(s, c, {})
  BY <1>8, <1>11, <1>13 DEF CeilingsKept
<1> QED BY <1>4, <1>6, <1>7, <1>14 DEF n, r, f, X, mtxmode

(* ras_ter of a task that does not allow termination and is not runnable:  *)
(* whatever it waits for, it becomes runnable.                             *)
LEMMA raster_inv ==
    ASSUME NEW s, NEW E, Inv(s, {}, E), NEW t \in TSK, Exists(s, t),
           s.tcb[t].tstat # TS_DORMANT, ~TSTAT_RUNNABLE(s.tcb[t].tstat), ~s.tcb[t].enater
    PROVE  LET request  == [s EXCEPT !.tcb[t].raster = TRUE]
               released == set_wercd(
                             wait_dequeue_tmevtb(wait_dequeue_wobj(request, t), t),
                             t, "E_RASTER")
               runnable == [(IF TSTAT_WAITING(s.tcb[t].tstat) THEN released ELSE request)
                               EXCEPT !.tcb[t].tstat = TS_RUNNABLE]
               r == make_runnable(runnable, t)
           IN  Inv(r, {}, E) /\ Keeps(s, r)
<1> DEFINE X == {t}
           ra == "raster"
           wi == "winfo"
           ts == "tstat"
           stop(u) == wait_dequeue_tmevtb(wait_dequeue_wobj(u, t), t)
           a == IF TSTAT_WAITING(s.tcb[t].tstat) THEN stop(s) ELSE s
           b == [a EXCEPT !.tcb[t][ra] = TRUE]
           c == IF TSTAT_WAITING(s.tcb[t].tstat) THEN set_wercd(b, t, "E_RASTER") ELSE b
           d == [c EXCEPT !.tcb[t][ts] = TS_RUNNABLE]
           r == make_runnable(d, t)
<1>1. Inv(a, X, E) /\ Keeps(s, a) /\ a.tcb = s.tcb /\ a.tmevtb[t] = "none"
  BY StopTask
<1>2. t \in X /\ X \ {t} = {}
  OBVIOUS
<1>3. WellFormed(a) /\ {ra, wi, ts} \subseteq TcbField
      /\ {ra, wi, ts} \cap {"priority", "bpriority", "lastmtx"} = {}
      /\ {ra} \cap {"lastmtx", "tstat", "p_wobjcb", "priority", "bpriority"} = {}
  BY <1>1 DEF Inv, TcbField
<1> HIDE DEF a, X, ra, ts
<1>4. TcbSet(a, b, t, ra, TRUE)
  BY <1>3, SetTcb
<1> HIDE DEF b
<1>5. Like(a, b, X) /\ Keeps(a, b) /\ b.tmevtb = a.tmevtb
  BY <1>2, <1>3, <1>4, TcbEditLike, TcbEditFields, TcbEditKeeps DEF TcbSet
<1>6. Inv(b, X, E)
  BY <1>1, <1>5, Change
<1>7. /\ Inv(c, X, E) /\ Keeps(b, c) /\ TcbEdit(b, c, t, {wi}) /\ c.tmevtb = b.tmevtb
      /\ TSTAT_WAITING(s.tcb[t].tstat) => c.tcb[t].winfo = "E_RASTER"
      /\ ~TSTAT_WAITING(s.tcb[t].tstat) => c = b
  <2>1. CASE TSTAT_WAITING(s.tcb[t].tstat)
    BY <1>2, <1>6, <2>1, set_wercd_inv
  <2>2. CASE ~TSTAT_WAITING(s.tcb[t].tstat)
    BY <1>6, <2>2, KeepsSelf DEF Inv, TcbEdit, Agree
  <2> QED BY <2>1, <2>2
<1> HIDE DEF c
<1>8. WellFormed(c)
  BY <1>7 DEF Inv
<1>9. TcbSet(c, d, t, ts, TS_RUNNABLE)
  BY <1>3, <1>8, SetTcb
<1> HIDE DEF d
<1>10. Like(c, d, X) /\ Keeps(c, d) /\ d.tmevtb = c.tmevtb
  <2>1. TcbEdit(c, d, t, {"tstat"}) /\ d.tcb[t].tstat = TS_RUNNABLE
    BY <1>9 DEF TcbSet, ts
  <2>2. /\ d.tcb[t].tstat # TS_DORMANT /\ ~TSTAT_WAIT_WOBJ(d.tcb[t].tstat)
        /\ "MTX" \notin d.tcb[t].tstat
    BY <2>1, IdleFacts DEF TS_RUNNABLE
  <2> QED BY <1>2, <2>1, <2>2, TcbEditLike, TcbEditFields, TcbStateKeeps
<1>11. Inv(d, X, E)
  BY <1>7, <1>10, Change
<1>12. Keeps(s, d)
  BY <1>1, <1>5, <1>7, <1>10, KeepsTrans
<1>13. /\ d.tcb[t].tstat = TS_RUNNABLE
       /\ d.tcb[t].enater = s.tcb[t].enater /\ d.tcb[t].actque = s.tcb[t].actque
       /\ d.tcb[t].insvc = s.tcb[t].insvc
       /\ TSTAT_WAITING(s.tcb[t].tstat) => d.tcb[t].winfo = "E_RASTER"
       /\ ~TSTAT_WAITING(s.tcb[t].tstat) => d.tcb[t].winfo = s.tcb[t].winfo
       /\ d.tmevtb[t] = "none"
  BY <1>1, <1>4, <1>5, <1>7, <1>9, <1>10 DEF TcbSet, TcbEdit, TcbField, ra, wi, ts
<1>14. Exists(d, t)
  BY <1>12, KeepsFields DEF Exists
<1>15. TaskOK(d, t, E)
  <2>1. d.tcb[t].insvc => d.tcb[t].winfo \in WERCD
    <3>1. ~TSTAT_WAITING(s.tcb[t].tstat) /\ s.tcb[t].insvc => s.tcb[t].winfo \in WERCD
      BY NotWaiting
    <3>2. "E_RASTER" \in WERCD
      BY DEF WERCD
    <3> QED BY <1>13, <3>1, <3>2
  <2>2. WinfoOK(d.tcb[t], d.tmevtb[t])
    BY <1>13, <2>1, IdleFacts DEF WinfoOK, TMEVT
  <2> QED BY <1>13, <1>14, <2>2, IdleFacts DEF TaskOK
<1>16. Inv(r, X \ {t}, E)
  BY <1>2, <1>11, <1>13, <1>15, Start
<1>17. Agree(d, r, ReadyFields)
  BY <1>11, make_runnable_effect DEF Inv
<1> HIDE DEF r
<1>18. Keeps(s, r)
  <2>1. r.wobj = d.wobj /\ r.tcb = d.tcb
    BY <1>17 DEF Agree, KernelField, ReadyFields
  <2>2. Keeps(d, r)
    BY <1>17, <2>1, AgreeKeeps DEF ReadyFields, Frame
  <2> QED BY <1>12, <2>2, KeepsTrans
<1>19. stop([s EXCEPT !.tcb[t].raster = TRUE]) = [stop(s) EXCEPT !.tcb[t].raster = TRUE]
  <2> DEFINE q == [s EXCEPT !.tcb[t].raster = TRUE]
             e == wait_dequeue_wobj(s, t)
  <2>1. WellFormed(s)
    BY DEF Inv
  <2>2. s = [f \in KernelField |-> s[f]] /\ s.tcb = [u \in TSK |-> s.tcb[u]]
        /\ s.tcb[t] = [f \in TcbField |-> s.tcb[t][f]]
    BY <2>1 DEF WellFormed, HasFields, TcbOK
  <2>3. /\ q.tcb[t].tstat = s.tcb[t].tstat /\ q.tcb[t].p_wobjcb = s.tcb[t].p_wobjcb
        /\ q.tcb[t].winfo = s.tcb[t].winfo /\ q.wobj = s.wobj
    BY <2>2 DEF KernelField, TcbField
  <2>4. wait_dequeue_wobj(q, t) = [e EXCEPT !.tcb[t].raster = TRUE]
    <3> DEFINE w == s.tcb[t].p_wobjcb
               f == queue_of(s.tcb[t].tstat)
               left == queue_delete(s.wobj[w][f], t)
    <3>1. CASE TSTAT_WAIT_WOBJ(s.tcb[t].tstat)
      <4>1. e = [s EXCEPT !.wobj[w][f] = left]
        BY <3>1 DEF wait_dequeue_wobj
      <4>2. wait_dequeue_wobj(q, t) = [q EXCEPT !.wobj[w][f] = left]
        <5> HIDE DEF q
        <5> QED BY <2>3, <3>1 DEF wait_dequeue_wobj
      <4>3. [q EXCEPT !.wobj[w][f] = left] =
               [[s EXCEPT !.wobj[w][f] = left] EXCEPT !.tcb[t].raster = TRUE]
        <5> HIDE DEF w, f, left
        <5> QED BY <2>2 DEF KernelField
      <4> HIDE DEF w, f, left, q
      <4> QED BY <4>1, <4>2, <4>3
    <3>2. CASE ~TSTAT_WAIT_WOBJ(s.tcb[t].tstat)
      <4>1. e = s
        BY <3>2 DEF wait_dequeue_wobj
      <4>2. wait_dequeue_wobj(q, t) = q
        <5> HIDE DEF q
        <5> QED BY <2>3, <3>2 DEF wait_dequeue_wobj
      <4> QED BY <4>1, <4>2
    <3> QED BY <3>1, <3>2
  <2>5. e.tcb = s.tcb /\ e = [f \in KernelField |-> e[f]]
    BY <2>2 DEF wait_dequeue_wobj, KernelField
  <2> HIDE DEF e, q
  <2>6. [e EXCEPT !.tcb[t].raster = TRUE].tcb[t].winfo = e.tcb[t].winfo
    BY <2>2, <2>5 DEF KernelField, TcbField
  <2>7. wait_dequeue_tmevtb([e EXCEPT !.tcb[t].raster = TRUE], t)
           = [wait_dequeue_tmevtb(e, t) EXCEPT !.tcb[t].raster = TRUE]
    BY <2>5, <2>6 DEF wait_dequeue_tmevtb, KernelField
  <2> QED BY <2>4, <2>7 DEF e, q
<1> QED BY <1>2, <1>16, <1>18, <1>19 DEF r, d, c, b, a, ra, ts

=============================================================================
