-------------------------- MODULE TimeEventProofs --------------------------
(***************************************************************************)
(* Proofs about the time event manager, for words, timers, adjustments and *)
(* sets of time events of any size, and about the cyclic and alarm         *)
(* notifications on top of it.                                             *)
(*                                                                         *)
(* The operators of TimeEvent act on records of its data, so the lemmas    *)
(* come in the same layers: what update_current_evttim, advance_evttim and *)
(* set_hrt_event do to a record, then one lemma per action of Next, and at *)
(* the end the theorems.  They do so twice.  The first inductive invariant *)
(* is the conjunction IInv of three state properties: the types need the   *)
(* counter to be read in time for the modular differences to be small, the *)
(* bound on how far the event time lags needs the types, and the timer is  *)
(* set by steps of both.  The second, EInv, is about the heap and says     *)
(* what IInv cannot: that a registered time is ahead by the time really    *)
(* left (Timed), how late an event can be (Punctual) and that the timer is *)
(* set in time (Covering).  Words that stand for the same time are         *)
(* Congruent, and InWindowOK relates that to what the code compares.       *)
(*                                                                         *)
(* That notifications and time events agree does not depend on when time   *)
(* events occur, so that part needs only the types of the data and how the *)
(* heap gains and loses events.  The two kinds of notification obey the    *)
(* same invariant (Agrees), about four sets: those that exist, those that  *)
(* run, the free list and the heap; one lemma for each way in which calls  *)
(* change them precedes the lemmas on the calls.                           *)
(***************************************************************************)
EXTENDS TimeEventProperties, NotificationProperties, FiniteSetTheorems,
        WellFoundedInduction, TLAPS

-----------------------------------------------------------------------------
(* What the operations on the heap of time events do to it: they move time *)
(* events about, so that it stays a sequence of time events, each of them  *)
(* once and none before its parent, gaining or losing the one event they   *)
(* insert or take out, and they change nothing else.  The up and down      *)
(* moves are the least and greatest node of a set of nodes that stop the   *)
(* search; that they exist and lie where they should is what the lemmas on *)
(* Min and Max are for.                                                    *)

(* The values of an event time, and the records of the module's data.      *)
Word == 0 .. EVTTIM_MOD - 1

State == [heap             : Seq(EVT),
          evttim           : [EVT -> Word],
          current_evttim   : Word,
          boundary_evttim  : Word,
          current_hrtcnt   : 0 .. TCYC_HRTCNT - 1,
          monotonic_evttim : Word,
          systim_offset    : 0 .. SYSTIM_MOD - 1,
          in_signal_time   : BOOLEAN,
          hrt_event        : STOPPED .. HRTCNT_BOUND]

(* The components of a record of the module's data.                        *)
LEMMA StateType ==
    ASSUME NEW s \in State
    PROVE  /\ s.current_evttim \in Word /\ s.boundary_evttim \in Word
           /\ s.monotonic_evttim \in Word /\ s.current_hrtcnt \in 0 .. TCYC_HRTCNT - 1
           /\ s.systim_offset \in 0 .. SYSTIM_MOD - 1
           /\ s.evttim \in [EVT -> Word] /\ s.heap \in Seq(EVT)
           /\ s.in_signal_time \in BOOLEAN /\ s.hrt_event \in STOPPED .. HRTCNT_BOUND
  BY DEF State

-----------------------------------------------------------------------------
(* A set of natural numbers has a least element, which Min chooses.        *)
LEMMA LeastNat ==
    ASSUME NEW S \in SUBSET Nat, S # {}
    PROVE  Min(S) \in S /\ \A y \in S : Min(S) <= y
<1>1. PICK x \in S : \A y \in S : ~ (<<y, x>> \in OpToRel(<, Nat))
  BY WFMin, NatLessThanWellFounded
<1>2. \A y \in S : ~ (y < x)
  BY <1>1 DEF OpToRel
<1>3. \A y \in S : x <= y
  BY <1>2
<1> QED BY <1>3 DEF Min

(* A bounded one has a greatest element, which Max chooses.                *)
LEMMA GreatestNat ==
    ASSUME NEW n \in Nat, NEW S \in SUBSET (0 .. n), S # {}
    PROVE  Max(S) \in S /\ \A y \in S : y <= Max(S)
<1> DEFINE T == {n - x : x \in S}
<1>1. T \in SUBSET Nat /\ T # {}
  <2>1. \A x \in S : n - x \in Nat
    OBVIOUS
  <2> QED BY <2>1
<1>2. Min(T) \in T /\ \A y \in T : Min(T) <= y
  BY <1>1, LeastNat
<1>3. PICK x \in S : Min(T) = n - x
  BY <1>2
<1>4. \A y \in S : y <= x
  <2> SUFFICES ASSUME NEW y \in S PROVE y <= x
    OBVIOUS
  <2>1. n - y \in T
    OBVIOUS
  <2>2. n - x <= n - y
    BY <1>2, <1>3, <2>1
  <2> QED BY <2>2
<1> QED BY <1>4 DEF Max

(* The assumptions on the constants, as the proofs use them.               *)
LEMMA ConstantsType ==
    /\ EVTTIM_MOD \in Nat \ {0}
    /\ SYSTIM_MOD \in Nat \ {0}
    /\ TCYC_HRTCNT \in 1 .. EVTTIM_MOD
    /\ HRTCNT_BOUND \in Nat \ {0}
    /\ TSTEP_HRTCNT \in Nat \ {0}
    /\ BOUNDARY_MARGIN \in Nat
    /\ TMAX_ADJTIM \in Nat
    /\ LATENCY \in Nat
    /\ EVTTIM_MOD <= SYSTIM_MOD
    /\ HRTCNT_BOUND + LATENCY < TCYC_HRTCNT
  BY TimeEventAssumption

(* The remainder lies in its range,                                        *)
LEMMA ModRange ==
    ASSUME NEW a \in Int, NEW M \in Nat \ {0}
    PROVE  a % M \in 0 .. M - 1
  OBVIOUS

(* is the only number of this range that differs by a multiple of M,       *)
LEMMA ModUnique ==
    ASSUME NEW a \in Int, NEW M \in Nat \ {0}, NEW q \in Int, NEW r \in 0 .. M - 1,
           a = q * M + r
    PROVE  a % M = r
  OBVIOUS

(* and does differ by a multiple of M.                                     *)
LEMMA ModQuotient ==
    ASSUME NEW a \in Int, NEW M \in Nat \ {0}
    PROVE  \E q \in Int : a = q * M + (a % M)
<1>1. a \div M \in Int /\ a = (a \div M) * M + (a % M)
  OBVIOUS
<1> QED BY <1>1

(* The arithmetic of event times returns words (EVTTIM is unsigned).       *)
LEMMA WordType ==
    ASSUME NEW a \in Int, NEW b \in Int
    PROVE  EVTTIM_PLUS(a, b) \in Word /\ EVTTIM_MINUS(a, b) \in Word
  BY ConstantsType, ModRange DEF EVTTIM_PLUS, EVTTIM_MINUS, Word

-----------------------------------------------------------------------------
(* The heap holds time events, whatever moves through it.                  *)

(* tmevt_up fills every node it moves with a time event.                   *)
LEMMA UpType ==
    ASSUME NEW s \in State, NEW n \in 1 .. Len(s.heap), NEW e \in EVT
    PROVE  nodes_up(s, n, e) \in [1 .. Len(s.heap) -> EVT]
<1> DEFINE found == up_node(s, n, e)
           S == {i \in ancestors(n) :
                   i = 1 \/ EVTTIM_LE(s, node_time(s, PARENT(i)), s.evttim[e])}
<1>1. s.heap \in Seq(EVT) /\ DOMAIN s.heap = 1 .. Len(s.heap) /\ Len(s.heap) \in Nat
  BY DEF State
<1>2. ASSUME NEW i \in 1 .. Len(s.heap), i # found, i \in ancestors(n), i > found
      PROVE  s.heap[PARENT(i)] \in EVT
  <2>1. CASE i = 1
    <3>1. 1 \in S /\ S \in SUBSET (0 .. n) /\ n \in Nat
      BY <1>1, <1>2, <2>1 DEF ancestors
    <3>2. found = Max(S)
      BY DEF up_node
    <3> HIDE DEF S, found
    <3>3. Max(S) \in S /\ \A y \in S : y <= Max(S)
      BY <3>1, GreatestNat
    <3>4. Max(S) \in 0 .. n /\ 1 <= Max(S)
      BY <3>1, <3>3
    <3> QED BY <3>2, <3>4, <2>1, <1>2
  <2>2. CASE i > 1
    <3>1. PARENT(i) \in 1 .. Len(s.heap)
      BY <2>2 DEF PARENT
    <3> QED BY <3>1, <1>1
  <2> QED BY <2>1, <2>2
<1> HIDE DEF found
<1> QED BY <1>1, <1>2 DEF nodes_up, found

(* tmevt_down fills every node it moves with a time event.                 *)
LEMMA DownType ==
    ASSUME NEW s \in State, NEW n \in 1 .. Len(s.heap), NEW e \in EVT
    PROVE  nodes_down(s, n, e) \in [1 .. Len(s.heap) -> EVT]
<1> DEFINE found == down_node(s, n, e)
           stops(i) == \/ LCHILD(i) > Len(s.heap)
                       \/ EVTTIM_LE(s, s.evttim[e], node_time(s, first_child(s, i)))
           S == {i \in descent(s, n) : stops(i)}
<1>1. s.heap \in Seq(EVT) /\ DOMAIN s.heap = 1 .. Len(s.heap) /\ Len(s.heap) \in Nat
  BY DEF State
<1>2. ASSUME NEW i \in 1 .. Len(s.heap), i \in descent(s, n), i < found
      PROVE  s.heap[first_child(s, i)] \in EVT
  <2>1. S \in SUBSET Nat
    BY <1>1 DEF descent
  <2>2. ~ stops(i)
    <3> SUFFICES ASSUME stops(i) PROVE FALSE
      OBVIOUS
    <3>1. i \in S
      BY <1>2
    <3>2. Min(S) <= i
      <4> HIDE DEF S
      <4> QED BY <2>1, <3>1, LeastNat
    <3>3. Min(S) \in Nat
      <4> HIDE DEF S
      <4> QED BY <2>1, <3>1, LeastNat
    <3> HIDE DEF S
    <3>4. found = Min(S)
      BY DEF down_node, S
    <3> QED BY <3>2, <3>3, <3>4, <1>2
  <2>3. LCHILD(i) <= Len(s.heap)
    BY <2>2, <1>1 DEF LCHILD
  <2>4. first_child(s, i) \in 1 .. Len(s.heap)
    BY <2>3, <1>1 DEF LCHILD, first_child
  <2> QED BY <2>4, <1>1
<1> HIDE DEF found
<1> QED BY <1>1, <1>2 DEF nodes_down, found

(* r differs from s in the heap only.                                      *)
SameTimes(r, s) ==
    /\ r.evttim = s.evttim
    /\ r.current_evttim = s.current_evttim
    /\ r.boundary_evttim = s.boundary_evttim
    /\ r.current_hrtcnt = s.current_hrtcnt
    /\ r.monotonic_evttim = s.monotonic_evttim
    /\ r.systim_offset = s.systim_offset
    /\ r.in_signal_time = s.in_signal_time
    /\ r.hrt_event = s.hrt_event

(* Replacing the heap changes nothing else.                                *)
LEMMA SetHeap ==
    ASSUME NEW s \in State, NEW h \in Seq(EVT)
    PROVE  /\ [s EXCEPT !.heap = h] \in State
           /\ SameTimes([s EXCEPT !.heap = h], s)
           /\ [s EXCEPT !.heap = h].heap = h
  BY DEF State, SameTimes

(* tmevtb_insert keeps the heap a sequence of time events.                 *)
LEMMA InsertType ==
    ASSUME NEW s \in State, NEW e \in EVT
    PROVE  /\ tmevtb_insert(s, e) \in State
           /\ SameTimes(tmevtb_insert(s, e), s)
<1> DEFINE r == [s EXCEPT !.heap = Append(@, e)]
           n == Len(s.heap) + 1
<1>1. Append(s.heap, e) \in Seq(EVT) /\ Len(Append(s.heap, e)) = n /\ n \in Nat \ {0}
  BY DEF State
<1>2. r \in State /\ SameTimes(r, s) /\ Len(r.heap) = n
  BY <1>1, SetHeap
<1>3. n \in 1 .. Len(r.heap)
  BY <1>1, <1>2
<1> HIDE DEF r, n
<1>4. nodes_up(r, n, e) \in [1 .. Len(r.heap) -> EVT]
  BY <1>2, <1>3, UpType
<1>5. nodes_up(r, n, e) \in Seq(EVT)
  <2>1. Len(r.heap) \in Nat
    BY <1>1, <1>2
  <2> QED BY <2>1, <1>4
<1>6. tmevt_up(r, n, e) \in State /\ SameTimes(tmevt_up(r, n, e), r)
  BY <1>2, <1>5, SetHeap DEF tmevt_up
<1>7. tmevtb_insert(s, e) = tmevt_up(r, n, e)
  BY DEF tmevtb_insert, r, n
<1> QED BY <1>2, <1>6, <1>7 DEF SameTimes

(* Deletion puts the last event in place of the one that goes.             *)
LEMMA FrontType ==
    ASSUME NEW s \in State, s.heap # <<>>
    PROVE  /\ [s EXCEPT !.heap = Front(@)] \in State
           /\ SameTimes([s EXCEPT !.heap = Front(@)], s)
           /\ Len([s EXCEPT !.heap = Front(@)].heap) = Len(s.heap) - 1
           /\ Last(s.heap) \in EVT
<1>1. s.heap \in Seq(EVT) /\ Len(s.heap) \in Nat \ {0}
  BY DEF State
<1>2. Front(s.heap) \in Seq(EVT) /\ Len(Front(s.heap)) = Len(s.heap) - 1
  BY <1>1 DEF Front
<1>3. Last(s.heap) \in EVT
  BY <1>1 DEF Last
<1> QED BY <1>2, <1>3, SetHeap

(* Filling a node, from above or from below.                               *)
LEMMA FillType ==
    ASSUME NEW s \in State, NEW n \in 1 .. Len(s.heap), NEW e \in EVT
    PROVE  /\ tmevt_up(s, n, e) \in State /\ SameTimes(tmevt_up(s, n, e), s)
           /\ tmevt_down(s, n, e) \in State /\ SameTimes(tmevt_down(s, n, e), s)
<1>1. Len(s.heap) \in Nat
  BY DEF State
<1>2. nodes_up(s, n, e) \in Seq(EVT) /\ nodes_down(s, n, e) \in Seq(EVT)
  <2>1. /\ nodes_up(s, n, e) \in [1 .. Len(s.heap) -> EVT]
        /\ nodes_down(s, n, e) \in [1 .. Len(s.heap) -> EVT]
    BY UpType, DownType
  <2> QED BY <1>1, <2>1
<1> QED BY <1>2, SetHeap DEF tmevt_up, tmevt_down

(* tmevtb_delete keeps the heap a sequence of time events.                 *)
LEMMA DeleteType ==
    ASSUME NEW s \in State, NEW e \in ToSet(s.heap)
    PROVE  /\ tmevtb_delete(s, e) \in State
           /\ SameTimes(tmevtb_delete(s, e), s)
<1> DEFINE r == [s EXCEPT !.heap = Front(@)]
           n == node_of(s, e)
           last == Last(s.heap)
<1>1. s.heap \in Seq(EVT) /\ DOMAIN s.heap = 1 .. Len(s.heap) /\ Len(s.heap) \in Nat
  BY DEF State
<1>2. n \in 1 .. Len(s.heap) /\ s.heap # <<>>
  BY <1>1 DEF node_of, ToSet
<1>3. r \in State /\ SameTimes(r, s) /\ Len(r.heap) = Len(s.heap) - 1 /\ last \in EVT
  BY <1>2, FrontType
<1> HIDE DEF r, n, last
<1>4. ASSUME n # Len(s.heap)
      PROVE  /\ tmevt_up(r, n, last) \in State /\ SameTimes(tmevt_up(r, n, last), s)
             /\ tmevt_down(r, n, last) \in State /\ SameTimes(tmevt_down(r, n, last), s)
  <2>1. n \in 1 .. Len(r.heap)
    BY <1>1, <1>2, <1>3, <1>4
  <2> QED BY <2>1, <1>3, FillType DEF SameTimes
<1>5. tmevtb_delete(s, e) \in {r, tmevt_up(r, n, last), tmevt_down(r, n, last)}
      /\ (n = Len(s.heap) => tmevtb_delete(s, e) = r)
  BY DEF tmevtb_delete, r, n, last
<1> QED BY <1>3, <1>4, <1>5

(* So does tmevtb_delete_top.                                              *)
LEMMA DeleteTopType ==
    ASSUME NEW s \in State, s.heap # <<>>
    PROVE  /\ tmevtb_delete_top(s) \in State
           /\ SameTimes(tmevtb_delete_top(s), s)
<1> DEFINE r == [s EXCEPT !.heap = Front(@)]
           last == Last(s.heap)
<1>1. Len(s.heap) \in Nat \ {0}
  BY DEF State
<1>2. r \in State /\ SameTimes(r, s) /\ Len(r.heap) = Len(s.heap) - 1 /\ last \in EVT
  BY FrontType
<1> HIDE DEF r, last
<1>3. ASSUME Len(s.heap) # 1
      PROVE  tmevt_down(r, 1, last) \in State /\ SameTimes(tmevt_down(r, 1, last), s)
  <2>1. Len(s.heap) - 1 \in Nat \ {0}
    BY <1>1, <1>3
  <2>2. 1 \in 1 .. Len(r.heap)
    <3>1. Len(r.heap) \in Nat \ {0}
      BY <1>2, <2>1
    <3> QED BY <3>1
  <2> QED BY <2>2, <1>2, FillType DEF SameTimes
<1>4. tmevtb_delete_top(s) = IF Len(s.heap) = 1 THEN r ELSE tmevt_down(r, 1, last)
  BY DEF tmevtb_delete_top, r, last
<1> QED BY <1>2, <1>3, <1>4

-----------------------------------------------------------------------------
(* The nodes between a node and the root.                                  *)

(* The parent of a node lies nearer to the root, and keeps the order.      *)
LEMMA ParentOK ==
    ASSUME NEW i \in Nat, i >= 2
    PROVE  /\ PARENT(i) \in Nat /\ 1 <= PARENT(i) /\ PARENT(i) < i
           /\ i = LCHILD(PARENT(i)) \/ i = LCHILD(PARENT(i)) + 1
  BY DEF PARENT, LCHILD

(* Parents lie in the order of their children.                             *)
LEMMA ParentMonotone ==
    ASSUME NEW i \in Nat, NEW j \in Nat, i <= j
    PROVE  PARENT(i) <= PARENT(j)
  BY DEF PARENT

(* A node is the parent of its two children.                               *)
LEMMA ChildOK ==
    ASSUME NEW i \in Nat, i >= 1
    PROVE  /\ LCHILD(i) \in Nat /\ LCHILD(i) > i
           /\ PARENT(LCHILD(i)) = i /\ PARENT(LCHILD(i) + 1) = i
  BY DEF PARENT, LCHILD

(* The nodes from n to the root hold n and, with a node, its parent;       *)
LEMMA AncestorsClosed ==
    ASSUME NEW n \in Nat, n >= 1
    PROVE  /\ ancestors(n) \subseteq 1 .. n
           /\ n \in ancestors(n)
           /\ \A j \in ancestors(n) : j # 1 => PARENT(j) \in ancestors(n)
<1>1. ancestors(n) \subseteq 1 .. n
  BY DEF ancestors
<1>2. n \in ancestors(n)
  BY DEF ancestors
<1>3. ASSUME NEW j \in ancestors(n), j # 1 PROVE PARENT(j) \in ancestors(n)
  <2>1. j \in Nat /\ j >= 2 /\ j <= n
    BY <1>1, <1>3
  <2>2. PARENT(j) \in 1 .. n
    BY <2>1, ParentOK
  <2>3. ASSUME NEW S \in SUBSET (1 .. n), n \in S, \A k \in S \ {1} : PARENT(k) \in S
        PROVE  PARENT(j) \in S
    <3>1. j \in S
      BY <2>3 DEF ancestors
    <3> QED BY <3>1, <2>3, <1>3
  <2> QED BY <2>2, <2>3 DEF ancestors
<1> QED BY <1>1, <1>2, <1>3

(* and no set that does holds less.                                        *)
LEMMA AncestorsLeast ==
    ASSUME NEW n \in Nat, n >= 1, NEW S, n \in S,
           \A j \in S \cap (1 .. n) : j # 1 => PARENT(j) \in S
    PROVE  ancestors(n) \subseteq S
<1> DEFINE T == S \cap (1 .. n)
<1>1. T \in SUBSET (1 .. n) /\ n \in T
  OBVIOUS
<1>2. \A j \in T \ {1} : PARENT(j) \in T
  <2> SUFFICES ASSUME NEW j \in T \ {1} PROVE PARENT(j) \in T
    OBVIOUS
  <2>1. j \in Nat /\ j >= 2 /\ j <= n
    OBVIOUS
  <2>2. PARENT(j) \in 1 .. n
    BY <2>1, ParentOK
  <2> QED BY <2>2
<1>3. ancestors(n) \subseteq T
  <2> HIDE DEF T
  <2> QED BY <1>1, <1>2 DEF ancestors
<1> QED BY <1>3

(* They form a chain: none lies between a node and its parent.             *)
LEMMA AncestorsChain ==
    ASSUME NEW n \in Nat, n >= 1, NEW i \in ancestors(n), NEW j \in ancestors(n), i < j
    PROVE  i <= PARENT(j)
<1> DEFINE A == ancestors(n)
           S == {k \in A : \A l \in A : k < l => k <= PARENT(l)}
<1>1. /\ A \subseteq 1 .. n /\ n \in A
      /\ \A k \in A : k # 1 => PARENT(k) \in A
  BY AncestorsClosed
<1> HIDE DEF A
<1>2. n \in S
  BY <1>1
<1>3. ASSUME NEW k \in S, k # 1 PROVE PARENT(k) \in S
  <2>1. k \in A /\ k \in Nat /\ k >= 2 /\ k <= n
    BY <1>1, <1>3
  <2>2. PARENT(k) \in A /\ PARENT(k) \in Nat /\ PARENT(k) < k
    BY <1>1, <1>3, <2>1, ParentOK
  <2> DEFINE T == {l \in A : l >= k \/ l <= PARENT(k)}
  <2>3. A \subseteq T
    <3>1. n \in T
      BY <1>1, <2>1
    <3>2. ASSUME NEW l \in T \cap (1 .. n), l # 1 PROVE PARENT(l) \in T
      <4>1. l \in A /\ l \in Nat /\ l >= 2 /\ PARENT(l) \in A
        BY <1>1, <3>2
      <4>2. PARENT(l) \in Nat /\ PARENT(l) < l
        BY <4>1, ParentOK
      <4>3. CASE l > k
        <5>1. k <= PARENT(l)
          BY <1>3, <4>1, <4>3
        <5> QED BY <4>1, <4>2, <5>1
      <4>4. CASE l = k
        BY <4>1, <4>2, <4>4
      <4>5. CASE l <= PARENT(k)
        BY <4>1, <4>2, <4>5, <2>1, <2>2
      <4> QED BY <3>2, <4>1, <4>3, <4>4, <4>5, <2>1
    <3> HIDE DEF T
    <3> QED BY <3>1, <3>2, AncestorsLeast DEF A
  <2>4. ASSUME NEW l \in A, PARENT(k) < l PROVE PARENT(k) <= PARENT(l)
    <3>1. l \in Nat /\ l >= k
      BY <1>1, <2>1, <2>2, <2>3, <2>4
    <3> QED BY <3>1, <2>1, ParentMonotone
  <2> QED BY <2>2, <2>4
<1>4. A \subseteq S
  <2> HIDE DEF S
  <2>1. \A k \in S \cap (1 .. n) : k # 1 => PARENT(k) \in S
    BY <1>3
  <2> QED BY <1>2, <2>1, AncestorsLeast DEF A
<1> QED BY <1>4 DEF A

(* Below each of them but n there is another.                              *)
LEMMA AncestorsReach ==
    ASSUME NEW n \in Nat, n >= 1, NEW i \in ancestors(n), i # n
    PROVE  \E j \in ancestors(n) : j # 1 /\ PARENT(j) = i
<1> SUFFICES ASSUME \A j \in ancestors(n) : j # 1 => PARENT(j) # i PROVE FALSE
  OBVIOUS
<1> DEFINE S == ancestors(n) \ {i}
<1>1. n \in S /\ \A j \in S \cap (1 .. n) : j # 1 => PARENT(j) \in S
  BY AncestorsClosed
<1>2. ancestors(n) \subseteq S
  <2> HIDE DEF S
  <2> QED BY <1>1, AncestorsLeast
<1> QED BY <1>2

(* The nodes from a child to the root are the child and those from its     *)
(* parent.                                                                 *)
LEMMA AncestorsStep ==
    ASSUME NEW n \in Nat, n >= 2
    PROVE  ancestors(n) = {n} \cup ancestors(PARENT(n))
<1> DEFINE p == PARENT(n)
<1>1. p \in Nat /\ p >= 1 /\ p < n
  BY ParentOK
<1> HIDE DEF p
<1>2. /\ ancestors(p) \subseteq 1 .. p /\ p \in ancestors(p)
      /\ \A j \in ancestors(p) : j # 1 => PARENT(j) \in ancestors(p)
  BY <1>1, AncestorsClosed
<1>3. /\ ancestors(n) \subseteq 1 .. n /\ n \in ancestors(n)
      /\ \A j \in ancestors(n) : j # 1 => PARENT(j) \in ancestors(n)
  BY AncestorsClosed
<1>4. ancestors(n) \subseteq {n} \cup ancestors(p)
  <2> DEFINE S == {n} \cup ancestors(p)
  <2>1. n \in S /\ \A j \in S \cap (1 .. n) : j # 1 => PARENT(j) \in S
    BY <1>2 DEF p
  <2> HIDE DEF S
  <2>2. ancestors(n) \subseteq S
    BY <2>1, AncestorsLeast
  <2> QED BY <2>2 DEF S
<1>5. ancestors(p) \subseteq ancestors(n)
  <2> DEFINE S == ancestors(n)
  <2>1. p \in S /\ \A j \in S \cap (1 .. p) : j # 1 => PARENT(j) \in S
    BY <1>3 DEF p
  <2> HIDE DEF S
  <2>2. ancestors(p) \subseteq S
    BY <1>1, <2>1, AncestorsLeast
  <2> QED BY <2>2 DEF S
<1> QED BY <1>3, <1>4, <1>5 DEF p

-----------------------------------------------------------------------------
(* The heap stays ordered and keeps its events: tmevt_up, ...               *)

(* The time of e as the code compares it, relative to boundary_evttim.     *)
Key(s, e) == EVTTIM_ADVANCE(s, s.evttim[e])

(* No node occurs before its parent; no event is in two nodes.             *)
Ordered(s) == \A i \in 2 .. Len(s.heap) : Key(s, s.heap[PARENT(i)]) <= Key(s, s.heap[i])
Single(q) == \A i, j \in 1 .. Len(q) : q[i] = q[j] => i = j

(* Comparing two event times is comparing words.                           *)
LEMMA KeyType ==
    ASSUME NEW s \in State, NEW e \in EVT
    PROVE  Key(s, e) \in Word /\ Key(s, e) \in Int
<1>1. s.evttim[e] \in Int /\ s.boundary_evttim \in Int
  BY StateType DEF Word
<1>2. Key(s, e) \in Word
  BY <1>1, WordType DEF Key, EVTTIM_ADVANCE
<1> QED BY <1>2, ConstantsType DEF Word

(* The nodes of the heap.                                                  *)
LEMMA HeapType ==
    ASSUME NEW s \in State
    PROVE  /\ Len(s.heap) \in Nat /\ DOMAIN s.heap = 1 .. Len(s.heap)
           /\ \A i \in 1 .. Len(s.heap) : s.heap[i] \in EVT
           /\ s.heap \in Seq(EVT)
  BY DEF State

(* The root is on the way up from every node.                              *)
LEMMA AncestorsRoot ==
    ASSUME NEW n \in Nat, n >= 1
    PROVE  1 \in ancestors(n)
<1> DEFINE A == ancestors(n)
<1>1. /\ A \subseteq 1 .. n /\ n \in A
      /\ \A j \in A : j # 1 => PARENT(j) \in A
  BY AncestorsClosed
<1> HIDE DEF A
<1>2. A \in SUBSET Nat /\ A # {}
  BY <1>1
<1> DEFINE m == Min(A)
<1>3. m \in A /\ \A y \in A : m <= y
  BY <1>2, LeastNat
<1> HIDE DEF m
<1>4. m \in Nat /\ m >= 1
  BY <1>1, <1>3
<1>5. ASSUME m # 1 PROVE FALSE
  <2>1. m >= 2
    BY <1>4, <1>5
  <2>2. PARENT(m) \in Nat /\ PARENT(m) < m /\ PARENT(m) \in A
    BY <1>1, <1>3, <1>4, <1>5, <2>1, ParentOK
  <2> QED BY <1>3, <1>4, <2>2
<1> QED BY <1>3, <1>5 DEF A

(* Where tmevt_up ends, and why it does not end before.                    *)
LEMMA UpNode ==
    ASSUME NEW s \in State, NEW n \in 1 .. Len(s.heap), NEW e \in EVT
    PROVE  LET f == up_node(s, n, e)
           IN  /\ f \in ancestors(n)
               /\ f = 1 \/ Key(s, s.heap[PARENT(f)]) <= Key(s, e)
               /\ \A i \in ancestors(n) : i > f =>
                     Key(s, e) < Key(s, s.heap[PARENT(i)])
<1> DEFINE f == up_node(s, n, e)
           S == {i \in ancestors(n) :
                   i = 1 \/ EVTTIM_LE(s, node_time(s, PARENT(i)), s.evttim[e])}
<1>1. n \in Nat /\ n >= 1 /\ Len(s.heap) \in Nat /\ n <= Len(s.heap)
  BY HeapType
<1>2. ancestors(n) \subseteq 1 .. n /\ 1 \in ancestors(n)
  BY <1>1, AncestorsClosed, AncestorsRoot
<1>3. S \in SUBSET (0 .. n) /\ S # {} /\ f = Max(S)
  BY <1>1, <1>2 DEF up_node
<1>4. \A i \in ancestors(n) :
         i \in S <=> i = 1 \/ Key(s, s.heap[PARENT(i)]) <= Key(s, e)
  BY DEF EVTTIM_LE, node_time, Key
<1>5. S \subseteq ancestors(n)
  OBVIOUS
<1> HIDE DEF S, f
<1>6. f \in S /\ \A y \in S : y <= f
  BY <1>1, <1>3, GreatestNat
<1>7. ASSUME NEW i \in ancestors(n), i > f
      PROVE  Key(s, e) < Key(s, s.heap[PARENT(i)])
  <2>1. i \notin S /\ i \in Nat /\ i >= 1 /\ i <= n
    BY <1>1, <1>2, <1>3, <1>6, <1>7
  <2>2. i # 1 /\ ~ (Key(s, s.heap[PARENT(i)]) <= Key(s, e))
    BY <1>4, <2>1
  <2>3. PARENT(i) \in 1 .. Len(s.heap)
    BY <1>1, <2>1, <2>2, ParentOK
  <2>4. s.heap[PARENT(i)] \in EVT
    BY <2>3, HeapType
  <2>5. Key(s, s.heap[PARENT(i)]) \in Int /\ Key(s, e) \in Int
    BY <2>4, KeyType
  <2> QED BY <2>2, <2>5
<1> QED BY <1>4, <1>5, <1>6, <1>7 DEF f

(* What is in the nodes after tmevt_up.                                    *)
LEMMA UpHeap ==
    ASSUME NEW s \in State, NEW n \in 1 .. Len(s.heap), NEW e \in EVT
    PROVE  LET r == tmevt_up(s, n, e)
               f == up_node(s, n, e)
           IN  /\ r \in State /\ SameTimes(r, s) /\ Len(r.heap) = Len(s.heap)
               /\ r.heap[f] = e
               /\ \A i \in 1 .. Len(s.heap) :
                     i # f => r.heap[i] = IF i \in ancestors(n) /\ i > f
                                          THEN s.heap[PARENT(i)] ELSE s.heap[i]
<1> DEFINE r == tmevt_up(s, n, e)
           f == up_node(s, n, e)
           h == nodes_up(s, n, e)
<1>1. r \in State /\ SameTimes(r, s)
  BY FillType
<1>2. r.heap = h
  BY DEF tmevt_up, State
<1>3. DOMAIN s.heap = 1 .. Len(s.heap) /\ Len(s.heap) \in Nat
  BY HeapType
<1>4. h = [i \in 1 .. Len(s.heap) |-> IF i = f THEN e
                                      ELSE IF i \in ancestors(n) /\ i > f
                                      THEN s.heap[PARENT(i)] ELSE s.heap[i]]
  BY <1>3 DEF nodes_up
<1>5. f \in 1 .. Len(s.heap)
  <2>1. f \in ancestors(n)
    BY UpNode
  <2>2. ancestors(n) \subseteq 1 .. n
    BY <1>3, AncestorsClosed
  <2> QED BY <2>1, <2>2, <1>3
<1> HIDE DEF r, f, h
<1>6. Len(r.heap) = Len(s.heap)
  <2>1. DOMAIN r.heap = 1 .. Len(r.heap) /\ Len(r.heap) \in Nat
    BY <1>1, HeapType
  <2>2. DOMAIN r.heap = 1 .. Len(s.heap)
    BY <1>2, <1>4
  <2> QED BY <2>1, <2>2, <1>3
<1> QED BY <1>1, <1>2, <1>4, <1>5, <1>6 DEF r, f

(* tmevt_up keeps the order of the heap around the node it fills.          *)
LEMMA UpOrdered ==
    ASSUME NEW s \in State, NEW n \in 1 .. Len(s.heap), NEW e \in EVT,
           \A i \in 2 .. Len(s.heap) :
              i # n => Key(s, s.heap[PARENT(i)]) <= Key(s, s.heap[i]),
           \/ LCHILD(n) > Len(s.heap)
           \/ /\ n > 1
              /\ Key(s, e) < Key(s, s.heap[PARENT(n)])
              /\ Key(s, s.heap[PARENT(n)]) <= Key(s, s.heap[n])
    PROVE  Ordered(tmevt_up(s, n, e))
<1> DEFINE r == tmevt_up(s, n, e)
           f == up_node(s, n, e)
           N == Len(s.heap)
           A == ancestors(n)
           K(i) == Key(s, s.heap[i])
           E == Key(s, e)
<1>1. /\ r \in State /\ SameTimes(r, s) /\ Len(r.heap) = N
      /\ r.heap[f] = e
      /\ \A i \in 1 .. N :
            i # f => r.heap[i] = IF i \in A /\ i > f
                                 THEN s.heap[PARENT(i)] ELSE s.heap[i]
  BY UpHeap
<1>2. /\ f \in A
      /\ f = 1 \/ K(PARENT(f)) <= E
      /\ \A i \in A : i > f => E < K(PARENT(i))
  BY UpNode
<1>3. n \in Nat /\ n >= 1 /\ n <= N /\ N \in Nat
  BY HeapType
<1>4. /\ A \subseteq 1 .. n /\ n \in A
      /\ \A j \in A : j # 1 => PARENT(j) \in A
  BY <1>3, AncestorsClosed
<1>5. \A i \in 1 .. N : K(i) \in Int
  BY HeapType, KeyType
<1>6. E \in Int
  BY KeyType
<1>7. \A x : Key(r, x) = Key(s, x)
  BY <1>1 DEF SameTimes, Key, EVTTIM_ADVANCE
<1>8. f \in Nat /\ f >= 1 /\ f <= n
  BY <1>2, <1>3, <1>4
<1>9. \A i \in 2 .. N : i # n => K(PARENT(i)) <= K(i)
  OBVIOUS
<1>10. \/ LCHILD(n) > N
       \/ /\ n > 1
          /\ E < K(PARENT(n))
          /\ K(PARENT(n)) <= K(n)
  OBVIOUS
<1> DEFINE R(i) == Key(s, r.heap[i])
<1>11. /\ R(f) = E
       /\ \A i \in 1 .. N : i # f => R(i) = IF i \in A /\ i > f THEN K(PARENT(i)) ELSE K(i)
  BY <1>1
<1>12. \A i \in A, j \in A : i < j => i <= PARENT(j)
  BY <1>3, AncestorsChain
<1>13. f # n => \E j \in A : j # 1 /\ PARENT(j) = f
  BY <1>2, <1>3, AncestorsReach
<1>14. Ordered(r) <=> \A i \in 2 .. N : R(PARENT(i)) <= R(i)
  BY <1>1, <1>7 DEF Ordered
<1> HIDE DEF r, f, N, A, K, E, R
<1>15. ASSUME NEW i \in 2 .. N PROVE R(PARENT(i)) <= R(i)
  <2> DEFINE p == PARENT(i)
  <2>1. i \in Nat /\ i >= 2 /\ i <= N /\ p \in Nat /\ p >= 1 /\ p < i
        /\ (i = LCHILD(p) \/ i = LCHILD(p) + 1) /\ LCHILD(p) \in Nat
    <3>1. i \in Nat /\ i >= 2 /\ i <= N
      BY <1>3
    <3>2. p \in Nat /\ p >= 1 /\ p < i /\ (i = LCHILD(p) \/ i = LCHILD(p) + 1)
      BY <3>1, ParentOK
    <3> HIDE DEF p
    <3>3. LCHILD(p) \in Nat
      BY <3>2, ChildOK
    <3> QED BY <3>1, <3>2, <3>3
  <2>2. i # n => K(p) <= K(i)
    BY <1>9
  <2>3. i \in A /\ i # 1 => p \in A
    BY <1>4
  <2>4. p = n => E < K(PARENT(n)) /\ K(PARENT(n)) <= K(n) /\ n > 1
    BY <1>3, <1>10, <2>1
  <2> HIDE DEF p
  (* The children of a node that is moved, or of the one that is filled.   *)
  <2>5. ASSUME p \in A, p > f PROVE R(p) = K(PARENT(p)) /\ K(PARENT(p)) <= K(p)
    <3>1. R(p) = K(PARENT(p))
      BY <1>3, <1>8, <1>11, <2>1, <2>5
    <3>2. p \in 2 .. N
      BY <1>3, <1>8, <2>1, <2>5
    <3>3. K(PARENT(p)) <= K(p)
      BY <1>9, <2>4, <3>2
    <3> QED BY <3>1, <3>3
  <2>6. p \in 1 .. N /\ i \in 1 .. N /\ K(p) \in Int /\ K(i) \in Int
    BY <1>3, <1>5, <2>1
  <2>7. ASSUME p \in A, p > f PROVE K(PARENT(p)) \in Int
    <3>1. p >= 2 /\ PARENT(p) \in 1 .. N
      BY <1>3, <1>8, <2>1, <2>7, ParentOK
    <3> QED BY <3>1, <1>5
  <2>8. CASE i \in A /\ i > f
    <3>1. R(i) = K(p)
      BY <1>11, <2>6, <2>8 DEF p
    <3>2. p \in A /\ f <= p
      BY <1>2, <1>12, <2>1, <2>3, <2>8 DEF p
    <3>3. CASE p = f
      <4>1. E < K(p)
        BY <1>2, <2>8 DEF p
      <4> QED BY <3>1, <3>3, <4>1, <1>6, <1>11, <2>6 DEF p
    <3>4. CASE p > f
      BY <3>1, <3>2, <3>4, <2>5 DEF p
    <3> QED BY <3>2, <3>3, <3>4, <1>8, <2>1
  <2>9. CASE i = f
    <3>1. R(i) = E /\ K(p) <= E
      BY <1>2, <1>11, <2>1, <2>9 DEF p
    <3>2. R(p) = K(p)
      BY <1>8, <1>11, <2>1, <2>6, <2>9
    <3> QED BY <3>1, <3>2 DEF p
  <2>10. CASE i # f /\ ~ (i \in A /\ i > f)
    <3>1. R(i) = K(i)
      BY <1>11, <2>6, <2>10
    <3>2. i # n
      BY <1>4, <1>8, <2>10, <1>3
    <3>3. K(p) <= K(i)
      BY <2>2, <3>2
    <3>4. CASE p = f
      <4>1. E <= K(p)
        <5>1. CASE f # n
          <6>1. PICK j \in A : j # 1 /\ PARENT(j) = f
            BY <1>13, <5>1
          <6>2. j \in Nat /\ j >= 2
            BY <6>1, <1>3, <1>4
          <6>3. j > f
            BY <6>1, <6>2, <1>8, ParentOK
          <6> QED BY <6>1, <6>3, <1>2, <1>6, <2>6, <3>4
        <5>2. CASE f = n
          <6>1. E < K(PARENT(n)) /\ K(PARENT(n)) <= K(n) /\ n > 1
            BY <2>4, <3>4, <5>2
          <6>2. PARENT(n) \in 1 .. N
            BY <6>1, <1>3, ParentOK
          <6>3. K(PARENT(n)) \in Int
            BY <1>5, <6>2
          <6> QED BY <6>1, <6>3, <1>6, <2>6, <3>4, <5>2
        <5> QED BY <5>1, <5>2
      <4> QED BY <3>1, <3>3, <3>4, <4>1, <1>6, <1>11, <2>6 DEF p
    <3>5. CASE p \in A /\ p > f
      BY <3>1, <3>3, <3>5, <2>5, <2>6, <2>7 DEF p
    <3>6. CASE p # f /\ ~ (p \in A /\ p > f)
      <4>1. R(p) = K(p)
        BY <1>11, <2>6, <3>6
      <4> QED BY <3>1, <3>3, <4>1 DEF p
    <3> QED BY <3>4, <3>5, <3>6
  <2> QED BY <2>8, <2>9, <2>10
<1> QED BY <1>14, <1>15 DEF r

(* The nodes but f get what was in the nodes but n, each from one.         *)
Shift(G, N, n, f) ==
    /\ \A i \in 1 .. N : i # f => G[i] \in 1 .. N /\ G[i] # n
    /\ \A i, j \in 1 .. N : i # f /\ j # f /\ G[i] = G[j] => i = j
    /\ \A j \in 1 .. N : j # n => \E i \in 1 .. N : i # f /\ G[i] = j

Filled(q, h, G, N, f, e) == q[f] = e /\ \A i \in 1 .. N : i # f => q[i] = h[G[i]]
OnlyIn(h, N, n, e) == \A i \in 1 .. N : h[i] = e => i = n

(* The events of a heap are those in its nodes.                            *)
LEMMA HeapSet ==
    ASSUME NEW q \in Seq(EVT)
    PROVE  ToSet(q) = {q[i] : i \in 1 .. Len(q)}
<1>1. DOMAIN q = 1 .. Len(q)
  OBVIOUS
<1> QED BY <1>1 DEF ToSet

(* Then e, which goes to f, takes the place of the event of n.             *)
LEMMA Moved ==
    ASSUME NEW N \in Nat, NEW h \in Seq(EVT), Len(h) = N, Single(h),
           NEW n \in 1 .. N, NEW f \in 1 .. N, NEW e, OnlyIn(h, N, n, e),
           NEW G, Shift(G, N, n, f),
           NEW q \in Seq(EVT), Len(q) = N, Filled(q, h, G, N, f, e)
    PROVE  Single(q) /\ ToSet(q) = (ToSet(h) \ {h[n]}) \cup {e}
<1>1. \A i, j \in 1 .. N : h[i] = h[j] => i = j
  BY DEF Single
<1>0. ToSet(h) = {h[i] : i \in 1 .. N} /\ ToSet(q) = {q[i] : i \in 1 .. N}
  BY HeapSet
<1> USE DEF Shift, Filled, OnlyIn
<1>2. ASSUME NEW i \in 1 .. N, NEW j \in 1 .. N, q[i] = q[j] PROVE i = j
  <2>1. CASE i = f /\ j # f
    <3>1. h[G[j]] = e /\ G[j] \in 1 .. N /\ G[j] # n
      BY <1>2, <2>1
    <3> QED BY <3>1
  <2>2. CASE i # f /\ j = f
    <3>1. h[G[i]] = e /\ G[i] \in 1 .. N /\ G[i] # n
      BY <1>2, <2>2
    <3> QED BY <3>1
  <2>3. CASE i # f /\ j # f
    <3>1. G[i] \in 1 .. N /\ G[j] \in 1 .. N /\ h[G[i]] = h[G[j]]
      BY <1>2, <2>3
    <3> QED BY <1>1, <2>3, <3>1
  <2> QED BY <2>1, <2>2, <2>3
<1>3. Single(q)
  BY <1>2 DEF Single
<1>4. ASSUME NEW x \in ToSet(q) PROVE x \in (ToSet(h) \ {h[n]}) \cup {e}
  <2>1. PICK i \in 1 .. N : x = q[i]
    BY <1>0
  <2>2. CASE i # f
    <3>1. G[i] \in 1 .. N /\ G[i] # n /\ x = h[G[i]]
      BY <2>1, <2>2
    <3> QED BY <1>0, <1>1, <3>1
  <2> QED BY <2>1, <2>2
<1>5. ASSUME NEW x \in (ToSet(h) \ {h[n]}) \cup {e} PROVE x \in ToSet(q)
  <2>1. CASE x = e
    BY <1>0, <2>1
  <2>2. CASE x \in ToSet(h) /\ x # h[n]
    <3>1. PICK j \in 1 .. N : x = h[j]
      BY <1>0, <2>2
    <3>2. PICK i \in 1 .. N : i # f /\ G[i] = j
      BY <2>2, <3>1
    <3> QED BY <1>0, <3>1, <3>2
  <2> QED BY <2>1, <2>2
<1> QED BY <1>3, <1>4, <1>5

(* The event in node n of s gave way to e, and no other moved out.         *)
Put(r, s, n, e) ==
    /\ Single(r.heap)
    /\ ToSet(r.heap) = (ToSet(s.heap) \ {s.heap[n]}) \cup {e}

(* tmevt_up only moves events: e takes the place of the one that was in n. *)
LEMMA UpMoves ==
    ASSUME NEW s \in State, NEW n \in 1 .. Len(s.heap), NEW e \in EVT, Single(s.heap),
           OnlyIn(s.heap, Len(s.heap), n, e)
    PROVE  Put(tmevt_up(s, n, e), s, n, e)
<1> DEFINE r == tmevt_up(s, n, e)
           f == up_node(s, n, e)
           N == Len(s.heap)
           A == ancestors(n)
           h == s.heap
           G == [i \in 1 .. N |-> IF i \in A /\ i > f THEN PARENT(i) ELSE i]
<1>1. /\ r \in State /\ Len(r.heap) = N
      /\ r.heap[f] = e
      /\ \A i \in 1 .. N :
            i # f => r.heap[i] = IF i \in A /\ i > f THEN h[PARENT(i)] ELSE h[i]
  BY UpHeap
<1>2. f \in A
  BY UpNode
<1>3. n \in Nat /\ n >= 1 /\ n <= N /\ N \in Nat /\ Len(h) = N /\ h \in Seq(EVT)
  BY HeapType
<1>4. /\ A \subseteq 1 .. n /\ n \in A
      /\ \A j \in A : j # 1 => PARENT(j) \in A
  BY <1>3, AncestorsClosed
<1>5. r.heap \in Seq(EVT) /\ Len(r.heap) = N
  BY <1>1, HeapType
<1>6. \A i \in A, j \in A : i < j => i <= PARENT(j)
  BY <1>3, AncestorsChain
<1>7. \A i \in A : i # n => \E j \in A : j # 1 /\ PARENT(j) = i
  BY <1>3, AncestorsReach
<1>8. f \in Nat /\ f >= 1 /\ f <= n /\ f \in 1 .. N
  BY <1>2, <1>3, <1>4
<1>9. Single(h) /\ OnlyIn(h, N, n, e)
  OBVIOUS
<1> HIDE DEF r, f, N, A, h
<1>10. ASSUME NEW i \in A, i > f
       PROVE  /\ i \in 1 .. N /\ i >= 2 /\ G[i] = PARENT(i) /\ PARENT(i) \in A
              /\ PARENT(i) \in Nat /\ PARENT(i) < i /\ f <= PARENT(i)
  <2>1. i \in Nat /\ i >= 2 /\ i \in 1 .. N /\ i <= n
    BY <1>3, <1>4, <1>8, <1>10
  <2>2. PARENT(i) \in Nat /\ PARENT(i) < i
    BY <2>1, ParentOK
  <2> QED BY <1>2, <1>4, <1>6, <1>10, <2>1, <2>2
<1>11. ASSUME NEW i \in 1 .. N, ~ (i \in A /\ i > f) PROVE G[i] = i
  BY <1>11
<1> HIDE DEF G
<1>12. ASSUME NEW i \in 1 .. N, i # f PROVE G[i] \in 1 .. N /\ G[i] # n
  <2>1. CASE i \in A /\ i > f
    <3>1. G[i] \in A /\ G[i] \in Nat /\ G[i] < i /\ i <= n
      BY <2>1, <1>3, <1>4, <1>10
    <3> QED BY <3>1, <1>3, <1>4
  <2>2. CASE ~ (i \in A /\ i > f)
    BY <2>2, <1>3, <1>4, <1>8, <1>11, <1>12
  <2> QED BY <2>1, <2>2
<1>13. ASSUME NEW i \in 1 .. N, NEW j \in 1 .. N, i # f, j # f, G[i] = G[j], i < j
       PROVE  FALSE
  <2>1. CASE j \in A /\ j > f
    <3>1. G[j] = PARENT(j) /\ PARENT(j) < j /\ f <= PARENT(j) /\ PARENT(j) \in A
          /\ PARENT(j) \in Nat
      BY <1>10, <2>1
    <3>2. CASE i \in A /\ i > f
      <4>1. i <= PARENT(j) /\ G[i] < i
        BY <1>6, <1>10, <1>13, <2>1, <3>2
      <4> QED BY <3>1, <4>1, <1>13
    <3>3. CASE ~ (i \in A /\ i > f)
      <4>1. G[i] = i
        BY <1>11, <3>3
      <4> QED BY <3>1, <3>3, <4>1, <1>8, <1>13
    <3> QED BY <3>2, <3>3
  <2>2. CASE ~ (j \in A /\ j > f)
    <3>1. G[j] = j
      BY <1>11, <2>2
    <3>2. G[i] \in Nat /\ G[i] <= i
      <4>1. CASE i \in A /\ i > f
        BY <1>10, <4>1
      <4>2. CASE ~ (i \in A /\ i > f)
        BY <1>3, <1>11, <4>2
      <4> QED BY <4>1, <4>2
    <3> QED BY <3>1, <3>2, <1>13
  <2> QED BY <2>1, <2>2
<1>14. \A i, j \in 1 .. N : i # f /\ j # f /\ G[i] = G[j] => i = j
  <2>1. \A i, j \in 1 .. N : i < j \/ j < i \/ i = j
    BY <1>3
  <2> QED BY <1>13, <2>1
<1>15. ASSUME NEW j \in 1 .. N, j # n PROVE \E i \in 1 .. N : i # f /\ G[i] = j
  <2>1. CASE j \in A /\ j >= f
    <3>1. PICK i \in A : i # 1 /\ PARENT(i) = j
      BY <1>7, <1>15, <2>1
    <3>2. i \in Nat /\ i >= 2
      BY <1>3, <1>4, <3>1
    <3>3. i > f
      BY <3>1, <3>2, <2>1, <1>8, ParentOK
    <3>4. i \in 1 .. N /\ G[i] = j /\ i # f
      BY <1>8, <1>10, <3>1, <3>2, <3>3
    <3> QED BY <3>4
  <2>2. CASE ~ (j \in A /\ j >= f)
    <3>1. G[j] = j
      BY <1>11, <1>8, <2>2
    <3>2. j # f
      BY <1>2, <1>8, <2>2
    <3> QED BY <3>1, <3>2
  <2> QED BY <2>1, <2>2
<1>16. ASSUME NEW i \in 1 .. N, i # f PROVE r.heap[i] = h[G[i]]
  <2>1. CASE i \in A /\ i > f
    BY <1>1, <1>10, <1>16, <2>1
  <2>2. CASE ~ (i \in A /\ i > f)
    BY <1>1, <1>11, <1>16, <2>2
  <2> QED BY <2>1, <2>2
<1> DEFINE q == r.heap
<1>17. q \in Seq(EVT) /\ Len(q) = N /\ Filled(q, h, G, N, f, e)
  BY <1>1, <1>5, <1>16 DEF Filled
<1> HIDE DEF q
<1>18. n \in 1 .. N
  BY <1>3
<1>19. \A i \in 1 .. N : i # f => G[i] \in 1 .. N /\ G[i] # n
  BY <1>12
<1>20. \A j \in 1 .. N : j # n => \E i \in 1 .. N : i # f /\ G[i] = j
  BY <1>15
<1>23. Shift(G, N, n, f)
  BY <1>14, <1>19, <1>20 DEF Shift
<1>21. N \in Nat /\ Len(h) = N /\ h \in Seq(EVT) /\ f \in 1 .. N
  BY <1>3, <1>8
<1>22. Single(q) /\ ToSet(q) = (ToSet(h) \ {h[n]}) \cup {e}
  BY ONLY <1>9, <1>17, <1>18, <1>21, <1>23, Moved
<1> QED BY <1>22 DEF Put, q, r, h

-----------------------------------------------------------------------------
(* ... tmevt_down, ...                                                      *)

(* The child that occurs first is a child, and occurs no later than the    *)
(* other one.                                                              *)
LEMMA FirstChild ==
    ASSUME NEW s \in State, NEW p \in 1 .. Len(s.heap), LCHILD(p) <= Len(s.heap)
    PROVE  LET c == first_child(s, p)
           IN  /\ c \in 1 .. Len(s.heap) /\ c > p /\ c >= 2 /\ PARENT(c) = p
               /\ \A i \in 2 .. Len(s.heap) : PARENT(i) = p =>
                     Key(s, s.heap[c]) <= Key(s, s.heap[i])
<1> DEFINE c == first_child(s, p)
           l == LCHILD(p)
           N == Len(s.heap)
           K(i) == Key(s, s.heap[i])
<1>1. N \in Nat /\ p \in Nat /\ p >= 1 /\ p <= N
  BY HeapType
<1>2. l \in Nat /\ l > p /\ PARENT(l) = p /\ PARENT(l + 1) = p
  BY <1>1, ChildOK
<1>3. c = IF l + 1 <= N /\ K(l + 1) < K(l) THEN l + 1 ELSE l
  BY DEF first_child, EVTTIM_LT, node_time, Key
<1>4. \A i \in 1 .. N : K(i) \in Int
  BY HeapType, KeyType
<1>5. l <= N
  OBVIOUS
<1> HIDE DEF c, l, N, K
<1>6. c \in 1 .. N /\ c > p /\ c >= 2 /\ PARENT(c) = p /\ (c = l \/ c = l + 1)
  BY <1>1, <1>2, <1>3, <1>5
<1>7. ASSUME NEW i \in 2 .. N, PARENT(i) = p PROVE K(c) <= K(i)
  <2>1. i = l \/ i = l + 1
    <3>1. i \in Nat /\ i >= 2
      BY <1>1
    <3> QED BY <3>1, <1>7, ParentOK DEF l
  <2>2. l \in 1 .. N /\ i \in 1 .. N /\ c \in 1 .. N
    BY <1>1, <1>2, <1>5, <1>6
  <2>3. K(l) \in Int /\ K(i) \in Int
    BY <1>4, <2>2
  <2>6. K(c) \in Int
    BY <1>4, <2>2
  <2>4. CASE i = l
    <3>1. CASE c = l
      BY <2>3, <2>4, <3>1
    <3>2. CASE c = l + 1
      <4>1. K(l + 1) < K(l)
        BY <1>2, <1>3, <3>2
      <4>2. K(c) < K(l)
        BY <4>1, <3>2
      <4> QED BY <2>3, <2>4, <2>6, <4>2
    <3> QED BY <1>6, <3>1, <3>2
  <2>5. CASE i = l + 1
    BY <1>1, <1>3, <2>2, <2>3, <2>5
  <2> QED BY <2>1, <2>4, <2>5
<1> QED BY <1>6, <1>7 DEF c, K, N

(* The way down from n holds n, with a node its first child, and with a    *)
(* node below n its parent, of which it is the first child.                *)
LEMMA DescentClosed ==
    ASSUME NEW s \in State, NEW n \in 1 .. Len(s.heap)
    PROVE  LET D == descent(s, n)
           IN  /\ D \subseteq n .. Len(s.heap)
               /\ n \in D
               /\ \A i \in D : LCHILD(i) <= Len(s.heap) => first_child(s, i) \in D
               /\ \A i \in D : i # n => /\ PARENT(i) \in D
                                        /\ i = first_child(s, PARENT(i))
<1> DEFINE D == descent(s, n)
           N == Len(s.heap)
<1>1. N \in Nat /\ n \in Nat /\ n >= 1 /\ n <= N
  BY HeapType
<1>2. D \subseteq n .. N
  BY DEF descent
<1>3. n \in D
  <2>1. n \in ancestors(n) /\ ancestors(n) \subseteq 1 .. n
    BY <1>1, AncestorsClosed
  <2>2. \A j \in ancestors(n) : ~ (j > n)
    BY <1>1, <2>1
  <2> QED BY <1>1, <2>1, <2>2 DEF descent
<1>4. ASSUME NEW i \in D, LCHILD(i) <= N PROVE first_child(s, i) \in D
  <2> DEFINE c == first_child(s, i)
  <2>1. i \in Nat /\ i >= 1 /\ i <= N /\ i >= n /\ i \in 1 .. N
    BY <1>1, <1>2
  <2>2. c \in 1 .. N /\ c > i /\ c >= 2 /\ PARENT(c) = i
    BY <1>4, <2>1, FirstChild
  <2>3. c = first_child(s, PARENT(c))
    BY <2>2
  <2> HIDE DEF c
  <2>4. c \in Nat /\ ancestors(c) = {c} \cup ancestors(i)
    BY <1>1, <2>2, AncestorsStep
  <2>5. n \in ancestors(i) /\ \A j \in ancestors(i) : j > n => j = first_child(s, PARENT(j))
    BY DEF descent
  <2>6. \A j \in ancestors(c) : j > n => j = first_child(s, PARENT(j))
    BY <2>3, <2>4, <2>5
  <2>7. n \in ancestors(c) /\ c \in n .. N
    BY <1>1, <2>1, <2>2, <2>4, <2>5
  <2>8. c \in D
    BY <2>6, <2>7 DEF descent
  <2> QED BY <2>8 DEF c
<1>5. ASSUME NEW i \in D, i # n PROVE PARENT(i) \in D /\ i = first_child(s, PARENT(i))
  <2>1. i \in Nat /\ i >= 2 /\ i <= N /\ i > n
    BY <1>1, <1>2, <1>5
  <2> DEFINE p == PARENT(i)
  <2>2. p \in Nat /\ p >= 1 /\ p < i
    BY <2>1, ParentOK
  <2>3. ancestors(i) = {i} \cup ancestors(p)
    BY <2>1, AncestorsStep
  <2>4. n \in ancestors(i) /\ \A j \in ancestors(i) : j > n => j = first_child(s, PARENT(j))
    BY DEF descent
  <2>5. i = first_child(s, p)
    BY <2>1, <2>3, <2>4
  <2> HIDE DEF p
  <2>6. n \in ancestors(p) /\ \A j \in ancestors(p) : j > n => j = first_child(s, PARENT(j))
    BY <1>5, <2>3, <2>4
  <2>7. ancestors(p) \subseteq 1 .. p
    BY <2>2, AncestorsClosed
  <2>8. p \in n .. N
    BY <1>1, <2>1, <2>2, <2>6, <2>7
  <2>9. p \in D
    BY <2>6, <2>8 DEF descent
  <2> QED BY <2>5, <2>9 DEF p
<1> QED BY <1>2, <1>3, <1>4, <1>5

(* It is a chain: none of its nodes lies between a node and its parent.    *)
LEMMA DescentChain ==
    ASSUME NEW s \in State, NEW n \in 1 .. Len(s.heap),
           NEW i \in descent(s, n), NEW j \in descent(s, n), i # n, j < i
    PROVE  j <= PARENT(i)
<1> DEFINE D == descent(s, n)
           N == Len(s.heap)
           B == {k \in D : k # n /\ \E x \in D : PARENT(k) < x /\ x < k}
<1>1. N \in Nat /\ n \in Nat /\ n >= 1 /\ n <= N
  BY HeapType
<1>2. /\ D \subseteq n .. N
      /\ n \in D
      /\ \A k \in D : k # n => PARENT(k) \in D /\ k = first_child(s, PARENT(k))
  BY DescentClosed
<1> HIDE DEF D, N
<1>3. \A k \in D : k \in Nat /\ k >= n /\ k <= N
  BY <1>1, <1>2
<1>4. \A k \in D : k # n => k >= 2 /\ PARENT(k) \in Nat /\ PARENT(k) < k /\ PARENT(k) >= n
  BY <1>1, <1>2, <1>3, ParentOK
<1>5. ASSUME B # {} PROVE FALSE
  <2> DEFINE k == Min(B)
  <2>1. B \in SUBSET Nat
    BY <1>3
  <2> HIDE DEF B
  <2>2. k \in B /\ \A y \in B : k <= y
    BY <1>5, <2>1, LeastNat
  <2> HIDE DEF k
  <2>3. PICK x \in D : k \in D /\ k # n /\ PARENT(k) < x /\ x < k
    BY <2>2 DEF B
  <2>4. k \in Nat /\ x \in Nat /\ PARENT(k) \in Nat /\ PARENT(k) >= n /\ PARENT(k) \in D
        /\ k = first_child(s, PARENT(k))
    BY <1>2, <1>3, <1>4, <2>3
  <2>5. x # n /\ PARENT(x) \in Nat /\ PARENT(x) \in D /\ x = first_child(s, PARENT(x))
    BY <1>1, <1>2, <1>4, <2>3, <2>4
  <2>6. PARENT(x) <= PARENT(k)
    BY <2>3, <2>4, ParentMonotone
  <2>7. PARENT(x) # PARENT(k)
    BY <2>3, <2>4, <2>5
  <2>8. x \in B
    BY <2>3, <2>4, <2>5, <2>6, <2>7 DEF B
  <2> QED BY <2>2, <2>3, <2>4, <2>8
<1>6. i \in D /\ j \in D
  BY DEF D
<1>7. ~ (PARENT(i) < j)
  BY <1>5, <1>6
<1> QED BY <1>3, <1>4, <1>6, <1>7

(* Where tmevt_down ends, and why it does not end before.                  *)
LEMMA DownNode ==
    ASSUME NEW s \in State, NEW n \in 1 .. Len(s.heap), NEW e \in EVT
    PROVE  LET f == down_node(s, n, e)
           IN  /\ f \in descent(s, n)
               /\ \/ LCHILD(f) > Len(s.heap)
                  \/ Key(s, e) <= Key(s, s.heap[first_child(s, f)])
               /\ \A i \in descent(s, n) : i < f =>
                     /\ LCHILD(i) <= Len(s.heap)
                     /\ Key(s, s.heap[first_child(s, i)]) < Key(s, e)
<1> DEFINE D == descent(s, n)
           N == Len(s.heap)
           stops(i) == LCHILD(i) > N \/ Key(s, e) <= Key(s, s.heap[first_child(s, i)])
           S == {i \in D : stops(i)}
           f == down_node(s, n, e)
<1>1. N \in Nat /\ n \in Nat /\ n >= 1 /\ n <= N
  BY HeapType
<1>2. /\ D \subseteq n .. N
      /\ n \in D
      /\ \A k \in D : LCHILD(k) <= N => first_child(s, k) \in D
  BY DescentClosed
<1>3. f = Min(S)
  BY DEF down_node, EVTTIM_LE, node_time, Key
<1>4. \A k \in D : LCHILD(k) <= N => first_child(s, k) \in Nat /\ first_child(s, k) > k
                                     /\ first_child(s, k) \in 1 .. N
  <2> SUFFICES ASSUME NEW k \in D, LCHILD(k) <= N
               PROVE  first_child(s, k) \in Nat /\ first_child(s, k) > k
                      /\ first_child(s, k) \in 1 .. N
    OBVIOUS
  <2>1. k \in 1 .. N
    BY <1>1, <1>2
  <2>2. first_child(s, k) \in 1 .. N /\ first_child(s, k) > k
    BY <2>1, FirstChild
  <2> QED BY <2>2, <1>1
<1>5. \A k \in D : k \in Nat /\ k >= 1 /\ k <= N /\ LCHILD(k) \in Nat
  <2>1. \A k \in D : k \in Nat /\ k >= 1 /\ k <= N
    BY <1>1, <1>2
  <2> HIDE DEF D
  <2> QED BY <2>1, ChildOK
<1> HIDE DEF D, f
<1>6. S # {}
  <2>1. D \in SUBSET (0 .. N) /\ D # {}
    BY <1>1, <1>2
  <2> DEFINE g == Max(D)
  <2>2. g \in D /\ \A y \in D : y <= g
    BY <1>1, <2>1, GreatestNat
  <2> HIDE DEF g
  <2>3. ~ (LCHILD(g) <= N)
    BY <1>2, <1>4, <1>5, <2>2
  <2>4. LCHILD(g) > N
    BY <1>1, <1>5, <2>2, <2>3
  <2> QED BY <2>2, <2>4
<1>7. S \in SUBSET Nat
  BY <1>5
<1> HIDE DEF S
<1>8. f \in S /\ \A y \in S : f <= y
  BY <1>3, <1>6, <1>7, LeastNat
<1>9. f \in D /\ stops(f)
  BY <1>8 DEF S
<1>10. ASSUME NEW i \in D, i < f
       PROVE  LCHILD(i) <= N /\ Key(s, s.heap[first_child(s, i)]) < Key(s, e)
  <2>1. i \notin S
    BY <1>5, <1>8, <1>9, <1>10
  <2>2. ~ stops(i)
    BY <2>1 DEF S
  <2>3. LCHILD(i) <= N
    BY <1>1, <1>5, <2>2
  <2>4. s.heap[first_child(s, i)] \in EVT
    BY <1>4, <2>3, HeapType
  <2>5. Key(s, s.heap[first_child(s, i)]) \in Int /\ Key(s, e) \in Int
    BY <2>4, KeyType
  <2> QED BY <2>2, <2>3, <2>5
<1> QED BY <1>9, <1>10 DEF D, f

(* What is in the nodes after tmevt_down.                                  *)
LEMMA DownHeap ==
    ASSUME NEW s \in State, NEW n \in 1 .. Len(s.heap), NEW e \in EVT
    PROVE  LET r == tmevt_down(s, n, e)
               f == down_node(s, n, e)
           IN  /\ r \in State /\ SameTimes(r, s) /\ Len(r.heap) = Len(s.heap)
               /\ r.heap[f] = e
               /\ \A i \in 1 .. Len(s.heap) :
                     i # f => r.heap[i] = IF i \in descent(s, n) /\ i < f
                                          THEN s.heap[first_child(s, i)] ELSE s.heap[i]
<1> DEFINE r == tmevt_down(s, n, e)
           f == down_node(s, n, e)
           h == nodes_down(s, n, e)
<1>1. r \in State /\ SameTimes(r, s)
  BY FillType
<1>2. r.heap = h
  BY DEF tmevt_down, State
<1>3. DOMAIN s.heap = 1 .. Len(s.heap) /\ Len(s.heap) \in Nat
  BY HeapType
<1>4. h = [i \in 1 .. Len(s.heap) |-> IF i = f THEN e
                                      ELSE IF i \in descent(s, n) /\ i < f
                                      THEN s.heap[first_child(s, i)] ELSE s.heap[i]]
  BY <1>3 DEF nodes_down
<1>5. f \in 1 .. Len(s.heap)
  <2>1. f \in descent(s, n)
    BY DownNode
  <2>2. descent(s, n) \subseteq n .. Len(s.heap)
    BY DescentClosed
  <2> QED BY <2>1, <2>2, <1>3
<1> HIDE DEF r, f, h
<1>6. Len(r.heap) = Len(s.heap)
  <2>1. DOMAIN r.heap = 1 .. Len(r.heap) /\ Len(r.heap) \in Nat
    BY <1>1, HeapType
  <2>2. DOMAIN r.heap = 1 .. Len(s.heap)
    BY <1>2, <1>4
  <2> QED BY <2>1, <2>2, <1>3
<1> QED BY <1>1, <1>2, <1>4, <1>5, <1>6 DEF r, f

(* tmevt_down keeps the order of a heap, of which it replaces the event of *)
(* one node by one that does not occur before the parent of the node.      *)
LEMMA DownOrdered ==
    ASSUME NEW s \in State, NEW n \in 1 .. Len(s.heap), NEW e \in EVT, Ordered(s),
           n = 1 \/ Key(s, s.heap[PARENT(n)]) <= Key(s, e)
    PROVE  Ordered(tmevt_down(s, n, e))
<1> DEFINE r == tmevt_down(s, n, e)
           f == down_node(s, n, e)
           N == Len(s.heap)
           D == descent(s, n)
           c(i) == first_child(s, i)
           K(i) == Key(s, s.heap[i])
           E == Key(s, e)
           R(i) == Key(s, r.heap[i])
<1>1. /\ r \in State /\ SameTimes(r, s) /\ Len(r.heap) = N
      /\ r.heap[f] = e
      /\ \A i \in 1 .. N :
            i # f => r.heap[i] = IF i \in D /\ i < f THEN s.heap[c(i)] ELSE s.heap[i]
  BY DownHeap
<1>2. /\ f \in D
      /\ LCHILD(f) > N \/ E <= K(c(f))
      /\ \A i \in D : i < f => LCHILD(i) <= N /\ K(c(i)) < E
  BY DownNode
<1>3. n \in Nat /\ n >= 1 /\ n <= N /\ N \in Nat
  BY HeapType
<1>4. /\ D \subseteq n .. N
      /\ n \in D
      /\ \A i \in D : LCHILD(i) <= N => c(i) \in D
      /\ \A i \in D : i # n => PARENT(i) \in D /\ i = c(PARENT(i))
  BY DescentClosed
<1>5. \A i \in 1 .. N : K(i) \in Int
  BY HeapType, KeyType
<1>6. E \in Int
  BY KeyType
<1>7. \A x : Key(r, x) = Key(s, x)
  BY <1>1 DEF SameTimes, Key, EVTTIM_ADVANCE
<1>8. f \in Nat /\ f >= n /\ f <= N
  BY <1>2, <1>3, <1>4
<1>9. \A i \in 2 .. N : K(PARENT(i)) <= K(i)
  BY DEF Ordered
<1>10. n = 1 \/ K(PARENT(n)) <= E
  OBVIOUS
<1>11. /\ R(f) = E
       /\ \A i \in 1 .. N : i # f => R(i) = IF i \in D /\ i < f THEN K(c(i)) ELSE K(i)
  BY <1>1
<1>12. \A i, j \in D : i # n /\ j < i => j <= PARENT(i)
  BY DescentChain
<1>13. \A p \in 1 .. N : LCHILD(p) <= N =>
          /\ c(p) \in 1 .. N /\ c(p) > p /\ c(p) >= 2 /\ PARENT(c(p)) = p
          /\ \A i \in 2 .. N : PARENT(i) = p => K(c(p)) <= K(i)
  BY FirstChild
<1>14. Ordered(r) <=> \A i \in 2 .. N : R(PARENT(i)) <= R(i)
  BY <1>1, <1>7 DEF Ordered
<1> HIDE DEF r, f, N, D, c, K, E, R
<1>15. ASSUME NEW i \in 2 .. N PROVE R(PARENT(i)) <= R(i)
  <2> DEFINE p == PARENT(i)
  <2>1. i \in Nat /\ i >= 2 /\ i <= N /\ i \in 1 .. N
    BY <1>3
  <2>2. p \in Nat /\ p >= 1 /\ p < i /\ (i = LCHILD(p) \/ i = LCHILD(p) + 1)
    BY <2>1, ParentOK
  <2>3. K(p) <= K(i) /\ PARENT(i) = p
    BY <1>9
  <2>4. i \in D /\ i # n => p \in D /\ i = c(p)
    BY <1>4
  <2>5. i = n => K(p) <= E
    BY <1>10, <2>1
  <2>6. \A j \in D : i \in D /\ i # n /\ j < i => j <= p
    BY <1>12
  <2> HIDE DEF p
  <2>7. p \in 1 .. N /\ LCHILD(p) \in Nat
    BY <1>3, <2>1, <2>2, ChildOK
  <2>8. LCHILD(p) <= N
    BY <1>3, <2>1, <2>2, <2>7
  <2>9. c(p) \in 1 .. N /\ c(p) > p /\ K(c(p)) <= K(i)
    BY <1>13, <2>3, <2>7, <2>8
  <2>10. K(p) \in Int /\ K(i) \in Int /\ K(c(p)) \in Int
    BY <1>5, <2>1, <2>7, <2>9
  (* What i gets is no earlier than what was in it, or is e.               *)
  <2>11. ASSUME i # f PROVE R(i) \in Int /\ K(i) <= R(i)
    <3>1. CASE i \in D /\ i < f
      <4>1. LCHILD(i) <= N
        BY <1>2, <3>1
      <4>2. c(i) \in 1 .. N /\ c(i) >= 2 /\ PARENT(c(i)) = i
        BY <1>13, <2>1, <4>1
      <4>3. K(c(i)) \in Int /\ K(i) <= K(c(i))
        <5>1. c(i) \in 2 .. N
          BY <1>3, <4>2
        <5> QED BY <1>5, <1>9, <4>2, <5>1
      <4> QED BY <1>11, <2>1, <2>11, <3>1, <4>3
    <3>2. CASE ~ (i \in D /\ i < f)
      <4>1. R(i) = K(i)
        BY <1>11, <2>1, <2>11, <3>2
      <4> QED BY <4>1, <2>10
    <3> QED BY <3>1, <3>2
  <2>12. CASE p = f
    <3>1. R(p) = E /\ E <= K(c(p))
      BY <1>2, <1>3, <1>11, <2>7, <2>8, <2>12
    <3>2. i # f /\ K(i) <= R(i) /\ R(i) \in Int
      BY <2>2, <2>11, <2>12
    <3> QED BY <1>6, <2>3, <2>9, <2>10, <3>1, <3>2
  <2>13. CASE p \in D /\ p < f
    <3>1. R(p) = K(c(p)) /\ K(c(p)) < E
      BY <1>2, <1>11, <2>7, <2>13
    <3>2. CASE i = f
      <4>1. R(i) = E
        BY <1>11, <3>2
      <4> QED BY <1>6, <2>3, <2>10, <3>1, <4>1
    <3>3. CASE i # f
      <4>1. K(i) <= R(i) /\ R(i) \in Int
        BY <2>11, <3>3
      <4> QED BY <2>3, <2>9, <2>10, <3>1, <4>1
    <3> QED BY <3>2, <3>3
  <2>14. CASE p # f /\ ~ (p \in D /\ p < f)
    <3>1. R(p) = K(p)
      BY <1>11, <2>7, <2>14
    <3>2. CASE i = f
      <4>1. i = n
        BY <1>2, <2>2, <2>4, <2>14, <3>2
      <4>2. R(i) = E
        BY <1>11, <3>2
      <4> QED BY <2>3, <2>5, <3>1, <4>1, <4>2
    <3>3. CASE i # f
      <4>1. K(i) <= R(i) /\ R(i) \in Int
        BY <2>11, <3>3
      <4> QED BY <2>3, <2>10, <3>1, <4>1
    <3> QED BY <3>2, <3>3
  <2> QED BY <2>12, <2>13, <2>14
<1> QED BY <1>14, <1>15 DEF r

(* tmevt_down only moves events: e takes the place of the one in n.        *)
LEMMA DownMoves ==
    ASSUME NEW s \in State, NEW n \in 1 .. Len(s.heap), NEW e \in EVT, Single(s.heap),
           OnlyIn(s.heap, Len(s.heap), n, e)
    PROVE  Put(tmevt_down(s, n, e), s, n, e)
<1> DEFINE r == tmevt_down(s, n, e)
           f == down_node(s, n, e)
           N == Len(s.heap)
           D == descent(s, n)
           c(i) == first_child(s, i)
           h == s.heap
           G == [i \in 1 .. N |-> IF i \in D /\ i < f THEN c(i) ELSE i]
<1>1. /\ r \in State /\ Len(r.heap) = N
      /\ r.heap[f] = e
      /\ \A i \in 1 .. N :
            i # f => r.heap[i] = IF i \in D /\ i < f THEN h[c(i)] ELSE h[i]
  BY DownHeap
<1>2. f \in D /\ \A i \in D : i < f => LCHILD(i) <= N
  BY DownNode
<1>3. n \in Nat /\ n >= 1 /\ n <= N /\ N \in Nat /\ Len(h) = N /\ h \in Seq(EVT)
      /\ n \in 1 .. N
  BY HeapType
<1>4. /\ D \subseteq n .. N
      /\ n \in D
      /\ \A i \in D : LCHILD(i) <= N => c(i) \in D
      /\ \A i \in D : i # n => PARENT(i) \in D /\ i = c(PARENT(i))
  BY DescentClosed
<1>5. r.heap \in Seq(EVT)
  BY <1>1, HeapType
<1>6. \A i, j \in D : i # n /\ j < i => j <= PARENT(i)
  BY DescentChain
<1>7. \A p \in 1 .. N : LCHILD(p) <= N =>
          c(p) \in 1 .. N /\ c(p) > p /\ c(p) >= 2 /\ PARENT(c(p)) = p
  BY FirstChild
<1>8. f \in Nat /\ f >= n /\ f <= N /\ f \in 1 .. N
  BY <1>2, <1>3, <1>4
<1>9. Single(h) /\ OnlyIn(h, N, n, e)
  OBVIOUS
<1> HIDE DEF r, f, N, D, h, c
<1>10. ASSUME NEW i \in D, i < f
       PROVE  /\ G[i] = c(i) /\ c(i) \in D /\ c(i) \in 1 .. N /\ c(i) > i
              /\ PARENT(c(i)) = i /\ c(i) # n /\ c(i) <= f /\ i \in 1 .. N /\ c(i) \in Nat
  <2>1. i \in Nat /\ i >= n /\ i \in 1 .. N
    BY <1>3, <1>4
  <2>2. c(i) \in D /\ c(i) \in 1 .. N /\ c(i) > i /\ PARENT(c(i)) = i
    BY <1>2, <1>4, <1>7, <1>10, <2>1
  <2>3. c(i) \in Nat /\ c(i) # n
    BY <1>3, <2>1, <2>2
  <2>4. ~ (f < c(i))
    <3> SUFFICES ASSUME f < c(i) PROVE FALSE
      OBVIOUS
    <3>1. f <= i
      BY <1>2, <1>6, <2>2, <2>3
    <3> QED BY <3>1, <1>8, <1>10, <2>1
  <2> QED BY <1>8, <1>10, <2>1, <2>2, <2>3, <2>4
<1>11. ASSUME NEW i \in 1 .. N, ~ (i \in D /\ i < f) PROVE G[i] = i
  BY <1>11
<1> HIDE DEF G
<1>12. ASSUME NEW i \in 1 .. N, i # f PROVE G[i] \in 1 .. N /\ G[i] # n
  <2>1. CASE i \in D /\ i < f
    BY <1>10, <2>1
  <2>2. CASE ~ (i \in D /\ i < f)
    <3>1. G[i] = i
      BY <1>11, <2>2
    <3>2. i # n
      BY <1>4, <1>8, <1>12, <2>2, <1>3
    <3> QED BY <3>1, <3>2
  <2> QED BY <2>1, <2>2
<1>13. ASSUME NEW i \in 1 .. N, NEW j \in 1 .. N, i # f, j # f, G[i] = G[j], i < j
       PROVE  FALSE
  <2>1. CASE i \in D /\ i < f
    <3>1. G[i] = c(i) /\ c(i) \in D /\ PARENT(c(i)) = i /\ c(i) <= f /\ c(i) \in Nat
      BY <1>10, <2>1
    <3>2. CASE j \in D /\ j < f
      <4>1. G[j] = c(j) /\ PARENT(c(j)) = j
        BY <1>10, <3>2
      <4> QED BY <3>1, <4>1, <1>13
    <3>3. CASE ~ (j \in D /\ j < f)
      <4>1. j = c(i)
        BY <1>11, <1>13, <3>1, <3>3
      <4> QED BY <4>1, <3>1, <3>3, <1>8, <1>13
    <3> QED BY <3>2, <3>3
  <2>2. CASE ~ (i \in D /\ i < f)
    <3>1. G[i] = i
      BY <1>11, <2>2
    <3>2. G[j] \in Nat /\ G[j] >= j
      <4>1. CASE j \in D /\ j < f
        <5>1. G[j] = c(j) /\ c(j) > j /\ c(j) \in Nat /\ j \in Nat
          BY <1>3, <1>10, <4>1
        <5> QED BY <5>1
      <4>2. CASE ~ (j \in D /\ j < f)
        BY <1>3, <1>11, <4>2
      <4> QED BY <4>1, <4>2
    <3> QED BY <3>1, <3>2, <1>13
  <2> QED BY <2>1, <2>2
<1>14. \A i, j \in 1 .. N : i # f /\ j # f /\ G[i] = G[j] => i = j
  <2>1. \A i, j \in 1 .. N : i < j \/ j < i \/ i = j
    BY <1>3
  <2> QED BY <1>13, <2>1
<1>15. ASSUME NEW j \in 1 .. N, j # n PROVE \E i \in 1 .. N : i # f /\ G[i] = j
  <2>1. CASE j \in D /\ j <= f
    <3> DEFINE i == PARENT(j)
    <3>1. j \in Nat /\ j > n /\ j >= 2
      BY <1>3, <1>4, <1>15, <2>1
    <3>2. i \in D /\ j = c(i) /\ i < j /\ i \in Nat
      BY <1>4, <1>15, <2>1, <3>1, ParentOK
    <3> HIDE DEF i
    <3>3. i < f
      BY <1>8, <2>1, <3>1, <3>2
    <3>4. i \in 1 .. N /\ G[i] = j /\ i # f
      BY <1>8, <1>10, <3>2, <3>3
    <3> QED BY <3>4
  <2>2. CASE ~ (j \in D /\ j <= f)
    <3>1. G[j] = j
      BY <1>11, <1>8, <2>2
    <3>2. j # f
      BY <1>2, <1>8, <2>2
    <3> QED BY <3>1, <3>2
  <2> QED BY <2>1, <2>2
<1>16. ASSUME NEW i \in 1 .. N, i # f PROVE r.heap[i] = h[G[i]]
  <2>1. CASE i \in D /\ i < f
    BY <1>1, <1>10, <1>16, <2>1
  <2>2. CASE ~ (i \in D /\ i < f)
    BY <1>1, <1>11, <1>16, <2>2
  <2> QED BY <2>1, <2>2
<1> DEFINE q == r.heap
<1>17. q \in Seq(EVT) /\ Len(q) = N /\ Filled(q, h, G, N, f, e)
  BY <1>1, <1>5, <1>16 DEF Filled
<1> HIDE DEF q
<1>18. n \in 1 .. N
  BY <1>3
<1>19. \A i \in 1 .. N : i # f => G[i] \in 1 .. N /\ G[i] # n
  BY <1>12
<1>20. \A j \in 1 .. N : j # n => \E i \in 1 .. N : i # f /\ G[i] = j
  BY <1>15
<1>23. Shift(G, N, n, f)
  BY <1>14, <1>19, <1>20 DEF Shift
<1>21. N \in Nat /\ Len(h) = N /\ h \in Seq(EVT) /\ f \in 1 .. N
  BY <1>3, <1>8
<1>22. Single(q) /\ ToSet(q) = (ToSet(h) \ {h[n]}) \cup {e}
  BY ONLY <1>9, <1>17, <1>18, <1>21, <1>23, Moved
<1> QED BY <1>22 DEF Put, q, r, h

-----------------------------------------------------------------------------
(* ... and what inserts an event and takes one out.                         *)

(* The heap is ordered and holds every event once.                         *)
Heap(s) == Ordered(s) /\ Single(s.heap)

(* Times that do not change compare as they did.                           *)
LEMMA SameKeys ==
    ASSUME NEW r, NEW s, SameTimes(r, s)
    PROVE  \A e : Key(r, e) = Key(s, e)
  BY DEF SameTimes, Key, EVTTIM_ADVANCE

(* tmevtb_insert adds its event to the heap.                               *)
LEMMA InsertHeap ==
    ASSUME NEW s \in State, NEW e \in EVT, Heap(s), e \notin ToSet(s.heap)
    PROVE  LET r == tmevtb_insert(s, e)
           IN  Heap(r) /\ ToSet(r.heap) = ToSet(s.heap) \cup {e}
<1> DEFINE h == Append(s.heap, e)
           x == [s EXCEPT !.heap = Append(@, e)]
           N == Len(s.heap)
           n == N + 1
           r == tmevt_up(x, n, e)
<1>1. N \in Nat /\ s.heap \in Seq(EVT) /\ \A i \in 1 .. N : s.heap[i] \in EVT
  BY HeapType
<1>2. /\ h \in Seq(EVT) /\ Len(h) = n /\ n \in Nat /\ n >= 1 /\ h[n] = e
      /\ \A i \in 1 .. N : h[i] = s.heap[i]
  BY <1>1
<1>3. x \in State /\ SameTimes(x, s) /\ x.heap = h
  BY <1>2, SetHeap
<1>4. Ordered(s) /\ Single(s.heap) /\ ToSet(s.heap) = {s.heap[i] : i \in 1 .. N}
  BY <1>1, HeapSet DEF Heap
<1>5. \A i \in 1 .. n : i # n => i \in 1 .. N
  BY <1>1
<1> HIDE DEF h, x, N
<1>6. ToSet(h) = ToSet(s.heap) \cup {e}
  <2>1. ToSet(h) = {h[i] : i \in 1 .. n}
    BY <1>2, HeapSet
  <2>2. n \in 1 .. n /\ \A i \in 1 .. N : i \in 1 .. n
    BY <1>1, <1>2
  <2> QED BY <1>2, <1>4, <1>5, <2>1, <2>2
<1>7. \A i \in 1 .. N : h[i] # e
  BY <1>2, <1>4
<1>8. Single(h) /\ OnlyIn(h, n, n, e)
  <2>1. \A i, j \in 1 .. N : s.heap[i] = s.heap[j] => i = j
    BY <1>4 DEF Single, N
  <2> QED BY <1>2, <1>5, <1>7, <2>1 DEF Single, OnlyIn
<1>9. ASSUME NEW i \in 2 .. n, i # n
      PROVE  Key(x, h[PARENT(i)]) <= Key(x, h[i])
  <2>1. i \in Nat /\ i >= 2 /\ i <= N /\ i \in 1 .. N /\ i \in 2 .. N
    BY <1>1, <1>9
  <2>2. PARENT(i) \in 1 .. N
    BY <1>1, <2>1, ParentOK
  <2>3. Key(s, s.heap[PARENT(i)]) <= Key(s, s.heap[i])
    BY <1>4, <2>1 DEF Ordered, N
  <2> QED BY <1>2, <1>3, <2>1, <2>2, <2>3, SameKeys
<1>10. LCHILD(n) > n
  BY <1>2, ChildOK
<1>11. n \in 1 .. Len(x.heap) /\ Len(x.heap) = n /\ Single(x.heap)
       /\ OnlyIn(x.heap, Len(x.heap), n, e)
       /\ \A i \in 2 .. Len(x.heap) :
             i # n => Key(x, x.heap[PARENT(i)]) <= Key(x, x.heap[i])
  BY <1>2, <1>3, <1>8, <1>9
<1>12. LCHILD(n) > Len(x.heap)
  BY <1>10, <1>11
<1> HIDE DEF n
<1>13. Ordered(r)
  BY <1>3, <1>11, <1>12, UpOrdered
<1>14. Single(r.heap) /\ ToSet(r.heap) = (ToSet(x.heap) \ {x.heap[n]}) \cup {e}
  <2>1. x \in State /\ n \in 1 .. Len(x.heap) /\ e \in EVT /\ Single(x.heap)
        /\ OnlyIn(x.heap, Len(x.heap), n, e)
    BY <1>3, <1>11
  <2>2. Put(r, x, n, e)
    BY <2>1, UpMoves
  <2> QED BY <2>2 DEF Put
<1>15. ToSet(r.heap) = ToSet(s.heap) \cup {e}
  BY <1>2, <1>3, <1>6, <1>14
<1>16. tmevtb_insert(s, e) = r
  BY DEF tmevtb_insert, r, n, x, N
<1> HIDE DEF r
<1> QED BY <1>13, <1>14, <1>15, <1>16 DEF Heap

(* What is left of a heap without its last node.                           *)
LEMMA FrontHeap ==
    ASSUME NEW s \in State, s.heap # <<>>, Heap(s)
    PROVE  LET r == [s EXCEPT !.heap = Front(@)]
               N == Len(s.heap)
           IN  /\ r \in State /\ SameTimes(r, s) /\ Heap(r)
               /\ N \in Nat /\ N >= 1 /\ Len(r.heap) = N - 1
               /\ \A i \in 1 .. N - 1 : r.heap[i] = s.heap[i]
               /\ Last(s.heap) = s.heap[N] /\ Last(s.heap) \in EVT
               /\ ToSet(s.heap) = ToSet(r.heap) \cup {Last(s.heap)}
               /\ Last(s.heap) \notin ToSet(r.heap)
               /\ \A i, j \in 1 .. N : s.heap[i] = s.heap[j] => i = j
<1> DEFINE r == [s EXCEPT !.heap = Front(@)]
           h == r.heap
           N == Len(s.heap)
<1>1. N \in Nat /\ N >= 1 /\ s.heap \in Seq(EVT) /\ \A i \in 1 .. N : s.heap[i] \in EVT
  BY HeapType
<1>2. r \in State /\ SameTimes(r, s) /\ Len(h) = N - 1 /\ Last(s.heap) \in EVT
  BY FrontType
<1>3. h = Front(s.heap)
  BY DEF State
<1>4. Last(s.heap) = s.heap[N]
  BY DEF Last
<1>5. \A i \in 1 .. N - 1 : h[i] = s.heap[i]
  BY <1>1, <1>3 DEF Front
<1>6. Ordered(s) /\ ToSet(s.heap) = {s.heap[i] : i \in 1 .. N}
      /\ \A i, j \in 1 .. N : s.heap[i] = s.heap[j] => i = j
  BY <1>1, HeapSet DEF Heap, Single
<1>7. ToSet(h) = {h[i] : i \in 1 .. N - 1}
  <2>1. h \in Seq(EVT)
    BY <1>2, HeapType
  <2> QED BY <1>2, <2>1, HeapSet
<1> DEFINE M == N - 1
<1>8. M \in Nat /\ N = M + 1 /\ N \in 1 .. N
  BY <1>1
<1>9. \A i \in 1 .. M : i \in 1 .. N /\ i # N
  BY <1>1, <1>8
<1>10. \A i \in 1 .. N : i = N \/ i \in 1 .. M
  BY <1>1, <1>8
<1>11. Len(h) = M /\ ToSet(h) = {h[i] : i \in 1 .. M} /\ \A i \in 1 .. M : h[i] = s.heap[i]
  BY <1>2, <1>5, <1>7
<1> HIDE DEF r, h, M
<1>12. Single(h)
  BY <1>6, <1>9, <1>11 DEF Single
<1>13. Ordered(r)
  <2>1. ASSUME NEW i \in 2 .. M PROVE Key(r, h[PARENT(i)]) <= Key(r, h[i])
    <3>1. i \in Nat /\ i >= 2 /\ i <= M /\ i \in 1 .. M /\ i \in 2 .. N
      BY <1>8
    <3>2. PARENT(i) \in 1 .. M
      BY <1>8, <3>1, ParentOK
    <3>3. Key(s, s.heap[PARENT(i)]) <= Key(s, s.heap[i])
      BY <1>6, <3>1 DEF Ordered
    <3> QED BY <1>2, <1>11, <3>1, <3>2, <3>3, SameKeys
  <2> QED BY <1>11, <2>1 DEF Ordered, h
<1>14. ToSet(s.heap) = ToSet(h) \cup {s.heap[N]} /\ s.heap[N] \notin ToSet(h)
  <2>1. ASSUME s.heap[N] \in ToSet(h) PROVE FALSE
    <3>1. PICK i \in 1 .. M : s.heap[N] = h[i]
      BY <1>11, <2>1
    <3>2. i \in 1 .. N /\ i # N /\ s.heap[i] = s.heap[N]
      BY <1>9, <1>11, <3>1
    <3> QED BY <1>6, <1>8, <3>2
  <2>2. \A x \in ToSet(h) : x \in ToSet(s.heap)
    BY <1>6, <1>9, <1>11
  <2>3. s.heap[N] \in ToSet(s.heap)
    BY <1>6, <1>8
  <2>4. ASSUME NEW x \in ToSet(s.heap), x # s.heap[N] PROVE x \in ToSet(h)
    <3>1. PICK i \in 1 .. N : x = s.heap[i]
      BY <1>6, <2>4
    <3>2. i \in 1 .. M /\ h[i] = x
      BY <1>10, <1>11, <2>4, <3>1
    <3> QED BY <1>11, <3>2
  <2> QED BY <2>1, <2>2, <2>3, <2>4
<1>15. Heap(r)
  BY <1>12, <1>13 DEF Heap, h
<1> QED BY <1>1, <1>2, <1>4, <1>5, <1>6, <1>14, <1>15 DEF h, r

(* Filling the node n of the rest with the last event takes out the event  *)
(* that was in n.                                                          *)
LEMMA FillHeap ==
    ASSUME NEW s \in State, s.heap # <<>>, Heap(s),
           NEW n \in 1 .. Len(s.heap), n # Len(s.heap)
    PROVE  LET r == [s EXCEPT !.heap = Front(@)]
               last == Last(s.heap)
               u == tmevt_up(r, n, last)
               d == tmevt_down(r, n, last)
           IN  /\ n > 1 /\ EVTTIM_LT(s, s.evttim[last], s.evttim[s.heap[PARENT(n)]]) =>
                     Heap(u) /\ ToSet(u.heap) = ToSet(s.heap) \ {s.heap[n]}
               /\ ~ (n > 1 /\ EVTTIM_LT(s, s.evttim[last], s.evttim[s.heap[PARENT(n)]])) =>
                     Heap(d) /\ ToSet(d.heap) = ToSet(s.heap) \ {s.heap[n]}
<1> DEFINE r == [s EXCEPT !.heap = Front(@)]
           last == Last(s.heap)
           u == tmevt_up(r, n, last)
           d == tmevt_down(r, n, last)
           N == Len(s.heap)
           up == n > 1 /\ EVTTIM_LT(s, s.evttim[last], s.evttim[s.heap[PARENT(n)]])
<1>1. /\ r \in State /\ SameTimes(r, s) /\ Heap(r)
      /\ N \in Nat /\ N >= 1 /\ Len(r.heap) = N - 1
      /\ \A i \in 1 .. N - 1 : r.heap[i] = s.heap[i]
      /\ last = s.heap[N] /\ last \in EVT
      /\ ToSet(s.heap) = ToSet(r.heap) \cup {last}
      /\ last \notin ToSet(r.heap)
      /\ \A i, j \in 1 .. N : s.heap[i] = s.heap[j] => i = j
  BY FrontHeap
<1>2. up <=> n > 1 /\ Key(s, last) < Key(s, s.heap[PARENT(n)])
  BY DEF EVTTIM_LT, Key
<1>3. n \in Nat /\ n >= 1 /\ n <= N - 1 /\ n \in 1 .. N - 1 /\ n \in 1 .. N /\ N \in 1 .. N
      /\ n # N
  BY <1>1
<1> HIDE DEF r, last, N, up
<1>4. n \in 1 .. Len(r.heap) /\ r.heap[n] = s.heap[n] /\ last # s.heap[n]
  BY <1>1, <1>3
<1>5. OnlyIn(r.heap, Len(r.heap), n, last)
  <2>1. r.heap \in Seq(EVT)
    BY <1>1, HeapType
  <2>2. ToSet(r.heap) = {r.heap[i] : i \in 1 .. Len(r.heap)}
    BY <2>1, HeapSet
  <2> QED BY <1>1, <2>2 DEF OnlyIn
<1>6. Ordered(r) /\ Single(r.heap)
  BY <1>1 DEF Heap
<1>7. ASSUME n > 1
      PROVE  /\ PARENT(n) \in 1 .. Len(r.heap) /\ r.heap[PARENT(n)] = s.heap[PARENT(n)]
             /\ Key(r, r.heap[PARENT(n)]) <= Key(r, r.heap[n])
             /\ Key(r, r.heap[PARENT(n)]) \in Int
  <2>1. n >= 2 /\ PARENT(n) \in 1 .. N - 1 /\ n \in 2 .. Len(r.heap)
    BY <1>1, <1>3, <1>7, ParentOK
  <2>2. Key(r, r.heap[PARENT(n)]) <= Key(r, r.heap[n])
    BY <1>6, <2>1 DEF Ordered
  <2>3. PARENT(n) \in 1 .. Len(r.heap) /\ r.heap[PARENT(n)] = s.heap[PARENT(n)]
    BY <1>1, <2>1
  <2>4. r.heap[PARENT(n)] \in EVT
    BY <1>1, <2>3, HeapType
  <2> QED BY <1>1, <2>2, <2>3, <2>4, KeyType
<1>8. \A e : Key(r, e) = Key(s, e)
  BY <1>1, SameKeys
<1>9. Key(r, last) \in Int
  BY <1>1, KeyType
<1>10. ASSUME up PROVE Heap(u) /\ ToSet(u.heap) = ToSet(s.heap) \ {s.heap[n]}
  <2>1. n > 1 /\ Key(r, last) < Key(r, r.heap[PARENT(n)])
    BY <1>2, <1>7, <1>8, <1>10
  <2>2. \A i \in 2 .. Len(r.heap) :
           i # n => Key(r, r.heap[PARENT(i)]) <= Key(r, r.heap[i])
    BY <1>6 DEF Ordered
  <2>3. /\ n > 1
        /\ Key(r, last) < Key(r, r.heap[PARENT(n)])
        /\ Key(r, r.heap[PARENT(n)]) <= Key(r, r.heap[n])
    BY <1>7, <2>1
  <2>4. Ordered(u)
    BY <1>1, <1>4, <2>2, <2>3, UpOrdered
  <2>5. Single(u.heap) /\ ToSet(u.heap) = (ToSet(r.heap) \ {r.heap[n]}) \cup {last}
    <3>0. r \in State /\ n \in 1 .. Len(r.heap) /\ last \in EVT /\ Single(r.heap)
          /\ OnlyIn(r.heap, Len(r.heap), n, last)
      BY <1>1, <1>4, <1>5, <1>6
    <3>1. Put(u, r, n, last)
      BY <3>0, UpMoves
    <3> QED BY <3>1 DEF Put
  <2> HIDE DEF u
  <2> QED BY <1>1, <1>4, <2>4, <2>5 DEF Heap
<1>11. ASSUME ~up PROVE Heap(d) /\ ToSet(d.heap) = ToSet(s.heap) \ {s.heap[n]}
  <2>1. n = 1 \/ Key(r, r.heap[PARENT(n)]) <= Key(r, last)
    <3>1. CASE n > 1
      BY <1>2, <1>7, <1>8, <1>9, <1>11, <3>1
    <3> QED BY <1>3, <3>1
  <2>4. Ordered(d)
    BY <1>1, <1>4, <1>6, <2>1, DownOrdered
  <2>5. Single(d.heap) /\ ToSet(d.heap) = (ToSet(r.heap) \ {r.heap[n]}) \cup {last}
    <3>0. r \in State /\ n \in 1 .. Len(r.heap) /\ last \in EVT /\ Single(r.heap)
          /\ OnlyIn(r.heap, Len(r.heap), n, last)
      BY <1>1, <1>4, <1>5, <1>6
    <3>1. Put(d, r, n, last)
      BY <3>0, DownMoves
    <3> QED BY <3>1 DEF Put
  <2> HIDE DEF d
  <2> QED BY <1>1, <1>4, <2>4, <2>5 DEF Heap
<1> QED BY <1>10, <1>11 DEF u, d, r, last, up

(* tmevtb_delete takes its event out of the heap.                          *)
LEMMA DeleteHeap ==
    ASSUME NEW s \in State, Heap(s), NEW e \in ToSet(s.heap)
    PROVE  LET r == tmevtb_delete(s, e)
           IN  Heap(r) /\ ToSet(r.heap) = ToSet(s.heap) \ {e}
<1> DEFINE n == node_of(s, e)
           last == Last(s.heap)
           r == [s EXCEPT !.heap = Front(@)]
           u == tmevt_up(r, n, last)
           d == tmevt_down(r, n, last)
           up == n > 1 /\ EVTTIM_LT(s, s.evttim[last], s.evttim[s.heap[PARENT(n)]])
<1>1. Len(s.heap) \in Nat /\ DOMAIN s.heap = 1 .. Len(s.heap) /\ s.heap \in Seq(EVT)
  BY HeapType
<1>2. n \in 1 .. Len(s.heap) /\ s.heap[n] = e
  <2>1. \E i \in DOMAIN s.heap : s.heap[i] = e
    BY DEF ToSet
  <2>2. n \in DOMAIN s.heap /\ s.heap[n] = e
    BY <2>1 DEF node_of
  <2> QED BY <1>1, <2>2
<1>3. s.heap # <<>>
  BY <1>2
<1>4. tmevtb_delete(s, e) = IF n = Len(s.heap) THEN r ELSE IF up THEN u ELSE d
  BY DEF tmevtb_delete
<1> HIDE DEF n
<1>5. CASE n = Len(s.heap)
  <2>1. /\ Heap(r) /\ ToSet(s.heap) = ToSet(r.heap) \cup {last} /\ last \notin ToSet(r.heap)
        /\ last = s.heap[Len(s.heap)]
    BY <1>3, FrontHeap
  <2> HIDE DEF r, last
  <2> QED BY <1>2, <1>4, <1>5, <2>1
<1>6. CASE n # Len(s.heap)
  <2>1. /\ up => Heap(u) /\ ToSet(u.heap) = ToSet(s.heap) \ {s.heap[n]}
        /\ ~up => Heap(d) /\ ToSet(d.heap) = ToSet(s.heap) \ {s.heap[n]}
    BY <1>2, <1>3, <1>6, FillHeap
  <2> HIDE DEF r, last, u, d, up
  <2> QED BY <1>2, <1>4, <1>6, <2>1
<1> QED BY <1>5, <1>6

(* tmevtb_delete_top takes out the first one.                              *)
LEMMA DeleteTopHeap ==
    ASSUME NEW s \in State, Heap(s), s.heap # <<>>
    PROVE  LET r == tmevtb_delete_top(s)
           IN  Heap(r) /\ ToSet(r.heap) = ToSet(s.heap) \ {Head(s.heap)}
<1> DEFINE last == Last(s.heap)
           r == [s EXCEPT !.heap = Front(@)]
           d == tmevt_down(r, 1, last)
<1>1. Len(s.heap) \in Nat /\ Len(s.heap) >= 1 /\ Head(s.heap) = s.heap[1]
  BY HeapType
<1>2. tmevtb_delete_top(s) = IF Len(s.heap) = 1 THEN r ELSE d
  BY DEF tmevtb_delete_top
<1>5. CASE Len(s.heap) = 1
  <2>1. /\ Heap(r) /\ ToSet(s.heap) = ToSet(r.heap) \cup {last} /\ last \notin ToSet(r.heap)
        /\ last = s.heap[Len(s.heap)]
    BY FrontHeap
  <2> HIDE DEF r, last
  <2> QED BY <1>1, <1>2, <1>5, <2>1
<1>6. CASE Len(s.heap) # 1
  <2> DEFINE n == 1
  <2>1. n \in 1 .. Len(s.heap) /\ n # Len(s.heap) /\ ~ (n > 1) /\ s.heap[n] = Head(s.heap)
    BY <1>1, <1>6
  <2> HIDE DEF n
  <2>2. LET v == tmevt_down(r, n, last)
        IN  Heap(v) /\ ToSet(v.heap) = ToSet(s.heap) \ {s.heap[n]}
    BY <2>1, FillHeap
  <2> QED BY <1>2, <1>6, <2>1, <2>2 DEF n
<1> QED BY <1>5, <1>6

-----------------------------------------------------------------------------
(* The first invariant.                                                    *)

(* How far the event time lags behind its most advanced value, after it    *)
(* was set back; and the system time before it is taken modulo SYSTIM_MOD. *)
Behind(s) == EVTTIM_MINUS(s.monotonic_evttim, s.current_evttim)
Total(s)  == s.systim_offset + s.monotonic_evttim

(* The system time of r is that of s, advanced by no more than limit.      *)
Advanced(r, s, limit) ==
    \E inc \in 0 .. limit, k \in Int : Total(r) = Total(s) + inc + k * SYSTIM_MOD

SameQueue(r, s) ==
    /\ r.heap = s.heap
    /\ r.evttim = s.evttim
    /\ r.in_signal_time = s.in_signal_time
    /\ r.hrt_event = s.hrt_event

(* The lag of the event time is a word.                                    *)
LEMMA BehindType ==
    ASSUME NEW s \in State
    PROVE  Behind(s) \in Int
<1>1. s.monotonic_evttim \in Int /\ s.current_evttim \in Int
  BY StateType DEF Word
<1>2. Behind(s) \in Word
  BY <1>1, WordType DEF Behind
<1> QED BY <1>2 DEF Word

(* What advance_evttim changes, and what it leaves alone.                  *)
LEMMA AdvanceType ==
    ASSUME NEW s \in State, NEW a \in Nat
    PROVE  /\ advance_evttim(s, a) \in State
           /\ SameQueue(advance_evttim(s, a), s)
           /\ advance_evttim(s, a).current_hrtcnt = s.current_hrtcnt
           /\ advance_evttim(s, a).current_evttim = EVTTIM_PLUS(s.current_evttim, a)
           /\ IF Behind(s) < a
              THEN /\ advance_evttim(s, a).monotonic_evttim = EVTTIM_PLUS(s.current_evttim, a)
                   /\ advance_evttim(s, a).systim_offset =
                         IF EVTTIM_PLUS(s.current_evttim, a) < s.monotonic_evttim
                         THEN (s.systim_offset + EVTTIM_MOD) % SYSTIM_MOD
                         ELSE s.systim_offset
              ELSE /\ advance_evttim(s, a).monotonic_evttim = s.monotonic_evttim
                   /\ advance_evttim(s, a).systim_offset = s.systim_offset
<1> DEFINE current == EVTTIM_PLUS(s.current_evttim, a)
           boundary == EVTTIM_MINUS(current, BOUNDARY_MARGIN)
           offset == IF current < s.monotonic_evttim
                     THEN (s.systim_offset + EVTTIM_MOD) % SYSTIM_MOD
                     ELSE s.systim_offset
<1>1. current \in Word
  <2>1. s.current_evttim \in Word /\ a \in Int
    BY StateType
  <2>2. \A x \in Word : x \in Int
    BY ConstantsType DEF Word
  <2> QED BY <2>1, <2>2, WordType
<1>2. boundary \in Word
  <2>1. current \in Int /\ BOUNDARY_MARGIN \in Int
    BY <1>1, ConstantsType DEF Word
  <2> HIDE DEF current
  <2> QED BY <2>1, WordType
<1>3. offset \in 0 .. SYSTIM_MOD - 1
  <2>1. s.systim_offset \in 0 .. SYSTIM_MOD - 1
    BY StateType
  <2>2. s.systim_offset + EVTTIM_MOD \in Int
    BY <2>1, ConstantsType
  <2>3. (s.systim_offset + EVTTIM_MOD) % SYSTIM_MOD \in 0 .. SYSTIM_MOD - 1
    BY <2>2, ConstantsType, ModRange
  <2> QED BY <2>1, <2>3
<1>4. advance_evttim(s, a) =
         IF Behind(s) < a
         THEN [s EXCEPT !.current_evttim = current, !.boundary_evttim = boundary,
                        !.monotonic_evttim = current, !.systim_offset = offset]
         ELSE [s EXCEPT !.current_evttim = current, !.boundary_evttim = boundary]
  BY DEF advance_evttim, Behind, State
<1> HIDE DEF current, boundary, offset
<1>5. /\ advance_evttim(s, a) \in State
      /\ SameQueue(advance_evttim(s, a), s)
      /\ advance_evttim(s, a).current_hrtcnt = s.current_hrtcnt
      /\ advance_evttim(s, a).current_evttim = current
      /\ IF Behind(s) < a
         THEN /\ advance_evttim(s, a).monotonic_evttim = current
              /\ advance_evttim(s, a).systim_offset = offset
         ELSE /\ advance_evttim(s, a).monotonic_evttim = s.monotonic_evttim
              /\ advance_evttim(s, a).systim_offset = s.systim_offset
  BY <1>1, <1>2, <1>3, <1>4 DEF State, SameQueue
<1> QED BY <1>5 DEF current, offset

(* Time that passes brings the event time closer to its most advanced value. *)
LEMMA AdvanceBehind ==
    ASSUME NEW s \in State, NEW a \in Nat
    PROVE  Behind(advance_evttim(s, a)) <= Behind(s)
<1> DEFINE r == advance_evttim(s, a)
           c == s.current_evttim
           m == s.monotonic_evttim
           M == EVTTIM_MOD
<1>1. c \in Word /\ m \in Word /\ M \in Nat \ {0} /\ c \in Int /\ m \in Int
  BY StateType, ConstantsType DEF Word
<1> c + a \in Int /\ m - c \in Int
  BY <1>1
<1>2. Behind(s) \in Word /\ Behind(s) = (m - c) % M
  BY <1>1, WordType DEF Behind, EVTTIM_MINUS
<1>3. r.current_evttim = (c + a) % M /\ (c + a) % M \in Word
  <2>1. r.current_evttim = (c + a) % M
    BY AdvanceType DEF EVTTIM_PLUS
  <2>2. (c + a) % M \in 0 .. M - 1
    BY <1>1, ModRange
  <2> QED BY <2>1, <2>2 DEF Word
<1>4. CASE Behind(s) < a
  <2>1. r.monotonic_evttim = r.current_evttim
    BY <1>4, AdvanceType
  <2>2. Behind(r) = 0 % M
    BY <2>1, <1>3 DEF Behind, EVTTIM_MINUS, Word
  <2>3. 0 % M = 0
    BY <1>1
  <2> QED BY <2>2, <2>3, <1>2, <1>1 DEF Word
<1>5. CASE ~ (Behind(s) < a)
  <2>1. r.monotonic_evttim = m
    BY <1>5, AdvanceType
  <2>2. PICK q1 \in Int : m - c = q1 * M + ((m - c) % M)
    BY <1>1, ModQuotient
  <2>3. PICK q2 \in Int : c + a = q2 * M + ((c + a) % M)
    BY <1>1, ModQuotient
  <2>4. Behind(s) - a \in 0 .. M - 1
    BY <1>2, <1>5, <1>1 DEF Word
  <2>5. m - ((c + a) % M) = (q1 + q2) * M + (Behind(s) - a)
    <3>1. (q1 + q2) * M = q1 * M + q2 * M /\ q1 * M \in Int /\ q2 * M \in Int
      BY <1>1
    <3> DEFINE x1 == q1 * M
               x2 == q2 * M
               L == (m - c) % M
               C == (c + a) % M
    <3>2. m - c = x1 + L /\ c + a = x2 + C /\ Behind(s) = L /\ L \in Int /\ C \in Int
      BY <2>2, <2>3, <1>1, <1>2, <1>3 DEF Word
    <3> HIDE DEF x1, x2, L, C
    <3>3. m - C = (x1 + x2) + (Behind(s) - a)
      BY <3>1, <3>2, <1>1 DEF x1, x2
    <3> QED BY <3>1, <3>3 DEF x1, x2, C
  <2>6. (m - ((c + a) % M)) % M = Behind(s) - a
    <3>1. m - ((c + a) % M) \in Int /\ q1 + q2 \in Int
      BY <1>1, <1>3 DEF Word
    <3> QED BY <3>1, <1>1, <2>4, <2>5, ModUnique
  <2>7. Behind(r) = Behind(s) - a
    BY <2>1, <2>6, <1>3 DEF Behind, EVTTIM_MINUS
  <2> QED BY <2>7, <1>2, <1>1 DEF Word
<1> QED BY <1>4, <1>5

(* The wrap-around of the most advanced event time is counted exactly once. *)
LEMMA AdvanceTotal ==
    ASSUME NEW s \in State, NEW a \in Word
    PROVE  Advanced(advance_evttim(s, a), s, a)
<1> DEFINE r == advance_evttim(s, a)
           c == s.current_evttim
           m == s.monotonic_evttim
           o == s.systim_offset
           M == EVTTIM_MOD
           S == SYSTIM_MOD
           d == (m - c) % M
           c1 == (c + a) % M
           inc == a - d
<1>1. /\ c \in 0 .. M - 1 /\ m \in 0 .. M - 1 /\ o \in 0 .. S - 1
      /\ M \in Nat \ {0} /\ S \in Nat \ {0} /\ a \in 0 .. M - 1
  BY StateType, ConstantsType DEF Word
<1>2. m - c \in Int /\ c + a \in Int /\ o + M \in Int /\ c \in Int /\ m \in Int /\ a \in Nat
  BY <1>1
<1>3. d \in 0 .. M - 1 /\ c1 \in 0 .. M - 1
  BY <1>1, <1>2, ModRange
<1>4. Behind(s) = d /\ EVTTIM_PLUS(c, a) = c1
  BY DEF Behind, EVTTIM_MINUS, EVTTIM_PLUS
<1>5. CASE ~ (Behind(s) < a)
  <2>1. r.monotonic_evttim = m /\ r.systim_offset = o
    BY <1>2, <1>5, AdvanceType
  <2>2. Total(r) = Total(s) + 0 + 0 * SYSTIM_MOD
    BY <2>1, <1>1 DEF Total
  <2> QED BY <2>2, <1>1 DEF Advanced
<1>6. CASE Behind(s) < a
  <2>1. /\ r.monotonic_evttim = c1
        /\ r.systim_offset = IF c1 < m THEN (o + M) % S ELSE o
    BY <1>2, <1>4, <1>6, AdvanceType
  <2>2. inc \in 0 .. a /\ inc \in 1 .. M - 1
    BY <1>1, <1>3, <1>4, <1>6
  <2>3. PICK q \in Int : m - c = q * M + d
    BY <1>1, <1>2, ModQuotient
  (* c1 is the most advanced time plus inc, modulo M.                      *)
  <2>4. PICK p \in Int : c + a = p * M + c1
    BY <1>1, <1>2, ModQuotient
  <2>5. m + inc = (q + p) * M + c1
    <3> DEFINE x == q * M
               y == p * M
    <3>1. (q + p) * M = x + y /\ x \in Int /\ y \in Int
      BY <1>1
    <3>2. m - c = x + d /\ c + a = y + c1
      BY <2>3, <2>4
    <3> HIDE DEF x, y, d, c1
    <3>3. m + inc = (x + y) + c1
      BY <3>1, <3>2, <1>1, <1>3
    <3> QED BY <3>1, <3>3
  <2>6. q + p \in {0, 1}
    <3> DEFINE z == q + p
    <3>1. z \in Int /\ m + inc = z * M + c1
      BY <2>5
    <3>2. m + inc \in 0 .. 2 * M - 2
      BY <1>1, <2>2
    <3> HIDE DEF z, c1, inc
    <3>3. ASSUME z >= 2 PROVE FALSE
      <4>1. z * M >= 2 * M
        BY <3>1, <3>3, <1>1
      <4> QED BY <4>1, <3>1, <3>2, <1>1, <1>3
    <3>4. ASSUME z <= -1 PROVE FALSE
      <4>1. z * M <= -M
        BY <3>1, <3>4, <1>1
      <4> QED BY <4>1, <3>1, <3>2, <1>1, <1>3
    <3>5. z \in {0, 1}
      BY <3>1, <3>3, <3>4
    <3> QED BY <3>5 DEF z
  <2>7. CASE q + p = 0
    <3>1. c1 = m + inc
      BY <2>5, <2>7, <1>1, <1>3
    <3>2. ~ (c1 < m)
      BY <3>1, <1>1, <2>2
    <3>3. Total(r) = Total(s) + inc + 0 * SYSTIM_MOD
      BY <3>1, <3>2, <2>1, <2>2, <1>1 DEF Total
    <3> QED BY <3>3, <2>2 DEF Advanced
  <2>8. CASE q + p = 1
    <3>1. c1 = m + inc - M
      BY <2>5, <2>8, <1>1, <1>3, <2>2
    <3>2. c1 < m
      BY <3>1, <1>1, <2>2
    <3>3. PICK k \in Int : o + M = k * S + ((o + M) % S)
      BY <1>1, <1>2, ModQuotient
    <3>4. (o + M) % S = o + M - k * S
      BY <3>3, <1>1
    <3>5. Total(r) = Total(s) + inc + (-k) * SYSTIM_MOD
      <4>1. (-k) * S = -(k * S) /\ k * S \in Int
        BY <1>1
      <4>2. r.systim_offset = o + M - k * S
        BY <3>2, <3>4, <2>1
      <4> DEFINE x == k * S
      <4> HIDE DEF c1, inc, d, x
      <4>3. Total(r) = (o + M - x) + (m + inc - M)
        BY <4>2, <3>1, <2>1 DEF Total, x
      <4>4. Total(r) = (o + m) + inc - x
        BY <4>1, <4>3, <1>1, <2>2 DEF x
      <4> QED BY <4>1, <4>4, <1>1, <2>2 DEF Total, x
    <3> QED BY <3>5, <2>2 DEF Advanced
  <2> QED BY <2>6, <2>7, <2>8
<1> QED BY <1>5, <1>6

(* Reading the counter brings the current time up to date.                 *)
LagOf(s) == (hrtcnt - s.current_hrtcnt) % TCYC_HRTCNT

(* So is the time since the counter was read.                              *)
LEMMA LagType ==
    ASSUME NEW s \in State, hrtcnt \in 0 .. TCYC_HRTCNT - 1
    PROVE  LagOf(s) \in 0 .. TCYC_HRTCNT - 1 /\ LagOf(s) \in Word
<1>1. hrtcnt - s.current_hrtcnt \in Int /\ TCYC_HRTCNT \in Nat \ {0}
  BY StateType, ConstantsType
<1>2. LagOf(s) \in 0 .. TCYC_HRTCNT - 1
  BY <1>1, ModRange DEF LagOf
<1> QED BY <1>2, ConstantsType DEF Word

(* What update_current_evttim does, and by how much the time advances.     *)
LEMMA UpdateOK ==
    ASSUME NEW s \in State, hrtcnt \in 0 .. TCYC_HRTCNT - 1
    PROVE  /\ update_current_evttim(s) \in State
           /\ SameQueue(update_current_evttim(s), s)
           /\ LagOf(update_current_evttim(s)) = 0
           /\ Behind(update_current_evttim(s)) <= Behind(s)
           /\ Advanced(update_current_evttim(s), s, LagOf(s))
<1> DEFINE v == advance_evttim(s, LagOf(s))
           r == [v EXCEPT !.current_hrtcnt = hrtcnt]
<1>1. LagOf(s) \in Word /\ LagOf(s) \in Nat
  BY LagType
<1>2. v \in State /\ SameQueue(v, s)
  BY <1>1, AdvanceType
<1>3. Behind(v) <= Behind(s) /\ Advanced(v, s, LagOf(s))
  BY <1>1, AdvanceBehind, AdvanceTotal
<1> HIDE DEF v
<1>4. r \in State /\ SameQueue(r, v) /\ r.current_hrtcnt = hrtcnt
      /\ Behind(r) = Behind(v) /\ Total(r) = Total(v)
  BY <1>2 DEF State, SameQueue, Behind, Total
<1>5. update_current_evttim(s) = r
  BY DEF update_current_evttim, LagOf, v
<1> HIDE DEF r
<1>6. LagOf(r) = 0
  <2>1. hrtcnt - r.current_hrtcnt = 0
    BY <1>4
  <2>2. 0 % TCYC_HRTCNT = 0
    BY ConstantsType
  <2> QED BY <2>1, <2>2 DEF LagOf
<1> QED BY <1>2, <1>3, <1>4, <1>5, <1>6 DEF SameQueue, Advanced

(* Setting the timer changes nothing else, and does not stop it.           *)
LEMMA SetEventOK ==
    ASSUME NEW s \in State
    PROVE  /\ set_hrt_event(s) \in State
           /\ set_hrt_event(s) = [s EXCEPT !.hrt_event = set_hrt_event(s).hrt_event]
           /\ IF s.hrt_event = 0 THEN set_hrt_event(s).hrt_event = 0
              ELSE set_hrt_event(s).hrt_event \in 1 .. HRTCNT_BOUND
<1> DEFINE top   == top_evttim(s)
           count == EVTTIM_MINUS(top, s.current_evttim)
<1>1. ASSUME NEW c \in 1 .. HRTCNT_BOUND
      PROVE  /\ target_hrt_set_event(s, c) \in State
             /\ target_hrt_set_event(s, c) =
                   [s EXCEPT !.hrt_event = target_hrt_set_event(s, c).hrt_event]
             /\ IF s.hrt_event = 0 THEN target_hrt_set_event(s, c).hrt_event = 0
                ELSE target_hrt_set_event(s, c).hrt_event \in 1 .. HRTCNT_BOUND
  <2>1. c \in STOPPED .. HRTCNT_BOUND
    BY ConstantsType DEF STOPPED
  <2>2. CASE s.hrt_event = 0
    BY <2>2 DEF target_hrt_set_event, State
  <2>3. CASE s.hrt_event # 0
    BY <2>1, <2>3 DEF target_hrt_set_event, State
  <2> QED BY <2>2, <2>3
<1>2. CASE s.heap = <<>>
  <2>1. HRTCNT_BOUND \in 1 .. HRTCNT_BOUND
    BY ConstantsType
  <2>2. set_hrt_event(s) = target_hrt_set_event(s, HRTCNT_BOUND)
    BY <1>2 DEF set_hrt_event
  <2> QED BY <2>1, <2>2, <1>1
<1>3. CASE s.heap # <<>> /\ EVTTIM_LE(s, top, s.current_evttim)
  <2>1. 1 \in 1 .. HRTCNT_BOUND
    BY ConstantsType
  <2>2. set_hrt_event(s) = target_hrt_set_event(s, 1)
    BY <1>3 DEF set_hrt_event, target_hrt_raise_event
  <2> QED BY <2>1, <2>2, <1>1
<1>4. CASE s.heap # <<>> /\ ~ EVTTIM_LE(s, top, s.current_evttim)
  <2>1. Head(s.heap) \in EVT
    BY <1>4, StateType
  <2>2. top \in Word /\ s.current_evttim \in Word /\ EVTTIM_MOD \in Nat \ {0}
    BY <2>1, StateType, ConstantsType DEF top_evttim
  <2>3. top # s.current_evttim
    <3> SUFFICES ASSUME top = s.current_evttim PROVE FALSE
      OBVIOUS
    <3>1. EVTTIM_ADVANCE(s, top) \in Word
      <4>1. top \in Int /\ s.boundary_evttim \in Int
        BY <2>2, StateType DEF Word
      <4> HIDE DEF top
      <4> QED BY <4>1, WordType DEF EVTTIM_ADVANCE
    <3>2. EVTTIM_ADVANCE(s, top) <= EVTTIM_ADVANCE(s, top)
      BY <3>1, <2>2 DEF Word
    <3> QED BY <3>2, <1>4 DEF EVTTIM_LE
  <2> DEFINE d == top - s.current_evttim
  <2>4. d \in Int /\ d # 0 /\ -EVTTIM_MOD < d /\ d < EVTTIM_MOD /\ count = d % EVTTIM_MOD
    BY <2>2, <2>3 DEF Word, EVTTIM_MINUS
  <2>5. count \in Nat \ {0}
    <3> HIDE DEF d
    <3>1. count \in 0 .. EVTTIM_MOD - 1
      BY <2>4, <2>2, ModRange
    <3>2. PICK q \in Int : d = q * EVTTIM_MOD + count
      BY <2>4, <2>2, ModQuotient
    <3>3. ASSUME count = 0 PROVE FALSE
      <4>1. d = q * EVTTIM_MOD
        BY <3>2, <3>3, <2>2
      <4>2. CASE q = 0
        BY <4>1, <4>2, <2>4, <2>2
      <4>3. CASE q >= 1
        <5>1. q * EVTTIM_MOD >= EVTTIM_MOD
          BY <4>3, <2>2
        <5> QED BY <5>1, <4>1, <2>2, <2>4
      <4>4. CASE q <= -1
        <5>1. q * EVTTIM_MOD <= -EVTTIM_MOD
          BY <4>4, <2>2
        <5> QED BY <5>1, <4>1, <2>2, <2>4
      <4> QED BY <4>2, <4>3, <4>4
    <3> QED BY <3>1, <3>3
  <2> HIDE DEF d
  <2>6. Min({count, HRTCNT_BOUND}) \in 1 .. HRTCNT_BOUND
    <3>1. {count, HRTCNT_BOUND} \in SUBSET Nat /\ {count, HRTCNT_BOUND} # {}
      BY <2>5, ConstantsType
    <3>2. Min({count, HRTCNT_BOUND}) \in {count, HRTCNT_BOUND}
          /\ Min({count, HRTCNT_BOUND}) <= HRTCNT_BOUND
      BY <3>1, LeastNat
    <3> HIDE DEF count
    <3> QED BY <3>2, <2>5, ConstantsType
  <2>7. set_hrt_event(s) = target_hrt_set_event(s, Min({count, HRTCNT_BOUND}))
    BY <1>4 DEF set_hrt_event
  <2> QED BY <2>6, <2>7, <1>1
<1> QED BY <1>2, <1>3, <1>4

(* Setting the event time back, as far as check_adjtim permits it.         *)
LEMMA SetBackOK ==
    ASSUME NEW s \in State, NEW a \in -TMAX_ADJTIM .. 0,
           a # 0 => Behind(s) < TMAX_ADJTIM,
           Behind(s) <= 2 * TMAX_ADJTIM
    PROVE  LET c == EVTTIM_PLUS(s.current_evttim, a)
               r == [s EXCEPT !.current_evttim  = c,
                              !.boundary_evttim = EVTTIM_MINUS(c, BOUNDARY_MARGIN)]
           IN  /\ r \in State
               /\ SameQueue(r, s)
               /\ LagOf(r) = LagOf(s)
               /\ Behind(r) <= 2 * TMAX_ADJTIM
               /\ Total(r) = Total(s)
<1> DEFINE c  == s.current_evttim
           m  == s.monotonic_evttim
           M  == EVTTIM_MOD
           c1 == EVTTIM_PLUS(c, a)
           b1 == EVTTIM_MINUS(c1, BOUNDARY_MARGIN)
           r  == [s EXCEPT !.current_evttim = c1, !.boundary_evttim = b1]
           L  == (m - c) % M
<1>0. c \in Word /\ m \in Word /\ M \in Nat \ {0} /\ TMAX_ADJTIM \in Nat
  BY StateType, ConstantsType
<1>1. c \in 0 .. M - 1 /\ m \in 0 .. M - 1 /\ M \in Nat \ {0} /\ a \in Int
      /\ c + a \in Int /\ m - c \in Int /\ TMAX_ADJTIM \in Nat
  BY <1>0 DEF Word
<1>2. c1 \in Word /\ c1 = (c + a) % M /\ c1 \in Int
  <2>1. (c + a) % M \in 0 .. M - 1
    BY <1>1, ModRange
  <2> QED BY <2>1, <1>1 DEF EVTTIM_PLUS, Word
<1>3. b1 \in Word
  <2> HIDE DEF c1
  <2> QED BY <1>2, ConstantsType, WordType
<1> HIDE DEF c1, b1
<1>4. r \in State /\ SameQueue(r, s) /\ LagOf(r) = LagOf(s) /\ Total(r) = Total(s)
      /\ r.current_evttim = c1 /\ r.monotonic_evttim = m
  BY <1>2, <1>3 DEF State, SameQueue, LagOf, Total
<1>5. L \in 0 .. M - 1 /\ Behind(s) = L
  <2>1. L \in 0 .. M - 1
    BY <1>1, ModRange
  <2> QED BY <2>1 DEF Behind, EVTTIM_MINUS
<1>6. Behind(r) = (m - c1) % M /\ m - c1 \in Int
  BY <1>1, <1>2, <1>4 DEF Behind, EVTTIM_MINUS
<1> HIDE DEF r
<1>7. Behind(r) <= L - a
  <2>1. PICK q \in Int : m - c = q * M + L
    BY <1>1, ModQuotient
  <2>2. PICK p \in Int : c + a = p * M + c1
    BY <1>1, <1>2, ModQuotient
  <2>3. PICK k \in Int : m - c1 = k * M + Behind(r)
    BY <1>1, <1>6, ModQuotient
  <2>4. Behind(r) \in 0 .. M - 1
    BY <1>1, <1>6, ModRange
  <2>5. L - a \in Nat
    BY <1>1, <1>5
  <2>6. L - a = (k - q - p) * M + Behind(r)
    <3> DEFINE x == q * M
               y == p * M
               z == k * M
    <3>1. (k - q - p) * M = z - x - y /\ x \in Int /\ y \in Int /\ z \in Int
      BY <1>1
    <3>2. m - c = x + L /\ c + a = y + c1 /\ m - c1 = z + Behind(r)
      BY <2>1, <2>2, <2>3
    <3> HIDE DEF x, y, z, L
    <3>3. L - a = (z - x - y) + Behind(r)
      <4>1. L \in Int /\ Behind(r) \in Int /\ c \in Int /\ m \in Int /\ a \in Int
        BY <1>1, <1>5, <2>4
      <4>2. x \in Int /\ y \in Int /\ z \in Int /\ c1 \in Int
        BY <3>1, <1>2
      <4> DEFINE B == Behind(r)
      <4>3. B \in Int /\ m - c1 = z + B
        BY <4>1, <3>2
      <4> HIDE DEF B, c, m
      <4>4. L - a = (z - x - y) + B
        BY <4>1, <4>2, <4>3, <3>2
      <4> QED BY <4>4 DEF B
    <3> QED BY <3>1, <3>3
  <2>7. k - q - p >= 0
    <3> DEFINE j == k - q - p
    <3>1. j \in Int /\ L - a = j * M + Behind(r)
      BY <2>6
    <3> HIDE DEF j, L
    <3>2. ASSUME j <= -1 PROVE FALSE
      <4>1. j * M <= -M
        BY <3>1, <3>2, <1>1
      <4> QED BY <4>1, <3>1, <2>4, <2>5, <1>1, <1>5
    <3>3. j >= 0
      BY <3>1, <3>2
    <3> QED BY <3>3 DEF j
  <2>8. (k - q - p) * M >= 0
    BY <2>7, <1>1
  <2> DEFINE y == (k - q - p) * M
  <2>9. y \in Int /\ y >= 0 /\ L - a = y + Behind(r)
    BY <2>6, <2>8, <1>1
  <2> HIDE DEF y, L
  <2> QED BY <2>9, <2>4, <1>1, <1>5
<1>8. L - a <= 2 * TMAX_ADJTIM
  BY <1>1, <1>5
<1>9. Behind(r) \in Int
  <2>1. (m - c1) % M \in 0 .. M - 1
    BY <1>1, <1>6, ModRange
  <2> QED BY <2>1, <1>1, <1>6
<1>10. Behind(r) <= 2 * TMAX_ADJTIM
  <2> HIDE DEF L
  <2> QED BY <1>1, <1>5, <1>7, <1>8, <1>9
<1> QED BY <1>4, <1>10 DEF r, c1, b1

(* The inductive invariant, on the data s with the timer handled for d.    *)
Good(s, d) ==
    /\ s \in State
    /\ Behind(s) <= 2 * TMAX_ADJTIM
    /\ IF s.in_signal_time THEN LagOf(s) <= d
       ELSE IF s.hrt_event = 0 THEN LagOf(s) <= HRTCNT_BOUND + d
       ELSE /\ s.hrt_event \in 1 .. HRTCNT_BOUND
            /\ LagOf(s) + s.hrt_event <= HRTCNT_BOUND
            /\ d = 0

IInv == TypeOK /\ SystimNearEvttim /\ TimerInTime

(* The invariant is that the data of the present state is good.            *)
LEMMA GoodCur == IInv <=> /\ Good(Cur, delay)
                          /\ hrtcnt \in 0 .. TCYC_HRTCNT - 1
                          /\ delay \in 0 .. LATENCY
                          /\ left \in [EVT -> Int]
<1>1. TypeOK <=> /\ Cur \in State
                 /\ hrtcnt \in 0 .. TCYC_HRTCNT - 1
                 /\ delay \in 0 .. LATENCY
                 /\ left \in [EVT -> Int]
  BY DEF TypeOK, State, Cur, Word
<1>2. SystimNearEvttim <=> Behind(Cur) <= 2 * TMAX_ADJTIM
  BY DEF SystimNearEvttim, Behind, Cur
<1>3. Lag = LagOf(Cur) /\ Cur.in_signal_time = in_signal_time /\ Cur.hrt_event = hrt_event
  BY DEF Lag, LagOf, Cur
<1> QED BY <1>1, <1>2, <1>3 DEF IInv, Good, TimerInTime

(* An action that replaces the data by good data keeps the invariant.      *)
LEMMA BecomeGood ==
    ASSUME IInv, NEW STATE s, Become(s), Good(s, delay'), delay' \in 0 .. LATENCY,
           left' \in [EVT -> Int]
    PROVE  IInv' /\ Cur' = s
<1>1. s \in State /\ hrtcnt' = hrtcnt
  BY DEF Good, Become
<1>2. Cur' = s
  BY <1>1 DEF Become, Cur, State
<1>3. Good(Cur, delay)'
  BY <1>1, <1>2 DEF Good, LagOf, Behind, EVTTIM_MINUS
<1>4. hrtcnt \in 0 .. TCYC_HRTCNT - 1
  BY GoodCur
<1>5. (IInv <=> /\ Good(Cur, delay)
                /\ hrtcnt \in 0 .. TCYC_HRTCNT - 1
                /\ delay \in 0 .. LATENCY
                /\ left \in [EVT -> Int])'
  BY GoodCur, PTL
<1> QED BY <1>1, <1>2, <1>3, <1>4, <1>5

(* What keeps the times keeps the invariant.                               *)
LEMMA SameTimesGood ==
    ASSUME NEW s, NEW r \in State, NEW d, SameTimes(r, s), Good(s, d)
    PROVE  Good(r, d) /\ Total(r) = Total(s)
  BY DEF Good, SameTimes, Behind, LagOf, Total

(* Data brought up to date is good, whether the timer is set or not.       *)
LEMMA FreshGood ==
    ASSUME NEW s, NEW r \in State, NEW d \in Nat, Good(s, d),
           LagOf(r) = 0, Behind(r) <= 2 * TMAX_ADJTIM,
           r.in_signal_time = s.in_signal_time, r.hrt_event = s.hrt_event
    PROVE  /\ Good(r, d)
           /\ Good(set_hrt_event(r), d)
           /\ Total(set_hrt_event(r)) = Total(r)
<1> DEFINE h == set_hrt_event(r).hrt_event
           q == set_hrt_event(r)
<1>1. r.hrt_event \in Int /\ HRTCNT_BOUND \in Nat \ {0}
  BY StateType, ConstantsType
<1>2. Good(r, d)
  BY <1>1 DEF Good
<1>3. /\ q \in State /\ q = [r EXCEPT !.hrt_event = h]
      /\ IF r.hrt_event = 0 THEN h = 0 ELSE h \in 1 .. HRTCNT_BOUND
  BY SetEventOK
<1> HIDE DEF q, h
<1>4. /\ q.current_hrtcnt = r.current_hrtcnt
      /\ q.current_evttim = r.current_evttim
      /\ q.monotonic_evttim = r.monotonic_evttim
      /\ q.systim_offset = r.systim_offset
      /\ q.in_signal_time = r.in_signal_time
      /\ q.hrt_event = h
  BY <1>3 DEF State
<1>5. LagOf(q) = 0 /\ Behind(q) = Behind(r) /\ Total(q) = Total(r)
  BY <1>4 DEF LagOf, Behind, Total
<1>6. Good(q, d)
  BY <1>1, <1>3, <1>4, <1>5 DEF Good
<1> QED BY <1>2, <1>5, <1>6 DEF q

(* By how much one step may advance the system time.                       *)
Limit == HRTCNT_BOUND + LATENCY + TMAX_ADJTIM

(* A bound on the advance may be raised.                                   *)
LEMMA AdvancedWeaken ==
    ASSUME NEW s \in State, NEW r, NEW q, Total(q) = Total(r), NEW x \in Nat, NEW y \in Nat,
           x <= y, Advanced(r, s, x)
    PROVE  Advanced(q, s, y)
  BY DEF Advanced

(* The current time is up to date, and has not advanced by too much.       *)
LEMMA NowOK ==
    ASSUME IInv
    PROVE  LET now == update_current_evttim(Cur)
           IN  /\ now \in State
               /\ SameQueue(now, Cur)
               /\ LagOf(now) = 0
               /\ Behind(now) <= 2 * TMAX_ADJTIM
               /\ Advanced(now, Cur, HRTCNT_BOUND + LATENCY)
               /\ Advanced(now, Cur, Limit)
<1> DEFINE now == update_current_evttim(Cur)
           L   == LagOf(Cur)
<1>1. Good(Cur, delay) /\ hrtcnt \in 0 .. TCYC_HRTCNT - 1 /\ delay \in 0 .. LATENCY
  BY GoodCur
<1>2. Cur \in State
  BY <1>1 DEF Good
<1>3. /\ now \in State /\ SameQueue(now, Cur) /\ LagOf(now) = 0
      /\ Behind(now) <= Behind(Cur) /\ Advanced(now, Cur, L)
  BY <1>1, <1>2, UpdateOK
<1>4. L \in Nat
  BY <1>1, <1>2, LagType, ConstantsType
<1>5. L <= HRTCNT_BOUND + LATENCY
  BY <1>1, <1>4, ConstantsType DEF Good
<1>6. Behind(now) \in Int /\ Behind(Cur) \in Int
  BY <1>2, <1>3, BehindType
<1>7. Behind(now) <= 2 * TMAX_ADJTIM
  <2> HIDE DEF now
  <2> QED BY <1>1, <1>3, <1>6, ConstantsType DEF Good
<1>8. HRTCNT_BOUND + LATENCY \in Nat /\ Limit \in Nat /\ L <= Limit
  BY <1>4, <1>5, ConstantsType DEF Limit
<1> HIDE DEF now, L
<1>9. Advanced(now, Cur, HRTCNT_BOUND + LATENCY) /\ Advanced(now, Cur, Limit)
  BY <1>2, <1>3, <1>4, <1>5, <1>8, AdvancedWeaken
<1> QED BY <1>3, <1>7, <1>9 DEF now

(* Nothing but the data, the delay and the time left changes.              *)
Kept(s) == /\ Good(s, delay')
           /\ Advanced(s, Cur, Limit)

(* BecomeGood, with the advance of the system time.                        *)
LEMMA StepKept ==
    ASSUME IInv, NEW STATE s, Become(s), Kept(s), delay' \in 0 .. LATENCY,
           left' \in [EVT -> Int]
    PROVE  IInv' /\ Advanced(Cur', Cur, Limit)
  BY BecomeGood DEF Kept

(* Registering a time event, which may set the timer.                      *)
LEMMA enqueue_step ==
    ASSUME IInv, NEW e \in EVT, NEW time \in RELTIM, tmevtb_enqueue(e, time)
    PROVE  IInv' /\ Advanced(Cur', Cur, Limit)
<1> DEFINE now == update_current_evttim(Cur)
           ub  == calc_current_evttim_ub(now)
           at  == EVTTIM_PLUS(ub, time)
           x   == [now EXCEPT !.evttim[e] = at]
           r   == tmevtb_insert(x, e)
<1>1. /\ now \in State /\ SameQueue(now, Cur) /\ LagOf(now) = 0
      /\ Behind(now) <= 2 * TMAX_ADJTIM /\ Advanced(now, Cur, Limit)
  BY NowOK
<1>2. /\ Good(Cur, delay) /\ delay \in 0 .. LATENCY /\ left \in [EVT -> Int]
      /\ Cur \in State /\ Limit \in Nat /\ LATENCY \in Nat
  BY GoodCur, ConstantsType DEF Good, Limit
<1>3. ub \in Word
  <2> HIDE DEF now
  <2>1. now.current_evttim \in Int /\ TSTEP_HRTCNT \in Int
    BY <1>1, StateType, ConstantsType DEF Word
  <2> QED BY <2>1, WordType DEF calc_current_evttim_ub
<1>4. at \in Word /\ time \in Nat
  <2> HIDE DEF ub
  <2>1. time \in Nat
    BY TimeEventAssumption
  <2>2. ub \in Int /\ time \in Int
    BY <1>3, <2>1, ConstantsType DEF Word
  <2> QED BY <2>1, <2>2, WordType
<1> HIDE DEF now, ub, at
<1>5. x \in State /\ SameTimes([x EXCEPT !.evttim = now.evttim], now)
      /\ x.in_signal_time = now.in_signal_time /\ x.hrt_event = now.hrt_event
      /\ LagOf(x) = LagOf(now) /\ Behind(x) = Behind(now) /\ Total(x) = Total(now)
  BY <1>1, <1>4 DEF State, SameTimes, LagOf, Behind, Total
<1> HIDE DEF x
<1>6. r \in State /\ SameTimes(r, x)
  BY <1>5, InsertType
<1> HIDE DEF r
<1>7. LagOf(r) = 0 /\ Behind(r) <= 2 * TMAX_ADJTIM /\ Total(r) = Total(now)
      /\ r.in_signal_time = Cur.in_signal_time /\ r.hrt_event = Cur.hrt_event
  BY <1>1, <1>5, <1>6 DEF SameTimes, SameQueue, LagOf, Behind, Total
<1>8. Good(r, delay) /\ Good(set_hrt_event(r), delay) /\ Total(set_hrt_event(r)) = Total(r)
  BY <1>2, <1>6, <1>7, FreshGood
<1>9. Advanced(r, Cur, Limit) /\ Advanced(set_hrt_event(r), Cur, Limit)
  BY <1>1, <1>2, <1>7, <1>8, AdvancedWeaken
<1>10. Become(r) \/ Become(set_hrt_event(r))
  BY DEF tmevtb_enqueue, r, x, at, ub, now
<1>11. delay' = delay /\ left' = [left EXCEPT ![e] = TSTEP_HRTCNT + time]
  BY DEF tmevtb_enqueue
<1>12. left' \in [EVT -> Int] /\ delay' \in 0 .. LATENCY
  BY <1>2, <1>4, <1>11, ConstantsType
<1> QED BY <1>8, <1>9, <1>10, <1>11, <1>12, StepKept DEF Kept

(* What the invariant says of the present state, in one place.             *)
LEMMA CurGood ==
    ASSUME IInv
    PROVE  /\ Good(Cur, delay) /\ delay \in 0 .. LATENCY /\ delay \in Nat
           /\ left \in [EVT -> Int] /\ hrtcnt \in 0 .. TCYC_HRTCNT - 1
           /\ Cur \in State /\ Behind(Cur) <= 2 * TMAX_ADJTIM
           /\ Limit \in Nat /\ LATENCY \in Nat /\ HRTCNT_BOUND \in Nat
           /\ Advanced(Cur, Cur, Limit)
<1>1. /\ Good(Cur, delay) /\ delay \in 0 .. LATENCY /\ left \in [EVT -> Int]
      /\ hrtcnt \in 0 .. TCYC_HRTCNT - 1
  BY GoodCur
<1>2. Limit \in Nat /\ LATENCY \in Nat /\ HRTCNT_BOUND \in Nat
  BY ConstantsType DEF Limit
<1>3. Cur \in State /\ Behind(Cur) <= 2 * TMAX_ADJTIM
  BY <1>1 DEF Good
<1>4. Total(Cur) \in Int /\ SYSTIM_MOD \in Int
  BY <1>3, StateType, ConstantsType DEF Total, Word
<1>5. Total(Cur) = Total(Cur) + 0 + 0 * SYSTIM_MOD
  BY <1>4
<1>6. Advanced(Cur, Cur, Limit)
  BY <1>2, <1>5 DEF Advanced
<1> QED BY <1>1, <1>2, <1>3, <1>6

(* FreshGood, with the advance of the system time.                         *)
LEMMA FreshKept ==
    ASSUME IInv, NEW STATE r, r \in State, LagOf(r) = 0, Behind(r) <= 2 * TMAX_ADJTIM,
           r.in_signal_time = Cur.in_signal_time, r.hrt_event = Cur.hrt_event,
           delay' = delay, Advanced(r, Cur, Limit)
    PROVE  Kept(r) /\ Kept(set_hrt_event(r))
<1>1. Good(r, delay) /\ Good(set_hrt_event(r), delay) /\ Total(set_hrt_event(r)) = Total(r)
  BY CurGood, FreshGood
<1>2. Advanced(set_hrt_event(r), Cur, Limit)
  BY <1>1, CurGood, AdvancedWeaken
<1> QED BY <1>1, <1>2 DEF Kept

(* Deleting a time event, which may set the timer.                         *)
LEMMA dequeue_step ==
    ASSUME IInv, NEW e \in EVT, tmevtb_dequeue(e)
    PROVE  IInv' /\ Advanced(Cur', Cur, Limit)
<1> DEFINE r == tmevtb_delete(Cur, e)
           now == update_current_evttim(r)
<1>1. e \in ToSet(Cur.heap)
  BY DEF tmevtb_dequeue, Registered, Cur
<1>2. r \in State /\ SameTimes(r, Cur)
  BY <1>1, CurGood, DeleteType
<1>3. Good(r, delay) /\ Total(r) = Total(Cur) /\ LagOf(r) = LagOf(Cur)
      /\ Behind(r) <= 2 * TMAX_ADJTIM
  BY <1>2, CurGood, SameTimesGood DEF SameTimes, LagOf, Good
<1> HIDE DEF r
<1>4. /\ now \in State /\ SameQueue(now, r) /\ LagOf(now) = 0
      /\ Behind(now) <= Behind(r) /\ Advanced(now, r, LagOf(r))
  BY <1>2, CurGood, UpdateOK
<1> HIDE DEF now
<1>5. Behind(now) <= 2 * TMAX_ADJTIM
  BY <1>2, <1>3, <1>4, BehindType, ConstantsType
<1>6. LagOf(Cur) \in Nat /\ LagOf(Cur) <= Limit
  <2>1. LagOf(Cur) \in Nat
    BY CurGood, LagType, ConstantsType
  <2> QED BY <2>1, CurGood, ConstantsType DEF Good, Limit
<1>7. Advanced(now, Cur, Limit)
  <2>1. Advanced(now, Cur, LagOf(Cur))
    BY <1>3, <1>4 DEF Advanced
  <2> QED BY <2>1, <1>6, CurGood, AdvancedWeaken
<1>8. Advanced(r, Cur, Limit)
  BY <1>3, CurGood, AdvancedWeaken
<1>9. delay' = delay /\ left' = [left EXCEPT ![e] = 0]
      /\ (Become(r) \/ Become(set_hrt_event(now)))
  BY DEF tmevtb_dequeue, r, now
<1>10. Kept(r) /\ Kept(set_hrt_event(now))
  <2>1. now.in_signal_time = Cur.in_signal_time /\ now.hrt_event = Cur.hrt_event
    BY <1>2, <1>4 DEF SameTimes, SameQueue
  <2>2. Kept(set_hrt_event(now))
    BY <2>1, <1>4, <1>5, <1>7, <1>9, FreshKept
  <2> QED BY <2>2, <1>3, <1>8, <1>9 DEF Kept
<1>11. left' \in [EVT -> Int] /\ delay' \in 0 .. LATENCY
  BY <1>9, CurGood
<1> QED BY <1>9, <1>10, <1>11, StepKept

(* Reading the system time.                                                *)
LEMMA get_step ==
    ASSUME IInv, get_tim
    PROVE  IInv' /\ Advanced(Cur', Cur, Limit)
<1> DEFINE now == update_current_evttim(Cur)
<1>1. /\ now \in State /\ SameQueue(now, Cur) /\ LagOf(now) = 0
      /\ Behind(now) <= 2 * TMAX_ADJTIM /\ Advanced(now, Cur, Limit)
  BY NowOK
<1>2. Become(now) /\ delay' = delay /\ left' = left
  BY DEF get_tim
<1> HIDE DEF now
<1>3. Kept(now)
  BY <1>1, <1>2, FreshKept DEF SameQueue
<1>4. left' \in [EVT -> Int] /\ delay' \in 0 .. LATENCY
  BY <1>2, CurGood
<1> QED BY <1>2, <1>3, <1>4, StepKept

(* Setting the system time: the only step that may set it back.            *)
LEMMA set_step ==
    ASSUME IInv, NEW time \in SYSTIM, set_tim(time)
    PROVE  IInv'
<1> DEFINE now == update_current_evttim(Cur)
           o   == (time - now.monotonic_evttim) % SYSTIM_MOD
           r   == [now EXCEPT !.systim_offset = o]
<1>1. /\ now \in State /\ SameQueue(now, Cur) /\ LagOf(now) = 0
      /\ Behind(now) <= 2 * TMAX_ADJTIM
  BY NowOK
<1>2. o \in 0 .. SYSTIM_MOD - 1
  <2>1. time - now.monotonic_evttim \in Int
    BY <1>1, StateType, TimeEventAssumption, ConstantsType DEF Word
  <2> QED BY <2>1, ConstantsType, ModRange
<1>3. Become(r) /\ delay' = delay /\ left' = left
  BY DEF set_tim
<1> HIDE DEF now, o
<1>4. /\ r \in State /\ LagOf(r) = 0 /\ Behind(r) <= 2 * TMAX_ADJTIM
      /\ r.in_signal_time = Cur.in_signal_time /\ r.hrt_event = Cur.hrt_event
  BY <1>1, <1>2 DEF State, SameQueue, LagOf, Behind
<1> HIDE DEF r
<1>5. Good(r, delay)
  BY <1>4, CurGood, FreshGood
<1>6. left' \in [EVT -> Int] /\ delay' \in 0 .. LATENCY
  BY <1>3, CurGood
<1> QED BY <1>3, <1>5, <1>6, BecomeGood

(* Two advances add up.                                                    *)
LEMMA AdvancedTwice ==
    ASSUME NEW s \in State, NEW r \in State, NEW q \in State, NEW x \in Nat, NEW y \in Nat,
           Advanced(r, s, x), Advanced(q, r, y)
    PROVE  Advanced(q, s, x + y)
<1>1. PICK i \in 0 .. x, k \in Int : Total(r) = Total(s) + i + k * SYSTIM_MOD
  BY DEF Advanced
<1>2. PICK j \in 0 .. y, l \in Int : Total(q) = Total(r) + j + l * SYSTIM_MOD
  BY DEF Advanced
<1>3. Total(s) \in Int /\ Total(r) \in Int /\ SYSTIM_MOD \in Int
  BY StateType, ConstantsType DEF Total, Word
<1>4. (k + l) * SYSTIM_MOD = k * SYSTIM_MOD + l * SYSTIM_MOD
      /\ k * SYSTIM_MOD \in Int /\ l * SYSTIM_MOD \in Int
  BY <1>3
<1>5. Total(q) = Total(s) + (i + j) + (k + l) * SYSTIM_MOD
  <2> DEFINE u == k * SYSTIM_MOD
             v == l * SYSTIM_MOD
             S == Total(s)
  <2>1. u \in Int /\ v \in Int /\ S \in Int /\ Total(q) = ((S + i) + u) + j + v
    BY <1>1, <1>2, <1>3, <1>4
  <2> HIDE DEF u, v, S
  <2>2. Total(q) = S + (i + j) + (u + v)
    BY <2>1
  <2> QED BY <2>2, <1>4 DEF u, v, S
<1>6. i + j \in 0 .. (x + y) /\ k + l \in Int
  OBVIOUS
<1> QED BY <1>5, <1>6 DEF Advanced

(* Adjusting it: refused, forward, or back within the bound.               *)
LEMMA adj_step ==
    ASSUME IInv, NEW adjtim \in ADJTIM, adj_tim(adjtim)
    PROVE  IInv' /\ Advanced(Cur', Cur, Limit)
<1> DEFINE now  == update_current_evttim(Cur)
           c    == EVTTIM_PLUS(now.current_evttim, adjtim)
           back == [now EXCEPT !.current_evttim  = c,
                               !.boundary_evttim = EVTTIM_MINUS(c, BOUNDARY_MARGIN)]
           fwd  == advance_evttim(now, adjtim)
<1>1. /\ now \in State /\ SameQueue(now, Cur) /\ LagOf(now) = 0
      /\ Behind(now) <= 2 * TMAX_ADJTIM /\ Advanced(now, Cur, Limit)
      /\ Advanced(now, Cur, HRTCNT_BOUND + LATENCY)
  BY NowOK
<1>2. adjtim \in -TMAX_ADJTIM .. TMAX_ADJTIM /\ TMAX_ADJTIM \in Nat
  BY TimeEventAssumption
<1>3. delay' = delay /\ delay' \in 0 .. LATENCY /\ left' \in [EVT -> Int]
  <2>1. left \in [EVT -> Int] /\ delay \in 0 .. LATENCY
    BY CurGood
  <2>2. \/ left' = left
        \/ left' = [e \in EVT |-> IF Registered(e) THEN left[e] - adjtim ELSE 0]
    BY DEF adj_tim
  <2>3. delay' = delay
    BY DEF adj_tim
  <2> QED BY <2>1, <2>2, <2>3, <1>2
<1>4. CASE check_adjtim(now, adjtim)
  <2>1. Become(now)
    BY <1>4 DEF adj_tim
  <2> HIDE DEF now
  <2>2. Kept(now)
    BY <1>1, <1>3, FreshKept DEF SameQueue
  <2> QED BY <2>1, <2>2, <1>3, StepKept
<1>5. CASE ~ check_adjtim(now, adjtim) /\ adjtim > 0
  <2>1. Become(set_hrt_event(fwd))
    BY <1>5 DEF adj_tim
  <2> HIDE DEF now
  <2>2. adjtim \in Nat /\ adjtim \in Word
    BY <1>2, <1>5, TimeEventAssumption, ConstantsType DEF Word
  <2>3. /\ fwd \in State /\ SameQueue(fwd, now) /\ LagOf(fwd) = LagOf(now)
        /\ Behind(fwd) <= Behind(now) /\ Advanced(fwd, now, adjtim)
    BY <1>1, <2>2, AdvanceType, AdvanceBehind, AdvanceTotal DEF LagOf
  <2> HIDE DEF fwd
  <2>4. Behind(fwd) <= 2 * TMAX_ADJTIM
    BY <1>1, <1>2, <2>3, BehindType
  <2>5. Advanced(fwd, Cur, Limit)
    <3>1. HRTCNT_BOUND + LATENCY \in Nat /\ HRTCNT_BOUND + LATENCY + adjtim <= Limit
          /\ HRTCNT_BOUND + LATENCY + adjtim \in Nat
      BY <1>2, <2>2, ConstantsType DEF Limit
    <3>2. Advanced(fwd, Cur, HRTCNT_BOUND + LATENCY + adjtim)
      BY <1>1, <2>2, <2>3, <3>1, CurGood, AdvancedTwice
    <3> QED BY <3>1, <3>2, CurGood, AdvancedWeaken
  <2>6. Kept(set_hrt_event(fwd))
    BY <1>1, <1>3, <2>3, <2>4, <2>5, FreshKept DEF SameQueue
  <2> QED BY <2>1, <2>6, <1>3, StepKept
<1>6. CASE ~ check_adjtim(now, adjtim) /\ ~ (adjtim > 0)
  <2>1. Become(set_hrt_event(back))
    BY <1>6 DEF adj_tim
  <2>2. adjtim # 0 => Behind(now) < TMAX_ADJTIM
    <3> HIDE DEF now
    <3>1. Behind(now) \in Int
      BY <1>1, BehindType
    <3> QED BY <1>2, <1>6, <3>1 DEF check_adjtim, Behind
  <2> HIDE DEF now
  <2>3. adjtim \in -TMAX_ADJTIM .. 0
    BY <1>2, <1>6
  <2>4. /\ back \in State /\ SameQueue(back, now) /\ LagOf(back) = LagOf(now)
        /\ Behind(back) <= 2 * TMAX_ADJTIM /\ Total(back) = Total(now)
    BY <1>1, <2>2, <2>3, SetBackOK
  <2> HIDE DEF back
  <2>5. Advanced(back, Cur, Limit)
    BY <1>1, <2>4, CurGood, AdvancedWeaken
  <2>6. Kept(set_hrt_event(back))
    BY <1>1, <1>3, <2>4, <2>5, FreshKept DEF SameQueue
  <2> QED BY <2>1, <2>6, <1>3, StepKept
<1> QED BY <1>4, <1>5, <1>6

(* The time left stays a function to the integers.                         *)
LEMMA LeftSet ==
    ASSUME NEW l \in [EVT -> Int], NEW e, NEW n \in Int
    PROVE  [l EXCEPT ![e] = n] \in [EVT -> Int]
  OBVIOUS

(* A callback, which may register its event again.                         *)
LEMMA call_back_step ==
    ASSUME IInv, NEW STATE s, s \in State, s.heap # <<>>, s.in_signal_time,
           LagOf(s) <= delay, Behind(s) <= 2 * TMAX_ADJTIM, Advanced(s, Cur, Limit),
           call_back(s), delay' = delay
    PROVE  IInv' /\ Advanced(Cur', Cur, Limit)
<1> DEFINE e == Head(s.heap)
           r == tmevtb_delete_top(s)
           at == EVTTIM_PLUS(r.evttim[e], CYCTIM[e])
           x == [r EXCEPT !.evttim[e] = EVTTIM_PLUS(@, CYCTIM[e])]
           q == tmevtb_insert(x, e)
<1>1. e \in EVT
  BY StateType
<1>2. Good(s, delay)
  BY DEF Good
<1>3. r \in State /\ SameTimes(r, s)
  BY DeleteTopType
<1>4. Good(r, delay) /\ Total(r) = Total(s)
  BY <1>2, <1>3, SameTimesGood
<1>5. Kept(r)
  BY <1>4, CurGood, AdvancedWeaken DEF Kept
<1>0. left \in [EVT -> Int] /\ delay' \in 0 .. LATENCY
  BY CurGood
<1> HIDE DEF r, e
<1>6. CASE e \in DOMAIN CYCTIM
  <2>1. CYCTIM[e] \in Nat
    BY <1>6, TimeEventAssumption
  <2>2. at \in Word
    <3>1. r.evttim[e] \in Int /\ CYCTIM[e] \in Int
      BY <1>1, <1>3, <2>1, StateType DEF Word
    <3> QED BY <3>1, WordType
  <2>3. x = [r EXCEPT !.evttim[e] = at]
    OBVIOUS
  <2> HIDE DEF at
  <2>4. x \in State /\ SameTimes([x EXCEPT !.evttim = r.evttim], r)
        /\ Good(x, delay) /\ Total(x) = Total(r)
    BY <1>3, <1>4, <2>2, <2>3 DEF State, SameTimes, Good, LagOf, Behind, Total
  <2> HIDE DEF x
  <2>5. q \in State /\ SameTimes(q, x)
    BY <1>1, <2>4, InsertType
  <2>6. Good(q, delay) /\ Total(q) = Total(s)
    BY <1>4, <2>4, <2>5, SameTimesGood
  <2>7. Kept(q)
    BY <2>6, CurGood, AdvancedWeaken DEF Kept
  <2>8. Become(q) /\ left' = [left EXCEPT ![e] = @ + CYCTIM[e]]
    BY <1>6 DEF call_back, q, x, r, e
  <2>9. left' \in [EVT -> Int]
    <3>1. left[e] + CYCTIM[e] \in Int
      BY <1>0, <1>1, <2>1
    <3> QED BY <1>0, <2>8, <3>1, LeftSet
  <2> QED BY <1>0, <2>7, <2>8, <2>9, StepKept
<1>7. CASE e \notin DOMAIN CYCTIM
  <2>1. Become(r) /\ left' = [left EXCEPT ![e] = 0]
    BY <1>7 DEF call_back, r, e
  <2>2. left' \in [EVT -> Int]
    BY <1>0, <2>1, LeftSet
  <2> QED BY <1>0, <1>5, <2>1, <2>2, StepKept
<1> QED BY <1>6, <1>7

(* A turn of the loop, which calls back or ends and sets the timer.        *)
LEMMA next_turn_step ==
    ASSUME IInv, NEW STATE s, s \in State, s.in_signal_time,
           LagOf(s) <= HRTCNT_BOUND + LATENCY,
           Behind(s) <= 2 * TMAX_ADJTIM, Total(s) = Total(Cur),
           next_turn(s)
    PROVE  IInv' /\ Advanced(Cur', Cur, Limit)
<1> DEFINE now == update_current_evttim(s)
           h   == set_hrt_event(now)
           r   == [h EXCEPT !.in_signal_time = FALSE]
<1>1. /\ delay \in Nat /\ delay \in 0 .. LATENCY /\ hrtcnt \in 0 .. TCYC_HRTCNT - 1
      /\ left \in [EVT -> Int] /\ LATENCY \in Nat /\ HRTCNT_BOUND \in Nat
  BY CurGood
<1>2. /\ now \in State /\ SameQueue(now, s) /\ LagOf(now) = 0
      /\ Behind(now) <= Behind(s) /\ Advanced(now, s, LagOf(s))
  BY <1>1, UpdateOK
<1>3. LagOf(s) \in Nat /\ LagOf(s) <= Limit
  <2>1. LagOf(s) \in Nat
    BY <1>1, LagType, ConstantsType
  <2> QED BY <2>1, <1>1, ConstantsType DEF Limit
<1> HIDE DEF now
<1>4. Behind(now) <= 2 * TMAX_ADJTIM
  BY <1>2, BehindType, ConstantsType
<1>5. Advanced(now, Cur, Limit)
  <2>1. Advanced(now, Cur, LagOf(s))
    BY <1>2 DEF Advanced
  <2> QED BY <2>1, <1>2, <1>3, CurGood, AdvancedWeaken
<1>6. CASE Due(now) /\ call_back(now) /\ UNCHANGED delay
  <2>1. now.heap # <<>> /\ now.in_signal_time /\ LagOf(now) <= delay
    BY <1>1, <1>2, <1>6 DEF Due, SameQueue
  <2> QED BY <2>1, <1>2, <1>4, <1>5, <1>6, call_back_step
<1>7. CASE /\ Become(r)
           /\ delay' = 0
           /\ left' = left
  <2>1. /\ h \in State
        /\ h = [now EXCEPT !.hrt_event = h.hrt_event]
        /\ h.hrt_event \in 0 .. HRTCNT_BOUND
        /\ now.hrt_event # 0 => h.hrt_event # 0
    BY <1>1, <1>2, SetEventOK
  <2> HIDE DEF h
  <2>2. /\ r \in State /\ LagOf(r) = 0 /\ Behind(r) <= 2 * TMAX_ADJTIM
        /\ Total(r) = Total(now) /\ r.in_signal_time = FALSE
        /\ r.hrt_event \in 0 .. HRTCNT_BOUND
    BY <1>2, <1>4, <2>1 DEF State, LagOf, Behind, Total
  <2> HIDE DEF r
  <2>3. Good(r, delay')
    BY <1>1, <1>7, <2>2 DEF Good
  <2>4. Advanced(r, Cur, Limit)
    BY <1>2, <1>5, <2>2, CurGood, AdvancedWeaken
  <2> QED BY <1>1, <1>7, <2>3, <2>4, StepKept DEF Kept
<1>8. \/ Due(now) /\ call_back(now) /\ UNCHANGED delay
      \/ Become(r) /\ delay' = 0 /\ left' = left
  BY DEF next_turn, now
<1> QED BY <1>6, <1>7, <1>8

(* The interrupt is taken.                                                 *)
LEMMA signal_time_step ==
    ASSUME IInv, signal_time
    PROVE  IInv' /\ Advanced(Cur', Cur, Limit)
<1> DEFINE s == [Cur EXCEPT !.in_signal_time = TRUE, !.hrt_event = STOPPED]
<1>1. /\ Good(Cur, delay) /\ Cur \in State /\ delay \in Nat /\ delay \in 0 .. LATENCY
      /\ LATENCY \in Nat /\ HRTCNT_BOUND \in Nat /\ hrtcnt \in 0 .. TCYC_HRTCNT - 1
  BY CurGood
<1>2. ~ Cur.in_signal_time /\ Cur.hrt_event = 0 /\ next_turn(s)
  BY DEF signal_time, Cur
<1>3. STOPPED \in STOPPED .. HRTCNT_BOUND
  BY <1>1 DEF STOPPED
<1>4. s \in State /\ s.in_signal_time /\ LagOf(s) = LagOf(Cur)
      /\ Behind(s) = Behind(Cur) /\ Total(s) = Total(Cur)
  BY <1>1, <1>3 DEF State, LagOf, Behind, Total
<1>5. LagOf(Cur) \in Nat
  BY <1>1, LagType, ConstantsType
<1>6. LagOf(Cur) <= HRTCNT_BOUND + LATENCY
  BY <1>1, <1>2, <1>5 DEF Good
<1>7. Behind(s) <= 2 * TMAX_ADJTIM
  BY <1>1, <1>4 DEF Good
<1> HIDE DEF s
<1> QED BY <1>2, <1>4, <1>6, <1>7, next_turn_step

(* The handler goes on after a callback.                                   *)
LEMMA signal_time_continues_step ==
    ASSUME IInv, signal_time_continues
    PROVE  IInv' /\ Advanced(Cur', Cur, Limit)
<1>1. /\ Good(Cur, delay) /\ Cur \in State /\ delay \in Nat /\ delay \in 0 .. LATENCY
      /\ LATENCY \in Nat /\ HRTCNT_BOUND \in Nat /\ hrtcnt \in 0 .. TCYC_HRTCNT - 1
      /\ Behind(Cur) <= 2 * TMAX_ADJTIM /\ Advanced(Cur, Cur, Limit)
  BY CurGood
<1>2. Cur.in_signal_time
  BY DEF signal_time_continues, Cur
<1>3. LagOf(Cur) <= delay
  BY <1>1, <1>2 DEF Good
<1>4. CASE Due(Cur)
  <2>1. call_back(Cur) /\ delay' = delay /\ Cur.heap # <<>>
    BY <1>4 DEF signal_time_continues, Due
  <2> QED BY <1>1, <1>2, <1>3, <2>1, call_back_step
<1>5. CASE ~ Due(Cur)
  <2>1. next_turn(Cur)
    BY <1>5 DEF signal_time_continues
  <2>2. LagOf(Cur) \in Nat
    BY <1>1, LagType, ConstantsType
  <2>3. LagOf(Cur) <= HRTCNT_BOUND + LATENCY
    BY <1>1, <1>3, <2>2
  <2> QED BY <1>1, <1>2, <2>1, <2>3, next_turn_step
<1> QED BY <1>4, <1>5

(* The counter counts modulo its cycle, and so does what it lags behind.   *)
LEMMA LagStep ==
    ASSUME IInv, hrtcnt' = (hrtcnt + 1) % TCYC_HRTCNT,
           current_hrtcnt' = current_hrtcnt, Lag + 1 < TCYC_HRTCNT
    PROVE  Lag' = Lag + 1 /\ hrtcnt' \in 0 .. TCYC_HRTCNT - 1
<1> DEFINE T == TCYC_HRTCNT
           c == current_hrtcnt
           h == hrtcnt
           L == (h - c) % T
           g == (h + 1) % T
<1>1. T \in Nat \ {0} /\ c \in Int /\ h \in Int /\ h + 1 \in Int /\ h - c \in Int
  BY ConstantsType DEF IInv, TypeOK
<1>2. L \in 0 .. T - 1 /\ g \in 0 .. T - 1
  BY <1>1, ModRange
<1>3. PICK p \in Int : h - c = p * T + L
  BY <1>1, ModQuotient
<1>4. PICK q \in Int : h + 1 = q * T + g
  BY <1>1, ModQuotient
<1>5. g - c = (p - q) * T + (L + 1)
  <2> DEFINE x == p * T
             y == q * T
  <2>1. (p - q) * T = x - y /\ x \in Int /\ y \in Int /\ L \in Int /\ g \in Int
    BY <1>1, <1>2
  <2>2. h - c = x + L /\ h + 1 = y + g
    BY <1>3, <1>4
  <2> HIDE DEF x, y, L, g, c, h, T
  <2>3. g - c = (x - y) + (L + 1)
    BY <2>1, <2>2, <1>1
  <2> QED BY <2>1, <2>3
<1>6. L + 1 \in 0 .. T - 1 /\ g - c \in Int /\ p - q \in Int
  BY <1>1, <1>2 DEF Lag
<1>7. (g - c) % T = L + 1
  BY <1>1, <1>5, <1>6, ModUnique
<1>8. hrtcnt' = g /\ Lag' = (g - c) % T /\ Lag = L
  BY DEF Lag
<1> QED BY <1>2, <1>7, <1>8

(* Handling is in time, so the counter does not pass its cycle.            *)
LEMMA LagAdvances ==
    ASSUME IInv, tick
    PROVE  Lag' = Lag + 1 /\ hrtcnt' \in 0 .. TCYC_HRTCNT - 1
<1>1. /\ delay \in Nat /\ LATENCY \in Nat /\ HRTCNT_BOUND \in Nat /\ TimerInTime
      /\ Cur \in State /\ hrtcnt \in 0 .. TCYC_HRTCNT - 1
  BY CurGood DEF IInv
<1>2. Lag \in Nat /\ hrt_event \in Int
  <2>1. Lag = LagOf(Cur) /\ Cur.hrt_event = hrt_event
    BY DEF Lag, LagOf, Cur
  <2> QED BY <1>1, <2>1, LagType, StateType, ConstantsType
<1>3. hrt_event = 0 \/ in_signal_time => delay < LATENCY
  BY DEF tick
<1>4. Lag + 1 <= HRTCNT_BOUND + LATENCY
  BY <1>1, <1>2, <1>3 DEF TimerInTime
<1>5. Lag + 1 < TCYC_HRTCNT
  BY <1>1, <1>2, <1>4, TimeEventAssumption
<1>6. hrtcnt' = (hrtcnt + 1) % TCYC_HRTCNT /\ current_hrtcnt' = current_hrtcnt
  BY DEF tick
<1> QED BY <1>5, <1>6, LagStep

(* Time passes: the counter moves on before it can pass its cycle.         *)
LEMMA tick_step ==
    ASSUME IInv, tick
    PROVE  IInv' /\ Advanced(Cur', Cur, Limit)
<1>1. /\ Good(Cur, delay) /\ delay \in Nat /\ LATENCY \in Nat /\ HRTCNT_BOUND \in Nat
      /\ left \in [EVT -> Int] /\ Cur \in State /\ Advanced(Cur, Cur, Limit)
  BY CurGood
<1>2. TypeOK /\ SystimNearEvttim /\ TimerInTime
  BY DEF IInv
<1>3. hrt_event \in STOPPED .. HRTCNT_BOUND /\ Lag \in Nat /\ in_signal_time \in BOOLEAN
  <2>1. Lag = LagOf(Cur)
    BY DEF Lag, LagOf, Cur
  <2>2. LagOf(Cur) \in Nat
    BY <1>1, <1>2, LagType, ConstantsType DEF TypeOK
  <2> QED BY <1>2, <2>1, <2>2 DEF TypeOK
<1> DEFINE handling == hrt_event = 0 \/ in_signal_time
<1>4. /\ handling => delay < LATENCY
      /\ delay' = IF handling THEN delay + 1 ELSE delay
      /\ hrtcnt' = (hrtcnt + 1) % TCYC_HRTCNT
      /\ hrt_event' = IF hrt_event > 0 THEN hrt_event - 1 ELSE hrt_event
      /\ left' = [e \in EVT |-> IF Registered(e) THEN left[e] - 1 ELSE 0]
      /\ UNCHANGED <<tmevt_heap, evttim, current_evttim, boundary_evttim,
                     current_hrtcnt, monotonic_evttim, systim_offset, in_signal_time>>
  BY DEF tick
<1>7. Lag' = Lag + 1 /\ hrtcnt' \in 0 .. TCYC_HRTCNT - 1
  BY LagAdvances
<1>8. TypeOK'
  <2>1. left' \in [EVT -> Int]
    BY <1>1, <1>4
  <2>2. hrt_event' \in STOPPED .. HRTCNT_BOUND
    BY <1>1, <1>3, <1>4 DEF STOPPED
  <2>3. delay' \in 0 .. LATENCY
    <3>1. delay \in 0 .. LATENCY
      BY <1>2 DEF TypeOK
    <3> QED BY <1>1, <1>4, <3>1
  <2> QED BY <1>2, <1>4, <1>7, <2>1, <2>2, <2>3 DEF TypeOK
<1>9. SystimNearEvttim'
  BY <1>2, <1>4 DEF SystimNearEvttim, EVTTIM_MINUS
<1>10. TimerInTime'
  <2>0. in_signal_time' = in_signal_time
    BY <1>4
  <2>1. CASE in_signal_time
    BY <1>1, <1>2, <1>3, <1>4, <1>7, <2>0, <2>1 DEF TimerInTime
  <2>2. CASE ~ in_signal_time /\ hrt_event = 0
    BY <1>1, <1>2, <1>3, <1>4, <1>7, <2>0, <2>2 DEF TimerInTime
  <2>3. CASE ~ in_signal_time /\ hrt_event # 0
    BY <1>1, <1>2, <1>3, <1>4, <1>7, <2>0, <2>3 DEF TimerInTime
  <2> QED BY <2>1, <2>2, <2>3
<1>11. Cur' = Cur \/ Total(Cur') = Total(Cur)
  BY <1>4 DEF Cur, Total
<1>12. Advanced(Cur', Cur, Limit)
  BY <1>1, <1>11 DEF Advanced
<1> QED BY <1>8, <1>9, <1>10, <1>12 DEF IInv

(* A step that changes nothing.                                            *)
LEMMA stutter_step ==
    ASSUME IInv, UNCHANGED vars
    PROVE  IInv' /\ Cur' = Cur
<1>1. /\ tmevt_heap' = tmevt_heap /\ evttim' = evttim
      /\ current_evttim' = current_evttim /\ boundary_evttim' = boundary_evttim
      /\ current_hrtcnt' = current_hrtcnt /\ monotonic_evttim' = monotonic_evttim
      /\ systim_offset' = systim_offset /\ in_signal_time' = in_signal_time
      /\ hrtcnt' = hrtcnt /\ hrt_event' = hrt_event /\ delay' = delay /\ left' = left
  BY DEF vars
<1>2. TypeOK /\ SystimNearEvttim /\ TimerInTime
  BY DEF IInv
<1>3. TypeOK'
  BY <1>1, <1>2 DEF TypeOK
<1>4. SystimNearEvttim'
  BY <1>1, <1>2 DEF SystimNearEvttim, EVTTIM_MINUS
<1>5. TimerInTime'
  BY <1>1, <1>2 DEF TimerInTime, Lag
<1>6. Cur' = Cur
  BY <1>1 DEF Cur
<1> QED BY <1>3, <1>4, <1>5, <1>6 DEF IInv

(* initialize_tmevt establishes the invariant.                             *)
LEMMA init_step == Init => IInv
<1> SUFFICES ASSUME Init PROVE IInv
  OBVIOUS
<1>1. EVTTIM_MOD \in Nat \ {0} /\ TCYC_HRTCNT \in Nat \ {0} /\ SYSTIM_MOD \in Nat \ {0}
      /\ HRTCNT_BOUND \in Nat \ {0} /\ BOUNDARY_MARGIN \in Nat /\ TMAX_ADJTIM \in Nat
      /\ LATENCY \in Nat
  BY ConstantsType
<1>2. 0 % EVTTIM_MOD = 0 /\ 0 % TCYC_HRTCNT = 0 /\ 0 \in Word
  BY <1>1 DEF Word
<1> DEFINE b == EVTTIM_MINUS(0, BOUNDARY_MARGIN)
           z == zero_state
           i == initialize_tmevt
<1>3. b \in Word
  BY <1>1, WordType
<1>4. z \in State /\ z.hrt_event # 0
  <2>1. STOPPED \in STOPPED .. HRTCNT_BOUND /\ STOPPED # 0
    BY <1>1 DEF STOPPED
  <2>2. <<>> \in Seq(EVT) /\ 0 \in 0 .. TCYC_HRTCNT - 1 /\ 0 \in 0 .. SYSTIM_MOD - 1
    BY <1>1
  <2> QED BY <1>2, <1>3, <2>1, <2>2 DEF zero_state, State
<1>5. i \in State /\ i = [z EXCEPT !.hrt_event = i.hrt_event]
      /\ i.hrt_event \in 1 .. HRTCNT_BOUND
  BY <1>4, SetEventOK DEF initialize_tmevt
<1>6. Cur = i /\ hrtcnt = 0 /\ delay = 0 /\ left = [e \in EVT |-> 0]
  <2> HIDE DEF i
  <2> QED BY <1>5 DEF Init, Cur, State, i
<1>7. /\ z.current_hrtcnt = 0 /\ z.current_evttim = 0 /\ z.monotonic_evttim = 0
      /\ z.in_signal_time = FALSE
  BY DEF zero_state
<1> HIDE DEF z, i
<1>8. /\ i.current_hrtcnt = 0 /\ i.current_evttim = 0 /\ i.monotonic_evttim = 0
      /\ i.in_signal_time = FALSE
  BY <1>4, <1>5, <1>7 DEF State
<1>9. LagOf(i) = 0
  BY <1>2, <1>6, <1>8 DEF LagOf
<1>10. Behind(i) = 0
  BY <1>2, <1>8 DEF Behind, EVTTIM_MINUS
<1>11. Good(i, delay)
  BY <1>1, <1>5, <1>6, <1>8, <1>9, <1>10 DEF Good
<1>12. hrtcnt \in 0 .. TCYC_HRTCNT - 1 /\ delay \in 0 .. LATENCY /\ left \in [EVT -> Int]
  BY <1>1, <1>6
<1> QED BY <1>6, <1>11, <1>12, GoodCur

-----------------------------------------------------------------------------

(* Every step keeps the inductive invariant, and but for set_tim moves the *)
(* system time forward by no more than Limit.                              *)
LEMMA NextStep ==
    ASSUME IInv, [Next]_vars
    PROVE  /\ IInv'
           /\ (\E time \in SYSTIM : set_tim(time)) \/ Advanced(Cur', Cur, Limit)
<1>1. CASE \E e \in EVT, time \in RELTIM : tmevtb_enqueue(e, time)
  BY <1>1, enqueue_step
<1>2. CASE \E e \in EVT : tmevtb_dequeue(e)
  BY <1>2, dequeue_step
<1>3. CASE \E adjtim \in ADJTIM : adj_tim(adjtim)
  BY <1>3, adj_step
<1>4. CASE \E time \in SYSTIM : set_tim(time)
  BY <1>4, set_step
<1>5. CASE get_tim
  BY <1>5, get_step
<1>6. CASE signal_time
  BY <1>6, signal_time_step
<1>7. CASE signal_time_continues
  BY <1>7, signal_time_continues_step
<1>8. CASE tick
  BY <1>8, tick_step
<1>9. CASE UNCHANGED vars
  <2>1. IInv' /\ Cur' = Cur
    BY <1>9, stutter_step
  <2>2. Advanced(Cur, Cur, Limit)
    BY CurGood
  <2> QED BY <2>1, <2>2
<1> QED BY <1>1, <1>2, <1>3, <1>4, <1>5, <1>6, <1>7, <1>8, <1>9 DEF Next

(* The invariant holds in every reachable state.                           *)
LEMMA Invariance == Spec => []IInv
<1>1. IInv /\ [Next]_vars => IInv'
  BY NextStep
<1> QED BY <1>1, init_step, PTL DEF Spec

(* Every variable keeps to the range of its C type, and the timer to the   *)
(* range of intervals the target can be set to (time_event.c, chip_timer.h). *)
THEOREM TypeCorrect == Spec => []TypeOK
<1>1. IInv => TypeOK
  BY DEF IInv
<1> QED BY <1>1, Invariance, PTL

(* Adjustments never set the event time back by more than two of them      *)
(* against its most advanced value, however they mix with time that passes *)
(* (time_event.c: check_adjtim, advance_evttim; time_manage.c: adj_tim).   *)
THEOREM SystimNear == Spec => []SystimNearEvttim
<1>1. IInv => SystimNearEvttim
  BY DEF IInv
<1> QED BY <1>1, Invariance, PTL

(* The timer interrupt always comes in time to read the counter before it  *)
(* passes its cycle, so no time is lost (time_event.c: set_hrt_event,      *)
(* signal_time, update_current_evttim).                                    *)
THEOREM CounterReadInTime == Spec => []TimerInTime
<1>1. IInv => TimerInTime
  BY DEF IInv
<1> QED BY <1>1, Invariance, PTL

(* A system time that advances by inc, before it is taken modulo           *)
(* SYSTIM_MOD, advances by inc modulo SYSTIM_MOD.                          *)
LEMMA AdvancedSystim ==
    ASSUME IInv, IInv', Advanced(Cur', Cur, Limit)
    PROVE  (systim(Cur)' - systim(Cur)) % SYSTIM_MOD < EVTTIM_MOD
<1> DEFINE S == SYSTIM_MOD
           t == Total(Cur)
           u == Total(Cur')
           x == t % S
           y == u % S
<1>1. Cur \in State /\ Cur' \in State
  <2>1. Cur \in State
    BY CurGood
  <2>2. (IInv => Cur \in State)'
    BY CurGood, PTL
  <2> QED BY <2>1, <2>2
<1>2. t \in Int /\ u \in Int /\ S \in Nat \ {0} /\ EVTTIM_MOD \in Nat \ {0}
      /\ EVTTIM_MOD <= S
  <2>1. EVTTIM_MOD <= S
    BY ConstantsType
  <2> QED BY <1>1, <2>1, StateType, ConstantsType DEF Total, Word
<1>3. PICK inc \in 0 .. Limit, k \in Int : u = t + inc + k * S
  BY DEF Advanced
<1>4. Limit \in Nat /\ Limit < EVTTIM_MOD
  BY TimeEventAssumption, ConstantsType DEF Limit
<1>5. systim(Cur) = x /\ systim(Cur)' = y
  BY DEF systim, Total
<1> HIDE DEF t, u
<1>6. x \in 0 .. S - 1 /\ y \in 0 .. S - 1
  BY <1>2, ModRange
<1>7. PICK p \in Int : t = p * S + x
  BY <1>2, ModQuotient
<1>8. PICK q \in Int : u = q * S + y
  BY <1>2, ModQuotient
<1>9. y - x = (p + k - q) * S + inc
  <2> DEFINE a == p * S
             b == k * S
             c == q * S
  <2>1. (p + k - q) * S = a + b - c /\ a \in Int /\ b \in Int /\ c \in Int
    BY <1>2
  <2>2. t = a + x /\ u = c + y /\ u = t + inc + b /\ x \in Int /\ y \in Int /\ inc \in Int
    BY <1>3, <1>6, <1>7, <1>8
  <2> HIDE DEF a, b, c, x, y
  <2>3. y - x = (a + b - c) + inc
    BY <1>2, <2>1, <2>2
  <2> QED BY <2>1, <2>3
<1>10. inc \in 0 .. S - 1 /\ inc < EVTTIM_MOD /\ y - x \in Int /\ p + k - q \in Int
  BY <1>2, <1>3, <1>4, <1>6
<1>11. (y - x) % S = inc
  BY <1>2, <1>9, <1>10, ModUnique
<1> QED BY <1>5, <1>10, <1>11

(* The system time never goes back unless it is set, for words of any size *)
(* and whatever the adjustments (time_manage.c: get_tim, adj_tim;          *)
(* time_event.c: advance_evttim, update_current_evttim).                   *)
THEOREM SystimNeverBack == Spec => SystimMonotonic
<1>1. IInv /\ IInv' /\ [Next]_vars =>
         [\/ \E time \in SYSTIM : set_tim(time)
          \/ (systim(Cur)' - systim(Cur)) % SYSTIM_MOD < EVTTIM_MOD]_vars
  BY NextStep, AdvancedSystim
<1>2. Spec => []IInv /\ [][Next]_vars
  BY Invariance, PTL DEF Spec
<1> QED BY <1>1, <1>2, PTL DEF SystimMonotonic

-----------------------------------------------------------------------------
(* The second part of the inductive invariant: the heap and the window.    *)

(* Words that stand for the same time, however often they wrapped around.  *)
Congruent(a, b) == \E q \in Int : a = b + q * EVTTIM_MOD

(* It does not matter which is named first, ...                            *)
LEMMA CongruentSwap ==
    ASSUME NEW a \in Int, NEW b \in Int, Congruent(a, b)
    PROVE  Congruent(b, a)
<1>1. PICK q \in Int : a = b + q * EVTTIM_MOD
  BY DEF Congruent
<1>2. (-q) * EVTTIM_MOD = -(q * EVTTIM_MOD) /\ q * EVTTIM_MOD \in Int /\ -q \in Int
  BY ConstantsType
<1> DEFINE x == q * EVTTIM_MOD
           y == (-q) * EVTTIM_MOD
<1>3. a = b + x /\ y = -x /\ x \in Int
  BY <1>1, <1>2
<1> HIDE DEF x, y
<1>4. b = a + y
  BY <1>3
<1> QED BY <1>2, <1>4 DEF y, Congruent

(* Differences of such words stand for the difference of the times.        *)
LEMMA CongruentMinus ==
    ASSUME NEW a \in Int, NEW b \in Int, Congruent(a, b),
           NEW c \in Int, NEW d \in Int, Congruent(c, d)
    PROVE  Congruent(a - c, b - d)
<1>1. PICK q \in Int : a = b + q * EVTTIM_MOD
  BY DEF Congruent
<1>2. PICK p \in Int : c = d + p * EVTTIM_MOD
  BY DEF Congruent
<1>3. (q - p) * EVTTIM_MOD = q * EVTTIM_MOD - p * EVTTIM_MOD
      /\ q * EVTTIM_MOD \in Int /\ p * EVTTIM_MOD \in Int /\ q - p \in Int
  BY ConstantsType
<1> DEFINE x == q * EVTTIM_MOD
           y == p * EVTTIM_MOD
           z == (q - p) * EVTTIM_MOD
<1>4. a = b + x /\ c = d + y /\ z = x - y /\ x \in Int /\ y \in Int
  BY <1>1, <1>2, <1>3
<1> HIDE DEF x, y, z
<1>5. a - c = (b - d) + z
  BY <1>4
<1> QED BY <1>3, <1>5 DEF z, Congruent

(* ... two that stand for the same time as a third do so too, ...          *)
LEMMA CongruentTrans ==
    ASSUME NEW a \in Int, NEW b \in Int, NEW c \in Int, Congruent(a, b), Congruent(b, c)
    PROVE  Congruent(a, c)
<1>1. PICK q \in Int : a = b + q * EVTTIM_MOD
  BY DEF Congruent
<1>2. PICK p \in Int : b = c + p * EVTTIM_MOD
  BY DEF Congruent
<1>3. (q + p) * EVTTIM_MOD = q * EVTTIM_MOD + p * EVTTIM_MOD
      /\ q * EVTTIM_MOD \in Int /\ p * EVTTIM_MOD \in Int /\ q + p \in Int
  BY ConstantsType
<1> DEFINE x == q * EVTTIM_MOD
           y == p * EVTTIM_MOD
           z == (q + p) * EVTTIM_MOD
<1>4. a = b + x /\ b = c + y /\ z = x + y /\ x \in Int /\ y \in Int
  BY <1>1, <1>2, <1>3
<1> HIDE DEF x, y, z
<1>5. a = c + z
  BY <1>4
<1> QED BY <1>3, <1>5 DEF z, Congruent

(* ... and every word stands for its own.                                  *)
LEMMA CongruentSelf ==
    ASSUME NEW a \in Int
    PROVE  Congruent(a, a)
<1>1. a = a + 0 * EVTTIM_MOD
  BY ConstantsType
<1> QED BY <1>1 DEF Congruent

(* Moving both by the same amount.                                         *)
LEMMA CongruentShift ==
    ASSUME NEW a \in Int, NEW b \in Int, NEW x \in Int, Congruent(a, b)
    PROVE  Congruent(a + x, b + x)
<1>1. PICK q \in Int : a = b + q * EVTTIM_MOD
  BY DEF Congruent
<1> DEFINE y == q * EVTTIM_MOD
<1>2. y \in Int /\ a = b + y
  BY <1>1, ConstantsType
<1> HIDE DEF y
<1>3. a + x = (b + x) + y
  BY <1>2
<1> QED BY <1>3 DEF y, Congruent

(* The arithmetic of event times.                                          *)
LEMMA CongruentWord ==
    ASSUME NEW a \in Int, NEW b \in Int
    PROVE  /\ EVTTIM_PLUS(a, b) \in Word /\ Congruent(EVTTIM_PLUS(a, b), a + b)
           /\ EVTTIM_MINUS(a, b) \in Word /\ Congruent(EVTTIM_MINUS(a, b), a - b)
<1>1. a + b \in Int /\ a - b \in Int /\ EVTTIM_MOD \in Nat \ {0}
  BY ConstantsType
<1>2. PICK p \in Int : a + b = p * EVTTIM_MOD + ((a + b) % EVTTIM_MOD)
  BY <1>1, ModQuotient
<1>3. PICK q \in Int : a - b = q * EVTTIM_MOD + ((a - b) % EVTTIM_MOD)
  BY <1>1, ModQuotient
<1> DEFINE u == EVTTIM_PLUS(a, b)
           v == EVTTIM_MINUS(a, b)
<1>4. u \in Word /\ v \in Word /\ a + b = p * EVTTIM_MOD + u /\ a - b = q * EVTTIM_MOD + v
  BY <1>2, <1>3, WordType DEF EVTTIM_PLUS, EVTTIM_MINUS
<1>5. u \in Int /\ v \in Int
  BY <1>4 DEF Word
<1> HIDE DEF u, v
<1>6. Congruent(a + b, u) /\ Congruent(a - b, v)
  <2> DEFINE x == p * EVTTIM_MOD
             y == q * EVTTIM_MOD
  <2>1. x \in Int /\ y \in Int /\ a + b = x + u /\ a - b = y + v
    BY <1>1, <1>4
  <2> HIDE DEF x, y
  <2>2. a + b = u + x /\ a - b = v + y
    BY <1>5, <2>1
  <2> QED BY <2>2 DEF x, y, Congruent
<1>7. Congruent(u, a + b) /\ Congruent(v, a - b)
  BY <1>1, <1>5, <1>6, CongruentSwap
<1> QED BY <1>4, <1>7 DEF u, v

(* Two words that stand for the same time are the same.                    *)
LEMMA CongruentEqual ==
    ASSUME NEW a \in Word, NEW b \in Word, Congruent(a, b)
    PROVE  a = b
<1>1. /\ a \in 0 .. EVTTIM_MOD - 1 /\ b \in 0 .. EVTTIM_MOD - 1
      /\ EVTTIM_MOD \in Nat \ {0} /\ a \in Int /\ b \in Int
  BY ConstantsType DEF Word
<1>2. PICK q \in Int : a = b + q * EVTTIM_MOD
  BY DEF Congruent
<1>3. a = 0 * EVTTIM_MOD + a
  BY <1>1
<1>4. a % EVTTIM_MOD = a
  BY <1>1, <1>3, ModUnique
<1>5. a = q * EVTTIM_MOD + b
  <2> DEFINE x == q * EVTTIM_MOD
  <2>1. x \in Int /\ a = b + x
    BY <1>1, <1>2
  <2> HIDE DEF x
  <2>2. a = x + b
    BY <1>1, <2>1
  <2> QED BY <2>2 DEF x
<1>6. a % EVTTIM_MOD = b
  BY <1>1, <1>5, ModUnique
<1> QED BY <1>4, <1>6

(* Event times are compared from BOUNDARY_MARGIN before the current time.  *)
Bound(s) == s.boundary_evttim = EVTTIM_MINUS(s.current_evttim, BOUNDARY_MARGIN)

(* A time t that is x ahead of the current time, or -x behind it, compares *)
(* as it should as long as it stays in the window.                         *)
LEMMA InWindowOK ==
    ASSUME NEW s \in State, Bound(s), NEW t \in Word, NEW x \in Int,
           BOUNDARY_MARGIN + x \in Word
    PROVE  EVTTIM_ADVANCE(s, t) = BOUNDARY_MARGIN + x <=> Congruent(t, s.current_evttim + x)
<1> DEFINE c == s.current_evttim
           b == s.boundary_evttim
           B == BOUNDARY_MARGIN
           k == EVTTIM_ADVANCE(s, t)
<1>0. x \in Int /\ B + x \in Word
  OBVIOUS
<1>1. c \in Int /\ b \in Int /\ B \in Int /\ t \in Int
  BY StateType, ConstantsType DEF Word
<1>2. Congruent(b, c - B)
  BY <1>1, CongruentWord DEF Bound
<1>3. k \in Word /\ Congruent(k, t - b)
  BY <1>1, CongruentWord DEF EVTTIM_ADVANCE
<1>4. k \in Int
  BY <1>3 DEF Word
<1>5. c + x \in Int /\ t - b \in Int /\ c - B \in Int /\ B + x \in Int /\ t - (c - B) \in Int
  BY <1>1, <1>0
<1> HIDE DEF k, c, b, B
<1>6. Congruent(t - b, t - (c - B))
  BY <1>1, <1>2, <1>5, CongruentSelf, CongruentMinus
<1>7. Congruent(k, t - (c - B))
  BY <1>3, <1>4, <1>5, <1>6, CongruentTrans
<1>8. ASSUME Congruent(t, c + x) PROVE k = B + x
  <2>1. Congruent(t - (c - B), (c + x) - (c - B))
    BY <1>1, <1>5, <1>8, CongruentSelf, CongruentMinus
  <2>2. (c + x) - (c - B) = B + x
    BY <1>0, <1>1
  <2>3. Congruent(k, B + x)
    BY <1>4, <1>5, <1>7, <2>1, <2>2, CongruentTrans
  <2> QED BY <1>0, <1>3, <2>3, CongruentEqual
<1>9. ASSUME k = B + x PROVE Congruent(t, c + x)
  <2>1. Congruent(t - (c - B), B + x)
    BY <1>4, <1>5, <1>7, <1>9, CongruentSwap
  <2>2. Congruent((t - (c - B)) + (c - B), (B + x) + (c - B))
    BY <1>5, <2>1, CongruentShift
  <2>3. (t - (c - B)) + (c - B) = t /\ (B + x) + (c - B) = c + x
    BY <1>0, <1>1
  <2> QED BY <2>2, <2>3
<1> QED BY <1>8, <1>9 DEF k, c, B

(* The root of the heap occurs first.                                      *)
LEMMA RootFirst ==
    ASSUME NEW s \in State, Ordered(s), s.heap # <<>>
    PROVE  /\ Head(s.heap) \in ToSet(s.heap) /\ Head(s.heap) \in EVT
           /\ \A e \in ToSet(s.heap) : Key(s, Head(s.heap)) <= Key(s, e)
<1> DEFINE N == Len(s.heap)
           k(i) == Key(s, s.heap[i])
           S == {i \in 1 .. N : ~ (k(1) <= k(i))}
<1>1. /\ N \in Nat /\ N >= 1 /\ Head(s.heap) = s.heap[1]
      /\ \A i \in 1 .. N : s.heap[i] \in EVT
      /\ ToSet(s.heap) = {s.heap[i] : i \in 1 .. N}
  BY HeapType, HeapSet
<1>2. \A i \in 1 .. N : k(i) \in Int
  BY <1>1, KeyType
<1>3. \A i \in 2 .. N : k(PARENT(i)) <= k(i)
  BY DEF Ordered
<1>4. \A i \in 2 .. N : PARENT(i) \in 1 .. N /\ PARENT(i) < i
  BY <1>1, ParentOK
<1> HIDE DEF k, N
<1>5. S = {}
  <2> SUFFICES ASSUME S # {} PROVE FALSE
    OBVIOUS
  <2>1. S \in SUBSET Nat
    BY <1>1
  <2> DEFINE m == Min(S)
  <2>2. m \in S /\ \A y \in S : m <= y
    BY <2>1, LeastNat
  <2>3. m \in 1 .. N /\ ~ (k(1) <= k(m))
    BY <2>2
  <2> HIDE DEF m
  <2>4. 1 \in 1 .. N /\ k(1) <= k(1)
    BY <1>1, <1>2
  <2>5. m \in 2 .. N
    BY <1>1, <2>3, <2>4
  <2>6. PARENT(m) \in 1 .. N /\ PARENT(m) < m /\ k(PARENT(m)) <= k(m)
    BY <1>3, <1>4, <2>5
  <2>7. PARENT(m) \notin S
    BY <1>1, <2>2, <2>3, <2>6
  <2>8. k(1) <= k(PARENT(m))
    BY <2>6, <2>7
  <2> QED BY <1>2, <2>3, <2>4, <2>6, <2>8
<1>6. \A i \in 1 .. N : k(1) <= k(i)
  BY <1>5
<1>7. 1 \in 1 .. N
  BY <1>1
<1> QED BY <1>1, <1>6, <1>7 DEF k

-----------------------------------------------------------------------------
(* The second part of the inductive invariant, on the data s: x is the time *)
(* really left to an event, and d how long the timer has been handled.     *)

(* The time of e is x ahead, no farther than when it was registered unless *)
(* the event time was set back.                                            *)
TimeOK(s, x, e) ==
    /\ Key(s, e) = LagOf(s) + x + BOUNDARY_MARGIN
    /\ \E t \in Ahead : LagOf(s) + x <= t + Behind(s)

(* How late an event can be.                                               *)
Early(s, x, d) ==
    /\ x >= -(2 * TMAX_ADJTIM) - d
    /\ ~s.in_signal_time /\ s.hrt_event # 0 => x >= 1 - 2 * TMAX_ADJTIM

(* The timer is set no later.                                              *)
Covered(s, x) == s.hrt_event > 1 => s.hrt_event <= x

(* The event time is set back by less than two adjustments.                *)
Near(s) == Behind(s) = 0 \/ Behind(s) < 2 * TMAX_ADJTIM

Timed(s, l) ==
    /\ Bound(s) /\ Near(s) /\ Heap(s)
    /\ \A e \in ToSet(s.heap) : TimeOK(s, l[e], e)

Punctual(s, l, d) == \A e \in ToSet(s.heap) : Early(s, l[e], d)
Covering(s, l)    == \A e \in ToSet(s.heap) : Covered(s, l[e])

(* The constants, as the proofs use them.                                  *)
LEMMA WindowType ==
    /\ BOUNDARY_MARGIN \in Nat /\ TMAX_ADJTIM \in Nat /\ TSTEP_HRTCNT \in Nat
    /\ TSTEP_HRTCNT >= 1 /\ LATENCY \in Nat
    /\ EVTTIM_MOD \in Nat /\ 2 * TMAX_ADJTIM + LATENCY <= BOUNDARY_MARGIN
    /\ BOUNDARY_MARGIN + TSTEP_HRTCNT \in Word
    /\ BOUNDARY_MARGIN \in Word
    /\ Ahead \subseteq Nat
    /\ \A t \in Ahead : /\ BOUNDARY_MARGIN + t < EVTTIM_MOD
                        /\ BOUNDARY_MARGIN + t + 2 * TMAX_ADJTIM <= EVTTIM_MOD
<1>1. /\ BOUNDARY_MARGIN \in Nat /\ TMAX_ADJTIM \in Nat /\ TSTEP_HRTCNT \in Nat
      /\ TSTEP_HRTCNT >= 1 /\ LATENCY \in Nat /\ EVTTIM_MOD \in Nat
  BY ConstantsType
<1>2. /\ 2 * TMAX_ADJTIM + LATENCY <= BOUNDARY_MARGIN
      /\ BOUNDARY_MARGIN + TSTEP_HRTCNT < EVTTIM_MOD
      /\ \A t \in Ahead : /\ BOUNDARY_MARGIN + t < EVTTIM_MOD
                          /\ BOUNDARY_MARGIN + t + 2 * TMAX_ADJTIM <= EVTTIM_MOD
  BY TimeWindowAssumption
<1>3. BOUNDARY_MARGIN \in Word /\ BOUNDARY_MARGIN + TSTEP_HRTCNT \in Word
  BY <1>1, <1>2 DEF Word
<1>4. Ahead \subseteq Nat
  <2>1. \A t \in RELTIM : TSTEP_HRTCNT + t \in Nat
    BY <1>1, TimeEventAssumption
  <2>2. \A e \in DOMAIN CYCTIM : CYCTIM[e] \in Nat
    BY TimeEventAssumption
  <2> QED BY <2>1, <2>2 DEF Ahead
<1> QED BY <1>1, <1>2, <1>3, <1>4

(* The present is BOUNDARY_MARGIN from the boundary.                       *)
LEMMA PresentKey ==
    ASSUME NEW s \in State, Bound(s)
    PROVE  EVTTIM_ADVANCE(s, s.current_evttim) = BOUNDARY_MARGIN
<1> DEFINE c == s.current_evttim
<1>1. c \in Word /\ c \in Int
  BY StateType DEF Word
<1>2. BOUNDARY_MARGIN + 0 = BOUNDARY_MARGIN /\ BOUNDARY_MARGIN \in Word /\ c + 0 = c
  BY <1>1, WindowType
<1>3. Congruent(c, c)
  BY <1>1, CongruentSelf
<1> HIDE DEF c
<1>4. EVTTIM_ADVANCE(s, c) = BOUNDARY_MARGIN + 0 <=> Congruent(c, s.current_evttim + 0)
  BY <1>1, <1>2, InWindowOK
<1> QED BY <1>2, <1>3, <1>4 DEF c

(* An event that is x ahead stays in the window when the time advances by  *)
(* a, or is set back by -a.                                                *)
LEMMA KeyShift ==
    ASSUME NEW s \in State, NEW r \in State, Bound(s), Bound(r), NEW a \in Int,
           r.current_evttim = EVTTIM_PLUS(s.current_evttim, a),
           NEW e \in EVT, r.evttim = s.evttim,
           NEW x \in Int, Key(s, e) = BOUNDARY_MARGIN + x, BOUNDARY_MARGIN + (x - a) \in Word
    PROVE  Key(r, e) = BOUNDARY_MARGIN + (x - a)
<1> DEFINE c == s.current_evttim
           g == r.current_evttim
           t == s.evttim[e]
<1>1. c \in Int /\ g \in Int /\ t \in Word /\ t \in Int /\ r.evttim[e] = t
  BY StateType DEF Word
<1>2. BOUNDARY_MARGIN + x \in Word /\ Key(s, e) = EVTTIM_ADVANCE(s, t)
  BY KeyType DEF Key
<1>3. Congruent(t, c + x)
  BY <1>1, <1>2, InWindowOK
<1>4. Congruent(g, c + a)
  BY <1>1, CongruentWord
<1>5. x - a \in Int /\ c + a \in Int /\ c + x \in Int
  BY <1>1
<1> HIDE DEF c, g, t
<1>6. Congruent(g + (x - a), c + x)
  <2>1. Congruent(g + (x - a), (c + a) + (x - a))
    BY <1>1, <1>4, <1>5, CongruentShift
  <2>2. (c + a) + (x - a) = c + x
    BY <1>1
  <2> QED BY <2>1, <2>2
<1>7. g + (x - a) \in Int
  BY <1>1, <1>5
<1>8. Congruent(c + x, g + (x - a))
  BY <1>5, <1>6, <1>7, CongruentSwap
<1>9. Congruent(t, g + (x - a))
  BY <1>1, <1>3, <1>5, <1>7, <1>8, CongruentTrans
<1>10. EVTTIM_ADVANCE(r, t) = BOUNDARY_MARGIN + (x - a) <=> Congruent(t, r.current_evttim + (x - a))
  BY <1>1, <1>5, InWindowOK
<1> QED BY <1>1, <1>9, <1>10 DEF g, Key

(* The lag changes by as much as the time does.                            *)
LEMMA BehindShift ==
    ASSUME NEW s \in State, NEW r \in State, NEW a \in Int,
           r.monotonic_evttim = s.monotonic_evttim,
           r.current_evttim = EVTTIM_PLUS(s.current_evttim, a),
           Behind(s) - a \in Word
    PROVE  Behind(r) = Behind(s) - a
<1> DEFINE c == s.current_evttim
           m == s.monotonic_evttim
           g == r.current_evttim
           b == Behind(s)
           k == Behind(r)
<1>1. c \in Int /\ m \in Int /\ g \in Int
  BY StateType DEF Word
<1>2. Congruent(g, c + a)
  BY <1>1, CongruentWord
<1>3. b \in Word /\ Congruent(b, m - c) /\ k \in Word /\ Congruent(k, m - g)
  BY <1>1, CongruentWord DEF Behind
<1>4. b \in Int /\ k \in Int /\ b - a \in Word
  BY <1>3 DEF Word
<1>5. c + a \in Int /\ m - c \in Int /\ m - g \in Int /\ b - a \in Int
      /\ (m - c) - a \in Int /\ m - (c + a) \in Int
  BY <1>1, <1>4
<1> HIDE DEF c, m, g, b, k
<1>6. Congruent(m - g, m - (c + a))
  BY <1>1, <1>2, <1>5, CongruentSelf, CongruentMinus
<1>7. Congruent(b - a, m - (c + a))
  <2>1. Congruent(b - a, (m - c) - a)
    BY <1>3, <1>4, <1>5, CongruentSelf, CongruentMinus
  <2>2. (m - c) - a = m - (c + a)
    BY <1>1
  <2> QED BY <2>1, <2>2
<1>8. Congruent(m - (c + a), b - a)
  BY <1>5, <1>7, CongruentSwap
<1>9. Congruent(k, m - (c + a))
  BY <1>3, <1>4, <1>5, <1>6, CongruentTrans
<1>10. Congruent(k, b - a)
  BY <1>4, <1>5, <1>8, <1>9, CongruentTrans
<1>11. k = b - a
  BY <1>3, <1>4, <1>10, CongruentEqual
<1> QED BY <1>11 DEF k, b

(* The lag is counted in words.                                            *)
LEMMA BehindNat ==
    ASSUME NEW s \in State
    PROVE  Behind(s) \in Word /\ Behind(s) \in Nat
<1>1. s.monotonic_evttim \in Int /\ s.current_evttim \in Int
  BY StateType DEF Word
<1>2. Behind(s) \in Word
  BY <1>1, WordType DEF Behind
<1> QED BY <1>2, ConstantsType DEF Word

(* advance_evttim moves the boundary along, and a time that was set back   *)
(* catches up.                                                             *)
LEMMA AdvanceTimes ==
    ASSUME NEW s \in State, NEW a \in Nat
    PROVE  LET r == advance_evttim(s, a)
           IN  /\ r \in State /\ SameQueue(r, s) /\ Bound(r)
               /\ r.current_hrtcnt = s.current_hrtcnt
               /\ r.current_evttim = EVTTIM_PLUS(s.current_evttim, a)
               /\ Behind(r) <= Behind(s) /\ Behind(r) >= Behind(s) - a
<1> DEFINE r == advance_evttim(s, a)
<1>1. /\ r \in State /\ SameQueue(r, s) /\ r.current_hrtcnt = s.current_hrtcnt
      /\ r.current_evttim = EVTTIM_PLUS(s.current_evttim, a)
      /\ IF Behind(s) < a
         THEN r.monotonic_evttim = EVTTIM_PLUS(s.current_evttim, a)
         ELSE r.monotonic_evttim = s.monotonic_evttim
  BY AdvanceType
<1>2. Bound(r)
  BY DEF Bound, advance_evttim, State
<1>3. Behind(s) \in Word /\ Behind(s) \in Nat /\ EVTTIM_MOD \in Nat \ {0}
  BY BehindNat, ConstantsType
<1> HIDE DEF r
<1>4. CASE Behind(s) < a
  <2>1. r.monotonic_evttim = r.current_evttim /\ r.current_evttim \in Int
    BY <1>1, <1>4, StateType DEF Word
  <2>2. r.monotonic_evttim - r.current_evttim = 0 /\ 0 % EVTTIM_MOD = 0
    BY <1>3, <2>1
  <2>3. Behind(r) = 0
    BY <2>2 DEF Behind, EVTTIM_MINUS
  <2> QED BY <1>1, <1>2, <1>3, <1>4, <2>3 DEF r
<1>5. CASE ~ (Behind(s) < a)
  <2>1. Behind(s) - a \in Word
    BY <1>3, <1>5 DEF Word
  <2>2. Behind(r) = Behind(s) - a
    BY <1>1, <1>5, <2>1, BehindShift
  <2> QED BY <1>1, <1>2, <1>3, <2>2 DEF r
<1> QED BY <1>4, <1>5

(* An event stays in the window when the current time changes by a, and    *)
(* the time really left to it does so too, or has changed already.         *)
LEMMA TimeShift ==
    ASSUME NEW s \in State, NEW r \in State, Bound(s), Bound(r), NEW a \in Int,
           hrtcnt \in 0 .. TCYC_HRTCNT - 1,
           r.current_evttim = EVTTIM_PLUS(s.current_evttim, a), r.evttim = s.evttim,
           Near(r), Behind(r) >= Behind(s) - a,
           NEW e \in EVT, NEW x \in Int, NEW y \in Int, TimeOK(s, x, e),
           LagOf(r) + y = LagOf(s) + x - a, LagOf(r) + y >= -BOUNDARY_MARGIN
    PROVE  TimeOK(r, y, e)
<1> DEFINE u == LagOf(s) + x
           v == LagOf(r) + y
           B == BOUNDARY_MARGIN
<1>1. LagOf(s) \in Int /\ LagOf(r) \in Int
  BY LagType, ConstantsType
<1>2. u \in Int /\ v \in Int /\ v = u - a /\ B \in Nat /\ v >= -B
  BY <1>1, WindowType
<1>3. Key(s, e) = B + u
  <2>1. Key(s, e) = LagOf(s) + x + B
    BY DEF TimeOK
  <2> QED BY <1>1, <1>2, <2>1
<1>4. PICK t \in Ahead : u <= t + Behind(s)
  BY DEF TimeOK
<1>5. Behind(s) \in Nat /\ Behind(r) \in Nat /\ t \in Nat /\ EVTTIM_MOD \in Nat
      /\ TMAX_ADJTIM \in Nat /\ B + t < EVTTIM_MOD /\ B + t + 2 * TMAX_ADJTIM <= EVTTIM_MOD
  BY BehindNat, WindowType
<1> HIDE DEF u, v, B
<1>6. v <= t + Behind(r)
  BY <1>2, <1>4, <1>5
<1>7. B + v \in Word
  <2>1. B + t + Behind(r) < EVTTIM_MOD
    BY <1>2, <1>5 DEF Near
  <2> QED BY <1>2, <1>5, <1>6, <2>1 DEF Word
<1>8. Key(r, e) = B + v
  <2>1. BOUNDARY_MARGIN + (u - a) \in Word /\ Key(s, e) = BOUNDARY_MARGIN + u
    BY <1>2, <1>3, <1>7 DEF B
  <2>2. Key(r, e) = BOUNDARY_MARGIN + (u - a)
    BY <1>2, <2>1, KeyShift
  <2> QED BY <1>2, <2>2 DEF B
<1>9. Key(r, e) = LagOf(r) + y + BOUNDARY_MARGIN
  BY <1>1, <1>2, <1>8 DEF v, B
<1>10. LagOf(r) + y <= t + Behind(r)
  BY <1>6 DEF v
<1> QED BY <1>9, <1>10 DEF TimeOK

(* The times of the events compare as before.                              *)
KeysMoved(r, s, k) == \A e \in ToSet(s.heap) : Key(r, e) = Key(s, e) + k

(* The heap does not depend on where times are compared from, as long as   *)
(* they are in the window.                                                 *)
LEMMA HeapShift ==
    ASSUME NEW s \in State, NEW r \in State, Heap(s), r.heap = s.heap,
           NEW k \in Int, KeysMoved(r, s, k)
    PROVE  Heap(r)
<1> DEFINE N == Len(s.heap)
<1>1. N \in Nat /\ \A i \in 1 .. N : s.heap[i] \in EVT /\ s.heap[i] \in ToSet(s.heap)
  <2>1. N \in Nat /\ ToSet(s.heap) = {s.heap[i] : i \in 1 .. N}
        /\ \A i \in 1 .. N : s.heap[i] \in EVT
    BY HeapType, HeapSet
  <2> QED BY <2>1
<1>2. Ordered(s) /\ Single(s.heap)
  BY DEF Heap
<1>3. ASSUME NEW i \in 2 .. N PROVE Key(r, r.heap[PARENT(i)]) <= Key(r, r.heap[i])
  <2>1. i \in 1 .. N /\ PARENT(i) \in 1 .. N
    BY <1>1, ParentOK
  <2> DEFINE e == s.heap[i]
             p == s.heap[PARENT(i)]
  <2>2. e \in EVT /\ p \in EVT /\ e \in ToSet(s.heap) /\ p \in ToSet(s.heap)
    BY <1>1, <2>1
  <2>3. Key(s, p) <= Key(s, e)
    BY <1>2 DEF Ordered
  <2> HIDE DEF e, p
  <2>4. Key(s, p) \in Int /\ Key(s, e) \in Int
    BY <2>2, KeyType
  <2>5. Key(r, p) <= Key(r, e)
    BY <2>2, <2>3, <2>4 DEF KeysMoved
  <2> QED BY <2>5 DEF e, p
<1> QED BY <1>2, <1>3 DEF Heap, Ordered

(* The events of the heap.                                                 *)
LEMMA HeapEvents ==
    ASSUME NEW s \in State
    PROVE  ToSet(s.heap) \subseteq EVT
<1>1. ToSet(s.heap) = {s.heap[i] : i \in 1 .. Len(s.heap)}
      /\ \A i \in 1 .. Len(s.heap) : s.heap[i] \in EVT
  BY HeapType, HeapSet
<1> QED BY <1>1

(* Bringing the time up to date.                                           *)
LEMMA UpdateTimed ==
    ASSUME NEW s \in State, hrtcnt \in 0 .. TCYC_HRTCNT - 1,
           NEW l \in [EVT -> Int], NEW d \in 0 .. LATENCY, Timed(s, l), Punctual(s, l, d)
    PROVE  LET r == update_current_evttim(s)
           IN  Timed(r, l) /\ Punctual(r, l, d)
<1> DEFINE a == LagOf(s)
           v == advance_evttim(s, a)
           r == [v EXCEPT !.current_hrtcnt = hrtcnt]
<1>1. a \in Nat /\ LagOf(s) \in Int
  BY LagType, ConstantsType
<1>2. /\ v \in State /\ SameQueue(v, s) /\ Bound(v)
      /\ v.current_evttim = EVTTIM_PLUS(s.current_evttim, a)
      /\ Behind(v) <= Behind(s) /\ Behind(v) >= Behind(s) - a
  BY <1>1, AdvanceTimes
<1>3. update_current_evttim(s) = r
  BY DEF update_current_evttim, LagOf
<1> HIDE DEF v
<1>4. /\ r \in State /\ SameQueue(r, s) /\ Bound(r)
      /\ r.current_evttim = EVTTIM_PLUS(s.current_evttim, a)
      /\ Behind(r) <= Behind(s) /\ Behind(r) >= Behind(s) - a
  BY <1>2 DEF State, SameQueue, Behind, Bound
<1>5. LagOf(r) = 0
  <2>1. LagOf(update_current_evttim(s)) = 0
    BY UpdateOK
  <2> QED BY <1>3, <2>1
<1> HIDE DEF r, a
<1>6. Behind(s) \in Nat /\ Behind(r) \in Nat /\ Bound(s) /\ Near(s) /\ Heap(s)
      /\ r.heap = s.heap /\ r.evttim = s.evttim /\ r.in_signal_time = s.in_signal_time
      /\ r.hrt_event = s.hrt_event /\ ToSet(s.heap) \subseteq EVT
  BY <1>4, BehindNat, HeapEvents DEF Timed, SameQueue
<1>7. Near(r)
  BY <1>4, <1>6, WindowType DEF Near
<1>8. ASSUME NEW e \in ToSet(s.heap) PROVE TimeOK(r, l[e], e)
  <2>1. e \in EVT /\ l[e] \in Int /\ TimeOK(s, l[e], e) /\ Early(s, l[e], d)
    BY <1>6 DEF Timed, Punctual
  <2>2. l[e] >= -(2 * TMAX_ADJTIM) - d
    BY <2>1 DEF Early
  <2>3. LagOf(r) + l[e] >= -BOUNDARY_MARGIN
    BY <1>5, <2>1, <2>2, WindowType
  <2>4. LagOf(r) + l[e] = LagOf(s) + l[e] - a
    BY <1>1, <1>5, <2>1 DEF a
  <2> QED BY <1>1, <1>4, <1>6, <1>7, <2>1, <2>3, <2>4, TimeShift
<1>9. Heap(r)
  <2>1. ASSUME NEW e \in ToSet(s.heap) PROVE Key(r, e) = Key(s, e) + (-a)
    <3>1. l[e] \in Int /\ TimeOK(s, l[e], e) /\ TimeOK(r, l[e], e)
      BY <1>6, <1>8 DEF Timed
    <3>2. Key(s, e) = LagOf(s) + l[e] + BOUNDARY_MARGIN
          /\ Key(r, e) = LagOf(r) + l[e] + BOUNDARY_MARGIN
      BY <3>1 DEF TimeOK
    <3> QED BY <1>1, <1>5, <3>1, <3>2, WindowType DEF a
  <2>2. KeysMoved(r, s, -a) /\ -a \in Int
    BY <1>1, <2>1 DEF KeysMoved, a
  <2> QED BY <1>4, <1>6, <2>2, HeapShift
<1>10. Timed(r, l)
  BY <1>4, <1>6, <1>7, <1>8, <1>9 DEF Timed
<1>11. Punctual(r, l, d)
  BY <1>6 DEF Punctual, Early
<1> QED BY <1>3, <1>10, <1>11

(* Data whose clock and event times are the same.                          *)
SameClock(r, s) ==
    /\ r.evttim = s.evttim
    /\ r.current_evttim = s.current_evttim
    /\ r.boundary_evttim = s.boundary_evttim
    /\ r.current_hrtcnt = s.current_hrtcnt
    /\ r.monotonic_evttim = s.monotonic_evttim

(* Their times compare and lag alike.                                      *)
LEMMA ClockOK ==
    ASSUME NEW r, NEW s, SameClock(r, s)
    PROVE  /\ \A e : Key(r, e) = Key(s, e)
           /\ LagOf(r) = LagOf(s) /\ Behind(r) = Behind(s)
           /\ Bound(r) <=> Bound(s)
  BY DEF SameClock, Key, EVTTIM_ADVANCE, LagOf, Behind, Bound

(* What only depends on the clock and the heap.                            *)
LEMMA ClockTimed ==
    ASSUME NEW s \in State, NEW r \in State, SameClock(r, s), r.heap = s.heap,
           NEW l, Timed(s, l)
    PROVE  Timed(r, l)
<1>1. /\ \A e : Key(r, e) = Key(s, e)
      /\ LagOf(r) = LagOf(s) /\ Behind(r) = Behind(s)
      /\ Bound(r) /\ Near(r) /\ Heap(s) /\ \A e \in ToSet(s.heap) : TimeOK(s, l[e], e)
  BY ClockOK DEF Timed, Near
<1>2. Heap(r)
  <2>1. ASSUME NEW e \in ToSet(s.heap) PROVE Key(r, e) = Key(s, e) + 0
    <3>1. e \in EVT
      BY HeapEvents
    <3>2. Key(s, e) \in Int
      BY <3>1, KeyType
    <3> QED BY <1>1, <3>2
  <2>2. KeysMoved(r, s, 0) /\ 0 \in Int
    BY <2>1 DEF KeysMoved
  <2> QED BY <1>1, <2>2, HeapShift
<1>3. \A e \in ToSet(r.heap) : TimeOK(r, l[e], e)
  BY <1>1 DEF TimeOK
<1> QED BY <1>1, <1>2, <1>3 DEF Timed

(* Of the registered events the root has the least time left.              *)
LEMMA LeastLeft ==
    ASSUME NEW s \in State, hrtcnt \in 0 .. TCYC_HRTCNT - 1, NEW l \in [EVT -> Int],
           Timed(s, l), s.heap # <<>>
    PROVE  /\ Head(s.heap) \in ToSet(s.heap) /\ Head(s.heap) \in EVT
           /\ \A e \in ToSet(s.heap) : l[Head(s.heap)] <= l[e]
<1> DEFINE h == Head(s.heap)
<1>1. h \in ToSet(s.heap) /\ h \in EVT /\ \A e \in ToSet(s.heap) : Key(s, h) <= Key(s, e)
  BY RootFirst DEF Timed, Heap
<1>2. ToSet(s.heap) \subseteq EVT /\ LagOf(s) \in Int /\ BOUNDARY_MARGIN \in Int
  BY HeapEvents, LagType, WindowType, ConstantsType
<1> HIDE DEF h
<1>3. ASSUME NEW e \in ToSet(s.heap) PROVE l[h] <= l[e]
  <2>1. Key(s, h) = LagOf(s) + l[h] + BOUNDARY_MARGIN
        /\ Key(s, e) = LagOf(s) + l[e] + BOUNDARY_MARGIN
    BY <1>1 DEF Timed, TimeOK
  <2>2. l[h] \in Int /\ l[e] \in Int /\ Key(s, h) <= Key(s, e)
    BY <1>1, <1>2
  <2> QED BY <1>2, <2>1, <2>2
<1> QED BY <1>1, <1>3 DEF h

(* The first time event is due when no time is left to it, and no other    *)
(* has less; when it is not due, no other is.                              *)
LEMMA DueOK ==
    ASSUME NEW s \in State, hrtcnt \in 0 .. TCYC_HRTCNT - 1, NEW l \in [EVT -> Int],
           Timed(s, l)
    PROVE  /\ Due(s) => s.heap # <<>> /\ LagOf(s) + l[Head(s.heap)] <= 0
           /\ ~Due(s) => \A e \in ToSet(s.heap) : LagOf(s) + l[e] > 0
<1> DEFINE h == Head(s.heap)
<1>1. CASE s.heap = <<>>
  <2>1. ToSet(s.heap) = {}
    BY <1>1 DEF ToSet
  <2> QED BY <1>1, <2>1 DEF Due
<1>2. CASE s.heap # <<>>
  <2>1. h \in ToSet(s.heap) /\ h \in EVT /\ \A e \in ToSet(s.heap) : l[h] <= l[e]
    BY <1>2, LeastLeft
  <2>2. Due(s) <=> Key(s, h) <= EVTTIM_ADVANCE(s, s.current_evttim)
    BY <1>2 DEF Due, EVTTIM_LE, top_evttim, Key
  <2> HIDE DEF h
  <2>3. EVTTIM_ADVANCE(s, s.current_evttim) = BOUNDARY_MARGIN
    BY PresentKey DEF Timed
  <2>4. Key(s, h) = LagOf(s) + l[h] + BOUNDARY_MARGIN
    BY <2>1 DEF Timed, TimeOK
  <2>5. LagOf(s) \in Int /\ BOUNDARY_MARGIN \in Int /\ l[h] \in Int
    BY <2>1, LagType, WindowType, ConstantsType
  <2>6. Due(s) <=> LagOf(s) + l[h] <= 0
    BY <2>2, <2>3, <2>4, <2>5
  <2>7. ASSUME NEW e \in ToSet(s.heap), ~Due(s) PROVE LagOf(s) + l[e] > 0
    <3>1. e \in EVT /\ l[h] <= l[e]
      BY <2>1, <2>7, HeapEvents
    <3>2. l[e] \in Int
      BY <3>1
    <3> QED BY <2>5, <2>6, <2>7, <3>1, <3>2
  <2> QED BY <1>2, <2>6, <2>7 DEF h
<1> QED BY <1>1, <1>2

(* What set_hrt_event changes.                                             *)
LEMMA SetEventClock ==
    ASSUME NEW s \in State
    PROVE  LET r == set_hrt_event(s)
           IN  /\ r \in State /\ SameClock(r, s) /\ r.heap = s.heap
               /\ r.in_signal_time = s.in_signal_time
               /\ r.hrt_event = 0 <=> s.hrt_event = 0
<1> DEFINE r == set_hrt_event(s)
<1>1. /\ r \in State /\ r = [s EXCEPT !.hrt_event = r.hrt_event]
      /\ IF s.hrt_event = 0 THEN r.hrt_event = 0 ELSE r.hrt_event \in 1 .. HRTCNT_BOUND
  BY SetEventOK
<1> HIDE DEF r
<1> DEFINE h == r.hrt_event
<1>2. r = [s EXCEPT !.hrt_event = h]
  BY <1>1
<1>4. r.hrt_event = 0 <=> s.hrt_event = 0
  BY <1>1, ConstantsType
<1> HIDE DEF h
<1>3. SameClock(r, s) /\ r.heap = s.heap /\ r.in_signal_time = s.in_signal_time
  BY <1>2 DEF State, SameClock
<1> QED BY <1>1, <1>3, <1>4 DEF r

(* set_hrt_event sets the timer for the first event, or for earlier.       *)
LEMMA SetEventCovers ==
    ASSUME NEW s \in State, hrtcnt \in 0 .. TCYC_HRTCNT - 1, NEW l \in [EVT -> Int],
           Timed(s, l), LagOf(s) = 0
    PROVE  Covering(set_hrt_event(s), l)
<1> DEFINE h == Head(s.heap)
           top == top_evttim(s)
           count == EVTTIM_MINUS(top, s.current_evttim)
           m == Min({count, HRTCNT_BOUND})
           r == set_hrt_event(s)
<1>1. r.heap = s.heap /\ (r.hrt_event = 0 <=> s.hrt_event = 0)
  BY SetEventClock
<1>2. CASE s.hrt_event = 0
  <2>1. r.hrt_event = 0
    BY <1>1, <1>2
  <2> HIDE DEF r
  <2> QED BY <2>1 DEF Covering, Covered, r
<1>3. CASE s.heap = <<>>
  <2>1. ToSet(r.heap) = {}
    BY <1>1, <1>3 DEF ToSet
  <2> QED BY <2>1 DEF Covering
<1>4. CASE s.hrt_event # 0 /\ s.heap # <<>> /\ EVTTIM_LE(s, top, s.current_evttim)
  <2>1. r.hrt_event = 1
    BY <1>4 DEF set_hrt_event, target_hrt_raise_event, target_hrt_set_event, State
  <2> HIDE DEF r
  <2> QED BY <2>1 DEF Covering, Covered, r
<1>5. CASE s.hrt_event # 0 /\ s.heap # <<>> /\ ~ EVTTIM_LE(s, top, s.current_evttim)
  <2>1. r = target_hrt_set_event(s, m)
    BY <1>5 DEF set_hrt_event
  <2>2. r.hrt_event = m
    <3> HIDE DEF m
    <3> QED BY <1>5, <2>1 DEF target_hrt_set_event, State
  <2>3. h \in ToSet(s.heap) /\ h \in EVT /\ \A e \in ToSet(s.heap) : l[h] <= l[e]
    BY <1>5, LeastLeft
  <2>4. LagOf(s) + l[h] > 0 /\ l[h] \in Int
    <3>1. ~Due(s)
      BY <1>5 DEF Due
    <3> QED BY <2>3, <3>1, DueOK
  <2>5. count = l[h]
    <3> DEFINE t == s.evttim[h]
               c == s.current_evttim
               x == l[h]
    <3>1. t \in Word /\ t \in Int /\ c \in Int /\ top = t
      BY <2>3, StateType DEF top_evttim, Word
    <3>2. Key(s, h) = BOUNDARY_MARGIN + x
      <4>1. Key(s, h) = LagOf(s) + l[h] + BOUNDARY_MARGIN
        BY <2>3 DEF Timed, TimeOK
      <4> QED BY <2>4, <4>1, WindowType
    <3>3. Key(s, h) \in Word /\ Key(s, h) = EVTTIM_ADVANCE(s, t)
      BY <2>3, KeyType DEF Key
    <3>4. x \in Int /\ x > 0
      BY <2>4
    <3>5. Bound(s)
      BY DEF Timed
    <3> HIDE DEF t, x
    <3>6. BOUNDARY_MARGIN + x \in Word
      BY <3>2, <3>3
    <3>7. Congruent(t, c + x)
      BY <3>1, <3>2, <3>3, <3>4, <3>5, <3>6, InWindowOK
    <3>8. x \in Word
      BY <3>4, <3>6, WindowType DEF Word
    <3> HIDE DEF c
    <3>9. Congruent(t - c, (c + x) - c) /\ (c + x) - c = x
      BY <3>1, <3>4, <3>7, CongruentSelf, CongruentMinus
    <3>10. EVTTIM_MINUS(t, c) \in Word /\ Congruent(EVTTIM_MINUS(t, c), t - c)
      BY <3>1, CongruentWord
    <3> DEFINE k == EVTTIM_MINUS(t, c)
    <3>11. k \in Word /\ k \in Int /\ Congruent(k, t - c) /\ Congruent(t - c, x)
      BY <3>9, <3>10 DEF Word
    <3>12. t - c \in Int
      BY <3>1
    <3> HIDE DEF k
    <3>13. Congruent(k, x)
      BY <3>4, <3>11, <3>12, CongruentTrans
    <3>14. k = x
      BY <3>8, <3>11, <3>13, CongruentEqual
    <3> QED BY <3>1, <3>14 DEF k, x, c
  <2> HIDE DEF h, count
  <2>6. m <= l[h] /\ m \in Nat
    <3>1. count \in Nat /\ HRTCNT_BOUND \in Nat
      BY <2>4, <2>5, ConstantsType
    <3>2. {count, HRTCNT_BOUND} \in SUBSET Nat /\ {count, HRTCNT_BOUND} # {}
      BY <3>1
    <3>3. m \in {count, HRTCNT_BOUND} /\ m <= count
      BY <3>2, LeastNat
    <3> HIDE DEF m
    <3> QED BY <2>5, <3>1, <3>3
  <2> HIDE DEF m, r
  <2>7. ASSUME NEW e \in ToSet(r.heap) PROVE r.hrt_event <= l[e]
    <3>1. e \in EVT /\ l[e] \in Int /\ l[h] <= l[e]
      BY <1>1, <2>3, HeapEvents
    <3> QED BY <2>2, <2>4, <2>6, <3>1
  <2> QED BY <2>7 DEF Covering, Covered, r
<1> QED BY <1>2, <1>3, <1>4, <1>5

(* The second part of the invariant.                                       *)
OnTime(s, l, d) ==
    /\ Timed(s, l)
    /\ Punctual(s, l, d)
    /\ ~s.in_signal_time => Covering(s, l)

EInv == OnTime(Cur, left, delay)

(* What an action makes of the heap, as HeapKeepsOthers states it.         *)
OneMoved(r, s) == \E e \in EVT : ToSet(s.heap) \ {e} = ToSet(r.heap) \ {e}

(* An action that replaces the data.                                       *)
LEMMA BecomeOnTime ==
    ASSUME NEW STATE s, s \in State, Become(s), OnTime(s, left', delay')
    PROVE  EInv' /\ Cur' = s
<1>1. hrtcnt' = hrtcnt
  BY DEF Become
<1>2. Cur' = s
  BY DEF Become, Cur, State
<1>3. Timed(Cur, left)'
  BY <1>1, <1>2 DEF OnTime, Timed, TimeOK, Bound, Near, Heap, Ordered, Single, Key, LagOf,
     Behind, EVTTIM_ADVANCE, EVTTIM_MINUS, ToSet, PARENT, Ahead
<1>4. Punctual(Cur, left, delay)'
  BY <1>2 DEF OnTime, Punctual, Early, ToSet
<1>5. (~Cur.in_signal_time => Covering(Cur, left))'
  BY <1>2 DEF OnTime, Covering, Covered, ToSet
<1>6. EInv'
  BY <1>3, <1>4, <1>5 DEF EInv, OnTime
<1> QED BY <1>2, <1>6

(* The time left to one event, or its event time, is another.              *)
LeftAt(l, e, x)  == [l EXCEPT ![e] = x]
TimeAt(s, e, at) == [s EXCEPT !.evttim[e] = at]

(* An event at time t with x left would be in the window.                  *)
Fits(s, t, x) ==
    /\ EVTTIM_ADVANCE(s, t) = LagOf(s) + x + BOUNDARY_MARGIN
    /\ \E a \in Ahead : LagOf(s) + x <= a + Behind(s)

(* An event that is taken out leaves the others as they were.              *)
LEMMA TakeTimed ==
    ASSUME NEW s \in State, NEW r \in State, SameTimes(r, s), Heap(r),
           NEW e, ToSet(r.heap) = ToSet(s.heap) \ {e},
           NEW l \in [EVT -> Int], NEW y, NEW k, k = LeftAt(l, e, y), Timed(s, l)
    PROVE  /\ Timed(r, k)
           /\ \A f \in ToSet(r.heap) : k[f] = l[f] /\ f \in ToSet(s.heap)
<1>1. SameClock(r, s)
  BY DEF SameTimes, SameClock
<1>2. /\ \A f : Key(r, f) = Key(s, f)
      /\ LagOf(r) = LagOf(s) /\ Behind(r) = Behind(s)
      /\ Bound(r) /\ Near(r) /\ \A f \in ToSet(s.heap) : TimeOK(s, l[f], f)
  BY <1>1, ClockOK DEF Timed, Near
<1>3. \A f \in ToSet(r.heap) : k[f] = l[f] /\ f \in ToSet(s.heap)
  <2>1. ToSet(r.heap) \subseteq EVT
    BY HeapEvents
  <2> QED BY <2>1 DEF LeftAt
<1>4. \A f \in ToSet(r.heap) : TimeOK(r, k[f], f)
  BY <1>2, <1>3 DEF TimeOK
<1>5. Timed(r, k)
  BY <1>2, <1>4 DEF Timed
<1> QED BY <1>3, <1>5

(* What inserting e with x left gives.                                     *)
Joined(r, s, k, l, e, x) ==
    /\ r \in State /\ Timed(r, k) /\ k \in [EVT -> Int]
    /\ LagOf(r) = LagOf(s) /\ ToSet(r.heap) = ToSet(s.heap) \cup {e}
    /\ r.in_signal_time = s.in_signal_time /\ r.hrt_event = s.hrt_event
    /\ k[e] = x /\ \A f \in ToSet(s.heap) : k[f] = l[f] /\ f # e

(* An event that is inserted in the window does too.                       *)
LEMMA InsertTimed ==
    ASSUME NEW s \in State, NEW e \in EVT, e \notin ToSet(s.heap), NEW at \in Word,
           NEW l \in [EVT -> Int], NEW x \in Int, Timed(s, l), Fits(s, at, x),
           NEW k, k = LeftAt(l, e, x), NEW r, r = tmevtb_insert(TimeAt(s, e, at), e)
    PROVE  Joined(r, s, k, l, e, x)
<1> DEFINE n == TimeAt(s, e, at)
<1>0. r = tmevtb_insert(n, e)
  OBVIOUS
<1>1. /\ n \in State /\ n.heap = s.heap /\ n.evttim[e] = at
      /\ \A f \in EVT : f # e => n.evttim[f] = s.evttim[f]
      /\ n.current_evttim = s.current_evttim /\ n.boundary_evttim = s.boundary_evttim
      /\ n.current_hrtcnt = s.current_hrtcnt /\ n.monotonic_evttim = s.monotonic_evttim
      /\ n.in_signal_time = s.in_signal_time /\ n.hrt_event = s.hrt_event
  BY DEF State, TimeAt
<1> HIDE DEF n
<1>2. k \in [EVT -> Int] /\ k[e] = x /\ \A f \in EVT : f # e => k[f] = l[f]
  BY DEF LeftAt
<1>3. /\ LagOf(n) = LagOf(s) /\ Behind(n) = Behind(s) /\ (Bound(n) <=> Bound(s))
      /\ \A f \in EVT : f # e => Key(n, f) = Key(s, f)
      /\ Key(n, e) = EVTTIM_ADVANCE(s, at)
  BY <1>1 DEF LagOf, Behind, Bound, Key, EVTTIM_ADVANCE
<1>4. ToSet(s.heap) \subseteq EVT /\ Heap(s) /\ Bound(s) /\ Near(s)
      /\ \A f \in ToSet(s.heap) : TimeOK(s, l[f], f)
  BY HeapEvents DEF Timed
<1>5. Heap(n)
  <2>1. ASSUME NEW f \in ToSet(s.heap) PROVE Key(n, f) = Key(s, f) + 0
    <3>1. f \in EVT /\ f # e
      BY <1>4
    <3>2. Key(s, f) \in Int
      BY <3>1, KeyType
    <3> QED BY <1>3, <3>1, <3>2
  <2>2. KeysMoved(n, s, 0) /\ 0 \in Int
    BY <2>1 DEF KeysMoved
  <2> QED BY <1>1, <1>4, <2>2, HeapShift
<1>6. r \in State /\ SameTimes(r, n)
  BY <1>0, <1>1, InsertType
<1>7. Heap(r) /\ ToSet(r.heap) = ToSet(s.heap) \cup {e}
  <2>1. e \notin ToSet(n.heap)
    BY <1>1
  <2> QED BY <1>0, <1>1, <1>5, <2>1, InsertHeap
<1>8. SameClock(r, n) /\ r.in_signal_time = n.in_signal_time /\ r.hrt_event = n.hrt_event
  BY <1>6 DEF SameTimes, SameClock
<1>9. /\ \A f : Key(r, f) = Key(n, f)
      /\ LagOf(r) = LagOf(n) /\ Behind(r) = Behind(n) /\ Bound(r)
  BY <1>3, <1>4, <1>8, ClockOK
<1>10. ASSUME NEW f \in ToSet(r.heap) PROVE TimeOK(r, k[f], f)
  <2>1. CASE f = e
    BY <1>2, <1>3, <1>9, <2>1 DEF TimeOK, Fits
  <2>2. CASE f # e
    <3>1. f \in ToSet(s.heap) /\ f \in EVT
      BY <1>4, <1>7, <2>2
    <3>2. TimeOK(s, l[f], f) /\ k[f] = l[f] /\ Key(r, f) = Key(s, f)
      BY <1>2, <1>3, <1>4, <1>9, <2>2, <3>1
    <3> QED BY <1>3, <1>9, <3>2 DEF TimeOK
  <2> QED BY <2>1, <2>2
<1>11. Near(r)
  BY <1>3, <1>4, <1>9 DEF Near
<1>12. Timed(r, k)
  BY <1>7, <1>9, <1>10, <1>11 DEF Timed
<1>13. \A f \in ToSet(s.heap) : k[f] = l[f] /\ f # e
  BY <1>2, <1>4
<1> QED BY <1>1, <1>2, <1>3, <1>6, <1>7, <1>8, <1>9, <1>12, <1>13 DEF Joined

-----------------------------------------------------------------------------
(* What the actions do to it.                                              *)

(* What the two parts of the invariant say of the present state, ...       *)
LEMMA CurOnTime ==
    ASSUME IInv, EInv
    PROVE  /\ Cur \in State /\ hrtcnt \in 0 .. TCYC_HRTCNT - 1 /\ left \in [EVT -> Int]
           /\ delay \in 0 .. LATENCY /\ delay \in Nat
           /\ Timed(Cur, left) /\ Punctual(Cur, left, delay)
           /\ ~Cur.in_signal_time => Covering(Cur, left)
  BY CurGood DEF EInv, OnTime

(* ... and of the data brought up to date.                                 *)
LEMMA NowOnTime ==
    ASSUME IInv, EInv
    PROVE  LET now == update_current_evttim(Cur)
           IN  /\ now \in State /\ SameQueue(now, Cur) /\ LagOf(now) = 0
               /\ OnTime(now, left, delay)
<1> DEFINE now == update_current_evttim(Cur)
<1>1. now \in State /\ SameQueue(now, Cur) /\ LagOf(now) = 0
  BY NowOK
<1>2. Timed(now, left) /\ Punctual(now, left, delay)
  BY CurOnTime, UpdateTimed
<1> HIDE DEF now
<1>3. ~now.in_signal_time => Covering(now, left)
  BY <1>1, CurOnTime DEF SameQueue, Covering, Covered
<1> QED BY <1>1, <1>2, <1>3 DEF now, OnTime

(* The timer is set again.                                                 *)
LEMMA SetOnTime ==
    ASSUME NEW s \in State, hrtcnt \in 0 .. TCYC_HRTCNT - 1, NEW l \in [EVT -> Int], NEW d,
           LagOf(s) = 0, Timed(s, l), Punctual(s, l, d)
    PROVE  /\ set_hrt_event(s) \in State /\ set_hrt_event(s).heap = s.heap
           /\ OnTime(set_hrt_event(s), l, d) /\ Covering(set_hrt_event(s), l)
<1> DEFINE r == set_hrt_event(s)
<1>1. /\ r \in State /\ SameClock(r, s) /\ r.heap = s.heap
      /\ r.in_signal_time = s.in_signal_time
      /\ r.hrt_event = 0 <=> s.hrt_event = 0
  BY SetEventClock
<1>2. Covering(r, l)
  BY SetEventCovers
<1> HIDE DEF r
<1>3. Timed(r, l)
  BY <1>1, ClockTimed
<1>4. Punctual(r, l, d)
  BY <1>1 DEF Punctual, Early
<1> QED BY <1>1, <1>2, <1>3, <1>4 DEF r, OnTime

(* A heap that does not change.                                            *)
LEMMA NoneMoved ==
    ASSUME NEW r, NEW s, r.heap = s.heap
    PROVE  OneMoved(r, s)
  BY TimeWindowAssumption DEF OneMoved

(* Registering a time event.                                               *)
LEMMA enqueue_on_time ==
    ASSUME IInv, EInv, NEW e \in EVT, NEW time \in RELTIM, tmevtb_enqueue(e, time)
    PROVE  EInv' /\ OneMoved(Cur', Cur)
<1> DEFINE now == update_current_evttim(Cur)
           ub  == calc_current_evttim_ub(now)
           at  == EVTTIM_PLUS(ub, time)
           x   == [now EXCEPT !.evttim[e] = at]
           r   == tmevtb_insert(x, e)
           y   == TSTEP_HRTCNT + time
           k   == [left EXCEPT ![e] = y]
<1>1. /\ now \in State /\ SameQueue(now, Cur) /\ LagOf(now) = 0
      /\ OnTime(now, left, delay)
  BY NowOnTime
<1>2. /\ left \in [EVT -> Int] /\ hrtcnt \in 0 .. TCYC_HRTCNT - 1 /\ delay \in Nat
  BY CurOnTime
<1>3. y \in Nat /\ y >= 1 /\ y \in Ahead /\ time \in Int
  BY TimeEventAssumption, WindowType DEF Ahead
<1>4. BOUNDARY_MARGIN + y \in Word /\ TSTEP_HRTCNT \in Int
  BY <1>3, WindowType DEF Word
<1>5. e \notin ToSet(now.heap)
  BY <1>1 DEF tmevtb_enqueue, Registered, SameQueue, Cur
<1>6. \/ /\ ~now.in_signal_time /\ Head(r.heap) = e
         /\ Become(set_hrt_event(r))
      \/ /\ now.in_signal_time \/ Head(r.heap) # e
         /\ Become(r)
  <2>1. now.in_signal_time = in_signal_time
    BY <1>1 DEF SameQueue, Cur
  <2> QED BY <2>1 DEF tmevtb_enqueue
<1>7. left' = k /\ delay' = delay
  BY DEF tmevtb_enqueue
<1> HIDE DEF now, y
<1>8. at \in Word /\ EVTTIM_ADVANCE(now, at) = BOUNDARY_MARGIN + y
  <2> DEFINE c == now.current_evttim
  <2>1. c \in Int
    BY <1>1, StateType DEF Word
  <2>2. ub \in Word /\ Congruent(ub, c + TSTEP_HRTCNT)
    BY <1>4, <2>1, CongruentWord DEF calc_current_evttim_ub
  <2>3. ub \in Int
    BY <2>2 DEF Word
  <2> HIDE DEF ub
  <2>4. at \in Word /\ Congruent(at, ub + time)
    BY <1>3, <2>3, CongruentWord
  <2>5. at \in Int /\ ub + time \in Int /\ c + TSTEP_HRTCNT \in Int /\ c + y \in Int
    BY <1>3, <1>4, <2>1, <2>3, <2>4 DEF Word
  <2> HIDE DEF at
  <2>6. Congruent(ub + time, c + y)
    <3>1. Congruent(ub + time, (c + TSTEP_HRTCNT) + time)
      BY <1>3, <2>2, <2>3, <2>5, CongruentShift
    <3>2. (c + TSTEP_HRTCNT) + time = c + y
      BY <1>3, <1>4, <2>1 DEF y
    <3> QED BY <3>1, <3>2
  <2>7. Congruent(at, c + y)
    BY <2>4, <2>5, <2>6, CongruentTrans
  <2> QED BY <1>1, <1>3, <1>4, <2>4, <2>7, InWindowOK DEF OnTime, Timed
<1> HIDE DEF at, ub
<1>9. /\ Timed(now, left) /\ Punctual(now, left, delay)
      /\ ~now.in_signal_time => Covering(now, left)
  BY <1>1 DEF OnTime
<1>10. /\ r \in State /\ Timed(r, k) /\ k \in [EVT -> Int]
       /\ LagOf(r) = LagOf(now) /\ ToSet(r.heap) = ToSet(now.heap) \cup {e}
       /\ r.in_signal_time = now.in_signal_time /\ r.hrt_event = now.hrt_event
       /\ k[e] = y /\ \A f \in ToSet(now.heap) : k[f] = left[f] /\ f # e
  <2>1. EVTTIM_ADVANCE(now, at) = LagOf(now) + y + BOUNDARY_MARGIN
    BY <1>1, <1>3, <1>8, WindowType
  <2>2. Fits(now, at, y)
    <3>1. LagOf(now) + y <= y + Behind(now)
      BY <1>1, <1>3, BehindNat
    <3> QED BY <1>3, <2>1, <3>1 DEF Fits
  <2>3. r = tmevtb_insert(TimeAt(now, e, at), e) /\ k = LeftAt(left, e, y)
    BY DEF TimeAt, LeftAt
  <2> HIDE DEF r, x, k
  <2>4. /\ now \in State /\ e \in EVT /\ e \notin ToSet(now.heap) /\ at \in Word
        /\ left \in [EVT -> Int] /\ y \in Int /\ Timed(now, left)
    BY <1>1, <1>2, <1>3, <1>5, <1>8, <1>9
  <2>5. Joined(r, now, k, left, e, y)
    BY <2>2, <2>3, <2>4, InsertTimed
  <2> QED BY <2>5 DEF Joined
<1>11. Punctual(r, k, delay)
  <2>1. ASSUME NEW f \in ToSet(r.heap) PROVE Early(r, k[f], delay)
    <3>1. CASE f = e
      <4>1. k[f] >= -(2 * TMAX_ADJTIM) - delay /\ k[f] >= 1 - 2 * TMAX_ADJTIM
        BY <1>2, <1>3, <1>10, <3>1, WindowType
      <4> QED BY <4>1 DEF Early
    <3>2. CASE f # e
      BY <1>9, <1>10, <3>2 DEF Punctual, Early
    <3> QED BY <3>1, <3>2
  <2> QED BY <2>1 DEF Punctual
<1>12. LagOf(r) = 0
  BY <1>1, <1>10
<1>13. OneMoved(r, Cur) /\ OneMoved(set_hrt_event(r), Cur)
  <2>1. set_hrt_event(r).heap = r.heap
    BY <1>10, SetEventClock
  <2>2. ToSet(r.heap) = ToSet(Cur.heap) \cup {e}
    BY <1>1, <1>10 DEF SameQueue
  <2>3. ToSet(Cur.heap) \ {e} = ToSet(r.heap) \ {e}
    BY <2>2
  <2> QED BY <2>1, <2>3 DEF OneMoved
<1>14. CASE ~now.in_signal_time /\ Head(r.heap) = e /\ Become(set_hrt_event(r))
  <2>1. OnTime(set_hrt_event(r), k, delay) /\ set_hrt_event(r) \in State
    BY <1>2, <1>10, <1>11, <1>12, SetOnTime
  <2> HIDE DEF r, k
  <2> QED BY <1>7, <1>13, <1>14, <2>1, BecomeOnTime
<1>15. CASE (now.in_signal_time \/ Head(r.heap) # e) /\ Become(r)
  <2> HIDE DEF r, k
  <2>1. ASSUME ~now.in_signal_time PROVE Covering(r, k)
    <3> DEFINE h == Head(r.heap)
    <3>1. r.heap # <<>>
      <4>1. e \in ToSet(r.heap)
        BY <1>10
      <4>2. ToSet(<<>>) = {}
        BY DEF ToSet
      <4> QED BY <4>1, <4>2
    <3>2. h \in ToSet(r.heap) /\ h \in EVT /\ \A f \in ToSet(r.heap) : k[h] <= k[f]
      BY <1>2, <1>10, <3>1, LeastLeft
    <3>3. h # e
      BY <1>15, <2>1
    <3> HIDE DEF h
    <3>4. h \in ToSet(now.heap) /\ Covered(r, k[h])
      BY <1>9, <1>10, <2>1, <3>2, <3>3 DEF Covering, Covered
    <3>5. ASSUME NEW f \in ToSet(r.heap) PROVE Covered(r, k[f])
      <4>1. f \in EVT
        BY <1>10, HeapEvents
      <4>2. k[f] \in Int /\ k[h] \in Int /\ k[h] <= k[f] /\ r.hrt_event \in Int
        BY <1>10, <3>2, <4>1, StateType
      <4> QED BY <3>4, <4>2 DEF Covered
    <3> QED BY <3>5 DEF Covering
  <2>2. OnTime(r, k, delay)
    BY <1>10, <1>11, <2>1 DEF OnTime
  <2> QED BY <1>7, <1>10, <1>13, <1>15, <2>2, BecomeOnTime
<1> HIDE DEF r, k
<1> QED BY <1>6, <1>14, <1>15

(* Deleting one.                                                           *)
LEMMA dequeue_on_time ==
    ASSUME IInv, EInv, NEW e \in EVT, tmevtb_dequeue(e)
    PROVE  EInv' /\ OneMoved(Cur', Cur)
<1> DEFINE r == tmevtb_delete(Cur, e)
           now == update_current_evttim(r)
           k == [left EXCEPT ![e] = 0]
<1>1. /\ Cur \in State /\ left \in [EVT -> Int] /\ hrtcnt \in 0 .. TCYC_HRTCNT - 1
      /\ delay \in 0 .. LATENCY
      /\ Timed(Cur, left) /\ Punctual(Cur, left, delay)
      /\ ~Cur.in_signal_time => Covering(Cur, left)
  BY CurOnTime
<1>2. e \in ToSet(Cur.heap)
  BY DEF tmevtb_dequeue, Registered, Cur
<1>3. r \in State /\ SameTimes(r, Cur) /\ Heap(r) /\ ToSet(r.heap) = ToSet(Cur.heap) \ {e}
  BY <1>1, <1>2, DeleteType, DeleteHeap DEF Timed
<1>4. left' = k /\ delay' = delay /\ (Become(r) \/ Become(set_hrt_event(now)))
  BY DEF tmevtb_dequeue
<1>5. k \in [EVT -> Int]
  BY <1>1, LeftSet
<1> HIDE DEF r
<1>6. Timed(r, k) /\ \A f \in ToSet(r.heap) : k[f] = left[f] /\ f \in ToSet(Cur.heap)
  <2>1. k = LeftAt(left, e, 0)
    BY DEF LeftAt
  <2> HIDE DEF k
  <2>2. /\ Cur \in State /\ r \in State /\ SameTimes(r, Cur) /\ Heap(r)
        /\ ToSet(r.heap) = ToSet(Cur.heap) \ {e} /\ left \in [EVT -> Int]
        /\ Timed(Cur, left)
    BY <1>1, <1>3
  <2> QED BY ONLY <2>1, <2>2, TakeTimed
<1> HIDE DEF k
<1>7. r.in_signal_time = Cur.in_signal_time /\ r.hrt_event = Cur.hrt_event
  BY <1>3 DEF SameTimes
<1>8. Punctual(r, k, delay)
  BY <1>1, <1>6, <1>7 DEF Punctual, Early
<1>9. OnTime(r, k, delay)
  <2>1. ~r.in_signal_time => Covering(r, k)
    BY <1>1, <1>6, <1>7 DEF Covering, Covered
  <2> QED BY <1>6, <1>8, <2>1 DEF OnTime
<1>10. /\ now \in State /\ SameQueue(now, r) /\ LagOf(now) = 0
       /\ Timed(now, k) /\ Punctual(now, k, delay)
  BY <1>1, <1>3, <1>5, <1>6, <1>8, UpdateOK, UpdateTimed
<1> HIDE DEF now
<1>11. /\ set_hrt_event(now) \in State /\ OnTime(set_hrt_event(now), k, delay)
       /\ set_hrt_event(now).heap = now.heap
  BY <1>1, <1>5, <1>10, SetOnTime
<1>12. OneMoved(r, Cur) /\ OneMoved(set_hrt_event(now), Cur)
  <2>1. ToSet(Cur.heap) \ {e} = ToSet(r.heap) \ {e}
    BY <1>3
  <2>2. set_hrt_event(now).heap = r.heap
    BY <1>10, <1>11 DEF SameQueue
  <2> QED BY <2>1, <2>2 DEF OneMoved
<1> QED BY <1>3, <1>4, <1>9, <1>11, <1>12, BecomeOnTime

(* Reading the system time ...                                             *)
LEMMA get_on_time ==
    ASSUME IInv, EInv, get_tim
    PROVE  EInv' /\ OneMoved(Cur', Cur)
<1> DEFINE now == update_current_evttim(Cur)
<1>1. now \in State /\ SameQueue(now, Cur) /\ OnTime(now, left, delay)
  BY NowOnTime
<1>2. Become(now) /\ delay' = delay /\ left' = left
  BY DEF get_tim
<1> HIDE DEF now
<1>3. OneMoved(now, Cur)
  BY <1>1, NoneMoved DEF SameQueue
<1> QED BY <1>1, <1>2, <1>3, BecomeOnTime

(* ... or setting it, which moves no event.                                *)
LEMMA set_on_time ==
    ASSUME IInv, EInv, NEW time \in SYSTIM, set_tim(time)
    PROVE  EInv' /\ OneMoved(Cur', Cur)
<1> DEFINE now == update_current_evttim(Cur)
           o   == (time - now.monotonic_evttim) % SYSTIM_MOD
           r   == [now EXCEPT !.systim_offset = o]
<1>1. now \in State /\ SameQueue(now, Cur) /\ OnTime(now, left, delay)
  BY NowOnTime
<1>2. o \in 0 .. SYSTIM_MOD - 1
  <2>1. time - now.monotonic_evttim \in Int
    BY <1>1, StateType, TimeEventAssumption, ConstantsType DEF Word
  <2> QED BY <2>1, ConstantsType, ModRange
<1>3. Become(r) /\ delay' = delay /\ left' = left
  BY DEF set_tim
<1> HIDE DEF now, o
<1>4. /\ r \in State /\ SameClock(r, now) /\ r.heap = now.heap
      /\ r.in_signal_time = now.in_signal_time /\ r.hrt_event = now.hrt_event
  BY <1>1, <1>2 DEF State, SameClock
<1> HIDE DEF r
<1>5. OnTime(r, left, delay)
  <2>1. Timed(now, left) /\ Punctual(now, left, delay)
        /\ (~now.in_signal_time => Covering(now, left))
    BY <1>1 DEF OnTime
  <2>2. Timed(r, left)
    BY <1>1, <1>4, <2>1, ClockTimed
  <2>3. Punctual(r, left, delay) /\ (~r.in_signal_time => Covering(r, left))
    BY <1>4, <2>1 DEF Punctual, Early, Covering, Covered
  <2> QED BY <2>2, <2>3 DEF OnTime
<1>6. OneMoved(r, Cur)
  BY <1>1, <1>4, NoneMoved DEF SameQueue
<1> QED BY <1>3, <1>4, <1>5, <1>6, BecomeOnTime

(* The current time is adjusted by a, and with it the time left to every   *)
(* registered event.                                                       *)
LEMMA AdjustTimed ==
    ASSUME NEW s \in State, NEW r \in State, hrtcnt \in 0 .. TCYC_HRTCNT - 1,
           NEW l \in [EVT -> Int], NEW k \in [EVT -> Int], NEW a \in Int,
           Timed(s, l), Bound(r), r.current_evttim = EVTTIM_PLUS(s.current_evttim, a),
           SameQueue(r, s), LagOf(s) = 0, LagOf(r) = 0, Near(r), Behind(r) >= Behind(s) - a,
           \A e \in ToSet(s.heap) : k[e] = l[e] - a /\ k[e] >= -BOUNDARY_MARGIN
    PROVE  Timed(r, k)
<1>1. /\ r.heap = s.heap /\ r.evttim = s.evttim /\ Bound(s) /\ Heap(s)
      /\ ToSet(s.heap) \subseteq EVT /\ \A e \in ToSet(s.heap) : TimeOK(s, l[e], e)
  BY HeapEvents DEF SameQueue, Timed
<1>2. ASSUME NEW e \in ToSet(s.heap)
      PROVE  TimeOK(r, k[e], e) /\ Key(r, e) = Key(s, e) + (-a)
  <2>1. e \in EVT /\ l[e] \in Int /\ k[e] \in Int /\ TimeOK(s, l[e], e)
    BY <1>1
  <2>2. k[e] = l[e] - a /\ k[e] >= -BOUNDARY_MARGIN
    OBVIOUS
  <2>3. LagOf(r) + k[e] = LagOf(s) + l[e] - a /\ LagOf(r) + k[e] >= -BOUNDARY_MARGIN
    BY <2>1, <2>2, WindowType
  <2>4. TimeOK(r, k[e], e)
    BY <1>1, <2>1, <2>3, TimeShift
  <2>5. Key(s, e) = LagOf(s) + l[e] + BOUNDARY_MARGIN
        /\ Key(r, e) = LagOf(r) + k[e] + BOUNDARY_MARGIN
    BY <2>1, <2>4 DEF TimeOK
  <2> QED BY <2>1, <2>2, <2>4, <2>5, WindowType
<1>3. KeysMoved(r, s, -a) /\ -a \in Int
  BY <1>2 DEF KeysMoved
<1>4. Heap(r)
  BY <1>1, <1>3, HeapShift
<1>5. \A e \in ToSet(r.heap) : TimeOK(r, k[e], e)
  BY <1>1, <1>2
<1> QED BY <1>4, <1>5 DEF Timed

(* An adjustment forward that check_adjtim permits leaves no event by more *)
(* than the largest adjustment behind.                                     *)
LEMMA PermittedForward ==
    ASSUME NEW s \in State, hrtcnt \in 0 .. TCYC_HRTCNT - 1, NEW l \in [EVT -> Int],
           Timed(s, l), LagOf(s) = 0, NEW a \in Int, a > 0, ~check_adjtim(s, a),
           NEW e \in ToSet(s.heap)
    PROVE  l[e] >= 1 - TMAX_ADJTIM
<1> DEFINE h == Head(s.heap)
           c == s.current_evttim
           t == EVTTIM_MINUS(c, TMAX_ADJTIM)
<1>1. s.heap # <<>>
  <2>1. ToSet(<<>>) = {}
    BY DEF ToSet
  <2> QED BY <2>1
<1>2. h \in ToSet(s.heap) /\ h \in EVT /\ l[h] <= l[e] /\ e \in EVT
  BY <1>1, LeastLeft, HeapEvents
<1>3. ~ (Key(s, h) <= EVTTIM_ADVANCE(s, t))
  BY <1>1 DEF check_adjtim, EVTTIM_LE, top_evttim, Key
<1>4. Key(s, h) = LagOf(s) + l[h] + BOUNDARY_MARGIN
  BY <1>2 DEF Timed, TimeOK
<1> HIDE DEF h
<1>5. EVTTIM_ADVANCE(s, t) = BOUNDARY_MARGIN + (-TMAX_ADJTIM)
  <2>1. c \in Int /\ TMAX_ADJTIM \in Int /\ -TMAX_ADJTIM \in Int
    BY StateType, WindowType DEF Word
  <2>2. t \in Word /\ Congruent(t, c - TMAX_ADJTIM)
    BY <2>1, CongruentWord
  <2>3. BOUNDARY_MARGIN + (-TMAX_ADJTIM) \in Word /\ c - TMAX_ADJTIM = c + (-TMAX_ADJTIM)
    BY <2>1, WindowType DEF Word
  <2> HIDE DEF t
  <2> QED BY <2>1, <2>2, <2>3, InWindowOK DEF Timed
<1>6. l[h] \in Int /\ l[e] \in Int /\ TMAX_ADJTIM \in Int /\ BOUNDARY_MARGIN \in Int
  BY <1>2, WindowType
<1> QED BY <1>2, <1>3, <1>4, <1>5, <1>6

(* Adjusting the system time.                                              *)
LEMMA adj_on_time ==
    ASSUME IInv, EInv, NEW a \in ADJTIM, adj_tim(a)
    PROVE  EInv' /\ OneMoved(Cur', Cur)
<1> DEFINE now  == update_current_evttim(Cur)
           c    == EVTTIM_PLUS(now.current_evttim, a)
           back == [now EXCEPT !.current_evttim  = c,
                               !.boundary_evttim = EVTTIM_MINUS(c, BOUNDARY_MARGIN)]
           fwd  == advance_evttim(now, a)
           k    == [e \in EVT |-> IF Registered(e) THEN left[e] - a ELSE 0]
<1>1. /\ now \in State /\ SameQueue(now, Cur) /\ LagOf(now) = 0
      /\ OnTime(now, left, delay)
  BY NowOnTime
<1>2. /\ left \in [EVT -> Int] /\ hrtcnt \in 0 .. TCYC_HRTCNT - 1 /\ delay \in Nat
      /\ delay \in 0 .. LATENCY
  BY CurOnTime
<1>3. a \in -TMAX_ADJTIM .. TMAX_ADJTIM /\ TMAX_ADJTIM \in Nat /\ a \in Int
  BY TimeEventAssumption, WindowType
<1>4. /\ delay' = delay
      /\ \/ check_adjtim(now, a) /\ Become(now) /\ left' = left
         \/ ~check_adjtim(now, a) /\ a > 0 /\ Become(set_hrt_event(fwd)) /\ left' = k
         \/ ~check_adjtim(now, a) /\ ~ (a > 0) /\ Become(set_hrt_event(back)) /\ left' = k
  BY DEF adj_tim
<1>5. k \in [EVT -> Int] /\ \A e \in ToSet(now.heap) : k[e] = left[e] - a
  <2>1. k \in [EVT -> Int]
    BY <1>2, <1>3
  <2>2. \A e \in ToSet(now.heap) : e \in EVT /\ Registered(e)
    BY <1>1, HeapEvents DEF SameQueue, Registered, Cur
  <2> QED BY <2>1, <2>2
<1>6. Timed(now, left) /\ Punctual(now, left, delay)
  BY <1>1 DEF OnTime
<1>7. \A e \in ToSet(now.heap) : e \in EVT /\ left[e] \in Int /\ Early(now, left[e], delay)
  BY <1>1, <1>2, <1>6, HeapEvents DEF Punctual
<1> HIDE DEF k
(* What is left to show of an adjusted time.                               *)
<1>8. ASSUME NEW STATE r, r \in State, SameQueue(r, now), LagOf(r) = 0,
             Timed(r, k), Punctual(r, k, delay),
             left' = k, Become(set_hrt_event(r))
      PROVE  EInv' /\ OneMoved(Cur', Cur)
  <2>1. /\ set_hrt_event(r) \in State /\ set_hrt_event(r).heap = r.heap
        /\ OnTime(set_hrt_event(r), k, delay)
    BY <1>2, <1>5, <1>8, SetOnTime
  <2>2. OneMoved(set_hrt_event(r), Cur)
    BY <1>1, <1>8, <2>1, NoneMoved DEF SameQueue
  <2> QED BY <1>4, <1>8, <2>1, <2>2, BecomeOnTime
<1>9. CASE check_adjtim(now, a) /\ Become(now) /\ left' = left
  <2> HIDE DEF now
  <2>1. OneMoved(now, Cur)
    BY <1>1, NoneMoved DEF SameQueue
  <2> QED BY <1>1, <1>4, <1>9, <2>1, BecomeOnTime
<1>10. CASE ~check_adjtim(now, a) /\ a > 0 /\ Become(set_hrt_event(fwd)) /\ left' = k
  <2> HIDE DEF now
  <2>1. a \in Nat
    BY <1>3, <1>10
  <2>2. /\ fwd \in State /\ SameQueue(fwd, now) /\ Bound(fwd)
        /\ LagOf(fwd) = LagOf(now)
        /\ fwd.current_evttim = EVTTIM_PLUS(now.current_evttim, a)
        /\ Behind(fwd) <= Behind(now) /\ Behind(fwd) >= Behind(now) - a
    BY <1>1, <2>1, AdvanceTimes DEF LagOf
  <2> HIDE DEF fwd
  <2>3. Near(fwd)
    BY <1>1, <1>6, <2>2, BehindNat, WindowType DEF Near, Timed
  <2>4. ASSUME NEW e \in ToSet(now.heap) PROVE k[e] >= 1 - 2 * TMAX_ADJTIM /\ k[e] \in Int
    <3>1. left[e] >= 1 - TMAX_ADJTIM
      BY <1>1, <1>2, <1>3, <1>6, <1>10, PermittedForward
    <3>2. left[e] \in Int /\ k[e] = left[e] - a
      BY <1>5, <1>7
    <3> QED BY <1>3, <3>1, <3>2
  <2>5. \A e \in ToSet(now.heap) : k[e] = left[e] - a /\ k[e] >= -BOUNDARY_MARGIN
    BY <1>5, <2>4, WindowType
  <2>6. Timed(fwd, k)
    BY <1>1, <1>2, <1>3, <1>5, <1>6, <2>2, <2>3, <2>5, AdjustTimed
  <2>7. Punctual(fwd, k, delay)
    <3>1. ASSUME NEW e \in ToSet(fwd.heap) PROVE Early(fwd, k[e], delay)
      <4>1. e \in ToSet(now.heap)
        BY <2>2 DEF SameQueue
      <4>2. k[e] >= 1 - 2 * TMAX_ADJTIM /\ k[e] \in Int
        BY <2>4, <4>1
      <4>3. k[e] >= -(2 * TMAX_ADJTIM) - delay
        BY <1>2, <1>3, <4>2
      <4> QED BY <4>2, <4>3 DEF Early
    <3> QED BY <3>1 DEF Punctual
  <2>8. LagOf(fwd) = 0 /\ left' = k /\ Become(set_hrt_event(fwd))
    BY <1>1, <1>10, <2>2
  <2> QED BY <2>2, <2>6, <2>7, <2>8, <1>8
<1>11. CASE ~check_adjtim(now, a) /\ ~ (a > 0) /\ Become(set_hrt_event(back)) /\ left' = k
  <2>1. a # 0 => Behind(now) < TMAX_ADJTIM
    <3> HIDE DEF now
    <3>1. Behind(now) \in Int
      BY <1>1, BehindType
    <3> QED BY <1>3, <1>11, <3>1 DEF check_adjtim, Behind
  <2> HIDE DEF now
  <2>2. a \in -TMAX_ADJTIM .. 0
    BY <1>3, <1>11
  <2>3. Behind(now) \in Nat /\ Behind(now) \in Word /\ Near(now)
    BY <1>1, <1>6, BehindNat DEF Timed
  <2>4. Behind(now) <= 2 * TMAX_ADJTIM
    BY <1>3, <2>3 DEF Near
  <2>5. back \in State /\ SameQueue(back, now) /\ LagOf(back) = LagOf(now)
    BY <1>1, <2>1, <2>2, <2>4, SetBackOK
  <2>6. /\ Bound(back) /\ back.current_evttim = c
        /\ back.monotonic_evttim = now.monotonic_evttim
    BY <1>1 DEF Bound, State
  <2>7. Behind(now) - a \in Word
    <3>1. CASE a = 0
      BY <2>3, <3>1 DEF Word
    <3>2. CASE a # 0
      <4>1. Behind(now) - a >= 0 /\ Behind(now) - a < 2 * TMAX_ADJTIM
        BY <1>3, <2>1, <2>2, <2>3, <3>2
      <4>2. Behind(now) - a < EVTTIM_MOD
        BY <1>3, <2>3, <4>1, WindowType DEF Word
      <4> QED BY <1>3, <2>3, <4>1, <4>2, ConstantsType DEF Word
    <3> QED BY <3>1, <3>2
  <2> HIDE DEF back
  <2>8. Behind(back) = Behind(now) - a
    BY <1>1, <1>3, <2>5, <2>6, <2>7, BehindShift
  <2>9. Near(back)
    <3>1. CASE a = 0
      BY <2>3, <2>8, <3>1 DEF Near
    <3>2. CASE a # 0
      BY <1>3, <2>1, <2>2, <2>3, <2>8, <3>2 DEF Near
    <3> QED BY <3>1, <3>2
  <2>10. ASSUME NEW e \in ToSet(now.heap)
         PROVE  /\ k[e] = left[e] - a /\ k[e] >= -BOUNDARY_MARGIN
                /\ Early(now, k[e], delay)
    <3>1. left[e] \in Int /\ Early(now, left[e], delay) /\ k[e] = left[e] - a
      BY <1>5, <1>7
    <3>2. k[e] >= left[e] /\ k[e] \in Int
      BY <1>3, <2>2, <3>1
    <3>3. k[e] >= -(2 * TMAX_ADJTIM) - delay
      BY <1>2, <1>3, <3>1, <3>2 DEF Early
    <3>4. k[e] >= -BOUNDARY_MARGIN
      BY <1>2, <1>3, <3>2, <3>3, WindowType
    <3>5. Early(now, k[e], delay)
      BY <1>3, <3>1, <3>2, <3>3 DEF Early
    <3> QED BY <3>1, <3>4, <3>5
  <2>11. Timed(back, k)
    <3>1. \A e \in ToSet(now.heap) : k[e] = left[e] - a /\ k[e] >= -BOUNDARY_MARGIN
      BY <2>10
    <3>2. Behind(back) >= Behind(now) - a
      BY <1>3, <2>3, <2>8
    <3>3. LagOf(back) = 0 /\ back.current_evttim = EVTTIM_PLUS(now.current_evttim, a)
      BY <1>1, <2>5, <2>6
    <3> QED BY <1>1, <1>2, <1>3, <1>5, <1>6, <2>5, <2>6, <2>9, <3>1, <3>2, <3>3, AdjustTimed
  <2>12. Punctual(back, k, delay)
    BY <2>5, <2>10 DEF SameQueue, Punctual, Early
  <2>13. LagOf(back) = 0 /\ left' = k /\ Become(set_hrt_event(back))
    BY <1>1, <1>11, <2>5
  <2> QED BY <2>5, <2>11, <2>12, <2>13, <1>8
<1> QED BY <1>4, <1>9, <1>10, <1>11

(* The event at the root is due, and no other before it.                   *)
CalledInOrder(s, l) ==
    LET e == Head(s.heap)
    IN  /\ l[e] <= 0
        /\ \A x \in ToSet(s.heap) : l[e] <= l[x]

SameEvents(r, s) == r.heap = s.heap /\ r.evttim = s.evttim

(* A cyclic notification registers itself again for a time in the window,  *)
(* since its event was due.                                                *)
LEMMA CyclicFits ==
    ASSUME NEW s \in State, hrtcnt \in 0 .. TCYC_HRTCNT - 1, Bound(s),
           NEW e \in DOMAIN CYCTIM, NEW x \in Int, LagOf(s) + x <= 0,
           Key(s, e) = LagOf(s) + x + BOUNDARY_MARGIN
    PROVE  LET at == EVTTIM_PLUS(s.evttim[e], CYCTIM[e])
           IN  at \in Word /\ Fits(s, at, x + CYCTIM[e])
<1> DEFINE t  == s.evttim[e]
           c  == s.current_evttim
           p  == CYCTIM[e]
           u  == LagOf(s) + x
           B  == BOUNDARY_MARGIN
           at == EVTTIM_PLUS(t, p)
<1>1. e \in EVT /\ p \in Nat /\ p \in Int /\ p \in Ahead /\ B \in Nat /\ EVTTIM_MOD \in Nat
      /\ B + p < EVTTIM_MOD
  <2>1. e \in EVT /\ p \in Nat /\ p \in Ahead
    BY TimeEventAssumption DEF Ahead
  <2> QED BY <2>1, WindowType
<1>2. t \in Word /\ t \in Int /\ c \in Int /\ LagOf(s) \in Int /\ u \in Int /\ u <= 0
  <2>1. s.evttim \in [EVT -> Word] /\ c \in Int
    BY StateType DEF Word
  <2>2. t \in Word /\ t \in Int
    BY <1>1, <2>1 DEF Word
  <2>3. LagOf(s) \in Int
    BY LagType, ConstantsType
  <2> QED BY <2>1, <2>2, <2>3
<1>3. EVTTIM_ADVANCE(s, t) = B + u /\ B + u \in Word
  <2>1. Key(s, e) = EVTTIM_ADVANCE(s, t) /\ Key(s, e) \in Word
    BY <1>1, KeyType DEF Key
  <2>2. Key(s, e) = B + u
    BY <1>1, <1>2
  <2> QED BY <2>1, <2>2
<1>4. at \in Word /\ Congruent(at, t + p)
  BY <1>1, <1>2, CongruentWord
<1>5. Behind(s) \in Nat
  BY BehindNat
<1>6. LagOf(s) + (x + p) = u + p
  BY <1>1, <1>2
<1> HIDE DEF t, c, p, u, at
<1>7. Congruent(t, c + u)
  <2>1. EVTTIM_ADVANCE(s, t) = BOUNDARY_MARGIN + u /\ BOUNDARY_MARGIN + u \in Word
    BY <1>3
  <2> QED BY <1>2, <2>1, InWindowOK DEF c
<1>8. Congruent(at, c + (u + p))
  <2>1. t + p \in Int /\ c + u \in Int /\ at \in Int /\ c + (u + p) \in Int
    BY <1>1, <1>2, <1>4 DEF Word
  <2>2. Congruent(t + p, (c + u) + p)
    BY <1>1, <1>2, <1>7, <2>1, CongruentShift
  <2>3. (c + u) + p = c + (u + p)
    BY <1>1, <1>2
  <2> QED BY <1>4, <2>1, <2>2, <2>3, CongruentTrans
<1>9. BOUNDARY_MARGIN + (u + p) \in Word /\ u + p \in Int
  BY <1>1, <1>2, <1>3 DEF Word
<1>10. EVTTIM_ADVANCE(s, at) = BOUNDARY_MARGIN + (u + p)
  BY <1>4, <1>8, <1>9, InWindowOK DEF c
<1>11. EVTTIM_ADVANCE(s, at) = LagOf(s) + (x + p) + BOUNDARY_MARGIN
  BY <1>1, <1>6, <1>9, <1>10
<1>12. LagOf(s) + (x + p) <= p + Behind(s)
  BY <1>1, <1>2, <1>5, <1>6
<1>13. Fits(s, at, x + p)
  BY <1>1, <1>11, <1>12 DEF Fits
<1> QED BY <1>4, <1>13 DEF at, t, p

(* A callback, which may register its event again.                         *)
LEMMA call_back_on_time ==
    ASSUME IInv, NEW STATE s, s \in State, s.in_signal_time, Due(s),
           Timed(s, left), Punctual(s, left, delay), call_back(s), delay' = delay
    PROVE  EInv' /\ OneMoved(Cur', s) /\ CalledInOrder(s, left)
<1> DEFINE e  == Head(s.heap)
           r  == tmevtb_delete_top(s)
           y  == left[e] + CYCTIM[e]
           at == EVTTIM_PLUS(r.evttim[e], CYCTIM[e])
           q  == tmevtb_insert(TimeAt(r, e, at), e)
           k0 == LeftAt(left, e, 0)
           k  == LeftAt(left, e, y)
<1>1. /\ left \in [EVT -> Int] /\ hrtcnt \in 0 .. TCYC_HRTCNT - 1
      /\ delay \in 0 .. LATENCY /\ delay \in Nat
  BY CurGood
<1>2. s.heap # <<>> /\ LagOf(s) + left[e] <= 0
  BY <1>1, DueOK
<1>3. e \in ToSet(s.heap) /\ e \in EVT /\ \A x \in ToSet(s.heap) : left[e] <= left[x]
  BY <1>1, <1>2, LeastLeft
<1>4. left[e] \in Int /\ left[e] <= 0
  <2>1. LagOf(s) \in Nat
    BY <1>1, LagType, ConstantsType
  <2> QED BY <1>1, <1>2, <1>3, <2>1
<1>5. CalledInOrder(s, left)
  BY <1>3, <1>4 DEF CalledInOrder
<1>6. r \in State /\ SameTimes(r, s) /\ Heap(r) /\ ToSet(r.heap) = ToSet(s.heap) \ {e}
  BY <1>2, DeleteTopType, DeleteTopHeap DEF Timed
<1>7. \/ e \in DOMAIN CYCTIM /\ Become(q) /\ left' = k
      \/ e \notin DOMAIN CYCTIM /\ Become(r) /\ left' = k0
  BY DEF call_back, TimeAt, LeftAt
<1> HIDE DEF r, e
<1>8. r.in_signal_time /\ r.hrt_event = s.hrt_event /\ LagOf(r) = LagOf(s)
      /\ \A f : Key(r, f) = Key(s, f)
  BY <1>6, SameKeys DEF SameTimes, LagOf
<1>9. CASE e \notin DOMAIN CYCTIM /\ Become(r) /\ left' = k0
  <2>1. k0 = LeftAt(left, e, 0)
    OBVIOUS
  <2> HIDE DEF k0
  <2>2. Timed(r, k0) /\ \A f \in ToSet(r.heap) : k0[f] = left[f] /\ f \in ToSet(s.heap)
    BY <1>1, <1>6, <2>1, TakeTimed
  <2>3. Punctual(r, k0, delay)
    BY <1>8, <2>2 DEF Punctual, Early
  <2>4. OnTime(r, k0, delay)
    BY <1>8, <2>2, <2>3 DEF OnTime
  <2>5. OneMoved(r, s)
    <3>1. ToSet(s.heap) \ {e} = ToSet(r.heap) \ {e}
      BY <1>6
    <3> QED BY <1>3, <3>1 DEF OneMoved
  <2> QED BY <1>5, <1>6, <1>9, <2>4, <2>5, BecomeOnTime
<1>10. CASE e \in DOMAIN CYCTIM /\ Become(q) /\ left' = k
  <2>1. CYCTIM[e] \in Nat /\ y \in Int
    BY <1>4, <1>10, TimeEventAssumption
  <2> HIDE DEF q, k, y, at
  <2>2. Timed(r, left) /\ \A f \in ToSet(r.heap) : f \in ToSet(s.heap)
    <3> DEFINE z == left[e]
    <3>1. left = LeftAt(left, e, z)
      BY <1>1, <1>3 DEF LeftAt
    <3> HIDE DEF z
    <3> QED BY <1>1, <1>6, <3>1, TakeTimed
  <2>3. at \in Word /\ Fits(r, at, y)
    <3>1. Bound(r) /\ Key(s, e) = LagOf(s) + left[e] + BOUNDARY_MARGIN
      BY <1>3, <2>2 DEF Timed, TimeOK
    <3>2. Key(r, e) = LagOf(r) + left[e] + BOUNDARY_MARGIN /\ LagOf(r) + left[e] <= 0
      BY <1>2, <1>8, <3>1
    <3> DEFINE x == left[e]
    <3>3. /\ r \in State /\ hrtcnt \in 0 .. TCYC_HRTCNT - 1 /\ Bound(r)
          /\ e \in DOMAIN CYCTIM /\ x \in Int /\ LagOf(r) + x <= 0
          /\ Key(r, e) = LagOf(r) + x + BOUNDARY_MARGIN
      BY <1>1, <1>4, <1>6, <1>10, <3>1, <3>2
    <3>4. y = x + CYCTIM[e]
      BY DEF y
    <3> HIDE DEF x
    <3>5. EVTTIM_PLUS(r.evttim[e], CYCTIM[e]) \in Word
          /\ Fits(r, EVTTIM_PLUS(r.evttim[e], CYCTIM[e]), x + CYCTIM[e])
      BY <3>3, CyclicFits
    <3> QED BY <3>4, <3>5 DEF at
  <2>4. e \notin ToSet(r.heap)
    BY <1>6
  <2>5. k = LeftAt(left, e, y) /\ q = tmevtb_insert(TimeAt(r, e, at), e)
    BY DEF k, q
  <2>6. Joined(q, r, k, left, e, y)
    BY <1>1, <1>3, <1>6, <2>1, <2>2, <2>3, <2>4, <2>5, InsertTimed
  <2>7. /\ q \in State /\ Timed(q, k) /\ k \in [EVT -> Int]
        /\ ToSet(q.heap) = ToSet(r.heap) \cup {e} /\ q.in_signal_time
        /\ k[e] = y /\ \A f \in ToSet(r.heap) : k[f] = left[f]
    BY <1>8, <2>6 DEF Joined
  <2>8. \A f \in ToSet(s.heap) : left[f] >= -(2 * TMAX_ADJTIM) - delay
    BY DEF Punctual, Early
  <2>9. ASSUME NEW f \in ToSet(q.heap) PROVE Early(q, k[f], delay)
    <3>1. CASE f = e
      <4>1. y >= left[e] /\ left[e] >= -(2 * TMAX_ADJTIM) - delay
        BY <1>3, <1>4, <2>1, <2>8 DEF y
      <4>2. k[f] >= -(2 * TMAX_ADJTIM) - delay
        BY <1>1, <1>4, <2>1, <2>7, <3>1, <4>1, WindowType
      <4> QED BY <2>7, <4>2 DEF Early
    <3>2. CASE f # e
      <4>1. f \in ToSet(r.heap) /\ k[f] = left[f]
        BY <2>7, <3>2
      <4> QED BY <2>2, <2>7, <2>8, <4>1 DEF Early
    <3> QED BY <3>1, <3>2
  <2>10. OnTime(q, k, delay)
    BY <2>7, <2>9 DEF OnTime, Punctual
  <2>11. OneMoved(q, s)
    <3>1. ToSet(s.heap) \ {e} = ToSet(q.heap) \ {e}
      BY <1>6, <2>7
    <3> QED BY <1>3, <3>1 DEF OneMoved
  <2> QED BY <1>5, <1>10, <2>7, <2>10, <2>11, BecomeOnTime
<1> QED BY <1>7, <1>9, <1>10

(* A turn of the loop, which calls back or ends and sets the timer.        *)
LEMMA next_turn_on_time ==
    ASSUME IInv, NEW STATE s, s \in State, s.in_signal_time,
           Timed(s, left), Punctual(s, left, delay), next_turn(s)
    PROVE  /\ EInv' /\ OneMoved(Cur', s)
           /\ CalledInOrder(s, left) \/ SameEvents(Cur', s)
<1> DEFINE now == update_current_evttim(s)
           h   == set_hrt_event(now)
           r   == [h EXCEPT !.in_signal_time = FALSE]
<1>1. /\ left \in [EVT -> Int] /\ hrtcnt \in 0 .. TCYC_HRTCNT - 1
      /\ delay \in 0 .. LATENCY /\ delay \in Nat
  BY CurGood
<1>2. /\ now \in State /\ SameQueue(now, s) /\ LagOf(now) = 0
      /\ Timed(now, left) /\ Punctual(now, left, delay)
  BY <1>1, UpdateOK, UpdateTimed
<1>3. \/ Due(now) /\ call_back(now) /\ delay' = delay
      \/ ~Due(now) /\ Become(r) /\ delay' = 0 /\ left' = left
  BY DEF next_turn
<1> HIDE DEF now
<1>4. now.heap = s.heap /\ now.evttim = s.evttim /\ now.in_signal_time
  BY <1>2 DEF SameQueue
<1>5. CASE Due(now) /\ call_back(now) /\ delay' = delay
  <2>1. EInv' /\ OneMoved(Cur', now) /\ CalledInOrder(now, left)
    BY <1>2, <1>4, <1>5, call_back_on_time
  <2> QED BY <1>4, <2>1 DEF OneMoved, CalledInOrder
<1>6. CASE ~Due(now) /\ Become(r) /\ delay' = 0 /\ left' = left
  <2>1. h \in State /\ h.heap = now.heap /\ OnTime(h, left, delay) /\ Covering(h, left)
        /\ SameClock(h, now)
    BY <1>1, <1>2, SetOnTime, SetEventClock
  <2> HIDE DEF h
  <2>2. /\ r \in State /\ SameClock(r, h) /\ r.heap = h.heap
        /\ r.hrt_event = h.hrt_event /\ r.evttim = s.evttim
    BY <1>4, <2>1 DEF State, SameClock
  <2> HIDE DEF r
  <2>3. Timed(r, left)
    BY <2>1, <2>2, ClockTimed DEF OnTime
  <2>4. \A e \in ToSet(now.heap) : left[e] >= 1 - 2 * TMAX_ADJTIM /\ left[e] \in Int
    <3>1. ASSUME NEW e \in ToSet(now.heap)
          PROVE  left[e] >= 1 - 2 * TMAX_ADJTIM /\ left[e] \in Int
      <4>1. e \in EVT /\ LagOf(now) + left[e] > 0
        BY <1>1, <1>2, <1>6, DueOK, HeapEvents
      <4> QED BY <1>1, <1>2, <4>1, WindowType
    <3> QED BY <3>1
  <2>5. Punctual(r, left, 0)
    <3>1. ASSUME NEW e \in ToSet(r.heap) PROVE Early(r, left[e], 0)
      <4>1. left[e] >= 1 - 2 * TMAX_ADJTIM /\ left[e] \in Int
        BY <2>1, <2>2, <2>4
      <4>2. left[e] >= -(2 * TMAX_ADJTIM) - 0
        BY <4>1, WindowType
      <4> QED BY <4>1, <4>2 DEF Early
    <3> QED BY <3>1 DEF Punctual
  <2>6. Covering(r, left)
    BY <2>1, <2>2 DEF Covering, Covered
  <2>7. OnTime(r, left, 0)
    BY <2>3, <2>5, <2>6 DEF OnTime
  <2>8. OneMoved(r, s) /\ SameEvents(r, s)
    BY <1>4, <2>1, <2>2, NoneMoved DEF SameEvents
  <2> QED BY <1>6, <2>2, <2>7, <2>8, BecomeOnTime
<1> QED BY <1>3, <1>5, <1>6

(* The interrupt is taken.                                                 *)
LEMMA signal_time_on_time ==
    ASSUME IInv, EInv, signal_time
    PROVE  /\ EInv' /\ OneMoved(Cur', Cur)
           /\ CalledInOrder(Cur, left) \/ SameEvents(Cur', Cur)
<1> DEFINE s == [Cur EXCEPT !.in_signal_time = TRUE, !.hrt_event = STOPPED]
<1>1. Cur \in State /\ Timed(Cur, left) /\ Punctual(Cur, left, delay)
  BY CurOnTime
<1>2. next_turn(s)
  BY DEF signal_time
<1>3. STOPPED \in STOPPED .. HRTCNT_BOUND
  BY ConstantsType DEF STOPPED
<1>4. s \in State /\ s.in_signal_time /\ SameClock(s, Cur) /\ s.heap = Cur.heap
      /\ s.evttim = Cur.evttim
  BY <1>1, <1>3 DEF State, SameClock
<1> HIDE DEF s
<1>5. Timed(s, left)
  BY <1>1, <1>4, ClockTimed
<1>6. Punctual(s, left, delay)
  BY <1>1, <1>4 DEF Punctual, Early
<1>7. /\ EInv' /\ OneMoved(Cur', s)
      /\ CalledInOrder(s, left) \/ SameEvents(Cur', s)
  BY <1>2, <1>4, <1>5, <1>6, next_turn_on_time
<1> QED BY <1>4, <1>7 DEF OneMoved, CalledInOrder, SameEvents

(* The handler goes on after a callback.                                   *)
LEMMA signal_time_continues_on_time ==
    ASSUME IInv, EInv, signal_time_continues
    PROVE  /\ EInv' /\ OneMoved(Cur', Cur)
           /\ CalledInOrder(Cur, left) \/ SameEvents(Cur', Cur)
<1>1. Cur \in State /\ Timed(Cur, left) /\ Punctual(Cur, left, delay)
  BY CurOnTime
<1>2. Cur.in_signal_time
  BY DEF signal_time_continues, Cur
<1>3. CASE Due(Cur) /\ call_back(Cur) /\ delay' = delay
  BY <1>1, <1>2, <1>3, call_back_on_time
<1>4. CASE next_turn(Cur)
  BY <1>1, <1>2, <1>4, next_turn_on_time
<1> QED BY <1>3, <1>4 DEF signal_time_continues

(* Time passes: the lag grows by as much as the time left goes down.       *)
LEMMA tick_on_time ==
    ASSUME IInv, EInv, tick
    PROVE  EInv' /\ OneMoved(Cur', Cur)
<1> DEFINE handling == hrt_event = 0 \/ in_signal_time
<1>1. /\ Cur \in State /\ left \in [EVT -> Int] /\ delay \in Nat
      /\ Timed(Cur, left) /\ Punctual(Cur, left, delay)
      /\ ~Cur.in_signal_time => Covering(Cur, left)
  BY CurOnTime
<1>2. /\ delay' = IF handling THEN delay + 1 ELSE delay
      /\ hrt_event' = IF hrt_event > 0 THEN hrt_event - 1 ELSE hrt_event
      /\ left' = [e \in EVT |-> IF Registered(e) THEN left[e] - 1 ELSE 0]
      /\ UNCHANGED <<tmevt_heap, evttim, current_evttim, boundary_evttim,
                     current_hrtcnt, monotonic_evttim, systim_offset, in_signal_time>>
  BY DEF tick
<1>3. LagOf(Cur)' = LagOf(Cur) + 1 /\ LagOf(Cur) \in Nat
  <2>1. Lag' = Lag + 1
    BY LagAdvances
  <2>2. Lag = LagOf(Cur) /\ Lag' = LagOf(Cur)'
    BY DEF Lag, LagOf, Cur
  <2>3. LagOf(Cur) \in Nat
    BY <1>1, CurGood, LagType, ConstantsType
  <2> QED BY <2>1, <2>2, <2>3
<1>4. /\ Cur'.heap = Cur.heap /\ Cur'.evttim = Cur.evttim
      /\ Cur'.current_evttim = Cur.current_evttim
      /\ Cur'.boundary_evttim = Cur.boundary_evttim
      /\ Cur'.monotonic_evttim = Cur.monotonic_evttim
      /\ Cur'.in_signal_time = Cur.in_signal_time
      /\ Cur.heap = tmevt_heap /\ Cur.in_signal_time = in_signal_time
      /\ Cur.hrt_event = hrt_event /\ Cur'.hrt_event = hrt_event'
  BY <1>2 DEF Cur
<1>5. hrt_event \in Int /\ (~handling => hrt_event >= 1)
  <2>1. hrt_event \in Int
    BY <1>1, <1>4, StateType, ConstantsType
  <2>2. TimerInTime
    BY DEF IInv
  <2> QED BY <2>1, <2>2, ConstantsType DEF TimerInTime
<1>6. ASSUME NEW e \in ToSet(Cur.heap)
      PROVE  /\ e \in EVT /\ left[e] \in Int /\ left'[e] = left[e] - 1
             /\ TimeOK(Cur, left[e], e) /\ Early(Cur, left[e], delay)
             /\ ~in_signal_time => Covered(Cur, left[e])
  <2>1. e \in EVT /\ Registered(e)
    BY <1>1, <1>4, HeapEvents DEF Registered
  <2> QED BY <1>1, <1>2, <1>4, <2>1 DEF Timed, Punctual, Covering
<1>7. Timed(Cur, left)'
  <2>1. /\ Bound(Cur)' /\ Near(Cur)' /\ Behind(Cur)' = Behind(Cur)
        /\ \A e : Key(Cur, e)' = Key(Cur, e)
    BY <1>1, <1>4 DEF Timed, Bound, Near, Behind, Key, EVTTIM_ADVANCE, EVTTIM_MINUS
  <2>2. Heap(Cur)'
    <3>1. Ordered(Cur) /\ Single(Cur.heap)
      BY <1>1 DEF Timed, Heap
    <3>2. Ordered(Cur)'
      BY <1>4, <3>1 DEF Ordered, Key, EVTTIM_ADVANCE, EVTTIM_MINUS, PARENT
    <3> QED BY <1>4, <3>1, <3>2 DEF Heap, Single
  <2>3. ASSUME NEW e \in ToSet(Cur.heap) PROVE TimeOK(Cur, left[e], e)'
    <3>1. /\ e \in EVT /\ left[e] \in Int /\ left'[e] = left[e] - 1
          /\ TimeOK(Cur, left[e], e)
      BY <1>6
    <3>2. LagOf(Cur)' + left'[e] = LagOf(Cur) + left[e]
      BY <1>3, <3>1
    <3> QED BY <2>1, <3>1, <3>2 DEF TimeOK, Ahead
  <2>4. \A e \in ToSet(Cur.heap)' : TimeOK(Cur, left[e], e)'
    BY <1>4, <2>3
  <2> QED BY <2>1, <2>2, <2>4 DEF Timed
<1>8. ASSUME NEW e \in ToSet(Cur.heap)
      PROVE  /\ Early(Cur, left[e], delay)'
             /\ ~in_signal_time => Covered(Cur, left[e])'
  <2> DEFINE x == left[e]
  <2>1. /\ x \in Int /\ left'[e] = x - 1 /\ TMAX_ADJTIM \in Nat
        /\ x >= -(2 * TMAX_ADJTIM) - delay
        /\ ~in_signal_time /\ hrt_event # 0 => x >= 1 - 2 * TMAX_ADJTIM
        /\ ~in_signal_time /\ hrt_event > 1 => hrt_event <= x
    BY <1>4, <1>6, WindowType DEF Early, Covered
  <2> HIDE DEF x
  <2>2. CASE handling
    <3>1. delay' = delay + 1 /\ (in_signal_time \/ hrt_event' = 0)
      BY <1>2, <2>2
    <3>2. left'[e] >= -(2 * TMAX_ADJTIM) - delay'
      BY <1>1, <2>1, <3>1
    <3>3. Early(Cur, left[e], delay)'
      BY <1>4, <3>1, <3>2 DEF Early
    <3>4. ~in_signal_time => Covered(Cur, left[e])'
      BY <1>4, <3>1 DEF Covered
    <3> QED BY <3>3, <3>4
  <2>3. CASE ~handling
    <3>1. delay' = delay /\ hrt_event' = hrt_event - 1 /\ hrt_event >= 1 /\ ~in_signal_time
          /\ hrt_event' \in Int
      BY <1>2, <1>5, <2>3
    <3>2. left'[e] >= -(2 * TMAX_ADJTIM) - delay'
      BY <1>1, <1>5, <2>1, <3>1
    <3>3. hrt_event' # 0 => left'[e] >= 1 - 2 * TMAX_ADJTIM
      BY <1>5, <2>1, <3>1
    <3>4. hrt_event' > 1 => hrt_event' <= left'[e]
      BY <1>5, <2>1, <3>1
    <3> QED BY <1>4, <3>2, <3>3, <3>4 DEF Early, Covered
  <2> QED BY <2>2, <2>3
<1>9. Punctual(Cur, left, delay)' /\ (~Cur.in_signal_time => Covering(Cur, left))'
  <2>1. ToSet(Cur.heap)' = ToSet(Cur.heap)
    BY <1>4
  <2> QED BY <1>4, <1>8, <2>1 DEF Punctual, Covering
<1>10. OneMoved(Cur', Cur)
  BY <1>4, NoneMoved
<1> QED BY <1>7, <1>9, <1>10 DEF EInv, OnTime

(* A step that changes nothing.                                            *)
LEMMA stutter_on_time ==
    ASSUME EInv, UNCHANGED vars
    PROVE  EInv'
<1>1. Cur' = Cur /\ left' = left /\ delay' = delay /\ hrtcnt' = hrtcnt
  BY DEF vars, Cur
<1>2. Timed(Cur, left)'
  BY <1>1 DEF EInv, OnTime, Timed, TimeOK, Bound, Near, Heap, Ordered, Single, Key, LagOf,
     Behind, EVTTIM_ADVANCE, EVTTIM_MINUS, ToSet, PARENT, Ahead
<1>3. Punctual(Cur, left, delay)'
  BY <1>1 DEF EInv, OnTime, Punctual, Early, ToSet
<1>4. (~Cur.in_signal_time => Covering(Cur, left))'
  BY <1>1 DEF EInv, OnTime, Covering, Covered, ToSet
<1> QED BY <1>2, <1>3, <1>4 DEF EInv, OnTime

(* initialize_tmevt leaves the heap empty.                                 *)
LEMMA init_on_time ==
    ASSUME Init
    PROVE  EInv
<1> DEFINE z == zero_state
           i == initialize_tmevt
<1>1. IInv /\ Cur \in State
  BY init_step, CurGood
<1>2. z \in State
  <2>1. STOPPED \in STOPPED .. HRTCNT_BOUND
    BY ConstantsType DEF STOPPED
  <2>2. /\ <<>> \in Seq(EVT) /\ 0 \in 0 .. TCYC_HRTCNT - 1 /\ 0 \in 0 .. SYSTIM_MOD - 1
        /\ 0 \in Word
    BY ConstantsType DEF Word
  <2>3. EVTTIM_MINUS(0, BOUNDARY_MARGIN) \in Word
    BY ConstantsType, WordType
  <2> QED BY <2>1, <2>2, <2>3 DEF zero_state, State
<1>3. i \in State /\ SameClock(i, z) /\ i.heap = z.heap
  BY <1>2, SetEventClock DEF initialize_tmevt
<1>4. Cur = i
  <2> HIDE DEF i
  <2> QED BY <1>3 DEF Init, Cur, State, i
<1>5. /\ z.heap = <<>> /\ z.current_evttim = 0 /\ z.monotonic_evttim = 0
      /\ z.boundary_evttim = EVTTIM_MINUS(0, BOUNDARY_MARGIN)
  BY DEF zero_state
<1> HIDE DEF z, i
<1>6. Bound(z) /\ Near(z)
  <2>1. 0 - 0 = 0 /\ 0 % EVTTIM_MOD = 0
    BY ConstantsType
  <2> QED BY <1>5, <2>1 DEF Bound, Near, Behind, EVTTIM_MINUS
<1>7. Heap(z) /\ ToSet(z.heap) = {}
  <2>1. Len(z.heap) = 0 /\ 2 .. 0 = {} /\ 1 .. 0 = {}
    BY <1>5
  <2>2. ToSet(<<>>) = {}
    BY DEF ToSet
  <2> QED BY <1>5, <2>1, <2>2 DEF Heap, Ordered, Single
<1>8. Timed(z, left)
  BY <1>6, <1>7 DEF Timed
<1>9. Timed(i, left)
  BY <1>2, <1>3, <1>8, ClockTimed
<1>10. ToSet(i.heap) = {}
  BY <1>3, <1>7
<1> QED BY <1>4, <1>9, <1>10 DEF EInv, OnTime, Punctual, Covering

-----------------------------------------------------------------------------
(* Every step keeps the second part of the invariant, moves one event at   *)
(* most, and calls back in order.                                          *)
LEMMA NextOnTime ==
    ASSUME IInv, EInv, [Next]_vars
    PROVE  /\ EInv'
           /\ OneMoved(Cur', Cur) \/ UNCHANGED vars
           /\ signal_time \/ signal_time_continues =>
                 CalledInOrder(Cur, left) \/ SameEvents(Cur', Cur)
<1>1. (\E e \in EVT, time \in RELTIM : tmevtb_enqueue(e, time)) => EInv' /\ OneMoved(Cur', Cur)
  BY enqueue_on_time
<1>2. (\E e \in EVT : tmevtb_dequeue(e)) => EInv' /\ OneMoved(Cur', Cur)
  BY dequeue_on_time
<1>3. (\E adjtim \in ADJTIM : adj_tim(adjtim)) => EInv' /\ OneMoved(Cur', Cur)
  BY adj_on_time
<1>4. (\E time \in SYSTIM : set_tim(time)) => EInv' /\ OneMoved(Cur', Cur)
  BY set_on_time
<1>5. get_tim => EInv' /\ OneMoved(Cur', Cur)
  BY get_on_time
<1>6. tick => EInv' /\ OneMoved(Cur', Cur)
  BY tick_on_time
<1>7. UNCHANGED vars => EInv'
  BY stutter_on_time
<1>8. signal_time => /\ EInv' /\ OneMoved(Cur', Cur)
                     /\ CalledInOrder(Cur, left) \/ SameEvents(Cur', Cur)
  BY signal_time_on_time
<1>9. signal_time_continues => /\ EInv' /\ OneMoved(Cur', Cur)
                               /\ CalledInOrder(Cur, left) \/ SameEvents(Cur', Cur)
  BY signal_time_continues_on_time
<1>10. EInv' /\ (OneMoved(Cur', Cur) \/ UNCHANGED vars)
  BY <1>1, <1>2, <1>3, <1>4, <1>5, <1>6, <1>7, <1>8, <1>9 DEF Next
<1> QED BY <1>8, <1>9, <1>10

(* Both parts of the invariant hold in every reachable state.              *)
LEMMA Invariance2 == Spec => [](IInv /\ EInv)
<1>1. Init => IInv /\ EInv
  BY init_step, init_on_time
<1>2. IInv /\ EInv /\ [Next]_vars => (IInv /\ EInv)'
  BY NextStep, NextOnTime
<1> QED BY <1>1, <1>2, PTL DEF Spec

(* What the invariant says of a registered event.                          *)
LEMMA RegisteredOK ==
    ASSUME IInv, EInv, NEW e \in EVT, Registered(e)
    PROVE  e \in ToSet(Cur.heap) /\ left[e] \in Int /\ TimeOK(Cur, left[e], e)
  BY CurOnTime DEF Registered, Cur, Timed

(* The larger of two numbers.                                              *)
LEMMA MaxTwo ==
    ASSUME NEW a \in Int, NEW b \in Int
    PROVE  Max({a, b}) = IF a <= b THEN b ELSE a
<1> DEFINE m == IF a <= b THEN b ELSE a
<1>1. m \in {a, b} /\ \A y \in {a, b} : y <= m
  OBVIOUS
<1>2. \A x \in {a, b} : (\A y \in {a, b} : y <= x) => x = m
  BY <1>1
<1> HIDE DEF m
<1>3. Max({a, b}) = m
  BY <1>1, <1>2 DEF Max
<1> QED BY <1>3 DEF m

(* A sequence without duplicates is as long as its set is large.           *)
LEMMA SingleLen ==
    ASSUME NEW q \in Seq(EVT), Single(q)
    PROVE  Len(q) = Cardinality(ToSet(q))
<1> DEFINE N == Len(q)
           S == ToSet(q)
<1>1. N \in Nat /\ S = {q[i] : i \in 1 .. N} /\ q \in [1 .. N -> EVT]
  BY HeapSet
<1>2. q \in [1 .. N -> S]
  BY <1>1
<1>3. \A a, b \in 1 .. N : q[a] = q[b] => a = b
  BY DEF Single
<1> HIDE DEF N, S
<1>4. \A t \in S : \E i \in 1 .. N : q[i] = t
  BY <1>1
<1>5. q \in Injection(1 .. N, S)
  BY <1>2, <1>3 DEF Injection, IsInjective
<1>6. q \in Surjection(1 .. N, S)
  BY <1>2, <1>4 DEF Surjection
<1>7. ExistsBijection(1 .. N, S)
  BY <1>5, <1>6 DEF ExistsBijection, Bijection
<1>8. Cardinality(S) = N
  BY <1>1, <1>7, FS_CountingElements
<1> QED BY <1>8 DEF N, S

-----------------------------------------------------------------------------
(* What it gives.                                                          *)

(* No node of the heap is due before its parent, although what the code    *)
(* compares are words that wrap around (time_event.c: tmevt_up,            *)
(* tmevt_down, tmevtb_delete, tmevtb_delete_top).                          *)
THEOREM HeapCorrect == Spec => []HeapOK
<1>1. ASSUME IInv, EInv PROVE HeapOK
  <2>1. Cur \in State /\ Timed(Cur, left) /\ Cur.heap = tmevt_heap /\ left \in [EVT -> Int]
        /\ Ordered(Cur) /\ LagOf(Cur) \in Int /\ BOUNDARY_MARGIN \in Int
    BY <1>1, CurOnTime, LagType, WindowType, ConstantsType DEF Cur, Timed, Heap
  <2>2. ASSUME NEW i \in 2 .. Len(tmevt_heap)
        PROVE  left[tmevt_heap[PARENT(i)]] <= left[tmevt_heap[i]]
    <3> DEFINE e == tmevt_heap[i]
               p == tmevt_heap[PARENT(i)]
    <3>1. Len(tmevt_heap) \in Nat /\ i \in 1 .. Len(tmevt_heap)
          /\ PARENT(i) \in 1 .. Len(tmevt_heap)
      BY <2>1, HeapType, ParentOK
    <3>2. e \in ToSet(tmevt_heap) /\ p \in ToSet(tmevt_heap) /\ e \in EVT /\ p \in EVT
      <4>0. tmevt_heap \in Seq(EVT)
        BY <2>1, HeapType
      <4>1. ToSet(tmevt_heap) = {tmevt_heap[n] : n \in 1 .. Len(tmevt_heap)}
            /\ \A n \in 1 .. Len(tmevt_heap) : tmevt_heap[n] \in EVT
        BY <4>0, HeapSet
      <4> QED BY <3>1, <4>1
    <3>3. Key(Cur, p) <= Key(Cur, e)
      BY <2>1 DEF Ordered
    <3> HIDE DEF e, p
    <3>4. Key(Cur, e) = LagOf(Cur) + left[e] + BOUNDARY_MARGIN
          /\ Key(Cur, p) = LagOf(Cur) + left[p] + BOUNDARY_MARGIN
      BY <2>1, <3>2 DEF Timed, TimeOK
    <3>5. left[e] \in Int /\ left[p] \in Int
      BY <2>1, <3>2
    <3>6. left[p] <= left[e]
      BY <2>1, <3>3, <3>4, <3>5
    <3> QED BY <3>6 DEF e, p
  <2> QED BY <2>2 DEF HeapOK
<1> QED BY <1>1, Invariance2, PTL

(* An operation adds or removes one time event and leaves the others in    *)
(* the heap, each of them once (time_event.c: the moves of the nodes).     *)
THEOREM HeapKeeps == Spec => HeapKeepsOthers
<1>1. IInv /\ EInv => Len(tmevt_heap) = Cardinality(ToSet(tmevt_heap))
  <2> SUFFICES ASSUME IInv, EInv PROVE Len(tmevt_heap) = Cardinality(ToSet(tmevt_heap))
    OBVIOUS
  <2>1. tmevt_heap \in Seq(EVT) /\ Single(tmevt_heap)
    BY CurOnTime, HeapType DEF Cur, Timed, Heap
  <2> QED BY <2>1, SingleLen
<1>2. (IInv /\ EInv => Len(tmevt_heap) = Cardinality(ToSet(tmevt_heap)))'
  BY <1>1, PTL
<1>3. ASSUME IInv, EInv, (IInv /\ EInv)', [Next]_vars
      PROVE  [/\ Len(tmevt_heap') = Cardinality(ToSet(tmevt_heap'))
              /\ \E e \in EVT : ToSet(tmevt_heap) \ {e} = ToSet(tmevt_heap') \ {e}]_vars
  <2>1. OneMoved(Cur', Cur) \/ UNCHANGED vars
    BY <1>3, NextOnTime
  <2>2. Cur.heap = tmevt_heap /\ Cur'.heap = tmevt_heap'
    BY DEF Cur
  <2>3. Len(tmevt_heap') = Cardinality(ToSet(tmevt_heap'))
    BY <1>2, <1>3 DEF ToSet
  <2> QED BY <2>1, <2>2, <2>3 DEF OneMoved
<1>4. Spec => [](IInv /\ EInv) /\ [][Next]_vars
  BY Invariance2, PTL DEF Spec
<1> QED BY <1>3, <1>4, PTL DEF HeapKeepsOthers

(* A registered time compares as it should: relative to the boundary it is *)
(* ahead by the time really left, in words of any size (time_event.c:      *)
(* EVTTIM_LT; time_manage.c: adj_tim).                                     *)
THEOREM WindowCorrect == Spec => []InWindow
<1>1. ASSUME IInv, EInv PROVE InWindow
  <2>1. ASSUME NEW e \in EVT, Registered(e)
        PROVE  EVTTIM_ADVANCE(Cur, evttim[e]) = Lag + left[e] + BOUNDARY_MARGIN
    <3>1. TimeOK(Cur, left[e], e)
      BY <1>1, <2>1, RegisteredOK
    <3>2. LagOf(Cur) = Lag /\ Cur.evttim = evttim
      BY DEF Lag, LagOf, Cur
    <3> QED BY <3>1, <3>2 DEF TimeOK, Key
  <2> QED BY <2>1 DEF InWindow
<1> QED BY <1>1, Invariance2, PTL

(* The timer is set no later than the first time event whenever its        *)
(* interrupt is not being handled (time_event.c: set_hrt_event and the     *)
(* tests that guard its calls).                                            *)
THEOREM TimerSetForTop == Spec => []TimerCoversTop
<1>1. ASSUME IInv, EInv PROVE TimerCoversTop
  <2> SUFFICES ASSUME ~in_signal_time, tmevt_heap # <<>>
               PROVE  hrt_event \in 0 .. Max({left[Head(tmevt_heap)], 1})
    BY DEF TimerCoversTop
  <2> DEFINE h == Head(tmevt_heap)
             x == left[h]
  <2>1. /\ Cur \in State /\ hrtcnt \in 0 .. TCYC_HRTCNT - 1 /\ left \in [EVT -> Int]
        /\ Timed(Cur, left) /\ Covering(Cur, left) /\ Cur.heap = tmevt_heap
        /\ Cur.hrt_event = hrt_event
    BY <1>1, CurOnTime DEF Cur
  <2>2. h \in ToSet(Cur.heap) /\ h \in EVT
    BY <2>1, LeastLeft
  <2>3. x \in Int /\ (hrt_event > 1 => hrt_event <= x)
    BY <2>1, <2>2 DEF Covering, Covered
  <2>4. hrt_event \in Nat
    BY <1>1, ConstantsType DEF IInv, TimerInTime
  <2> HIDE DEF x
  <2>5. Max({x, 1}) = IF x <= 1 THEN 1 ELSE x
    BY <2>3, MaxTwo
  <2>6. hrt_event <= Max({x, 1}) /\ Max({x, 1}) \in Int
    BY <2>3, <2>4, <2>5
  <2>7. hrt_event \in 0 .. Max({x, 1})
    BY <2>4, <2>6
  <2> QED BY <2>7 DEF x
<1> QED BY <1>1, Invariance2, PTL

(* Callbacks are called when due and in the order of their times, for any  *)
(* number of time events (time_event.c: signal_time).                      *)
THEOREM CalledInTurn == Spec => CallsInOrder
<1> DEFINE Body == (signal_time \/ signal_time_continues)
                   /\ <<tmevt_heap, evttim>>' # <<tmevt_heap, evttim>> =>
                      LET e == Head(tmevt_heap)
                      IN  /\ left[e] <= 0
                          /\ \A x \in ToSet(tmevt_heap) : left[e] <= left[x]
<1>1. ASSUME IInv, EInv, [Next]_vars PROVE Body
  <2> SUFFICES ASSUME signal_time \/ signal_time_continues,
                      <<tmevt_heap, evttim>>' # <<tmevt_heap, evttim>>
               PROVE  LET e == Head(tmevt_heap)
                      IN  /\ left[e] <= 0
                          /\ \A x \in ToSet(tmevt_heap) : left[e] <= left[x]
    OBVIOUS
  <2>1. CalledInOrder(Cur, left) \/ SameEvents(Cur', Cur)
    BY <1>1, NextOnTime
  <2>2. ~SameEvents(Cur', Cur)
    BY DEF SameEvents, Cur
  <2>3. Cur.heap = tmevt_heap
    BY DEF Cur
  <2> QED BY <2>1, <2>2, <2>3 DEF CalledInOrder
<1>2. IInv /\ EInv /\ [Next]_vars => [Body]_vars
  BY <1>1
<1>3. Spec => [](IInv /\ EInv) /\ [][Next]_vars
  BY Invariance2, PTL DEF Spec
<1> QED BY <1>2, <1>3, PTL DEF CallsInOrder

(* What ref_alm and ref_cyc report is the time really left, less the step  *)
(* of the counter (time_event.c: tmevt_lefttim).                           *)
THEOREM LefttimCorrect == Spec => []LefttimExact
<1>1. ASSUME IInv, EInv, NEW e \in EVT, Registered(e)
      PROVE  tmevt_lefttim(update_current_evttim(Cur), e) = Max({left[e] - TSTEP_HRTCNT, 0})
  <2> DEFINE now == update_current_evttim(Cur)
             c   == now.current_evttim
             ub  == calc_current_evttim_ub(now)
             t   == now.evttim[e]
             x   == left[e]
             B   == BOUNDARY_MARGIN
             T   == TSTEP_HRTCNT
             d   == EVTTIM_MINUS(t, ub)
  <2>1. now \in State /\ now.heap = Cur.heap /\ LagOf(now) = 0 /\ Timed(now, left)
    BY <1>1, NowOnTime DEF SameQueue, OnTime
  <2>2. e \in ToSet(now.heap) /\ x \in Int
    BY <1>1, <2>1, RegisteredOK
  <2>3. /\ B \in Nat /\ T \in Nat /\ T \in Int /\ B + T \in Word /\ B \in Int
        /\ EVTTIM_MOD \in Nat
    BY WindowType
  <2> HIDE DEF now
  <2>4. Bound(now) /\ Key(now, e) = LagOf(now) + x + B
    BY <2>1, <2>2 DEF Timed, TimeOK
  <2>5. t \in Word /\ t \in Int /\ c \in Int /\ Key(now, e) = EVTTIM_ADVANCE(now, t)
        /\ Key(now, e) \in Word
    BY <1>1, <2>1, StateType, KeyType DEF Word, Key
  <2>6. EVTTIM_ADVANCE(now, t) = B + x /\ B + x \in Word
    BY <2>1, <2>2, <2>3, <2>4, <2>5
  <2>7. ub \in Word /\ ub \in Int /\ Congruent(ub, c + T)
    <3>1. ub = EVTTIM_PLUS(c, T)
      BY DEF calc_current_evttim_ub
    <3> HIDE DEF ub, c, T
    <3>2. ub \in Word /\ Congruent(ub, c + T)
      BY <2>3, <2>5, <3>1, CongruentWord
    <3> QED BY <3>2 DEF Word
  <2> HIDE DEF t, x, ub, T
  <2>8. EVTTIM_ADVANCE(now, ub) = BOUNDARY_MARGIN + T
    BY <2>1, <2>3, <2>4, <2>7, InWindowOK
  <2>9. Congruent(t, c + x)
    BY <2>1, <2>2, <2>4, <2>5, <2>6, InWindowOK
  <2>10. EVTTIM_LE(now, t, ub) <=> x <= T
    BY <2>2, <2>3, <2>6, <2>8 DEF EVTTIM_LE
  <2>11. Max({x - T, 0}) = IF x - T <= 0 THEN 0 ELSE x - T
    BY <2>2, <2>3, MaxTwo
  <2>12. tmevt_lefttim(now, e) = IF EVTTIM_LE(now, t, ub) THEN 0 ELSE d
    BY DEF tmevt_lefttim, t, ub
  <2> HIDE DEF d, c
  <2>13. ASSUME ~ (x <= T) PROVE d = x - T
    <3>1. x - T \in Word
      BY <2>2, <2>3, <2>6, <2>13 DEF Word
    <3>2. c + x \in Int /\ c + T \in Int /\ t - ub \in Int /\ (c + x) - (c + T) \in Int
      BY <2>2, <2>3, <2>5, <2>7
    <3>3. Congruent(t - ub, (c + x) - (c + T))
      BY <2>5, <2>7, <2>9, <3>2, CongruentMinus
    <3>4. (c + x) - (c + T) = x - T
      BY <2>2, <2>3, <2>5
    <3>5. d \in Word /\ Congruent(d, t - ub)
      BY <2>5, <2>7, CongruentWord DEF d
    <3>6. d \in Int
      BY <3>5 DEF Word
    <3>7. Congruent(d, x - T)
      BY <3>2, <3>3, <3>4, <3>5, <3>6, CongruentTrans
    <3> QED BY <3>1, <3>5, <3>7, CongruentEqual
  <2>14. tmevt_lefttim(now, e) = Max({x - T, 0})
    BY <2>2, <2>3, <2>10, <2>11, <2>12, <2>13
  <2> QED BY <2>14 DEF now, x, T
<1>2. IInv /\ EInv => LefttimExact
  BY <1>1 DEF LefttimExact
<1> QED BY <1>2, Invariance2, PTL

-----------------------------------------------------------------------------
(* Notifications.                                                          *)

(* The heap, however its events are ordered.                               *)

(* A record of data of the right types whose heap has each event once.     *)
Sound(s) == s \in State /\ Single(s.heap)

Gains(r, s, e) == Sound(r) /\ ToSet(r.heap) = ToSet(s.heap) \cup {e}
Loses(r, s, e) == Sound(r) /\ ToSet(r.heap) = ToSet(s.heap) \ {e}

(* tmevtb_insert adds its event.                                           *)
LEMMA InsertGains ==
    ASSUME NEW s, Sound(s), NEW e \in EVT, e \notin ToSet(s.heap)
    PROVE  Gains(tmevtb_insert(s, e), s, e)
<1> DEFINE h == Append(s.heap, e)
           x == [s EXCEPT !.heap = Append(@, e)]
           N == Len(s.heap)
           n == N + 1
           r == tmevt_up(x, n, e)
<1>0. s \in State
  BY DEF Sound
<1>1. N \in Nat /\ s.heap \in Seq(EVT) /\ \A i \in 1 .. N : s.heap[i] \in EVT
  BY <1>0, HeapType
<1>2. /\ h \in Seq(EVT) /\ Len(h) = n /\ n \in Nat /\ n >= 1 /\ h[n] = e
      /\ \A i \in 1 .. N : h[i] = s.heap[i]
  BY <1>1
<1>3. x \in State /\ SameTimes(x, s) /\ x.heap = h
  BY <1>0, <1>2, SetHeap
<1>4. Single(s.heap) /\ ToSet(s.heap) = {s.heap[i] : i \in 1 .. N}
  BY <1>1, HeapSet DEF Sound
<1>5. \A i \in 1 .. n : i # n => i \in 1 .. N
  BY <1>1
<1> HIDE DEF h, x, N
<1>6. ToSet(h) = ToSet(s.heap) \cup {e}
  <2>1. ToSet(h) = {h[i] : i \in 1 .. n}
    BY <1>2, HeapSet
  <2>2. n \in 1 .. n /\ \A i \in 1 .. N : i \in 1 .. n
    BY <1>1, <1>2
  <2> QED BY <1>2, <1>4, <1>5, <2>1, <2>2
<1>7. \A i \in 1 .. N : h[i] # e
  BY <1>2, <1>4
<1>8. Single(h) /\ OnlyIn(h, n, n, e)
  <2>1. \A i, j \in 1 .. N : s.heap[i] = s.heap[j] => i = j
    BY <1>4 DEF Single, N
  <2> QED BY <1>2, <1>5, <1>7, <2>1 DEF Single, OnlyIn
<1>9. /\ n \in 1 .. Len(x.heap) /\ Len(x.heap) = n /\ Single(x.heap)
      /\ OnlyIn(x.heap, Len(x.heap), n, e)
  BY <1>2, <1>3, <1>8
<1> HIDE DEF n
<1>10. r \in State
  BY <1>3, <1>9, FillType
<1>11. Put(r, x, n, e)
  BY <1>3, <1>9, UpMoves
<1>12. ToSet(r.heap) = ToSet(s.heap) \cup {e}
  BY <1>2, <1>3, <1>6, <1>11 DEF Put
<1>13. tmevtb_insert(s, e) = r
  BY DEF tmevtb_insert, r, n, x, N
<1> HIDE DEF r
<1> QED BY <1>10, <1>11, <1>12, <1>13 DEF Put, Gains, Sound

(* What is left without the last node.                                     *)
LEMMA FrontLoses ==
    ASSUME NEW s, Sound(s), s.heap # <<>>
    PROVE  LET r == [s EXCEPT !.heap = Front(@)]
               N == Len(s.heap)
           IN  /\ Loses(r, s, Last(s.heap))
               /\ N \in Nat /\ N >= 1 /\ Len(r.heap) = N - 1
               /\ \A i \in 1 .. N - 1 : r.heap[i] = s.heap[i]
               /\ Last(s.heap) = s.heap[N] /\ Last(s.heap) \in EVT
               /\ Last(s.heap) \in ToSet(s.heap)
               /\ \A i, j \in 1 .. N : s.heap[i] = s.heap[j] => i = j
<1> DEFINE r == [s EXCEPT !.heap = Front(@)]
           h == r.heap
           N == Len(s.heap)
<1>0. s \in State
  BY DEF Sound
<1>1. N \in Nat /\ N >= 1 /\ s.heap \in Seq(EVT) /\ \A i \in 1 .. N : s.heap[i] \in EVT
  BY <1>0, HeapType
<1>2. r \in State /\ Len(h) = N - 1 /\ Last(s.heap) \in EVT
  BY <1>0, FrontType
<1>3. h = Front(s.heap)
  BY <1>0 DEF State
<1>4. Last(s.heap) = s.heap[N]
  BY DEF Last
<1>5. \A i \in 1 .. N - 1 : h[i] = s.heap[i]
  BY <1>1, <1>3 DEF Front
<1>6. ToSet(s.heap) = {s.heap[i] : i \in 1 .. N}
      /\ \A i, j \in 1 .. N : s.heap[i] = s.heap[j] => i = j
  BY <1>1, HeapSet DEF Sound, Single
<1>7. ToSet(h) = {h[i] : i \in 1 .. N - 1}
  <2>1. h \in Seq(EVT)
    BY <1>2, HeapType
  <2> QED BY <1>2, <2>1, HeapSet
<1> DEFINE M == N - 1
<1>8. M \in Nat /\ N = M + 1 /\ N \in 1 .. N
  BY <1>1
<1>9. \A i \in 1 .. M : i \in 1 .. N /\ i # N
  BY <1>1, <1>8
<1>10. \A i \in 1 .. N : i = N \/ i \in 1 .. M
  BY <1>1, <1>8
<1>11. Len(h) = M /\ ToSet(h) = {h[i] : i \in 1 .. M} /\ \A i \in 1 .. M : h[i] = s.heap[i]
  BY <1>2, <1>5, <1>7
<1> HIDE DEF r, h, M
<1>12. Single(h)
  BY <1>6, <1>9, <1>11 DEF Single
<1>13. s.heap[N] \in ToSet(s.heap) /\ ToSet(h) = ToSet(s.heap) \ {s.heap[N]}
  <2>1. s.heap[N] \notin ToSet(h)
    BY <1>6, <1>8, <1>9, <1>11
  <2>2. \A x \in ToSet(h) : x \in ToSet(s.heap)
    BY <1>6, <1>9, <1>11
  <2>3. s.heap[N] \in ToSet(s.heap)
    BY <1>6, <1>8
  <2>4. \A x \in ToSet(s.heap) : x # s.heap[N] => x \in ToSet(h)
    BY <1>6, <1>10, <1>11
  <2> QED BY <2>1, <2>2, <2>3, <2>4
<1>14. Loses(r, s, Last(s.heap))
  BY <1>2, <1>4, <1>12, <1>13 DEF Loses, Sound, h
<1> QED BY <1>1, <1>2, <1>4, <1>6, <1>11, <1>13, <1>14 DEF h, M, r

(* Filling the node n of the rest with the last event takes out the event  *)
(* that was in n.                                                          *)
LEMMA FillLoses ==
    ASSUME NEW s, Sound(s), s.heap # <<>>, NEW n \in 1 .. Len(s.heap), n # Len(s.heap)
    PROVE  LET r == [s EXCEPT !.heap = Front(@)]
           IN  /\ Loses(tmevt_up(r, n, Last(s.heap)), s, s.heap[n])
               /\ Loses(tmevt_down(r, n, Last(s.heap)), s, s.heap[n])
<1> DEFINE r == [s EXCEPT !.heap = Front(@)]
           last == Last(s.heap)
           u == tmevt_up(r, n, last)
           d == tmevt_down(r, n, last)
           N == Len(s.heap)
<1>1. /\ Loses(r, s, last)
      /\ N \in Nat /\ N >= 1 /\ Len(r.heap) = N - 1
      /\ \A i \in 1 .. N - 1 : r.heap[i] = s.heap[i]
      /\ last = s.heap[N] /\ last \in EVT /\ last \in ToSet(s.heap)
      /\ \A i, j \in 1 .. N : s.heap[i] = s.heap[j] => i = j
  BY FrontLoses
<1> HIDE DEF r, last
<1>2. n \in 1 .. N - 1 /\ N \in 1 .. N
  BY <1>1
<1>3. /\ r \in State /\ Single(r.heap) /\ n \in 1 .. Len(r.heap) /\ r.heap[n] = s.heap[n]
      /\ last # s.heap[n] /\ ToSet(r.heap) = ToSet(s.heap) \ {last}
  BY <1>1, <1>2 DEF Loses, Sound
<1>4. OnlyIn(r.heap, Len(r.heap), n, last)
  <2>1. ToSet(r.heap) = {r.heap[i] : i \in 1 .. Len(r.heap)}
    BY <1>3, HeapType, HeapSet
  <2> QED BY <1>3, <2>1 DEF OnlyIn
<1>5. Put(u, r, n, last) /\ Put(d, r, n, last)
  BY <1>1, <1>3, <1>4, UpMoves, DownMoves
<1>6. u \in State /\ d \in State
  BY <1>1, <1>3, FillType
<1> HIDE DEF u, d, N
<1> QED BY <1>1, <1>3, <1>5, <1>6 DEF Put, Loses, Sound, u, d, r, last

(* tmevtb_delete takes its event out, ...                                  *)
LEMMA DeleteLoses ==
    ASSUME NEW s, Sound(s), NEW e \in ToSet(s.heap)
    PROVE  Loses(tmevtb_delete(s, e), s, e)
<1> DEFINE n == node_of(s, e)
           last == Last(s.heap)
           r == [s EXCEPT !.heap = Front(@)]
           u == tmevt_up(r, n, last)
           d == tmevt_down(r, n, last)
<1>1. Len(s.heap) \in Nat /\ DOMAIN s.heap = 1 .. Len(s.heap) /\ s.heap \in Seq(EVT)
  BY HeapType DEF Sound
<1>2. n \in 1 .. Len(s.heap) /\ s.heap[n] = e
  <2>1. \E i \in DOMAIN s.heap : s.heap[i] = e
    BY DEF ToSet
  <2>2. n \in DOMAIN s.heap /\ s.heap[n] = e
    BY <2>1 DEF node_of
  <2> QED BY <1>1, <2>2
<1>3. s.heap # <<>>
  BY <1>2
<1>4. \/ n = Len(s.heap) /\ tmevtb_delete(s, e) = r
      \/ n # Len(s.heap) /\ tmevtb_delete(s, e) \in {u, d}
  BY DEF tmevtb_delete
<1> HIDE DEF n
<1>5. CASE n = Len(s.heap)
  <2>1. Loses(r, s, last) /\ last = s.heap[Len(s.heap)]
    BY <1>3, FrontLoses
  <2> HIDE DEF r, last, u, d
  <2> QED BY <1>2, <1>4, <1>5, <2>1
<1>6. CASE n # Len(s.heap)
  <2>1. Loses(u, s, s.heap[n]) /\ Loses(d, s, s.heap[n])
    BY <1>2, <1>3, <1>6, FillLoses
  <2> HIDE DEF r, last, u, d
  <2> QED BY <1>2, <1>4, <1>6, <2>1
<1> QED BY <1>5, <1>6

(* ... and tmevtb_delete_top the first.                                    *)
LEMMA DeleteTopLoses ==
    ASSUME NEW s, Sound(s), s.heap # <<>>
    PROVE  /\ Loses(tmevtb_delete_top(s), s, Head(s.heap))
           /\ Head(s.heap) \in ToSet(s.heap) /\ Head(s.heap) \in EVT
<1> DEFINE last == Last(s.heap)
           r == [s EXCEPT !.heap = Front(@)]
           n == 1
           d == tmevt_down(r, n, last)
<1>1. /\ Len(s.heap) \in Nat /\ Len(s.heap) >= 1 /\ Head(s.heap) = s.heap[1]
      /\ s.heap \in Seq(EVT)
  BY HeapType DEF Sound
<1>2. 1 \in 1 .. Len(s.heap) /\ ToSet(s.heap) = {s.heap[i] : i \in 1 .. Len(s.heap)}
  BY <1>1, HeapSet
<1>3. tmevtb_delete_top(s) = IF Len(s.heap) = 1 THEN r ELSE d
  BY DEF tmevtb_delete_top
<1>4. Head(s.heap) \in ToSet(s.heap) /\ Head(s.heap) \in EVT
  BY <1>1, <1>2
<1>5. CASE Len(s.heap) = 1
  <2>1. Loses(r, s, last) /\ last = s.heap[Len(s.heap)]
    BY FrontLoses
  <2> HIDE DEF r, last, d
  <2> QED BY <1>1, <1>3, <1>4, <1>5, <2>1
<1>6. CASE Len(s.heap) # 1
  <2>1. n \in 1 .. Len(s.heap) /\ n # Len(s.heap) /\ s.heap[n] = Head(s.heap)
    BY <1>1, <1>6
  <2> HIDE DEF n
  <2>2. Loses(d, s, s.heap[n])
    BY <2>1, FillLoses
  <2> HIDE DEF d
  <2> QED BY <1>3, <1>4, <1>6, <2>1, <2>2
<1> QED BY <1>5, <1>6

-----------------------------------------------------------------------------
(* The operations on time events, as far as the heap is concerned.         *)

Ticking == hrtcnt \in 0 .. TCYC_HRTCNT - 1

LEMMA UpdateSound ==
    ASSUME NEW s, Sound(s), Ticking
    PROVE  /\ Sound(update_current_evttim(s))
           /\ update_current_evttim(s).heap = s.heap
           /\ update_current_evttim(s).in_signal_time = s.in_signal_time
BY UpdateOK DEF Sound, Ticking, SameQueue

LEMMA SetSound ==
    ASSUME NEW s, Sound(s)
    PROVE  Sound(set_hrt_event(s)) /\ set_hrt_event(s).heap = s.heap
<1> DEFINE v == set_hrt_event(s).hrt_event
<1>1. set_hrt_event(s) \in State /\ set_hrt_event(s) = [s EXCEPT !.hrt_event = v]
  BY SetEventOK DEF Sound
<1> HIDE DEF v
<1>2. set_hrt_event(s).heap = s.heap
  BY <1>1 DEF Sound, State
<1> QED BY <1>1, <1>2 DEF Sound

(* The time of an event is set.                                            *)
LEMMA TimeSound ==
    ASSUME NEW s, Sound(s), NEW e \in EVT, NEW t \in Word
    PROVE  Sound(TimeAt(s, e, t)) /\ TimeAt(s, e, t).heap = s.heap
BY DEF Sound, State, TimeAt

LEMMA dequeued_loses ==
    ASSUME NEW s, Sound(s), Ticking, NEW e \in ToSet(s.heap)
    PROVE  Loses(dequeued(s, e), s, e)
<1> DEFINE r == tmevtb_delete(s, e)
           u == update_current_evttim(r)
<1>1. Loses(r, s, e)
  BY DeleteLoses
<1>2. dequeued(s, e) = r \/ dequeued(s, e) = set_hrt_event(u)
  BY DEF dequeued
<1> HIDE DEF r
<1>3. Sound(u) /\ u.heap = r.heap
  BY <1>1, UpdateSound DEF Loses
<1> HIDE DEF u
<1>4. Sound(set_hrt_event(u)) /\ set_hrt_event(u).heap = u.heap
  BY <1>3, SetSound
<1> QED BY <1>1, <1>2, <1>3, <1>4 DEF Loses

LEMMA enqueued_gains ==
    ASSUME NEW s, Sound(s), Ticking, NEW e \in EVT, e \notin ToSet(s.heap), NEW time \in Nat
    PROVE  Gains(enqueued(s, e, time), s, e)
<1> DEFINE now == update_current_evttim(s)
           t   == EVTTIM_PLUS(calc_current_evttim_ub(now), time)
           a   == TimeAt(now, e, t)
           r   == tmevtb_insert(a, e)
<1>1. Sound(now) /\ now.heap = s.heap
  BY UpdateSound
<1>2. enqueued(s, e, time) = r \/ enqueued(s, e, time) = set_hrt_event(r)
  BY DEF enqueued, TimeAt
<1> HIDE DEF now
<1>3. t \in Word
  <2> DEFINE c == calc_current_evttim_ub(now)
  <2>1. now.current_evttim \in Word
    BY <1>1 DEF Sound, State
  <2>2. TSTEP_HRTCNT \in Int /\ \A x \in Word : x \in Int
    BY ConstantsType DEF Word
  <2>3. c \in Word
    BY <2>1, <2>2, WordType DEF calc_current_evttim_ub
  <2> HIDE DEF c
  <2>4. c \in Int /\ time \in Int
    BY <2>2, <2>3
  <2> QED BY <2>4, WordType DEF c
<1> HIDE DEF t
<1>4. Sound(a) /\ a.heap = s.heap
  BY <1>1, <1>3, TimeSound
<1> HIDE DEF a
<1>5. Gains(r, s, e)
  BY <1>4, InsertGains DEF Gains
<1> HIDE DEF r
<1>6. Sound(set_hrt_event(r)) /\ set_hrt_event(r).heap = r.heap
  BY <1>5, SetSound DEF Gains
<1> QED BY <1>2, <1>5, <1>6 DEF Gains

(* A state is sound, and so is what it becomes.                            *)
SoundNow == Sound(Cur) /\ Ticking

LEMMA BecomeSound ==
    ASSUME NEW STATE s, SoundNow, Become(s), Sound(s)
    PROVE  SoundNow' /\ tmevt_heap' = s.heap
<1>1. Cur' = s
  BY DEF Become, Cur, Sound, State
<1>2. tmevt_heap' = s.heap /\ hrtcnt' = hrtcnt
  BY DEF Become
<1> QED BY <1>1, <1>2 DEF SoundNow, Sound, Ticking

LEMMA CurHeap ==
    /\ Cur.heap = tmevt_heap /\ Cur.in_signal_time = in_signal_time
    /\ \A e : Registered(e) <=> e \in ToSet(tmevt_heap)
BY DEF Cur, Registered

(* What a step leaves registered.                                          *)
Registers(e)   == SoundNow' /\ ToSet(tmevt_heap') = ToSet(tmevt_heap) \cup {e}
Unregisters(e) == SoundNow' /\ ToSet(tmevt_heap') = ToSet(tmevt_heap) \ {e}
Retains        == SoundNow' /\ ToSet(tmevt_heap') = ToSet(tmevt_heap)

LEMMA enqueue_registers ==
    ASSUME SoundNow, NEW e \in EVT, NEW time \in Nat, tmevtb_enqueue(e, time)
    PROVE  Registers(e)
<1> DEFINE r == enqueued(Cur, e, time)
<1>1. Become(r) /\ e \notin ToSet(Cur.heap)
  BY CurHeap DEF tmevtb_enqueue, enqueued
<1>2. Gains(r, Cur, e)
  BY <1>1, enqueued_gains DEF SoundNow
<1> HIDE DEF r
<1>3. SoundNow' /\ tmevt_heap' = r.heap
  BY <1>1, <1>2, BecomeSound DEF Gains
<1> QED BY <1>2, <1>3, CurHeap DEF Registers, Gains

LEMMA dequeue_unregisters ==
    ASSUME SoundNow, NEW e, tmevtb_dequeue(e)
    PROVE  Unregisters(e)
<1> DEFINE r == dequeued(Cur, e)
<1>1. Become(r) /\ e \in ToSet(Cur.heap)
  BY CurHeap DEF tmevtb_dequeue, dequeued
<1>2. Loses(r, Cur, e)
  BY <1>1, dequeued_loses DEF SoundNow
<1> HIDE DEF r
<1>3. SoundNow' /\ tmevt_heap' = r.heap
  BY <1>1, <1>2, BecomeSound DEF Loses
<1> QED BY <1>2, <1>3, CurHeap DEF Unregisters, Loses

LEMMA stutter_retains ==
    ASSUME SoundNow, UNCHANGED vars
    PROVE  Retains
<1>1. Cur' = Cur /\ hrtcnt' = hrtcnt /\ tmevt_heap' = tmevt_heap
  BY DEF vars, Cur
<1> QED BY <1>1 DEF SoundNow, Sound, Ticking, Retains

LEMMA restart_registers ==
    ASSUME SoundNow, NEW e \in EVT, NEW running \in BOOLEAN, NEW time \in Nat,
           restart(e, running, time), Registered(e) => running
    PROVE  Registers(e)
<1> DEFINE d == IF running THEN dequeued(Cur, e) ELSE Cur
           r == enqueued(d, e, time)
<1>1. Sound(d) /\ e \notin ToSet(d.heap) /\ ToSet(d.heap) = ToSet(Cur.heap) \ {e}
  <2>1. CASE running
    <3>1. e \in ToSet(Cur.heap)
      BY <2>1, CurHeap DEF restart
    <3>2. Loses(dequeued(Cur, e), Cur, e)
      BY <3>1, dequeued_loses DEF SoundNow
    <3>3. d = dequeued(Cur, e)
      BY <2>1
    <3> HIDE DEF d
    <3> QED BY <3>2, <3>3 DEF Loses
  <2>2. CASE ~running
    BY <2>2, CurHeap DEF SoundNow
  <2> QED BY <2>1, <2>2
<1>2. Become(r)
  BY DEF restart
<1> HIDE DEF d
<1>3. Gains(r, d, e)
  BY <1>1, enqueued_gains DEF SoundNow
<1> HIDE DEF r
<1>4. SoundNow' /\ tmevt_heap' = r.heap
  BY <1>2, <1>3, BecomeSound DEF Gains
<1> QED BY <1>1, <1>3, <1>4, CurHeap DEF Registers, Gains

LEMMA stop_unregisters ==
    ASSUME SoundNow, NEW e, NEW running \in BOOLEAN, stop(e, running), Registered(e) => running
    PROVE  Unregisters(e)
<1>1. CASE running
  BY <1>1, dequeue_unregisters DEF stop
<1>2. CASE ~running
  BY <1>2, stutter_retains, CurHeap DEF stop, Retains, Unregisters
<1> QED BY <1>1, <1>2

LEMMA get_tim_retains ==
    ASSUME SoundNow, get_tim
    PROVE  Retains
<1> DEFINE now == update_current_evttim(Cur)
<1>1. Sound(now) /\ now.heap = Cur.heap
  BY UpdateSound DEF SoundNow
<1>2. Become(now)
  BY DEF get_tim
<1> HIDE DEF now
<1> QED BY <1>1, <1>2, BecomeSound, CurHeap DEF Retains

LEMMA tick_retains ==
    ASSUME SoundNow, tick
    PROVE  Retains
<1>1. hrt_event \in STOPPED .. HRTCNT_BOUND
  BY DEF SoundNow, Sound, State, Cur
<1>2. hrt_event' \in STOPPED .. HRTCNT_BOUND
  BY <1>1, ConstantsType DEF tick, STOPPED
<1>3. Cur' = [Cur EXCEPT !.hrt_event = hrt_event']
  BY DEF tick, Cur
<1>4. hrtcnt' \in 0 .. TCYC_HRTCNT - 1
  <2>1. hrtcnt' = (hrtcnt + 1) % TCYC_HRTCNT /\ hrtcnt + 1 \in Int /\ TCYC_HRTCNT \in Nat \ {0}
    BY ConstantsType DEF tick, SoundNow, Ticking
  <2> QED BY <2>1, ModRange
<1>5. Cur' \in State /\ Cur'.heap = Cur.heap
  BY <1>2, <1>3 DEF SoundNow, Sound, State
<1>6. tmevt_heap' = tmevt_heap
  BY DEF tick
<1>7. Sound(Cur)'
  BY <1>5 DEF Sound, SoundNow
<1> QED BY <1>4, <1>6, <1>7 DEF SoundNow, Ticking, Retains

-----------------------------------------------------------------------------
(* The two kinds of notification.                                          *)

(* Of the control blocks B those of X exist and the others are in the list *)
(* q, and those of R, which exist, are running and so in the heap, H.      *)
Agrees(B, X, R, q, H) ==
    /\ X \subseteq B /\ R \subseteq X /\ R = H \cap B
    /\ q \in Seq(B) /\ IsInjective(q) /\ ToSet(q) = B \ X

LEMMA SeqSet ==
    ASSUME NEW B, NEW q \in Seq(B)
    PROVE  /\ ToSet(q) = {q[i] : i \in 1 .. Len(q)} /\ ToSet(q) \subseteq B
           /\ DOMAIN q = 1 .. Len(q) /\ Len(q) \in Nat
BY DEF ToSet

(* The first of the free control blocks is taken, ...                      *)
LEMMA TailOfList ==
    ASSUME NEW B, NEW q \in Seq(B), IsInjective(q), q # <<>>
    PROVE  /\ Head(q) \in ToSet(q) /\ Head(q) \in B
           /\ Tail(q) \in Seq(B) /\ IsInjective(Tail(q))
           /\ ToSet(Tail(q)) = ToSet(q) \ {Head(q)}
<1> DEFINE n == Len(q)
           p == Tail(q)
           m == n - 1
<1>1. /\ ToSet(q) = {q[i] : i \in 1 .. n} /\ ToSet(q) \subseteq B /\ n \in Nat
      /\ DOMAIN q = 1 .. n
  BY SeqSet
<1>2. n >= 1 /\ Head(q) = q[1] /\ m \in Nat /\ n = m + 1
  BY <1>1
<1>3. p \in Seq(B) /\ Len(p) = m /\ \A i \in 1 .. m : p[i] = q[i + 1]
  BY <1>2
<1>4. ToSet(p) = {p[i] : i \in 1 .. m} /\ DOMAIN p = 1 .. m
  BY <1>3, SeqSet
<1>5. \A i, j \in 1 .. n : q[i] = q[j] => i = j
  BY <1>1 DEF IsInjective
<1> HIDE DEF p, m, n
<1>6. \A i \in 1 .. m : i + 1 \in 1 .. n /\ i + 1 # 1
  BY <1>2
<1>7. \A i \in 1 .. n : i = 1 \/ (i - 1 \in 1 .. m /\ (i - 1) + 1 = i)
  BY <1>2
<1>8. 1 \in 1 .. n
  BY <1>1, <1>2
<1>9. Head(q) \in ToSet(q)
  BY <1>1, <1>2, <1>8
<1>10. IsInjective(p)
  <2>1. \A i, j \in 1 .. m : p[i] = p[j] => i = j
    <3>1. SUFFICES ASSUME NEW i \in 1 .. m, NEW j \in 1 .. m, p[i] = p[j] PROVE i = j
      OBVIOUS
    <3>2. i + 1 = j + 1
      BY <1>3, <1>5, <1>6, <3>1
    <3> QED BY <1>2, <3>2
  <2> QED BY <1>4, <2>1 DEF IsInjective
<1>11. \A x \in ToSet(p) : x \in ToSet(q) /\ x # Head(q)
  <2>1. SUFFICES ASSUME NEW i \in 1 .. m PROVE p[i] \in ToSet(q) /\ p[i] # Head(q)
    BY <1>4
  <2>2. p[i] = q[i + 1] /\ i + 1 \in 1 .. n /\ i + 1 # 1
    BY <1>3, <1>6
  <2> QED BY <1>1, <1>2, <1>5, <1>8, <2>2
<1>12. \A x \in ToSet(q) : x # Head(q) => x \in ToSet(p)
  <2>1. SUFFICES ASSUME NEW i \in 1 .. n, q[i] # Head(q) PROVE q[i] \in ToSet(p)
    BY <1>1
  <2>2. i - 1 \in 1 .. m /\ (i - 1) + 1 = i
    BY <1>2, <1>7, <2>1
  <2>3. p[i - 1] = q[i]
    BY <1>3, <2>2
  <2> QED BY <1>4, <2>2, <2>3
<1>13. ToSet(p) = ToSet(q) \ {Head(q)}
  BY <1>11, <1>12
<1> QED BY <1>1, <1>3, <1>9, <1>10, <1>13 DEF p

(* ... and one that becomes free goes to the end.                          *)
LEMMA EndOfList ==
    ASSUME NEW B, NEW q \in Seq(B), IsInjective(q), NEW x \in B, x \notin ToSet(q)
    PROVE  /\ Append(q, x) \in Seq(B) /\ IsInjective(Append(q, x))
           /\ ToSet(Append(q, x)) = ToSet(q) \cup {x}
<1> DEFINE n == Len(q)
           p == Append(q, x)
           m == n + 1
<1>1. ToSet(q) = {q[i] : i \in 1 .. n} /\ n \in Nat /\ DOMAIN q = 1 .. n
  BY SeqSet
<1>2. p \in Seq(B) /\ Len(p) = m /\ p[m] = x /\ m \in Nat /\ \A i \in 1 .. n : p[i] = q[i]
  BY <1>1
<1>3. ToSet(p) = {p[i] : i \in 1 .. m} /\ DOMAIN p = 1 .. m
  BY <1>2, SeqSet
<1>4. /\ \A i \in 1 .. m : i = m \/ i \in 1 .. n
      /\ \A i \in 1 .. n : i \in 1 .. m
      /\ m \in 1 .. m
  BY <1>1
<1>5. \A i, j \in 1 .. n : q[i] = q[j] => i = j
  BY <1>1 DEF IsInjective
<1>6. \A i \in 1 .. n : q[i] # x
  BY <1>1
<1> HIDE DEF p, m, n
<1>7. IsInjective(p)
  <2>1. \A i, j \in 1 .. m : p[i] = p[j] => i = j
    BY <1>2, <1>4, <1>5, <1>6
  <2> QED BY <1>3, <2>1 DEF IsInjective
<1>8. ToSet(p) = ToSet(q) \cup {x}
  <2>1. \A y \in ToSet(p) : y \in ToSet(q) \cup {x}
    BY <1>1, <1>2, <1>3, <1>4
  <2>2. \A y \in ToSet(q) : y \in ToSet(p)
    BY <1>1, <1>2, <1>3, <1>4
  <2>3. x \in ToSet(p)
    BY <1>2, <1>3, <1>4
  <2> QED BY <2>1, <2>2, <2>3
<1> QED BY <1>2, <1>7, <1>8 DEF p

LEMMA AgreesTail ==
    ASSUME NEW B, NEW X, NEW R, NEW q, NEW H, Agrees(B, X, R, q, H), q # <<>>
    PROVE  /\ Head(q) \in B /\ Head(q) \notin X
           /\ Agrees(B, X \cup {Head(q)}, R, Tail(q), H)
<1>1. /\ Head(q) \in ToSet(q) /\ Head(q) \in B
      /\ Tail(q) \in Seq(B) /\ IsInjective(Tail(q))
      /\ ToSet(Tail(q)) = ToSet(q) \ {Head(q)}
  BY TailOfList DEF Agrees
<1> QED BY <1>1 DEF Agrees

LEMMA AgreesEnd ==
    ASSUME NEW B, NEW X, NEW R, NEW q, NEW H, Agrees(B, X, R, q, H), NEW x \in X
    PROVE  Agrees(B, X \ {x}, R \ {x}, Append(q, x), H \ {x})
<1>1. q \in Seq(B) /\ IsInjective(q) /\ x \in B /\ x \notin ToSet(q)
  BY DEF Agrees
<1>2. /\ Append(q, x) \in Seq(B) /\ IsInjective(Append(q, x))
      /\ ToSet(Append(q, x)) = ToSet(q) \cup {x}
  BY <1>1, EndOfList
<1> QED BY <1>2 DEF Agrees

LEMMA AgreesStart ==
    ASSUME NEW B, NEW X, NEW R, NEW q, NEW H, Agrees(B, X, R, q, H), NEW x \in X
    PROVE  Agrees(B, X, R \cup {x}, q, H \cup {x})
BY DEF Agrees

LEMMA AgreesStop ==
    ASSUME NEW B, NEW X, NEW R, NEW q, NEW H, Agrees(B, X, R, q, H), NEW x
    PROVE  Agrees(B, X, R \ {x}, q, H \ {x})
BY DEF Agrees

(* A change that is not about this kind.                                   *)
LEMMA AgreesOther ==
    ASSUME NEW B, NEW X, NEW R, NEW q, NEW H, Agrees(B, X, R, q, H), NEW x, x \notin B
    PROVE  Agrees(B, X, R, q, H \cup {x}) /\ Agrees(B, X, R, q, H \ {x})
BY DEF Agrees

-----------------------------------------------------------------------------
(* The inductive invariant.                                                *)

CycExisting == {c \in CYC : cyc[c].cycatr # NOEXS}
CycRunning  == {c \in CYC : cyc[c].cycsta}
AlmExisting == {a \in ALM : alm[a].almatr # NOEXS}
AlmRunning  == {a \in ALM : alm[a].almsta}

CYCCB == [cycatr : {"TA_STA", "TA_NULL", NOEXS}, cycsta : BOOLEAN, cycphs : Nat]
ALMCB == [almatr : {"TA_NULL", NOEXS}, almsta : BOOLEAN]

CycAgree == Agrees(CYC, CycExisting, CycRunning, free_cyccb, ToSet(tmevt_heap))
AlmAgree == Agrees(ALM, AlmExisting, AlmRunning, free_almcb, ToSet(tmevt_heap))

NInv ==
    /\ SoundNow
    /\ cyc \in [CYC -> CYCCB] /\ alm \in [ALM -> ALMCB]
    /\ CycAgree /\ AlmAgree

(* Every time event is that of a notification of one of the two kinds.     *)
LEMMA Kinds ==
    /\ CYC \cup ALM = EVT /\ CYC \cap ALM = {} /\ CYC \subseteq EVT /\ ALM \subseteq EVT
BY TimeEventAssumption DEF CYC, ALM

LEMMA TwoLists ==
    ASSUME NEW B, NEW C, B \cap C = {}, NEW p \in Seq(B), NEW q \in Seq(C),
           IsInjective(p), IsInjective(q)
    PROVE  IsInjective(p \o q) /\ ToSet(p \o q) = ToSet(p) \cup ToSet(q)
<1> DEFINE r == p \o q
           m == Len(p)
           n == Len(q)
<1>1. /\ m \in Nat /\ n \in Nat /\ DOMAIN p = 1 .. m /\ DOMAIN q = 1 .. n
      /\ ToSet(p) = {p[i] : i \in 1 .. m} /\ ToSet(q) = {q[i] : i \in 1 .. n}
      /\ \A i \in 1 .. m : p[i] \in B
      /\ \A i \in 1 .. n : q[i] \in C
  BY SeqSet
<1>2. /\ r \in Seq(B \cup C) /\ Len(r) = m + n
      /\ \A i \in 1 .. m : r[i] = p[i]
      /\ \A i \in 1 .. m + n : i > m => r[i] = q[i - m]
  <2>1. p \in Seq(B \cup C) /\ q \in Seq(B \cup C)
    BY <1>1
  <2>2. r \in Seq(B \cup C)
    BY <2>1
  <2>3. Len(r) = m + n
    BY <2>1
  <2>4. \A i \in 1 .. m + n : r[i] = IF i <= m THEN p[i] ELSE q[i - m]
    BY <2>1, <1>1
  <2>5. \A i \in 1 .. m : i \in 1 .. m + n /\ i <= m
    BY <1>1
  <2>6. \A i \in 1 .. m + n : i > m => ~(i <= m)
    BY <1>1
  <2> HIDE DEF r, m, n
  <2> QED BY <2>2, <2>3, <2>4, <2>5, <2>6
<1> HIDE DEF r, m, n
<1>3. ToSet(r) = {r[i] : i \in 1 .. m + n} /\ DOMAIN r = 1 .. m + n
  BY <1>2, SeqSet
<1>4. /\ \A i, j \in 1 .. m : p[i] = p[j] => i = j
      /\ \A i, j \in 1 .. n : q[i] = q[j] => i = j
  BY <1>1 DEF IsInjective
<1>5. \A i \in 1 .. m + n : i \in 1 .. m \/ (i > m /\ i - m \in 1 .. n)
  BY <1>1
<1>6. /\ \A i \in 1 .. m : i \in 1 .. m + n
      /\ \A i \in 1 .. n : i + m \in 1 .. m + n /\ i + m > m /\ (i + m) - m = i
  BY <1>1
<1>7. ASSUME NEW i \in 1 .. m + n, NEW j \in 1 .. m + n, r[i] = r[j] PROVE i = j
  <2>1. CASE i \in 1 .. m /\ j \in 1 .. m
    BY <1>2, <1>4, <1>7, <2>1
  <2>2. CASE i > m /\ i - m \in 1 .. n /\ j > m /\ j - m \in 1 .. n
    <3>1. i - m = j - m
      BY <1>2, <1>4, <1>7, <2>2
    <3> QED BY <1>1, <3>1
  <2>3. CASE i \in 1 .. m /\ j > m /\ j - m \in 1 .. n
    BY <1>1, <1>2, <1>7, <2>3
  <2>4. CASE j \in 1 .. m /\ i > m /\ i - m \in 1 .. n
    BY <1>1, <1>2, <1>7, <2>4
  <2> QED BY <1>5, <2>1, <2>2, <2>3, <2>4
<1>8. IsInjective(r)
  BY <1>3, <1>7 DEF IsInjective
<1>9. \A x \in ToSet(r) : x \in ToSet(p) \cup ToSet(q)
  <2>1. SUFFICES ASSUME NEW i \in 1 .. m + n PROVE r[i] \in ToSet(p) \cup ToSet(q)
    BY <1>3
  <2> QED BY <1>1, <1>2, <1>5
<1>10. \A x \in ToSet(p) : x \in ToSet(r)
  BY <1>1, <1>2, <1>3, <1>6
<1>11. \A x \in ToSet(q) : x \in ToSet(r)
  <2>1. SUFFICES ASSUME NEW i \in 1 .. n PROVE q[i] \in ToSet(r)
    BY <1>1
  <2>2. r[i + m] = q[i]
    BY <1>2, <1>6
  <2> QED BY <1>3, <1>6, <2>2
<1>12. ToSet(r) = ToSet(p) \cup ToSet(q)
  BY <1>9, <1>10, <1>11
<1> QED BY <1>8, <1>12 DEF r

LEMMA NotificationsFollow == NInv => NotificationsOK
<1> SUFFICES ASSUME NInv PROVE NotificationsOK
  OBVIOUS
<1>1. Running = CycRunning \cup AlmRunning /\ Existing = CycExisting \cup AlmExisting
  BY DEF Running, Existing, CycRunning, AlmRunning, CycExisting, AlmExisting
<1>2. CycAgree /\ AlmAgree
  BY DEF NInv
<1>3. ToSet(tmevt_heap) \subseteq EVT
  <2>1. tmevt_heap \in Seq(EVT)
    BY CurHeap DEF NInv, SoundNow, Sound, State
  <2> QED BY <2>1, SeqSet
<1>4. /\ free_cyccb \in Seq(CYC) /\ IsInjective(free_cyccb)
      /\ free_almcb \in Seq(ALM) /\ IsInjective(free_almcb)
      /\ ToSet(free_cyccb) = CYC \ CycExisting /\ ToSet(free_almcb) = ALM \ AlmExisting
      /\ CycExisting \subseteq CYC /\ AlmExisting \subseteq ALM
      /\ CycRunning \subseteq CycExisting /\ AlmRunning \subseteq AlmExisting
      /\ CycRunning = ToSet(tmevt_heap) \cap CYC /\ AlmRunning = ToSet(tmevt_heap) \cap ALM
  BY <1>2 DEF CycAgree, AlmAgree, Agrees
<1>5. /\ IsInjective(free_cyccb \o free_almcb)
      /\ ToSet(free_cyccb \o free_almcb) = ToSet(free_cyccb) \cup ToSet(free_almcb)
  BY <1>4, Kinds, TwoLists
<1>6. Running = ToSet(tmevt_heap) /\ Running \subseteq Existing
  BY <1>1, <1>3, <1>4, Kinds
<1>7. ToSet(free_cyccb \o free_almcb) = EVT \ Existing
  BY <1>1, <1>4, <1>5, Kinds
<1> QED BY <1>5, <1>6, <1>7 DEF NotificationsOK

-----------------------------------------------------------------------------
(* The callbacks.                                                          *)

(* A callback takes its event out; that of a cyclic notification puts it   *)
(* in again.                                                               *)
Keeps(e, H) == IF e \in CYC THEN H ELSE H \ {e}

LEMMA call_back_takes ==
    ASSUME SoundNow, NEW STATE s, Sound(s), s.heap # <<>>, call_back(s)
    PROVE  /\ Head(s.heap) \in EVT /\ SoundNow'
           /\ ToSet(tmevt_heap') = Keeps(Head(s.heap), ToSet(s.heap))
<1> DEFINE e  == Head(s.heap)
           r  == tmevtb_delete_top(s)
           at == EVTTIM_PLUS(r.evttim[e], CYCTIM[e])
           a  == TimeAt(r, e, at)
           q  == tmevtb_insert(a, e)
<1>1. Loses(r, s, e) /\ e \in ToSet(s.heap) /\ e \in EVT
  BY DeleteTopLoses
<1>2. \/ e \in CYC /\ Become(q)
      \/ e \notin CYC /\ Become(r)
  BY DEF call_back, TimeAt, CYC
<1> HIDE DEF r, e
<1>3. CASE e \in CYC /\ Become(q)
  <2>1. at \in Word
    <3>1. r.evttim[e] \in Word
      BY <1>1 DEF Loses, Sound, State
    <3>2. CYCTIM[e] \in Int
      BY <1>3, TimeEventAssumption DEF CYC
    <3>3. \A x \in Word : x \in Int
      BY ConstantsType DEF Word
    <3> QED BY <3>1, <3>2, <3>3, WordType
  <2> HIDE DEF at
  <2>2. Sound(a) /\ a.heap = r.heap
    BY <1>1, <2>1, TimeSound DEF Loses
  <2> HIDE DEF a
  <2>3. Gains(q, a, e)
    BY <1>1, <2>2, InsertGains DEF Loses
  <2> HIDE DEF q
  <2>4. SoundNow' /\ tmevt_heap' = q.heap
    BY <1>3, <2>3, BecomeSound DEF Gains
  <2>5. ToSet(q.heap) = ToSet(s.heap)
    BY <1>1, <2>2, <2>3 DEF Gains, Loses
  <2> QED BY <1>1, <1>3, <2>4, <2>5 DEF e, Keeps
<1>4. CASE e \notin CYC /\ Become(r)
  <2>1. SoundNow' /\ tmevt_heap' = r.heap
    BY <1>1, <1>4, BecomeSound DEF Loses
  <2> QED BY <1>1, <1>4, <2>1 DEF e, Keeps, Loses
<1> QED BY <1>2, <1>3, <1>4

(* What one turn of signal_time takes out is due.                          *)
Taken(due) ==
    \/ due = {} /\ Retains
    \/ \E e \in EVT : /\ due = {e} /\ SoundNow'
                      /\ ToSet(tmevt_heap') = Keeps(e, ToSet(tmevt_heap))

LEMMA next_turn_takes ==
    ASSUME SoundNow, NEW STATE s, Sound(s), s.heap = tmevt_heap, next_turn(s)
    PROVE  Taken(IF Due(update_current_evttim(s)) THEN {Head(tmevt_heap)} ELSE {})
<1> DEFINE now == update_current_evttim(s)
           h   == set_hrt_event(now)
           r   == [h EXCEPT !.in_signal_time = FALSE]
<1>1. Sound(now) /\ now.heap = tmevt_heap
  BY UpdateSound DEF SoundNow
<1>2. \/ Due(now) /\ call_back(now)
      \/ ~Due(now) /\ Become(r)
  BY DEF next_turn
<1> HIDE DEF now
<1>3. CASE Due(now) /\ call_back(now)
  <2>1. now.heap # <<>>
    BY <1>3 DEF Due
  <2>2. /\ Head(now.heap) \in EVT /\ SoundNow'
        /\ ToSet(tmevt_heap') = Keeps(Head(now.heap), ToSet(now.heap))
    BY <1>1, <1>3, <2>1, call_back_takes
  <2> QED BY <1>1, <1>3, <2>2 DEF Taken, now
<1>4. CASE ~Due(now) /\ Become(r)
  <2>1. Sound(h) /\ h.heap = now.heap
    BY <1>1, SetSound
  <2> HIDE DEF h
  <2>2. Sound(r) /\ r.heap = h.heap
    BY <2>1 DEF Sound, State
  <2> HIDE DEF r
  <2>3. SoundNow' /\ tmevt_heap' = r.heap
    BY <1>4, <2>2, BecomeSound
  <2> QED BY <1>1, <1>4, <2>1, <2>2, <2>3 DEF Taken, Retains, now
<1> QED BY <1>2, <1>3, <1>4

(* That signal_time has begun makes no difference to the current time.     *)
LEMMA DueSame ==
    ASSUME NEW s \in State, NEW b \in BOOLEAN, NEW v \in STOPPED .. HRTCNT_BOUND
    PROVE  LET r == [s EXCEPT !.in_signal_time = b, !.hrt_event = v]
           IN  /\ r \in State /\ r.heap = s.heap
               /\ Due(update_current_evttim(r)) <=> Due(update_current_evttim(s))
<1> DEFINE r == [s EXCEPT !.in_signal_time = b, !.hrt_event = v]
           x == (hrtcnt - s.current_hrtcnt) % TCYC_HRTCNT
           c == EVTTIM_PLUS(s.current_evttim, x)
           d == EVTTIM_MINUS(c, BOUNDARY_MARGIN)
<1>1. /\ r \in State /\ r.heap = s.heap /\ r.evttim = s.evttim
      /\ r.current_evttim = s.current_evttim /\ r.current_hrtcnt = s.current_hrtcnt
  BY DEF State
<1> HIDE DEF r
<1>2. ASSUME NEW q \in State, q.current_evttim = s.current_evttim,
             q.current_hrtcnt = s.current_hrtcnt
      PROVE  LET now == update_current_evttim(q)
             IN  /\ now.heap = q.heap /\ now.evttim = q.evttim
                 /\ now.current_evttim = c /\ now.boundary_evttim = d
  BY <1>2 DEF update_current_evttim, advance_evttim, State
<1> DEFINE n == update_current_evttim(s)
           m == update_current_evttim(r)
<1>3. /\ n.heap = m.heap /\ n.evttim = m.evttim
      /\ n.current_evttim = m.current_evttim /\ n.boundary_evttim = m.boundary_evttim
  BY <1>1, <1>2
<1> HIDE DEF n, m
<1>4. Due(m) <=> Due(n)
  BY <1>3 DEF Due, EVTTIM_LE, EVTTIM_ADVANCE, top_evttim
<1> QED BY <1>1, <1>4 DEF n, m, r

LEMMA signal_time_takes ==
    ASSUME SoundNow, signal_time
    PROVE  Taken(TopDue)
<1> DEFINE s == [Cur EXCEPT !.in_signal_time = TRUE, !.hrt_event = STOPPED]
<1>1. next_turn(s) /\ ~in_signal_time
  BY DEF signal_time
<1>2. STOPPED \in STOPPED .. HRTCNT_BOUND /\ TRUE \in BOOLEAN
  BY ConstantsType DEF STOPPED
<1>3. Cur \in State /\ Single(Cur.heap)
  BY DEF SoundNow, Sound
<1>4. /\ s \in State /\ s.heap = Cur.heap
      /\ Due(update_current_evttim(s)) <=> Due(update_current_evttim(Cur))
  BY <1>2, <1>3, DueSame
<1> HIDE DEF s
<1>5. Taken(IF Due(update_current_evttim(s)) THEN {Head(tmevt_heap)} ELSE {})
  BY <1>1, <1>3, <1>4, CurHeap, next_turn_takes DEF Sound
<1> QED BY <1>1, <1>4, <1>5 DEF TopDue

LEMMA signal_time_continues_takes ==
    ASSUME SoundNow, signal_time_continues
    PROVE  Taken(TopDue)
<1>1. in_signal_time /\ IF Due(Cur) THEN call_back(Cur) ELSE next_turn(Cur)
  BY DEF signal_time_continues
<1>2. CASE Due(Cur) /\ call_back(Cur)
  <2>1. Cur.heap # <<>>
    BY <1>2 DEF Due
  <2>2. /\ Head(Cur.heap) \in EVT /\ SoundNow'
        /\ ToSet(tmevt_heap') = Keeps(Head(Cur.heap), ToSet(Cur.heap))
    BY <1>2, <2>1, call_back_takes DEF SoundNow
  <2> QED BY <1>1, <1>2, <2>2, CurHeap DEF Taken, TopDue
<1>3. CASE ~Due(Cur) /\ next_turn(Cur)
  <2>1. Taken(IF Due(update_current_evttim(Cur)) THEN {Head(tmevt_heap)} ELSE {})
    BY <1>3, CurHeap, next_turn_takes DEF SoundNow
  <2> QED BY <1>3, <2>1 DEF TopDue
<1> QED BY <1>1, <1>2, <1>3

-----------------------------------------------------------------------------
(* Control blocks that change.                                             *)

(* Whether x belongs to the set.                                           *)
With(S, x, b) == IF b THEN S \cup {x} ELSE S \ {x}

LEMMA CycChanged ==
    ASSUME cyc \in [CYC -> CYCCB], NEW c \in CYC, NEW v \in CYCCB, cyc' = [cyc EXCEPT ![c] = v]
    PROVE  /\ cyc' \in [CYC -> CYCCB]
           /\ CycExisting' = With(CycExisting, c, v.cycatr # NOEXS)
           /\ CycRunning' = With(CycRunning, c, v.cycsta)
<1>1. cyc' \in [CYC -> CYCCB]
  OBVIOUS
<1>2. cyc'[c] = v /\ \A d \in CYC : d # c => cyc'[d] = cyc[d]
  OBVIOUS
<1>3. CycExisting' = With(CycExisting, c, v.cycatr # NOEXS)
  BY <1>2 DEF CycExisting, With
<1>4. CycRunning' = With(CycRunning, c, v.cycsta)
  BY <1>2 DEF CycRunning, With
<1> QED BY <1>1, <1>3, <1>4

LEMMA AlmChanged ==
    ASSUME alm \in [ALM -> ALMCB], NEW a \in ALM, NEW v \in ALMCB, alm' = [alm EXCEPT ![a] = v]
    PROVE  /\ alm' \in [ALM -> ALMCB]
           /\ AlmExisting' = With(AlmExisting, a, v.almatr # NOEXS)
           /\ AlmRunning' = With(AlmRunning, a, v.almsta)
<1>1. alm' \in [ALM -> ALMCB]
  OBVIOUS
<1>2. alm'[a] = v /\ \A b \in ALM : b # a => alm'[b] = alm[b]
  OBVIOUS
<1>3. AlmExisting' = With(AlmExisting, a, v.almatr # NOEXS)
  BY <1>2 DEF AlmExisting, With
<1>4. AlmRunning' = With(AlmRunning, a, v.almsta)
  BY <1>2 DEF AlmRunning, With
<1> QED BY <1>1, <1>3, <1>4

LEMMA CycStays ==
    ASSUME UNCHANGED cyc
    PROVE  CycExisting' = CycExisting /\ CycRunning' = CycRunning
BY DEF CycExisting, CycRunning

LEMMA AlmStays ==
    ASSUME UNCHANGED alm
    PROVE  AlmExisting' = AlmExisting /\ AlmRunning' = AlmRunning
BY DEF AlmExisting, AlmRunning

(* A notification is running if and only if its time event is registered.  *)
LEMMA RunningRegistered ==
    ASSUME NInv
    PROVE  /\ \A c \in CYC : /\ cyc[c] \in CYCCB /\ cyc[c].cycsta \in BOOLEAN
                             /\ cyc[c].cycphs \in Nat
                             /\ Registered(c) => cyc[c].cycsta
           /\ \A a \in ALM : /\ alm[a] \in ALMCB /\ alm[a].almsta \in BOOLEAN
                             /\ Registered(a) => alm[a].almsta
<1>1. /\ \A c \in CYC : cyc[c] \in CYCCB
      /\ \A a \in ALM : alm[a] \in ALMCB
  BY DEF NInv
<1>2. CycRunning = ToSet(tmevt_heap) \cap CYC /\ AlmRunning = ToSet(tmevt_heap) \cap ALM
  BY DEF NInv, CycAgree, AlmAgree, Agrees
<1>3. /\ \A c \in CYC : Registered(c) => cyc[c].cycsta
      /\ \A a \in ALM : Registered(a) => alm[a].almsta
  BY <1>2, CurHeap DEF CycRunning, AlmRunning
<1> QED BY <1>1, <1>3 DEF CYCCB, ALMCB

-----------------------------------------------------------------------------
(* The calls keep the invariant.                                           *)

LEMMA Parts ==
    ASSUME NInv
    PROVE  /\ Agrees(CYC, CycExisting, CycRunning, free_cyccb, ToSet(tmevt_heap))
           /\ Agrees(ALM, AlmExisting, AlmRunning, free_almcb, ToSet(tmevt_heap))
           /\ SoundNow /\ cyc \in [CYC -> CYCCB] /\ alm \in [ALM -> ALMCB]
BY DEF NInv, CycAgree, AlmAgree

LEMMA NInvNext ==
    ASSUME SoundNow', (cyc \in [CYC -> CYCCB])', (alm \in [ALM -> ALMCB])',
           Agrees(CYC, CycExisting', CycRunning', free_cyccb', ToSet(tmevt_heap')),
           Agrees(ALM, AlmExisting', AlmRunning', free_almcb', ToSet(tmevt_heap'))
    PROVE  NInv'
BY DEF NInv, CycAgree, AlmAgree

LEMMA acre_cyc_keeps ==
    ASSUME NInv, NEW cycatr \in {"TA_STA", "TA_NULL"}, NEW cycphs \in Nat,
           acre_cyc(cycatr, cycphs)
    PROVE  NInv'
<1> DEFINE c == Head(free_cyccb)
           v == [cycatr |-> cycatr, cycphs |-> cycphs, cycsta |-> (cycatr = "TA_STA")]
           H == ToSet(tmevt_heap)
<1>1. /\ Agrees(CYC, CycExisting, CycRunning, free_cyccb, H)
      /\ Agrees(ALM, AlmExisting, AlmRunning, free_almcb, H)
      /\ SoundNow /\ cyc \in [CYC -> CYCCB] /\ alm \in [ALM -> ALMCB]
  BY Parts
<1>2. /\ free_cyccb # <<>> /\ free_cyccb' = Tail(free_cyccb)
      /\ cyc' = [cyc EXCEPT ![c] = v]
      /\ \/ cycatr = "TA_STA" /\ tmevtb_enqueue(c, cycphs)
         \/ cycatr = "TA_NULL" /\ UNCHANGED vars
      /\ UNCHANGED alm /\ free_almcb' = free_almcb
  BY DEF acre_cyc
<1>3. c \in CYC /\ c \notin CycExisting
      /\ Agrees(CYC, CycExisting \cup {c}, CycRunning, free_cyccb', H)
  BY <1>1, <1>2, AgreesTail
<1>4. v \in CYCCB /\ v.cycatr # NOEXS /\ v.cycsta = (cycatr = "TA_STA")
  BY DEF CYCCB, NOEXS
<1> HIDE DEF c, v
<1>5. /\ cyc' \in [CYC -> CYCCB]
      /\ CycExisting' = With(CycExisting, c, v.cycatr # NOEXS)
      /\ CycRunning' = With(CycRunning, c, v.cycsta)
  BY <1>1, <1>2, <1>3, <1>4, CycChanged
<1>6. CycExisting' = CycExisting \cup {c}
  BY <1>4, <1>5 DEF With
<1>7. AlmExisting' = AlmExisting /\ AlmRunning' = AlmRunning
  BY <1>2, AlmStays
<1>8. c \in EVT /\ c \notin ALM
  BY <1>3, Kinds
<1>9. CASE cycatr = "TA_STA" /\ tmevtb_enqueue(c, cycphs)
  <2>1. SoundNow' /\ ToSet(tmevt_heap') = H \cup {c}
    BY <1>1, <1>8, <1>9, enqueue_registers DEF Registers
  <2>2. CycRunning' = CycRunning \cup {c}
    BY <1>4, <1>5, <1>9 DEF With
  <2>3. Agrees(CYC, CycExisting', CycRunning', free_cyccb', ToSet(tmevt_heap'))
    <3>1. Agrees(CYC, CycExisting \cup {c}, CycRunning \cup {c}, free_cyccb', H \cup {c})
      BY <1>3, <1>6, <2>1, <2>2, AgreesStart
    <3> QED BY <1>3, <1>6, <2>1, <2>2, <3>1
  <2>4. Agrees(ALM, AlmExisting', AlmRunning', free_almcb', ToSet(tmevt_heap'))
    <3>1. Agrees(ALM, AlmExisting, AlmRunning, free_almcb, H \cup {c})
      BY <1>1, <1>2, <1>7, <1>8, <2>1, AgreesOther
    <3> QED BY <1>1, <1>2, <1>7, <1>8, <2>1, <3>1
  <2> QED BY <1>1, <1>2, <1>5, <2>1, <2>3, <2>4, NInvNext
<1>10. CASE cycatr = "TA_NULL" /\ UNCHANGED vars
  <2>1. SoundNow' /\ ToSet(tmevt_heap') = H
    BY <1>1, <1>10, stutter_retains DEF Retains
  <2>2. CycRunning' = CycRunning
    <3>1. c \notin CycRunning
      BY <1>1, <1>3 DEF Agrees
    <3> QED BY <1>4, <1>5, <1>10, <3>1 DEF With
  <2>3. Agrees(CYC, CycExisting', CycRunning', free_cyccb', ToSet(tmevt_heap'))
    BY <1>3, <1>6, <2>1, <2>2
  <2>4. Agrees(ALM, AlmExisting', AlmRunning', free_almcb', ToSet(tmevt_heap'))
    BY <1>1, <1>2, <1>7, <2>1
  <2> QED BY <1>1, <1>2, <1>5, <2>1, <2>3, <2>4, NInvNext
<1> QED BY <1>2, <1>9, <1>10

LEMMA del_cyc_keeps ==
    ASSUME NInv, NEW c \in CYC, del_cyc(c)
    PROVE  NInv'
<1> DEFINE H == ToSet(tmevt_heap)
<1>1. /\ Agrees(CYC, CycExisting, CycRunning, free_cyccb, H)
      /\ Agrees(ALM, AlmExisting, AlmRunning, free_almcb, H)
      /\ SoundNow /\ cyc \in [CYC -> CYCCB] /\ alm \in [ALM -> ALMCB]
  BY Parts
<1>2. /\ c \in CycExisting /\ stop(c, cyc[c].cycsta)
      /\ cyc' = [cyc EXCEPT ![c] = free_cyc]
      /\ free_cyccb' = Append(free_cyccb, c)
      /\ UNCHANGED alm /\ free_almcb' = free_almcb
  BY DEF del_cyc, CycExisting
<1>3. cyc[c].cycsta \in BOOLEAN /\ (Registered(c) => cyc[c].cycsta)
  BY RunningRegistered
<1>4. SoundNow' /\ ToSet(tmevt_heap') = H \ {c}
  BY <1>1, <1>2, <1>3, stop_unregisters DEF Unregisters
<1>5. free_cyc \in CYCCB /\ free_cyc.cycatr = NOEXS /\ free_cyc.cycsta = FALSE
  BY DEF free_cyc, CYCCB
<1>6. /\ cyc' \in [CYC -> CYCCB]
      /\ CycExisting' = With(CycExisting, c, free_cyc.cycatr # NOEXS)
      /\ CycRunning' = With(CycRunning, c, free_cyc.cycsta)
  BY <1>1, <1>2, <1>5, CycChanged
<1>7. CycExisting' = CycExisting \ {c} /\ CycRunning' = CycRunning \ {c}
  BY <1>5, <1>6 DEF With
<1>8. AlmExisting' = AlmExisting /\ AlmRunning' = AlmRunning /\ c \notin ALM
  BY <1>2, AlmStays, Kinds
<1>9. Agrees(CYC, CycExisting', CycRunning', free_cyccb', ToSet(tmevt_heap'))
  <2>1. Agrees(CYC, CycExisting \ {c}, CycRunning \ {c}, Append(free_cyccb, c), H \ {c})
    BY <1>1, <1>2, <1>4, <1>7, AgreesEnd
  <2> QED BY <1>1, <1>2, <1>4, <1>7, <2>1
<1>10. Agrees(ALM, AlmExisting', AlmRunning', free_almcb', ToSet(tmevt_heap'))
  <2>1. Agrees(ALM, AlmExisting, AlmRunning, free_almcb, H \ {c})
    BY <1>1, <1>2, <1>4, <1>8, AgreesOther
  <2> QED BY <1>1, <1>2, <1>4, <1>8, <2>1
<1> QED BY <1>1, <1>2, <1>4, <1>6, <1>9, <1>10, NInvNext

LEMMA sta_cyc_keeps ==
    ASSUME NInv, NEW c \in CYC, sta_cyc(c)
    PROVE  NInv'
<1> DEFINE H == ToSet(tmevt_heap)
           v == [cyc[c] EXCEPT !.cycsta = TRUE]
<1>1. /\ Agrees(CYC, CycExisting, CycRunning, free_cyccb, H)
      /\ Agrees(ALM, AlmExisting, AlmRunning, free_almcb, H)
      /\ SoundNow /\ cyc \in [CYC -> CYCCB] /\ alm \in [ALM -> ALMCB]
  BY Parts
<1>2. /\ c \in CycExisting /\ restart(c, cyc[c].cycsta, cyc[c].cycphs)
      /\ cyc' = [cyc EXCEPT ![c] = v]
      /\ UNCHANGED <<alm, free_cyccb, free_almcb>>
  BY DEF sta_cyc, CycExisting
<1>3. /\ cyc[c] \in CYCCB /\ cyc[c].cycsta \in BOOLEAN /\ cyc[c].cycphs \in Nat
      /\ Registered(c) => cyc[c].cycsta
  BY RunningRegistered
<1>4. c \in EVT /\ c \notin ALM
  BY Kinds
<1>5. SoundNow' /\ ToSet(tmevt_heap') = H \cup {c}
  BY <1>1, <1>2, <1>3, <1>4, restart_registers DEF Registers
<1>6. v \in CYCCB /\ v.cycatr # NOEXS /\ v.cycsta = TRUE
  BY <1>2, <1>3 DEF CYCCB, CycExisting
<1> HIDE DEF v
<1>7. /\ cyc' \in [CYC -> CYCCB]
      /\ CycExisting' = With(CycExisting, c, v.cycatr # NOEXS)
      /\ CycRunning' = With(CycRunning, c, v.cycsta)
  BY <1>1, <1>2, <1>6, CycChanged
<1>8. CycExisting' = CycExisting /\ CycRunning' = CycRunning \cup {c}
  BY <1>2, <1>6, <1>7 DEF With
<1>9. AlmExisting' = AlmExisting /\ AlmRunning' = AlmRunning
  BY <1>2, AlmStays
<1>10. Agrees(CYC, CycExisting', CycRunning', free_cyccb', ToSet(tmevt_heap'))
  <2>1. Agrees(CYC, CycExisting, CycRunning \cup {c}, free_cyccb, H \cup {c})
    BY <1>1, <1>2, <1>5, <1>8, AgreesStart
  <2> QED BY <1>1, <1>2, <1>5, <1>8, <2>1
<1>11. Agrees(ALM, AlmExisting', AlmRunning', free_almcb', ToSet(tmevt_heap'))
  <2>1. Agrees(ALM, AlmExisting, AlmRunning, free_almcb, H \cup {c})
    BY <1>1, <1>2, <1>4, <1>5, <1>9, AgreesOther
  <2> QED BY <1>1, <1>2, <1>4, <1>5, <1>9, <2>1
<1> QED BY <1>1, <1>2, <1>5, <1>7, <1>10, <1>11, NInvNext

LEMMA stp_cyc_keeps ==
    ASSUME NInv, NEW c \in CYC, stp_cyc(c)
    PROVE  NInv'
<1> DEFINE H == ToSet(tmevt_heap)
           v == [cyc[c] EXCEPT !.cycsta = FALSE]
<1>1. /\ Agrees(CYC, CycExisting, CycRunning, free_cyccb, H)
      /\ Agrees(ALM, AlmExisting, AlmRunning, free_almcb, H)
      /\ SoundNow /\ cyc \in [CYC -> CYCCB] /\ alm \in [ALM -> ALMCB]
  BY Parts
<1>2. /\ c \in CycExisting /\ stop(c, cyc[c].cycsta)
      /\ cyc' = [cyc EXCEPT ![c] = v]
      /\ UNCHANGED <<alm, free_cyccb, free_almcb>>
  BY DEF stp_cyc, CycExisting
<1>3. /\ cyc[c] \in CYCCB /\ cyc[c].cycsta \in BOOLEAN
      /\ Registered(c) => cyc[c].cycsta
  BY RunningRegistered
<1>4. SoundNow' /\ ToSet(tmevt_heap') = H \ {c} /\ c \notin ALM
  BY <1>1, <1>2, <1>3, Kinds, stop_unregisters DEF Unregisters
<1>5. v \in CYCCB /\ v.cycatr # NOEXS /\ v.cycsta = FALSE
  BY <1>2, <1>3 DEF CYCCB, CycExisting
<1> HIDE DEF v
<1>6. /\ cyc' \in [CYC -> CYCCB]
      /\ CycExisting' = With(CycExisting, c, v.cycatr # NOEXS)
      /\ CycRunning' = With(CycRunning, c, v.cycsta)
  BY <1>1, <1>2, <1>5, CycChanged
<1>7. CycExisting' = CycExisting /\ CycRunning' = CycRunning \ {c}
  BY <1>2, <1>5, <1>6 DEF With
<1>8. AlmExisting' = AlmExisting /\ AlmRunning' = AlmRunning
  BY <1>2, AlmStays
<1>9. Agrees(CYC, CycExisting', CycRunning', free_cyccb', ToSet(tmevt_heap'))
  <2>1. Agrees(CYC, CycExisting, CycRunning \ {c}, free_cyccb, H \ {c})
    BY <1>1, <1>2, <1>4, <1>7, AgreesStop
  <2> QED BY <1>1, <1>2, <1>4, <1>7, <2>1
<1>10. Agrees(ALM, AlmExisting', AlmRunning', free_almcb', ToSet(tmevt_heap'))
  <2>1. Agrees(ALM, AlmExisting, AlmRunning, free_almcb, H \ {c})
    BY <1>1, <1>2, <1>4, <1>8, AgreesOther
  <2> QED BY <1>1, <1>2, <1>4, <1>8, <2>1
<1> QED BY <1>1, <1>2, <1>4, <1>6, <1>9, <1>10, NInvNext

LEMMA del_alm_keeps ==
    ASSUME NInv, NEW a \in ALM, del_alm(a)
    PROVE  NInv'
<1> DEFINE H == ToSet(tmevt_heap)
<1>1. /\ Agrees(ALM, AlmExisting, AlmRunning, free_almcb, H)
      /\ Agrees(CYC, CycExisting, CycRunning, free_cyccb, H)
      /\ SoundNow /\ alm \in [ALM -> ALMCB] /\ cyc \in [CYC -> CYCCB]
  BY Parts
<1>2. /\ a \in AlmExisting /\ stop(a, alm[a].almsta)
      /\ alm' = [alm EXCEPT ![a] = free_alm]
      /\ free_almcb' = Append(free_almcb, a)
      /\ UNCHANGED cyc /\ free_cyccb' = free_cyccb
  BY DEF del_alm, AlmExisting
<1>3. alm[a].almsta \in BOOLEAN /\ (Registered(a) => alm[a].almsta)
  BY RunningRegistered
<1>4. SoundNow' /\ ToSet(tmevt_heap') = H \ {a}
  BY <1>1, <1>2, <1>3, stop_unregisters DEF Unregisters
<1>5. free_alm \in ALMCB /\ free_alm.almatr = NOEXS /\ free_alm.almsta = FALSE
  BY DEF free_alm, ALMCB
<1>6. /\ alm' \in [ALM -> ALMCB]
      /\ AlmExisting' = With(AlmExisting, a, free_alm.almatr # NOEXS)
      /\ AlmRunning' = With(AlmRunning, a, free_alm.almsta)
  BY <1>1, <1>2, <1>5, AlmChanged
<1>7. AlmExisting' = AlmExisting \ {a} /\ AlmRunning' = AlmRunning \ {a}
  BY <1>5, <1>6 DEF With
<1>8. CycExisting' = CycExisting /\ CycRunning' = CycRunning /\ a \notin CYC
  BY <1>2, CycStays, Kinds
<1>9. Agrees(ALM, AlmExisting', AlmRunning', free_almcb', ToSet(tmevt_heap'))
  <2>1. Agrees(ALM, AlmExisting \ {a}, AlmRunning \ {a}, Append(free_almcb, a), H \ {a})
    BY <1>1, <1>2, <1>4, <1>7, AgreesEnd
  <2> QED BY <1>1, <1>2, <1>4, <1>7, <2>1
<1>10. Agrees(CYC, CycExisting', CycRunning', free_cyccb', ToSet(tmevt_heap'))
  <2>1. Agrees(CYC, CycExisting, CycRunning, free_cyccb, H \ {a})
    BY <1>1, <1>2, <1>4, <1>8, AgreesOther
  <2> QED BY <1>1, <1>2, <1>4, <1>8, <2>1
<1> QED BY <1>1, <1>2, <1>4, <1>6, <1>9, <1>10, NInvNext

LEMMA sta_alm_keeps ==
    ASSUME NInv, NEW a \in ALM, NEW almtim \in Nat, sta_alm(a, almtim)
    PROVE  NInv'
<1> DEFINE H == ToSet(tmevt_heap)
           v == [alm[a] EXCEPT !.almsta = TRUE]
<1>1. /\ Agrees(ALM, AlmExisting, AlmRunning, free_almcb, H)
      /\ Agrees(CYC, CycExisting, CycRunning, free_cyccb, H)
      /\ SoundNow /\ alm \in [ALM -> ALMCB] /\ cyc \in [CYC -> CYCCB]
  BY Parts
<1>2. /\ a \in AlmExisting /\ restart(a, alm[a].almsta, almtim)
      /\ alm' = [alm EXCEPT ![a] = v]
      /\ UNCHANGED <<cyc, free_almcb, free_cyccb>>
  BY DEF sta_alm, AlmExisting
<1>3. /\ alm[a] \in ALMCB /\ alm[a].almsta \in BOOLEAN
      /\ Registered(a) => alm[a].almsta
  BY RunningRegistered
<1>4. a \in EVT /\ a \notin CYC
  BY Kinds
<1>5. SoundNow' /\ ToSet(tmevt_heap') = H \cup {a}
  BY <1>1, <1>2, <1>3, <1>4, restart_registers DEF Registers
<1>6. v \in ALMCB /\ v.almatr # NOEXS /\ v.almsta = TRUE
  BY <1>2, <1>3 DEF ALMCB, AlmExisting
<1> HIDE DEF v
<1>7. /\ alm' \in [ALM -> ALMCB]
      /\ AlmExisting' = With(AlmExisting, a, v.almatr # NOEXS)
      /\ AlmRunning' = With(AlmRunning, a, v.almsta)
  BY <1>1, <1>2, <1>6, AlmChanged
<1>8. AlmExisting' = AlmExisting /\ AlmRunning' = AlmRunning \cup {a}
  BY <1>2, <1>6, <1>7 DEF With
<1>9. CycExisting' = CycExisting /\ CycRunning' = CycRunning
  BY <1>2, CycStays
<1>10. Agrees(ALM, AlmExisting', AlmRunning', free_almcb', ToSet(tmevt_heap'))
  <2>1. Agrees(ALM, AlmExisting, AlmRunning \cup {a}, free_almcb, H \cup {a})
    BY <1>1, <1>2, <1>5, <1>8, AgreesStart
  <2> QED BY <1>1, <1>2, <1>5, <1>8, <2>1
<1>11. Agrees(CYC, CycExisting', CycRunning', free_cyccb', ToSet(tmevt_heap'))
  <2>1. Agrees(CYC, CycExisting, CycRunning, free_cyccb, H \cup {a})
    BY <1>1, <1>2, <1>4, <1>5, <1>9, AgreesOther
  <2> QED BY <1>1, <1>2, <1>4, <1>5, <1>9, <2>1
<1> QED BY <1>1, <1>2, <1>5, <1>7, <1>10, <1>11, NInvNext

LEMMA stp_alm_keeps ==
    ASSUME NInv, NEW a \in ALM, stp_alm(a)
    PROVE  NInv'
<1> DEFINE H == ToSet(tmevt_heap)
           v == [alm[a] EXCEPT !.almsta = FALSE]
<1>1. /\ Agrees(ALM, AlmExisting, AlmRunning, free_almcb, H)
      /\ Agrees(CYC, CycExisting, CycRunning, free_cyccb, H)
      /\ SoundNow /\ alm \in [ALM -> ALMCB] /\ cyc \in [CYC -> CYCCB]
  BY Parts
<1>2. /\ a \in AlmExisting /\ stop(a, alm[a].almsta)
      /\ alm' = [alm EXCEPT ![a] = v]
      /\ UNCHANGED <<cyc, free_almcb, free_cyccb>>
  BY DEF stp_alm, AlmExisting
<1>3. /\ alm[a] \in ALMCB /\ alm[a].almsta \in BOOLEAN
      /\ Registered(a) => alm[a].almsta
  BY RunningRegistered
<1>4. SoundNow' /\ ToSet(tmevt_heap') = H \ {a} /\ a \notin CYC
  BY <1>1, <1>2, <1>3, Kinds, stop_unregisters DEF Unregisters
<1>5. v \in ALMCB /\ v.almatr # NOEXS /\ v.almsta = FALSE
  BY <1>2, <1>3 DEF ALMCB, AlmExisting
<1> HIDE DEF v
<1>6. /\ alm' \in [ALM -> ALMCB]
      /\ AlmExisting' = With(AlmExisting, a, v.almatr # NOEXS)
      /\ AlmRunning' = With(AlmRunning, a, v.almsta)
  BY <1>1, <1>2, <1>5, AlmChanged
<1>7. AlmExisting' = AlmExisting /\ AlmRunning' = AlmRunning \ {a}
  BY <1>2, <1>5, <1>6 DEF With
<1>8. CycExisting' = CycExisting /\ CycRunning' = CycRunning
  BY <1>2, CycStays
<1>9. Agrees(ALM, AlmExisting', AlmRunning', free_almcb', ToSet(tmevt_heap'))
  <2>1. Agrees(ALM, AlmExisting, AlmRunning \ {a}, free_almcb, H \ {a})
    BY <1>1, <1>2, <1>4, <1>7, AgreesStop
  <2> QED BY <1>1, <1>2, <1>4, <1>7, <2>1
<1>10. Agrees(CYC, CycExisting', CycRunning', free_cyccb', ToSet(tmevt_heap'))
  <2>1. Agrees(CYC, CycExisting, CycRunning, free_cyccb, H \ {a})
    BY <1>1, <1>2, <1>4, <1>8, AgreesOther
  <2> QED BY <1>1, <1>2, <1>4, <1>8, <2>1
<1> QED BY <1>1, <1>2, <1>4, <1>6, <1>9, <1>10, NInvNext

LEMMA acre_alm_keeps ==
    ASSUME NInv, acre_alm
    PROVE  NInv'
<1> DEFINE a == Head(free_almcb)
           v == [almatr |-> "TA_NULL", almsta |-> FALSE]
           H == ToSet(tmevt_heap)
<1>1. /\ Agrees(ALM, AlmExisting, AlmRunning, free_almcb, H)
      /\ Agrees(CYC, CycExisting, CycRunning, free_cyccb, H)
      /\ SoundNow /\ alm \in [ALM -> ALMCB] /\ cyc \in [CYC -> CYCCB]
  BY Parts
<1>2. /\ free_almcb # <<>> /\ free_almcb' = Tail(free_almcb)
      /\ alm' = [alm EXCEPT ![a] = v]
      /\ UNCHANGED vars /\ UNCHANGED cyc /\ free_cyccb' = free_cyccb
  BY DEF acre_alm
<1>3. a \in ALM /\ a \notin AlmExisting
      /\ Agrees(ALM, AlmExisting \cup {a}, AlmRunning, free_almcb', H)
  BY <1>1, <1>2, AgreesTail
<1>4. v \in ALMCB /\ v.almatr # NOEXS /\ v.almsta = FALSE
  BY DEF ALMCB, NOEXS
<1> HIDE DEF a, v
<1>5. /\ alm' \in [ALM -> ALMCB]
      /\ AlmExisting' = With(AlmExisting, a, v.almatr # NOEXS)
      /\ AlmRunning' = With(AlmRunning, a, v.almsta)
  BY <1>1, <1>2, <1>3, <1>4, AlmChanged
<1>6. AlmExisting' = AlmExisting \cup {a} /\ AlmRunning' = AlmRunning
  <2>1. a \notin AlmRunning
    BY <1>1, <1>3 DEF Agrees
  <2> QED BY <1>4, <1>5, <2>1 DEF With
<1>7. CycExisting' = CycExisting /\ CycRunning' = CycRunning
  BY <1>2, CycStays
<1>8. SoundNow' /\ ToSet(tmevt_heap') = H
  BY <1>1, <1>2, stutter_retains DEF Retains
<1>9. Agrees(ALM, AlmExisting', AlmRunning', free_almcb', ToSet(tmevt_heap'))
  BY <1>3, <1>6, <1>8
<1>10. Agrees(CYC, CycExisting', CycRunning', free_cyccb', ToSet(tmevt_heap'))
  BY <1>1, <1>2, <1>7, <1>8
<1> QED BY <1>1, <1>2, <1>5, <1>8, <1>9, <1>10, NInvNext

(* Steps that concern no control block.                                    *)
LEMMA nothing_changes ==
    ASSUME NInv, Retains, UNCHANGED <<cyc, alm, free_cyccb, free_almcb>>
    PROVE  NInv'
<1>1. /\ Agrees(ALM, AlmExisting, AlmRunning, free_almcb, ToSet(tmevt_heap))
      /\ Agrees(CYC, CycExisting, CycRunning, free_cyccb, ToSet(tmevt_heap))
      /\ SoundNow /\ alm \in [ALM -> ALMCB] /\ cyc \in [CYC -> CYCCB]
  BY Parts
<1>2. CycExisting' = CycExisting /\ CycRunning' = CycRunning
  BY CycStays
<1>3. AlmExisting' = AlmExisting /\ AlmRunning' = AlmRunning
  BY AlmStays
<1>4. SoundNow' /\ ToSet(tmevt_heap') = ToSet(tmevt_heap)
  BY DEF Retains
<1>5. Agrees(ALM, AlmExisting', AlmRunning', free_almcb', ToSet(tmevt_heap'))
  BY <1>1, <1>3, <1>4
<1>6. Agrees(CYC, CycExisting', CycRunning', free_cyccb', ToSet(tmevt_heap'))
  BY <1>1, <1>2, <1>4
<1> QED BY <1>1, <1>4, <1>5, <1>6, NInvNext

LEMMA callback_keeps ==
    ASSUME NInv, NEW STATE due, Taken(due), call_notification(due)
    PROVE  NInv'
<1> DEFINE H == ToSet(tmevt_heap)
<1>1. /\ Agrees(ALM, AlmExisting, AlmRunning, free_almcb, H)
      /\ Agrees(CYC, CycExisting, CycRunning, free_cyccb, H)
      /\ SoundNow /\ alm \in [ALM -> ALMCB] /\ cyc \in [CYC -> CYCCB]
  BY Parts
<1>2. /\ alm' = [a \in ALM |-> IF a \in due THEN [alm[a] EXCEPT !.almsta = FALSE]
                               ELSE alm[a]]
      /\ cyc' = cyc /\ free_cyccb' = free_cyccb /\ free_almcb' = free_almcb
  BY DEF call_notification
<1>3. ASSUME \A a \in ALM : a \notin due PROVE alm' = alm
  BY <1>1, <1>2, <1>3
<1>4. CASE due = {} /\ Retains
  <2>1. alm' = alm
    BY <1>3, <1>4
  <2> QED BY <1>2, <1>4, <2>1, nothing_changes
<1>5. ASSUME NEW e \in EVT, due = {e}, SoundNow', ToSet(tmevt_heap') = Keeps(e, H)
      PROVE  NInv'
  <2>1. CASE e \in CYC
    <3>1. e \notin ALM
      BY <2>1, Kinds
    <3>2. alm' = alm
      BY <1>3, <1>5, <3>1
    <3>3. Retains
      BY <1>5, <2>1 DEF Keeps, Retains
    <3> QED BY <1>2, <3>2, <3>3, nothing_changes
  <2>2. CASE e \notin CYC
    <3> DEFINE v == [alm[e] EXCEPT !.almsta = FALSE]
    <3>1. e \in ALM
      BY <2>2, Kinds
    <3>2. ToSet(tmevt_heap') = H \ {e}
      BY <1>5, <2>2 DEF Keeps
    <3>3. v \in ALMCB /\ v.almatr = alm[e].almatr /\ v.almsta = FALSE
      BY <1>1, <3>1 DEF ALMCB
    <3>4. alm' = [alm EXCEPT ![e] = v]
      BY <1>1, <1>2, <1>5, <3>1
    <3> HIDE DEF v
    <3>5. /\ alm' \in [ALM -> ALMCB]
          /\ AlmExisting' = With(AlmExisting, e, v.almatr # NOEXS)
          /\ AlmRunning' = With(AlmRunning, e, v.almsta)
      BY <1>1, <3>1, <3>3, <3>4, AlmChanged
    <3>6. AlmExisting' = AlmExisting /\ AlmRunning' = AlmRunning \ {e}
      BY <3>1, <3>3, <3>5 DEF With, AlmExisting
    <3>7. CycExisting' = CycExisting /\ CycRunning' = CycRunning
      BY <1>2, CycStays
    <3>8. Agrees(ALM, AlmExisting', AlmRunning', free_almcb', ToSet(tmevt_heap'))
      <4>1. Agrees(ALM, AlmExisting, AlmRunning \ {e}, free_almcb, H \ {e})
        BY <1>1, <1>2, <3>2, <3>6, AgreesStop
      <4> QED BY <1>1, <1>2, <3>2, <3>6, <4>1
    <3>9. Agrees(CYC, CycExisting', CycRunning', free_cyccb', ToSet(tmevt_heap'))
      <4>1. Agrees(CYC, CycExisting, CycRunning, free_cyccb, H \ {e})
        BY <1>1, <1>2, <2>2, <3>2, <3>7, AgreesOther
      <4> QED BY <1>1, <1>2, <2>2, <3>2, <3>7, <4>1
    <3> QED BY <1>1, <1>2, <1>5, <3>5, <3>8, <3>9, NInvNext
  <2> QED BY <2>1, <2>2
<1> QED BY <1>4, <1>5 DEF Taken

LEMMA NotificationStep ==
    ASSUME NInv, [NotificationNext]_<<vars, nvars>>
    PROVE  NInv'
<1>0. SoundNow /\ RELTIM \subseteq Nat
  BY TimeEventAssumption DEF NInv
<1>1. CASE \E cycatr \in {"TA_STA", "TA_NULL"}, cycphs \in RELTIM : acre_cyc(cycatr, cycphs)
  BY <1>0, <1>1, acre_cyc_keeps
<1>2. CASE \E c \in CYC : del_cyc(c) \/ sta_cyc(c) \/ stp_cyc(c)
  BY <1>2, del_cyc_keeps, sta_cyc_keeps, stp_cyc_keeps
<1>3. CASE acre_alm
  BY <1>3, acre_alm_keeps
<1>4. CASE \E a \in ALM : del_alm(a) \/ stp_alm(a)
  BY <1>4, del_alm_keeps, stp_alm_keeps
<1>5. CASE \E a \in ALM, almtim \in RELTIM : sta_alm(a, almtim)
  BY <1>0, <1>5, sta_alm_keeps
<1>6. CASE ref
  <2>1. Retains /\ UNCHANGED <<cyc, alm, free_cyccb, free_almcb>>
    BY <1>0, <1>6, get_tim_retains DEF ref, nvars
  <2> QED BY <2>1, nothing_changes
<1>7. CASE Tick
  <2>1. Retains /\ UNCHANGED <<cyc, alm, free_cyccb, free_almcb>>
    BY <1>0, <1>7, tick_retains DEF Tick, nvars
  <2> QED BY <2>1, nothing_changes
<1>8. CASE TimerInterrupt
  <2>1. Taken(TopDue) /\ call_notification(TopDue)
    BY <1>0, <1>8, signal_time_takes DEF TimerInterrupt
  <2> QED BY <2>1, callback_keeps
<1>9. CASE HandlerReturns
  <2>1. Taken(TopDue) /\ call_notification(TopDue)
    BY <1>0, <1>9, signal_time_continues_takes DEF HandlerReturns
  <2> QED BY <2>1, callback_keeps
<1>10. CASE UNCHANGED <<vars, nvars>>
  <2>1. Retains /\ UNCHANGED <<cyc, alm, free_cyccb, free_almcb>>
    BY <1>0, <1>10, stutter_retains DEF nvars
  <2> QED BY <2>1, nothing_changes
<1> QED BY <1>1, <1>2, <1>3, <1>4, <1>5, <1>6, <1>7, <1>8, <1>9, <1>10
        DEF NotificationNext, Clock

-----------------------------------------------------------------------------
(* The static cyclic notifications are started.                            *)

StartAt(s, e, time) == tmevtb_insert(TimeAt(s, e, time), e)

(* The loop over them is a function of the number of turns.                *)
Begun(s, q, k) ==
    \E g : g = [n \in 0 .. k |-> IF n = 0 THEN s
                                 ELSE StartAt(g[n - 1], q[n], STARTED[q[n]])]

LEMMA initialize_cyclic_defined ==
    ASSUME NEW s, NEW q, NEW k \in Nat
    PROVE  Begun(s, q, k)
<1> DEFINE S == {m \in Nat : ~Begun(s, q, m)}
           j == Min(S)
           T(x, n) == StartAt(x, q[n], STARTED[q[n]])
<1> SUFFICES ASSUME S # {} PROVE FALSE
  OBVIOUS
<1>0. \A m : Begun(s, q, m) <=> \E g : g = [n \in 0 .. m |-> IF n = 0 THEN s
                                                        ELSE T(g[n - 1], n)]
  BY DEF Begun
<1> HIDE DEF T
<1>1. j \in S /\ \A y \in S : j <= y
  BY LeastNat
<1> HIDE DEF j
<1>2. CASE j = 0
  <2>1. [n \in 0 .. 0 |-> s] = [n \in 0 .. 0 |-> IF n = 0 THEN s
               ELSE T([i \in 0 .. 0 |-> s][n - 1], n)]
    OBVIOUS
  <2>2. Begun(s, q, 0)
    BY <1>0, <2>1
  <2> QED BY <1>1, <1>2, <2>2
<1>3. CASE j # 0
  <2>0. j \in Nat \ {0} /\ j - 1 \in Nat /\ ~(j <= j - 1)
    BY <1>1, <1>3
  <2>1. Begun(s, q, j - 1)
    BY <1>1, <2>0
  <2>2. PICK g : g = [n \in 0 .. j - 1 |-> IF n = 0 THEN s ELSE T(g[n - 1], n)]
    BY <1>0, <2>1
  <2> DEFINE h == [n \in 0 .. j |-> IF n = j THEN T(g[j - 1], j) ELSE g[n]]
  <2>3. ASSUME NEW n \in 0 .. j
        PROVE  h[n] = IF n = 0 THEN s ELSE T(h[n - 1], n)
    <3>1. CASE n = 0
      BY <2>0, <2>2, <3>1
    <3>2. CASE n = j
      <4>1. h[j - 1] = g[j - 1]
        BY <2>0
      <4> QED BY <2>0, <3>2, <4>1
    <3>3. CASE n # 0 /\ n # j
      <4>1. n \in 0 .. j - 1 /\ n - 1 \in 0 .. j /\ n - 1 # j
        BY <2>0, <3>3
      <4>2. h[n - 1] = g[n - 1] /\ h[n] = g[n]
        BY <3>3, <4>1
      <4>3. g[n] = T(g[n - 1], n)
        BY <2>2, <3>3, <4>1
      <4> QED BY <3>3, <4>2, <4>3
    <3> QED BY <3>1, <3>2, <3>3
  <2>4. h = [n \in 0 .. j |-> IF n = 0 THEN s ELSE T(h[n - 1], n)]
    BY <2>3
  <2> HIDE DEF h
  <2>5. Begun(s, q, j)
    BY <1>0, <2>4
  <2> QED BY <1>1, <2>5
<1> QED BY <1>2, <1>3

(* A finite set as a sequence has each element once.                       *)
LEMMA SetInSequence ==
    ASSUME NEW S, IsFiniteSet(S)
    PROVE  LET q == SetToSeq(S)
           IN  /\ q \in Seq(S) /\ Len(q) \in Nat
               /\ \A i, j \in 1 .. Len(q) : q[i] = q[j] => i = j
               /\ S = {q[i] : i \in 1 .. Len(q)}
<1> DEFINE q == SetToSeq(S)
           N == Cardinality(S)
<1>1. N \in Nat /\ ExistsBijection(1 .. N, S)
  BY FS_CardinalityType
<1>2. \E f \in [1 .. N -> S] : IsInjective(f)
  BY <1>1 DEF ExistsBijection, Bijection, Injection
<1>3. q \in [1 .. N -> S] /\ IsInjective(q)
  BY <1>2 DEF SetToSeq
<1> HIDE DEF q
<1>4. IsFiniteSet(1 .. N) /\ Cardinality(1 .. N) = N
  <2>1. IsFiniteSet(1 .. N) /\ Cardinality(1 .. N) = IF 1 > N THEN 0 ELSE N - 1 + 1
    BY <1>1, FS_Interval
  <2> QED BY <1>1, <2>1
<1>5. q \in Surjection(1 .. N, S)
  <2>1. q \in Injection(1 .. N, S)
    BY <1>3 DEF Injection
  <2>2. Cardinality(1 .. N) = Cardinality(S) <=> q \in Surjection(1 .. N, S)
    BY <2>1, FS_Injection
  <2> QED BY <1>4, <2>2
<1> HIDE DEF N
<1>6. q \in Seq(S) /\ Len(q) = N
  BY <1>1, <1>3
<1>7. \A i, j \in 1 .. N : q[i] = q[j] => i = j
  BY <1>3 DEF IsInjective
<1>8. S = {q[i] : i \in 1 .. N}
  BY <1>3, <1>5 DEF Surjection
<1> QED BY <1>1, <1>6, <1>7, <1>8 DEF q

LEMMA zero_sound == Sound(zero_state) /\ ToSet(zero_state.heap) = {}
<1>1. STOPPED \in STOPPED .. HRTCNT_BOUND
  BY ConstantsType DEF STOPPED
<1>2. /\ <<>> \in Seq(EVT) /\ 0 \in 0 .. TCYC_HRTCNT - 1 /\ 0 \in 0 .. SYSTIM_MOD - 1
      /\ 0 \in Word
  BY ConstantsType DEF Word
<1>3. EVTTIM_MINUS(0, BOUNDARY_MARGIN) \in Word
  BY ConstantsType, WordType
<1>4. zero_state \in State
  BY <1>1, <1>2, <1>3 DEF zero_state, State
<1>5. zero_state.heap = <<>>
  BY DEF zero_state
<1>6. ToSet(<<>>) = {} /\ Single(<<>>)
  BY DEF ToSet, Single
<1> QED BY <1>4, <1>5, <1>6 DEF Sound

LEMMA initialize_cyclic_starts ==
    Sound(initialize_cyclic) /\ ToSet(initialize_cyclic.heap) = DOMAIN STARTED
<1> DEFINE q == SetToSeq(DOMAIN STARTED)
           turns == Len(q)
           after[n \in 0 .. turns] == IF n = 0 THEN zero_state
                       ELSE StartAt(after[n - 1], q[n], STARTED[q[n]])
<1>1. /\ q \in Seq(DOMAIN STARTED) /\ turns \in Nat
      /\ \A i, j \in 1 .. turns : q[i] = q[j] => i = j
      /\ DOMAIN STARTED = {q[i] : i \in 1 .. turns}
  BY NotificationAssumption, SetInSequence
<1>2. after = [n \in 0 .. turns |-> IF n = 0 THEN zero_state
                       ELSE StartAt(after[n - 1], q[n], STARTED[q[n]])]
  <2>1. Begun(zero_state, q, turns)
    BY <1>1, initialize_cyclic_defined
  <2> QED BY <2>1 DEF after, Begun
<1>3. initialize_cyclic = after[turns]
  BY DEF initialize_cyclic, StartAt, TimeAt
<1> HIDE DEF after, q, turns
<1>4. \A i \in 1 .. turns : q[i] \in EVT /\ STARTED[q[i]] \in Word
  BY <1>1, Kinds, NotificationAssumption DEF Word
<1> DEFINE Holds(n) == Sound(after[n]) /\ ToSet(after[n].heap) = {q[i] : i \in 1 .. n}
           S == {n \in 0 .. turns : ~Holds(n)}
           k == Min(S)
<1>5. Holds(0)
  <2>1. after[0] = zero_state
    BY <1>1, <1>2
  <2>2. 1 .. 0 = {}
    OBVIOUS
  <2> QED BY <2>1, <2>2, zero_sound
<1>6. ASSUME NEW n \in 1 .. turns, Holds(n - 1)
      PROVE  Holds(n)
  <2> DEFINE a == after[n - 1]
             m == n - 1
             e == q[n]
             b == TimeAt(a, e, STARTED[e])
  <2>1. n \in 0 .. turns /\ n # 0 /\ m \in Nat /\ n = m + 1 /\ n \in Nat /\ n <= turns
    BY <1>1
  <2>2. after[n] = tmevtb_insert(b, e)
    BY <1>2, <2>1 DEF StartAt
  <2>3. Sound(a) /\ ToSet(a.heap) = {q[i] : i \in 1 .. m}
    BY <1>6
  <2> HIDE DEF m
  <2>4. \A i \in 1 .. m : i \in 1 .. turns /\ i # n
    BY <1>1, <2>1
  <2>5. e \in EVT /\ STARTED[e] \in Word /\ e \notin ToSet(a.heap)
    BY <1>1, <1>4, <2>3, <2>4
  <2> HIDE DEF a, e
  <2>6. Sound(b) /\ b.heap = a.heap
    BY <2>3, <2>5, TimeSound
  <2> HIDE DEF b
  <2>7. Gains(after[n], b, e)
    BY <2>2, <2>5, <2>6, InsertGains
  <2>8. {q[i] : i \in 1 .. n} = {q[i] : i \in 1 .. m} \cup {e}
    <3>1. \A i \in 1 .. n : i = n \/ i \in 1 .. m
      BY <2>1
    <3>2. n \in 1 .. n /\ \A i \in 1 .. m : i \in 1 .. n
      BY <2>1
    <3> QED BY <3>1, <3>2 DEF e
  <2> QED BY <2>3, <2>6, <2>7, <2>8 DEF Gains
<1> HIDE DEF Holds
<1>7. \A n \in 0 .. turns : Holds(n)
  <2> SUFFICES ASSUME S # {} PROVE FALSE
    OBVIOUS
  <2>0. S \in SUBSET Nat
    BY <1>1
  <2>1. k \in S /\ \A y \in S : k <= y
    BY <2>0, LeastNat
  <2> HIDE DEF k
  <2>2. k # 0
    BY <1>5, <2>1
  <2>3. k \in 1 .. turns /\ k - 1 \in 0 .. turns /\ ~(k <= k - 1)
    BY <1>1, <2>1, <2>2
  <2>4. Holds(k - 1)
    BY <2>1, <2>3
  <2> QED BY <1>6, <2>1, <2>3, <2>4
<1>8. Holds(turns)
  BY <1>1, <1>7
<1> QED BY <1>1, <1>3, <1>8 DEF Holds

LEMMA NotificationInitInv == NotificationInit => NInv
<1> SUFFICES ASSUME NotificationInit PROVE NInv
  OBVIOUS
<1> DEFINE s == set_hrt_event(initialize_cyclic)
           D == DOMAIN STARTED
<1>1. Sound(s) /\ ToSet(s.heap) = D
  BY initialize_cyclic_starts, SetSound
<1>2. Cur = s /\ tmevt_heap = s.heap /\ hrtcnt = 0
  <2>1. /\ tmevt_heap = s.heap /\ evttim = s.evttim /\ current_evttim = s.current_evttim
        /\ boundary_evttim = s.boundary_evttim /\ current_hrtcnt = s.current_hrtcnt
        /\ monotonic_evttim = s.monotonic_evttim /\ systim_offset = s.systim_offset
        /\ in_signal_time = s.in_signal_time /\ hrt_event = s.hrt_event /\ hrtcnt = 0
    BY DEF NotificationInit
  <2> HIDE DEF s
  <2> QED BY <1>1, <2>1 DEF Cur, Sound, State
<1> HIDE DEF s
<1>3. SoundNow
  <2>1. 0 \in 0 .. TCYC_HRTCNT - 1
    BY ConstantsType
  <2> QED BY <1>1, <1>2, <2>1 DEF SoundNow, Ticking
<1>4. /\ D \subseteq CYC /\ \A c \in D : STARTED[c] \in Nat
      /\ dynamic_cyc \in Seq(CYC \ D) /\ dynamic_alm \in Seq(ALM)
      /\ IsInjective(dynamic_cyc) /\ IsInjective(dynamic_alm)
  <2>1. 0 .. EVTTIM_MOD - 1 \subseteq Nat
    BY ConstantsType
  <2> QED BY <2>1, NotificationAssumption
<1>5. /\ cyc = [c \in CYC |->
                  IF c \in D
                  THEN [cycatr |-> "TA_STA", cycsta |-> TRUE, cycphs |-> STARTED[c]]
                  ELSE IF c \in ToSet(dynamic_cyc) THEN free_cyc
                  ELSE [free_cyc EXCEPT !.cycatr = "TA_NULL"]]
      /\ alm = [a \in ALM |-> IF a \in ToSet(dynamic_alm) THEN free_alm
                              ELSE [free_alm EXCEPT !.almatr = "TA_NULL"]]
      /\ free_cyccb = dynamic_cyc /\ free_almcb = dynamic_alm
  BY DEF NotificationInit
<1> HIDE DEF D
<1> DEFINE static_cyc == [free_cyc EXCEPT !.cycatr = "TA_NULL"]
           static_alm == [free_alm EXCEPT !.almatr = "TA_NULL"]
<1>6. /\ static_cyc \in CYCCB /\ static_cyc.cycatr # NOEXS /\ ~static_cyc.cycsta
      /\ static_alm \in ALMCB /\ static_alm.almatr # NOEXS /\ ~static_alm.almsta
  <2>1. /\ free_cyc \in CYCCB /\ ~free_cyc.cycsta
        /\ free_alm \in ALMCB /\ ~free_alm.almsta
    BY DEF free_cyc, free_alm, CYCCB, ALMCB
  <2> QED BY <2>1 DEF CYCCB, ALMCB, NOEXS
<1>7. ASSUME NEW c \in CYC
      PROVE  /\ cyc[c] \in CYCCB
             /\ cyc[c].cycsta <=> c \in D
             /\ cyc[c].cycatr # NOEXS <=> (c \in D \/ c \notin ToSet(dynamic_cyc))
  <2>1. CASE c \in D
    BY <1>4, <1>5, <2>1 DEF CYCCB, NOEXS
  <2>2. CASE c \notin D /\ c \in ToSet(dynamic_cyc)
    BY <1>5, <2>2 DEF CYCCB, NOEXS, free_cyc
  <2>3. CASE c \notin D /\ c \notin ToSet(dynamic_cyc)
    <3>1. cyc[c] = static_cyc
      BY <1>5, <2>3
    <3> HIDE DEF static_cyc
    <3> QED BY <1>6, <2>3, <3>1
  <2> QED BY <2>1, <2>2, <2>3
<1>8. ASSUME NEW a \in ALM
      PROVE  /\ alm[a] \in ALMCB /\ ~alm[a].almsta
             /\ alm[a].almatr # NOEXS <=> a \notin ToSet(dynamic_alm)
  <2>1. CASE a \in ToSet(dynamic_alm)
    BY <1>5, <2>1 DEF ALMCB, NOEXS, free_alm
  <2>2. CASE a \notin ToSet(dynamic_alm)
    <3>1. alm[a] = static_alm
      BY <1>5, <2>2
    <3> HIDE DEF static_alm
    <3> QED BY <1>6, <2>2, <3>1
  <2> QED BY <2>1, <2>2
<1>9. cyc \in [CYC -> CYCCB] /\ alm \in [ALM -> ALMCB]
  BY <1>5, <1>7, <1>8
<1>10. /\ ToSet(dynamic_cyc) \subseteq CYC \ D /\ ToSet(dynamic_alm) \subseteq ALM
       /\ dynamic_cyc \in Seq(CYC)
  BY <1>4, SeqSet
<1>11. CycAgree
  <2>1. CycRunning = D
    BY <1>4, <1>7 DEF CycRunning
  <2>2. CycExisting = CYC \ ToSet(dynamic_cyc)
    BY <1>7, <1>10 DEF CycExisting
  <2>3. ToSet(tmevt_heap) = D
    BY <1>1, <1>2
  <2> QED BY <1>4, <1>5, <1>10, <2>1, <2>2, <2>3 DEF CycAgree, Agrees
<1>12. AlmAgree
  <2>1. AlmRunning = {}
    BY <1>8 DEF AlmRunning
  <2>2. AlmExisting = ALM \ ToSet(dynamic_alm)
    BY <1>8 DEF AlmExisting
  <2>3. ToSet(tmevt_heap) \cap ALM = {}
    BY <1>1, <1>2, <1>4, Kinds
  <2> QED BY <1>4, <1>5, <1>10, <2>1, <2>2, <2>3 DEF AlmAgree, Agrees
<1> QED BY <1>3, <1>9, <1>11, <1>12 DEF NInv

-----------------------------------------------------------------------------

(* A cyclic or alarm notification runs exactly while its time event is     *)
(* registered, only while it exists, and the other control blocks are in   *)
(* the free lists, once each (cyclic.c, alarm.c): whatever is created,     *)
(* started, stopped and deleted, also by handlers while signal_time goes   *)
(* on, and whenever time passes.                                           *)
THEOREM NotificationsCorrect == NotificationSpec => []NotificationsOK
<1>1. NotificationInit => NInv
  BY NotificationInitInv
<1>2. NInv /\ [NotificationNext]_<<vars, nvars>> => NInv'
  BY NotificationStep
<1>3. NInv => NotificationsOK
  BY NotificationsFollow
<1> QED BY <1>1, <1>2, <1>3, PTL DEF NotificationSpec

=============================================================================
