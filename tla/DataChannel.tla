---------------------------- MODULE DataChannel ----------------------------
(***************************************************************************)
(* What a data queue promises: data are received in the order they were    *)
(* sent, each once.  chan is all that has been sent and not yet received,  *)
(* in order, what tasks wait to send included; at most capacity of it is   *)
(* in the buffer.  A datum is received at once or through the hands of a   *)
(* task that waits for it.                                                 *)
(***************************************************************************)
EXTENDS Naturals, Sequences

CONSTANTS
    Data,
    Receiver,
    Nothing    \* no datum

VARIABLES
    capacity,
    chan,
    hand,      \* hand[r]: the datum receiver r has been handed
    got        \* the datum the last step returned to its receiver

chvars == <<capacity, chan, hand, got>>

(* The part of chan in the buffer, and the rest.                           *)
Buffered == SubSeq(chan, 1, capacity)
Beyond   == SubSeq(chan, capacity + 1, Len(chan))

Init ==
    /\ capacity \in Nat
    /\ chan = <<>>
    /\ hand = [r \in Receiver |-> Nothing]
    /\ got = Nothing

Send(d) ==
    /\ chan' = Append(chan, d)
    /\ got' = Nothing
    /\ UNCHANGED <<capacity, hand>>

(* Nothing is ahead of d, so that a waiting receiver may be handed it.     *)
HandOver(r, d) ==
    /\ chan = <<>>
    /\ hand[r] = Nothing
    /\ hand' = [hand EXCEPT ![r] = d]
    /\ got' = Nothing
    /\ UNCHANGED <<capacity, chan>>

(* A forced datum takes the place of the oldest one if the buffer is full. *)
Force(d) ==
    /\ capacity > 0
    /\ chan' = IF Len(chan) < capacity THEN Append(chan, d)
               ELSE Append(Tail(Buffered), d) \o Beyond
    /\ got' = Nothing
    /\ UNCHANGED <<capacity, hand>>

Receive ==
    /\ chan # <<>>
    /\ got' = Head(chan)
    /\ chan' = Tail(chan)
    /\ UNCHANGED <<capacity, hand>>

(* A receiver returns with what it was handed; or never will, because it   *)
(* is terminated.                                                          *)
Return(r) ==
    /\ hand[r] # Nothing
    /\ got' = hand[r]
    /\ hand' = [hand EXCEPT ![r] = Nothing]
    /\ UNCHANGED <<capacity, chan>>

Abandon(r) ==
    /\ hand' = [hand EXCEPT ![r] = Nothing]
    /\ got' = Nothing
    /\ UNCHANGED <<capacity, chan>>

(* A sender gives up: its datum is not sent.                               *)
Withdraw(i) ==
    /\ i > capacity
    /\ chan' = SubSeq(chan, 1, i - 1) \o SubSeq(chan, i + 1, Len(chan))
    /\ got' = Nothing
    /\ UNCHANGED <<capacity, hand>>

(* The queue is initialized, deleted, or created anew.                     *)
Reset ==
    /\ chan' = <<>>
    /\ capacity' \in Nat
    /\ got' = Nothing
    /\ UNCHANGED hand

Idle ==
    /\ got' = Nothing
    /\ UNCHANGED <<capacity, chan, hand>>

Next ==
    \/ \E d \in Data : Send(d) \/ Force(d)
    \/ \E r \in Receiver, d \in Data : HandOver(r, d)
    \/ \E r \in Receiver : Return(r) \/ Abandon(r)
    \/ \E i \in DOMAIN chan : Withdraw(i)
    \/ Receive \/ Reset \/ Idle

Spec == Init /\ [][Next]_chvars

=============================================================================
