-------------------------- MODULE SerialProperties --------------------------
(***************************************************************************)
(* What makes the serial interface driver correct.                         *)
(***************************************************************************)
EXTENDS SerialPort, FiniteSets

Senders   == {t \in TSK : MaySend(t)}
Receivers == {t \in TSK : MayReceive(t)}

One(condition) == IF condition THEN 1 ELSE 0

(* The right to send is with the semaphore, with one task, or, while the   *)
(* buffer is full, with the interrupt handler; the right to receive is with*)
(* the semaphore or with one task exactly while there is something to      *)
(* receive.  Neither is ever there twice, and neither is lost except with a*)
(* task whose call was broken off while it had it: then, until the port is *)
(* closed, nobody has it any more.  So a semaphore never overflows         *)
(* (tSerialPortMain.c: errorFlag, and the error exits, which pass by the   *)
(* signals).                                                               *)
TokensOK ==
    port.openFlag =>
       /\ SendSemaphore.semcnt + Cardinality(Senders) + One(Len(port.send) = SENDSZ)
             + One("send" \in abandoned) = 1
       /\ ReceiveSemaphore.semcnt + Cardinality(Receivers) + One("receive" \in abandoned)
             = One(port.receive # <<>>)
       /\ ~port.errorFlag

(* The characters on their way to the line, without those of the flow      *)
(* control.                                                                *)
outgoing == SelectSeq(txfifo, LAMBDA c : c \notin FC) \o port.send

(* Characters leave in the order the tasks have sent them, whether they go *)
(* through the buffer or directly into the transmitter, and none is lost   *)
(* or sent twice (tSerialPortMain.c: serialPort_writeChar,                 *)
(* eiSIOCBR_readySend, eiSIOCBR_readyReceive).                             *)
SendOrder ==
    [][port.openFlag /\ port'.openFlag =>
          \/ outgoing' = outgoing
          \/ \E t \in Senders :
                /\ task'[t] # task[t]
                /\ outgoing' = Append(outgoing, IF task'[t].pc \in {"put_lf", "wait_send_lf"}
                                              THEN "CR" ELSE task[t].c)
          \/ outgoing # <<>> /\ outgoing' = Tail(outgoing) /\ Len(txfifo') < Len(txfifo)]_vars

(* While characters are to be sent the callback that sends them is enabled *)
(* (tSerialPortMain.c disables it only when there is nothing to send).     *)
SendingGoesOn ==
    port.openFlag /\ ~port.sendStopped /\ port.send # <<>> => "TIE" \in sio

-----------------------------------------------------------------------------
(* Liveness: the line transmits, interrupts are taken and the tasks inside *)
(* a call go on.                                                           *)

FairSpec ==
    /\ Spec
    /\ WF_vars(transmit) /\ WF_vars(readySend)
    /\ \A t \in TSK : WF_vars(TaskStep(t))

(* A task that waits to send goes on, with nobody but the interrupt handler*)
(* to wake it up, as long as nobody has left with the right to send,       *)
(* neither side stops the other and the port transmits: with the few       *)
(* characters of the model the port's own STOP and START could keep the    *)
(* transmitter busy (tSerialPortMain.c: eiSIOCBR_readySend).               *)
WriterGoesOn ==
    [](/\ rxreg # "STOP" /\ ~port.receiveStopped /\ "send" \notin abandoned
       /\ port.openFlag => "TE" \in sio)
       => \A t \in TSK : t \in ToSet(SendSemaphore.wait_queue)
                         ~> t \notin ToSet(SendSemaphore.wait_queue)

=============================================================================
