----------------------------- MODULE SerialPort -----------------------------
(***************************************************************************)
(* The serial interface driver (syssvc/tSerialPortMain.c) on the SCIF of   *)
(* the GR-PEACH (arch/arm_gcc/rza1/tSCIF.c), with the peer on the line.    *)
(*                                                                         *)
(* A task is inside eSerialPort_write or eSerialPort_read between two      *)
(* sections with the CPU locked, so that other tasks and the two interrupt *)
(* handlers come in between; each such section is an action.  Tasks take   *)
(* their steps in any order.                                               *)
(***************************************************************************)
EXTENDS Integers, SequencesExt

CONSTANTS
    TSK,       \* the tasks that use the port
    CHAR,      \* the characters the tasks write
    SENDSZ,    \* sendBufferSize
    RECVSZ,    \* receiveBufferSize
    FIFOSZ,    \* what the transmitter of the SCIF takes before TDFE goes off
    WRITE,     \* for each task the lengths it calls eSerialPort_write with
    READ,      \* for each task the lengths it calls eSerialPort_read with
    BROKENOFF, \* the tasks whose calls other tasks break off
    IOCONTROL, \* the settings eSerialPort_control is called with
    PEERSENDS  \* the characters the peer sends

ASSUME SerialPortAssumption ==
    /\ IsFiniteSet(TSK)
    /\ WRITE \in [TSK -> SUBSET (Nat \ {0})]
    /\ READ \in [TSK -> SUBSET (Nat \ {0})]
    /\ BROKENOFF \subseteq TSK
    /\ SENDSZ \in Nat \ {0} /\ RECVSZ \in Nat \ {0} /\ FIFOSZ \in Nat \ {0}
    /\ CHAR \cap {"CR", "STOP", "START", "NUL"} = {}
    /\ IOCONTROL \subseteq SUBSET {"ECHO", "CRLF", "FCSND", "FCANY", "FCRCV"}

VARIABLES
    port,        \* the variables of the cell tSerialPortMain; a ring buffer is
                 \* the sequence of its characters
    SendSemaphore, ReceiveSemaphore,
    sio,         \* the bits TE, RE, TIE, RIE of the control register SCSCR
    initialized, \* the variable of the cell tSCIF
    txfifo,      \* characters in the transmitter
    rxreg,       \* the received character, or "NUL"
    task,        \* where each task is in its call
    peerStopped, \* the peer has received STOP, and no START since
    abandoned    \* history variable: the rights, "send" and "receive", of the
                 \* tasks that have left their call with one

vars == <<port, SendSemaphore, ReceiveSemaphore, sio, initialized, txfifo,
          rxreg, task, peerStopped, abandoned>>

BUFCNT_STOP(bufsz)  == (bufsz * 3) \div 4
BUFCNT_START(bufsz) == bufsz \div 2

FC == {"STOP", "START"}

-----------------------------------------------------------------------------
(* The SCIF.                                                               *)

putready == Len(txfifo) < FIFOSZ

(* Faulty variant: the callback is not enabled.                            *)
sendChar_no_callback(c, ok, full) ==
    IF putready THEN txfifo' = Append(txfifo, c) /\ ok /\ UNCHANGED sio
    ELSE full /\ UNCHANGED <<txfifo, sio>>

(* serialPort_sendChar, with what the caller does on success and on        *)
(* failure.                                                                *)
sendChar(c, ok, full) ==
    IF putready THEN txfifo' = Append(txfifo, c) /\ ok /\ UNCHANGED sio
    ELSE sio' = sio \cup {"TIE"} /\ full /\ UNCHANGED txfifo

-----------------------------------------------------------------------------
(* The two semaphores, of maximum 1.                                       *)

new_sem(isemcnt) == [semcnt |-> isemcnt, wait_queue |-> <<>>]

signal(sem) ==
    IF sem.wait_queue # <<>> THEN [sem EXCEPT !.wait_queue = Tail(@)]
    ELSE [sem EXCEPT !.semcnt = 1]

E_QOVR(sem) == sem.wait_queue = <<>> /\ sem.semcnt = 1

wait(sem, t) ==
    IF sem.semcnt = 1 THEN [sem EXCEPT !.semcnt = 0]
    ELSE [sem EXCEPT !.wait_queue = Append(@, t)]

Blocked(t) ==
    t \in ToSet(SendSemaphore.wait_queue) \cup ToSet(ReceiveSemaphore.wait_queue)

-----------------------------------------------------------------------------
(* The state of a task: pc is its next section, left the number of         *)
(* characters its call still has to transfer, c the character it is about  *)
(* to send, empty that the receive buffer was empty after the last one (or *)
(* that the task has not received any).                                    *)

idle == [pc |-> "idle", op |-> "none", left |-> 0, c |-> "NUL", empty |-> TRUE]

At(t, pc) == task[t].pc = pc /\ ~Blocked(t)

(* The task may put characters into the send buffer, or take them out of   *)
(* the receive buffer: it has come through the semaphore and not given the *)
(* right back.                                                             *)
MaySend(t) ==
    /\ task[t].pc \in {"put", "put_lf", "signal_send"}
    /\ t \notin ToSet(SendSemaphore.wait_queue)

MayReceive(t) ==
    /\ task[t].pc = "get" \/ ~task[t].empty
    /\ t \notin ToSet(ReceiveSemaphore.wait_queue)

(* The loop of eSerialPort_write after a character.                        *)
next_write(self, buffer_full) ==
    IF self.left = 0
    THEN {IF buffer_full THEN idle ELSE [self EXCEPT !.pc = "signal_send"]}
    ELSE {[self EXCEPT !.pc = IF buffer_full THEN "wait_send" ELSE "put",
                       !.c = c, !.left = @ - 1] : c \in CHAR}

(* The loop of eSerialPort_read after a character and its echo.            *)
next_read(self) ==
    IF self.left = 0
    THEN IF self.empty THEN idle ELSE [self EXCEPT !.pc = "signal_receive"]
    ELSE [self EXCEPT !.pc = IF self.empty THEN "wait_receive" ELSE "get"]

after_char(self, buffer_full) ==
    IF self.op = "write" THEN next_write(self, buffer_full)
    ELSE {IF buffer_full THEN next_read(self) ELSE [self EXCEPT !.pc = "signal_send"]}

-----------------------------------------------------------------------------

Init ==
    /\ port = [openFlag |-> FALSE, errorFlag |-> FALSE, ioControl |-> {},
               receive |-> <<>>, receiveFlowControl |-> "NUL",
               receiveStopped |-> FALSE,
               send |-> <<>>, sendStopped |-> FALSE]
    /\ SendSemaphore = new_sem(1)
    /\ ReceiveSemaphore = new_sem(0)
    /\ sio = {}
    /\ initialized = FALSE
    /\ txfifo = <<>>
    /\ rxreg = "NUL"
    /\ task = [t \in TSK |-> idle]
    /\ peerStopped = FALSE
    /\ abandoned = {}

Unused == \A t \in TSK : task[t] = idle \/ Blocked(t)

(* eSIOPort_open does nothing the second time.                             *)
open(t) ==
    /\ At(t, "idle")
    /\ ~port.openFlag
    /\ port' = [port EXCEPT !.ioControl = {"ECHO", "CRLF", "FCSND", "FCRCV"},
                            !.receive   = <<>>,
                            !.receiveFlowControl = "NUL",
                            !.receiveStopped     = FALSE,
                            !.send      = <<>>,
                            !.sendStopped = FALSE,
                            !.openFlag  = TRUE,
                            !.errorFlag = FALSE]
    /\ sio' = (IF initialized THEN sio ELSE {"TE", "RE"}) \cup {"RIE"}
    /\ initialized' = TRUE
    /\ txfifo' = IF initialized THEN txfifo ELSE <<>>
    /\ rxreg' = IF initialized THEN rxreg ELSE "NUL"
    /\ UNCHANGED <<SendSemaphore, ReceiveSemaphore, task, peerStopped, abandoned>>

(* The application closes the port while other tasks wait in their calls   *)
(* or are outside.                                                         *)
close(t) ==
    /\ At(t, "idle")
    /\ port.openFlag
    /\ Unused
    /\ port' = [port EXCEPT !.openFlag = FALSE]
    /\ sio' = {}
    /\ SendSemaphore' = new_sem(1)
    /\ ReceiveSemaphore' = new_sem(0)
    /\ task' = [u \in TSK |-> idle]
    /\ abandoned' = {}
    /\ UNCHANGED <<initialized, txfifo, rxreg, peerStopped>>

Usable == port.openFlag /\ ~port.errorFlag

control(t, ioctl) ==
    /\ At(t, "idle")
    /\ Usable
    /\ port' = [port EXCEPT !.ioControl = ioctl]
    /\ UNCHANGED <<SendSemaphore, ReceiveSemaphore, sio, initialized, txfifo,
                   rxreg, task, peerStopped, abandoned>>

Hardware == <<sio, initialized, txfifo, rxreg, peerStopped>>

(* eSerialPort_write and eSerialPort_read, up to the first wait.           *)
write(t, length) ==
    /\ At(t, "idle")
    /\ Usable
    /\ \E c \in CHAR :
          task' = [task EXCEPT ![t] = [idle EXCEPT !.pc = "wait_send", !.op = "write",
                                                   !.left = length - 1, !.c = c]]
    /\ UNCHANGED <<port, SendSemaphore, ReceiveSemaphore, Hardware, abandoned>>

read(t, length) ==
    /\ At(t, "idle")
    /\ Usable
    /\ task' = [task EXCEPT ![t] = [idle EXCEPT !.pc = "wait_receive", !.op = "read",
                                                !.left = length]]
    /\ UNCHANGED <<port, SendSemaphore, ReceiveSemaphore, Hardware, abandoned>>

(* cSendSemaphore_wait, before a character or between CR and LF.           *)
wait_send(t) ==
    /\ task[t].pc \in {"wait_send", "wait_send_lf"}
    /\ ~Blocked(t)
    /\ SendSemaphore' = wait(SendSemaphore, t)
    /\ task' = [task EXCEPT ![t].pc = IF @ = "wait_send" THEN "put" ELSE "put_lf"]
    /\ UNCHANGED <<port, ReceiveSemaphore, Hardware, abandoned>>

wait_receive(t) ==
    /\ At(t, "wait_receive")
    /\ ReceiveSemaphore' = wait(ReceiveSemaphore, t)
    /\ task' = [task EXCEPT ![t].pc = "get"]
    /\ UNCHANGED <<port, SendSemaphore, Hardware, abandoned>>

(* Faulty variant: a character overtakes those in the buffer.              *)
GoesDirectly_overtakes == ~port.sendStopped

GoesDirectly == port.send = <<>> /\ ~port.sendStopped

(* The part of serialPort_writeChar with the CPU locked, for character c;  *)
(* after[buffer_full] are the states the task may be in afterwards.        *)
Put(t, c, after) ==
    LET stored == Append(port.send, c)
        store  == /\ port' = [port EXCEPT !.send = stored]
                  /\ \E self \in after[Len(stored) = SENDSZ] :
                        task' = [task EXCEPT ![t] = self]
        done   == /\ port' = port
                  /\ \E self \in after[FALSE] : task' = [task EXCEPT ![t] = self]
    IN  /\ IF GoesDirectly THEN sendChar(c, done, store)
           ELSE store /\ UNCHANGED <<txfifo, sio>>
        /\ UNCHANGED <<SendSemaphore, ReceiveSemaphore, initialized, rxreg, peerStopped,
                       abandoned>>

(* serialPort_writeChar puts a CR before an LF.                            *)
put(t) ==
    /\ At(t, "put")
    /\ IF task[t].c = "LF" /\ "CRLF" \in port.ioControl
       THEN Put(t, "CR", [full \in BOOLEAN |->
                   {[task[t] EXCEPT !.pc = IF full THEN "wait_send_lf" ELSE "put_lf"]}])
       ELSE Put(t, task[t].c, [full \in BOOLEAN |-> after_char(task[t], full)])

put_lf(t) ==
    /\ At(t, "put_lf")
    /\ Put(t, "LF", [full \in BOOLEAN |-> after_char(task[t], full)])

(* cSendSemaphore_signal, after the last character or an echo.             *)
signal_send(t) ==
    /\ At(t, "signal_send")
    /\ SendSemaphore' = signal(SendSemaphore)
    /\ port' = [port EXCEPT !.errorFlag = @ \/ E_QOVR(SendSemaphore)]
    /\ task' = [task EXCEPT ![t] = IF @.op = "write" \/ E_QOVR(SendSemaphore)
                                   THEN idle ELSE next_read(@)]
    /\ UNCHANGED <<ReceiveSemaphore, Hardware, abandoned>>

(* serialPort_readChar; START goes to the peer when there is room again.   *)
get(t) ==
    LET c     == Head(port.receive)
        rest  == Tail(port.receive)
        self  == [task[t] EXCEPT !.left = @ - 1, !.empty = (rest = <<>>)]
        start == port.receiveStopped /\ Len(rest) <= BUFCNT_START(RECVSZ)
        taken == [port EXCEPT !.receive = rest]
        sent  == [taken EXCEPT !.receiveStopped = FALSE]
    IN  /\ At(t, "get")
        /\ IF start
           THEN sendChar("START", port' = sent,
                         port' = [sent EXCEPT !.receiveFlowControl = "START"])
           ELSE port' = taken /\ UNCHANGED <<txfifo, sio>>
        /\ task' = [task EXCEPT ![t] = IF "ECHO" \in port.ioControl
                                       THEN [self EXCEPT !.pc = "wait_send", !.c = c]
                                       ELSE next_read(self)]
        /\ UNCHANGED <<SendSemaphore, ReceiveSemaphore, initialized, rxreg, peerStopped,
                       abandoned>>

signal_receive(t) ==
    /\ At(t, "signal_receive")
    /\ ReceiveSemaphore' = signal(ReceiveSemaphore)
    /\ port' = [port EXCEPT !.errorFlag = @ \/ E_QOVR(ReceiveSemaphore)]
    /\ task' = [task EXCEPT ![t] = idle]
    /\ UNCHANGED <<SendSemaphore, Hardware, abandoned>>

(* A call that is broken off: its wait, one that has begun or the one it is*)
(* about to begin, ends with an error (rel_wai, ras_ter) and the call with *)
(* it, past the signals at its end, or the task is terminated (ter_tsk,    *)
(* ras_ter), wherever it is.                                               *)
cancel(sem, t) == [sem EXCEPT !.wait_queue = RemoveFirst(@, t)]

break_off(t) ==
    /\ task[t] # idle
    /\ SendSemaphore' = cancel(SendSemaphore, t)
    /\ ReceiveSemaphore' = cancel(ReceiveSemaphore, t)
    /\ task' = [task EXCEPT ![t] = idle]
    /\ abandoned' = abandoned \cup {right \in {"send", "receive"} :
                                       \/ right = "send" /\ MaySend(t)
                                       \/ right = "receive" /\ MayReceive(t)}
    /\ UNCHANGED <<port, Hardware>>

-----------------------------------------------------------------------------
(* The interrupt handlers.                                                 *)

(* Faulty variant: whether the buffer was full is tested too late.         *)
next_from_buffer_tests_late ==
    /\ port' = [port EXCEPT !.send = Tail(@)]
    /\ SendSemaphore' = IF Len(port'.send) = SENDSZ THEN signal(SendSemaphore)
                        ELSE SendSemaphore

(* A character leaves the send buffer; a writer may go on if it was full.  *)
next_from_buffer ==
    /\ port' = [port EXCEPT !.send = Tail(@),
                            !.errorFlag = @ \/ (/\ Len(port.send) = SENDSZ
                                                /\ E_QOVR(SendSemaphore))]
    /\ SendSemaphore' = IF Len(port.send) = SENDSZ THEN signal(SendSemaphore)
                        ELSE SendSemaphore

(* eiTxISR_main and eiSIOCBR_readySend.                                    *)
readySend ==
    /\ "TIE" \in sio
    /\ putready
    /\ \/ /\ port.receiveFlowControl # "NUL"
          /\ txfifo' = Append(txfifo, port.receiveFlowControl)
          /\ port' = [port EXCEPT !.receiveFlowControl = "NUL"]
          /\ UNCHANGED <<SendSemaphore, sio>>
       \/ /\ port.receiveFlowControl = "NUL"
          /\ ~port.sendStopped /\ port.send # <<>>
          /\ txfifo' = Append(txfifo, Head(port.send))
          /\ next_from_buffer
          /\ UNCHANGED sio
       \/ /\ port.receiveFlowControl = "NUL"
          /\ port.sendStopped \/ port.send = <<>>
          /\ sio' = sio \ {"TIE"}
          /\ UNCHANGED <<txfifo, port, SendSemaphore>>
    /\ UNCHANGED <<ReceiveSemaphore, initialized, rxreg, task, peerStopped, abandoned>>

(* The branches of eiSIOCBR_readyReceive, for the received character c.    *)
StopSending(c) == "FCSND" \in port.ioControl /\ c = "STOP"

ResumeSending(c) ==
    /\ ~StopSending(c)
    /\ port.sendStopped
    /\ c = "START" \/ "FCANY" \in port.ioControl

StoreReceived(c) ==
    /\ ~StopSending(c) /\ ~ResumeSending(c)
    /\ ~("FCSND" \in port.ioControl /\ c = "START")
    /\ Len(port.receive) < RECVSZ

stop_sending ==
    /\ port' = [port EXCEPT !.sendStopped = TRUE]
    /\ UNCHANGED <<SendSemaphore, ReceiveSemaphore, txfifo, sio>>

resume_sending ==
    LET resumed == [port EXCEPT !.sendStopped = FALSE]
        c       == Head(port.send)
        full    == Len(port.send) = SENDSZ
    IN  /\ IF port.send # <<>>
           THEN sendChar(c,
                   /\ port' = [resumed EXCEPT
                                 !.send = Tail(@),
                                 !.errorFlag = @ \/ (full /\ E_QOVR(SendSemaphore))]
                   /\ SendSemaphore' = IF full THEN signal(SendSemaphore)
                                       ELSE SendSemaphore,
                   port' = resumed /\ UNCHANGED SendSemaphore)
           ELSE port' = resumed /\ UNCHANGED <<SendSemaphore, txfifo, sio>>
        /\ UNCHANGED ReceiveSemaphore

store_received(c) ==
    LET stored == Append(port.receive, c)
        first  == port.receive = <<>>
        kept   == [port EXCEPT !.receive = stored,
                               !.errorFlag = @ \/ (first /\ E_QOVR(ReceiveSemaphore))]
        stop   == /\ "FCRCV" \in port.ioControl /\ ~port.receiveStopped
                  /\ Len(stored) >= BUFCNT_STOP(RECVSZ)
        sent   == [kept EXCEPT !.receiveStopped = TRUE]
    IN  /\ IF stop
           THEN sendChar("STOP", port' = sent,
                         port' = [sent EXCEPT !.receiveFlowControl = "STOP"])
           ELSE port' = kept /\ UNCHANGED <<txfifo, sio>>
        /\ ReceiveSemaphore' = IF first THEN signal(ReceiveSemaphore)
                               ELSE ReceiveSemaphore
        /\ UNCHANGED SendSemaphore

(* eiRxISR_main and eiSIOCBR_readyReceive.                                 *)
readyReceive ==
    /\ "RIE" \in sio
    /\ rxreg # "NUL"
    /\ rxreg' = "NUL"
    /\ \/ StopSending(rxreg) /\ stop_sending
       \/ ResumeSending(rxreg) /\ resume_sending
       \/ StoreReceived(rxreg) /\ store_received(rxreg)
       \/ /\ ~StopSending(rxreg) /\ ~ResumeSending(rxreg) /\ ~StoreReceived(rxreg)
          /\ UNCHANGED <<port, SendSemaphore, ReceiveSemaphore, txfifo, sio>>
    /\ UNCHANGED <<initialized, task, peerStopped, abandoned>>

-----------------------------------------------------------------------------
(* The line.                                                               *)

transmit ==
    /\ "TE" \in sio
    /\ txfifo # <<>>
    /\ txfifo' = Tail(txfifo)
    /\ peerStopped' = IF Head(txfifo) \in FC THEN Head(txfifo) = "STOP" ELSE peerStopped
    /\ UNCHANGED <<port, SendSemaphore, ReceiveSemaphore, sio, initialized, rxreg, task,
                   abandoned>>

peer_sends(c) ==
    /\ "RE" \in sio
    /\ rxreg = "NUL"
    /\ c \notin FC => ~peerStopped
    /\ rxreg' = c
    /\ UNCHANGED <<port, SendSemaphore, ReceiveSemaphore, sio, initialized, txfifo,
                   task, peerStopped, abandoned>>

TaskStep(t) ==
    \/ wait_send(t) \/ wait_receive(t) \/ put(t) \/ put_lf(t)
    \/ signal_send(t) \/ get(t) \/ signal_receive(t)

Next ==
    \/ \E t \in TSK : open(t) \/ close(t) \/ TaskStep(t)
    \/ \E t \in BROKENOFF : break_off(t)
    \/ \E t \in TSK, ioctl \in IOCONTROL : control(t, ioctl)
    \/ \E t \in TSK : \E length \in WRITE[t] : write(t, length)
    \/ \E t \in TSK : \E length \in READ[t] : read(t, length)
    \/ readySend \/ readyReceive \/ transmit
    \/ \E c \in PEERSENDS : peer_sends(c)

Spec == Init /\ [][Next]_vars

=============================================================================
