# TLA+ verification of the TOPPERS/ASP3 kernel (dynamic creation extension)

`src/asp3_dcre` is the ASP3 real-time kernel with dynamic object creation, the
TINET protocol stack and two system services, for ARM boards and QEMU.  The
project here models the kernel (scheduler, waiting, mutexes, task termination
and the five other kinds of synchronization and communication objects), its
time event manager with the cyclic and alarm notifications on top of it, the
serial port driver, and the callout timers of TINET.

The kernel runs on one processor.  A service call checks its arguments, locks
the CPU, works on global data and unlocks it; a call that blocks switches to
another task in the middle.  So the unit of atomicity is what the code does
between locking and unlocking the CPU, and the interesting interleavings are
between whole calls of tasks, calls of interrupt handlers, the timer interrupt
and the callbacks it makes, and the second half of a call that waited.

## 1. Inventory

| Component (source) | State it keeps | Operations | Interacts with | Hard because | Correct if |
|---|---|---|---|---|---|
| Task control (`kernel/task.c`) | TCBs, `ready_queue`, `ready_primap`, `p_runtsk`, `p_schedtsk`, `enadsp`, `dspflg` | `make_runnable`, `make_non_runnable`, `make_dormant`, `make_active`, `change_priority`, `rotate_ready_queue`, `task_terminate` | called by every other part | `p_schedtsk` is updated case by case instead of searched for | it always is what a search would find; queue, bitmap and task states agree |
| Wait control (`kernel/wait.c`, `wait.h`) | `WINFO` on the waiting task's stack, wait queues, the time event of a wait | `make_wait*`, `wait_complete`, `wait_tmout`, `wait_tmout_ok`, `wait_dequeue_*`, `init_wait_queue`, `wobj_change_priority` | time events, wait objects | `WINFO` is a union; a timeout races with a wakeup, a release and a termination | exactly one of them ends the wait; no time event outlives it; queues stay in order |
| Task management (`task_manage.c`) | `tinib`, free TCB list, activation request | `acre_tsk`, `del_tsk`, `act_tsk`, `can_act`, `chg_pri`, `get_tst` ... | task control, mutexes | control blocks are reused | a free TCB is referred to by nothing |
| Task termination (`task_term.c`) | `raster`, `enater` | `ext_tsk`, `ras_ter`, `dis_ter`, `ena_ter`, `ter_tsk` | waits, mutexes, dispatching | a request may be put off, by the task or by disabled dispatching | it is neither lost nor carried into a wait |
| Task synchronization (`task_sync.c`) | `wupque`, suspension bit | `slp_tsk`, `tslp_tsk`, `dly_tsk`, `wup_tsk`, `can_wup`, `rel_wai`, `sus_tsk`, `rsm_tsk` | wait control | as above | as above |
| Mutexes (`mutex.c`) | `p_loctsk`, `ceilpri`, per-task list `p_lastmtx` | `acre_mtx`, `del_mtx`, `loc_mtx`, `ploc_mtx`, `tloc_mtx`, `unl_mtx`, `ini_mtx` and the ceiling protocol | priorities, wait queues | handing a mutex on changes priorities and queues while it goes on | ownership and lists agree; the ceiling protocol's promises hold |
| System state (`sys_manage.c`, `interrupt.c`) | `lock_flag`, `enadsp`, interrupt mask | `loc_cpu`, `unl_cpu`, `dis_dsp`, `ena_dsp`, `chg_ipm`, `rot_rdq` | scheduler | `p_schedtsk` is frozen meanwhile | the processor is not taken from the task that disabled dispatching; what was put off happens after |
| Dispatcher, interrupts (`core_support.S`) | interrupt nesting, saved contexts | dispatch, handler entry and exit, idle | scheduler | relies on `p_schedtsk` being frozen | the task that runs is the one that should |
| Time event manager (`time_event.c`) | heap of time events, event time, offset of the system time | `tmevtb_enqueue`, `tmevtb_dequeue`, `signal_time`, `tmevt_lefttim`, `set_tim`, `get_tim`, `adj_tim` | timer driver, all timed waits, cyclic and alarm notifications | 32-bit times that wrap; a counter with another cycle; adjustments in both directions; callbacks unlock the CPU inside the handler's loop | events occur in order, not early, with the timer set in time; the system time never goes back |
| Timer driver (`mpcore/chip_timer.h`) | counter, interval timer, pending interrupt | read, set, raise | time event manager | a pending interrupt is not taken back | - |
| Cyclic and alarm notifications (`cyclic.c`, `alarm.c`) | state, next time | create, start, stop, refer, delete, the callback | time event manager | started again while it is called back | at most one time event each |
| Semaphores, event flags, data queues, priority data queues, memory pools | count, pattern, ring buffers, free blocks, wait queues | create, delete, wait, signal, initialize, refer | wait control | hand-over past the buffer, release of several waiters, re-initialization | nothing is lost, duplicated or handed out of order |
| Interrupt management, exceptions, start, memory (`interrupt.c`, `exception.c`, `startup.c`) | ISR queues, memory counter, routines | create ISR, enable, `kernel_malloc`, `exit_kernel` | all | memory only grows | - |
| System log (`tSysLog.c`) | log ring, counts of lost entries | write, read, mask | all contexts | the ring overwrites its oldest entry | entries read in order, losses counted |
| Serial port (`tSerialPortMain.c`) | two ring buffers, two semaphores, XON/XOFF state | write, read, interrupt call-backs | semaphores | a count shared with the interrupt side decides who signals | no byte lost that flow control should have saved; no reader left waiting |
| TINET (`tinet/net`, `tinet/netinet`) | callout table, connection blocks, ARP cache, network buffers, PPP automata | `timeout`, `untimeout`, protocol input and output | kernel objects, own tasks | timers race with their cancellation; retransmission | - |
| mbed, `tecsgen`, `cfg`, mruby and the TECS adapters | - | - | - | third party and generated | - |

`PROJECT.json` has the same list with the status of each component, and the
hazards with the line where each bites.

## 2. Modules

| Module | Models |
|---|---|
| `TaskOps` | TCBs, ready queue, scheduler: the operators of `task.c` |
| `WaitOps` | `wait.c`: how a wait begins, ends, times out and is released |
| `MutexOps` | the internal functions of `mutex.c` and `task_terminate` |
| `KernelState` | the kernel's variables, the configuration, the contexts (`CHECK_` macros), the dispatcher, creation and deletion of control blocks |
| `TaskManage`, `TaskTerm`, `TaskSync`, `Mutex`, `SysManage` | one action per service call on tasks, mutexes and the system state |
| `Semaphore`, `EventFlag`, `DataQueue`, `PriDataQueue`, `MemPool` | one action per service call on these objects |
| `Kernel` | start-up, interrupt entry and exit, timeouts, return from a wait; `Next` composes all the calls |
| `LockService` | what mutexes promise: the abstract specification |
| `DataChannel` | what data queues promise: the abstract specification |
| `KernelProperties`, `ObjectProperties` | invariants, action properties, liveness, the two refinement mappings |
| `MCKernel`, `MCObjects` | the applications TLC checks the kernel with |
| `TimeEvent` | `time_event.c`, the system time, the timer |
| `Notification` | `cyclic.c` and `alarm.c`, on `TimeEvent` |
| `TimeEventProperties`, `NotificationProperties`, `MCTimeEvent`, `MCNotify` | their properties and instances |
| `SerialPort` | `tSerialPortMain.c` on the SCIF driver, with the tasks inside it, the interrupt handlers, the line and the peer |
| `SerialProperties`, `MCSerial` | its properties and instance |
| `TimeEventProofs`, `SerialProofs` | theorems about the time events and the notifications on top of them, and about the serial port |
| `NetTimer` | TINET's `net_timer.c`: tasks that register and cancel callouts, the cyclic handler, the timer task |
| `CalloutService` | what callouts promise: the abstract specification |
| `NetTimerProperties`, `MCNetTimer` | the refinement mapping and the instance |
| `WaitProofs`, `KernelProofs`, `MutexProofs` | lemmas on the operators of `TaskOps`, `WaitOps` and `MutexOps`, one lemma per action of `Kernel` and the theorems about the kernel, then those about what its mutexes do for the tasks |
| `LockServiceProofs`, `NetTimerProofs` | theorems about `LockService`, and that the callouts implement `CalloutService` |

**State and actions.**  A C function that runs with the CPU locked is an
operator from a record `s` of the module's global variables to the record it
leaves, so that a call of a function is an application and the order of calls
is the nesting of applications.  A service call is an action
`guard /\ Become(f(Cur))`: `Cur` packs the variables, `Become` unpacks them.
The guard holds what `CHECK_TSKCTX_UNL`, `CHECK_DISPATCH` and the tests before
the first change ask; a call that returns an error without changing anything is
a stuttering step and has no action of its own.  C names are kept.

Pointers to control blocks are ids, `NULL` is a model value, a `tstat` word is
the set of its bits, a doubly linked queue and the list of mutexes through
`p_prevmtx` are sequences, the bitmap is a set of priorities.  `WINFO` is one
field with the values of both arms of the union.  What a waiting task keeps on
its stack is part of its TCB record, with `insvc` for "inside `dispatch()` of a
waiting call".  The request counters `actque`/`wupque` are one bit as in the
code.  Nested interrupt handlers are one, since only the exit of the outermost
dispatches.

The two halves meet at a narrow interface.  In `Kernel` the time event of a
waiting task is the name of its callback, and `timeout(t)` is `signal_time`
calling it at any moment while a handler runs; *when* an event is due is what
`TimeEvent` is about.  There the heap is a sequence, event times are words
modulo `EVTTIM_MOD`, and `left[e]`, a history variable that is not in the code,
counts the time really left to each event without wrapping: the properties
compare the modular arithmetic with it.  `delay` measures how long the
interrupt has been pending or handled, so that the assumption on interrupt
latency can be stated as a bound (`LATENCY`).  `call_back` takes the first event
out and calls its callback in one step up to where the callback unlocks the CPU;
a cyclic notification has registered itself again by then (`call_cyclic`).
`signal_time_continues` is the rest of the loop; between the two, any other
action may happen, and does in the runs.  The back pointer `p_tmevtn` of an
event is the operator `node_of`: the node that holds it.

The search for a node in the heap is given by its result.  `tmevt_up` stops at
the first ancestor whose parent is not later than the event (`up_node`), the
ancestors passed move down one place (`nodes_up`); the same for `tmevt_down`
along the `descent` to the earlier child.  No recursion is needed, and the
operators can be reasoned about.

**Objects.**  The five kinds of objects share what the code shares: a wait queue
(or two), attributes that order it, creation from a free list, deletion that
wakes every waiter, re-initialization.  A ring buffer in `DataQueue` is `head`,
`tail`, `count` and the array, as in the code, because their agreement is the
subject; so are the chain of management blocks and the free list of
`PriDataQueue` and `MemPool`.  Data a task sends or has received while it waits
are part of what it keeps on its stack (`WOBJDATA`).  Where a call reads shared
data before it locks the CPU there are two actions: `chg_pri_ini` and
`chg_pri_ini_locked` for `chg_pri` with `TPRI_INI`, `fsnd_dtq` and
`fsnd_dtq_locked` for the test of the capacity.

**Applications.**  `CONFIG` is a set of configurations, records of what
`kernel_cfg.c` would hold (static objects, control blocks for dynamic ones) and
of the calls the tasks and handlers of that application make.  `Init` picks one
and keeps it in the variable `app`, so one run checks several small applications
in place of one that is too large.

**Notifications.**  `Notification` extends `TimeEvent`: the time event of a control
block has the block's name, and a service call takes it out of the heap or puts it
in.  `TimeEvent` takes the top event out and registers a cyclic one again;
`call_notification` is the rest of `call_cyclic` and `call_alarm` up to the
handler.  Tasks do not run while `in_signal_time`, handlers do, so only the
calls they may make (`sta_alm`, `stp_alm`) happen between two turns of the loop.

**Serial port.**  The code between two places where a task can be preempted or the
interrupts are open is one action, and `task[t].pc` is the next one: a task that
writes two characters takes four to six steps, with other tasks and both interrupt
handlers in between.  The ring buffers are sequences, since pointers and counts
change together with the CPU locked.  The SCIF has the four control bits the
driver uses, a transmitter of `FIFOSZ` characters and one received character; the
peer sends when it has not been stopped.  A task closes the port only while the
others wait in it or are outside; one that is between two steps of a call would
go on with a port that is closed, which the driver leaves to the application.
`break_off` ends the call of a task in `BROKENOFF` early.  Where the task waits, or
is about to, the wait ends with an error (`rel_wai`, `ras_ter`; `gen_ercd_wait`) and
the call leaves by its error exit, past the signals at its end; anywhere else the
task is terminated (`ter_tsk`, `ras_ter`).  The history variable `abandoned` keeps the
rights that went with such a task, until `eSerialPort_close` initializes the
semaphores; no action reads it.

**Callouts.**  In `NetTimer` the tasks, the timer task and the cyclic handler
interleave step by step.  Tasks meet only at the lock, but the handler comes
between any two instructions: a step ends where it would make a difference.  So `timeout` stores an entry in
two steps, in either order since the compiler chooses, and `untimeout` tests an
entry in one step and clears it in the next.  A function and its argument are one
value.  The two semaphores are written out here, since only their counts and one
queue matter: all tasks of TINET have the same priority, which makes a queue in
priority order first come, first served.  The refinement mapping to
`CalloutService` hides an entry while it is being stored.  `CalloutService` says
what a caller may rely on, and that is less than one might expect: `untimeout`
removes one callout that was pending when it was called, unless the time of that
callout is up before it is found; then the function may be called after
`untimeout` has returned.

Operators introduced by the comment *Faulty variant* are not part of the model:
each is a plausible slip in the definition after it, and the property that
should catch it is shown to do so (`PROJECT.json`, `mutants`).

## 3. Runs

Priorities are numbered from 0, the highest, as in the code.  A service call an
application leaves out would only repeat what another one has.

| Run | Instance | Checks | Shows |
|---|---|---|---|
| `MCTasks` | MCKernel | `TypeOK`, `SchedulerOK`, `WaitInfoOK`, `TerminationRequestOK`, `WaitQueueOK`, `MutexOK`, `CeilingOK`, `CeilingNeverBlocks`, `FreeListsOK`, `NoSwitchWhileDisabled`, `MutexHandover`, `LockerStaysScheduled`, `PreemptedByHigher`, `ImplementsLockService` | Seven applications: two tasks that make the task management, termination, synchronization and system state calls, with requests to terminate and with changes of priority; three tasks of two priorities that are activated, rotated and given new priorities while dispatching is disabled and enabled; three tasks with a ceiling mutex beside one in priority order, with forced releases, re-initialization, priority changes and termination; nested ceilings, with requests to terminate and with returns to the initial priority; tasks and a mutex created and deleted while in use. |
| `MCObjects` | MCObjects | `ObjectsOK`, `ObjectFreeListsOK`, `ServedInOrder`, `FlagReleasesMet`, `PriorityOrder`, `BlockGivenOnce`, `ImplementsDataChannel` | Nine applications: one per kind of object, one that waits for an event flag with a time limit, and three that delete a queue or pool with tasks waiting and create it again with another size: every sending, receiving, acquiring and releasing call by tasks and interrupt handlers, with timeouts and re-initialization. |
| `MCNetTimer` | MCNetTimer | `ImplementsCalloutService`, `EveryCalloutEnds` | Two tasks that register and cancel a function, a function that registers itself again, and a table of two entries: functions are called in time, once, and not after they were cancelled in time, and none that found an entry is forgotten. |
| `MCAcreFlg` (a divergence) | MCObjects | `CpuStaysUnlocked` | A task that never locks the CPU creates an event flag. |
| `MCTimed` | MCKernel | `TimedWaitEnds` | Waits with timeouts end, under fair interrupts, whatever else happens to the waiting task. |
| `MCCreateActive` (a divergence) | MCKernel | `LockerStaysScheduled` | A task creates a task of higher priority with TA_ACT and locks a mutex. |
| `MCGetTst` (a divergence) | MCKernel | `GetTstReportsMissing` | The state of a task that does not exist is asked for. |
| `MCTimeHeap` | MCTimeEvent | `HeapOK`, `HeapKeepsOthers` | Six time events in the heap, inserted and deleted in every order: enough nodes for the last one to move up as well as down. |
| `MCTimeEvent` | MCTimeEvent | `TypeOK`, `InWindow`, `TimerInTime`, `TimerCoversTop`, `LefttimExact`, `SystimNearEvttim`, `CallsInOrder`, `SystimMonotonic` | A cyclic and a one-shot event on a counter whose cycle is shorter than the words, wrapping around without bound, with the system time adjusted in both directions at any moment, also while callbacks run. |
| `MCNotify` | MCNotify | `NotificationsOK`, `AlarmGoesOff`, `CyclicGoesOn` | A cyclic notification that starts with the kernel and a cyclic and an alarm notification that are created, started, stopped and deleted, the alarm also by handlers that run while the timer interrupt is handled: control blocks and time events agree, alarms go off and cyclic notifications go on. |
| `MCSerial` | MCSerial | `TokensOK`, `SendOrder`, `WriterGoesOn` | A task that writes lines and one that reads, with echo, whose call may be broken off anywhere, the interrupt handlers, flow control in both directions and the port closed and opened again: the semaphores match the buffers but for a right that a broken-off call took along, characters leave in order and a waiting writer goes on. |
| `MCSerialResume` (a divergence) | MCSerial | `SendingGoesOn` | The peer stops and resumes the port while several characters are in the send buffer. |

**Bounds.**  Nothing in the kernel modules is cut off: queues, lists and
requests are bounded by the number of tasks and objects, so every reachable
state of each application is visited; only the count of a semaphore and the size of a
created queue or pool have a bound (`maxcnt`).  Two tasks are enough for what
concerns one task and whoever acts on it; three are used where order matters (two
in a queue and one that acts, or an owner and two waiters).  Two mutexes give an
owner a list with a middle.  Queues and pools have room for two, so that "full",
"empty" and "in between" differ and a ring buffer wraps around; the created ones
also have room for none.  Data are two values or two priorities, all that order
can be told by.

| Run | Applications |
|---|---|
| `MCTasks` | `TaskCalls`, `PriorityChanges`, `Scheduling`, `Locking`, `NestedCeilings`, `InitialPriority`, `Dynamic` |
| `MCTimed` | `Timed` |
| `MCObjects` | one for each kind of object, `TimedEventFlag`, `CreateDataQueue`, `CreatePriDataQueue`, `CreateMemPool` |

In the time instances every variable is a word and wraps around without bound.
`MCTimeEvent` takes words of 8 values, the fewest with which `InWindow` holds for
its periods, margin and adjustments (with 7 it fails at once, as it must), a
counter cycle of 4, a counter bound and a latency whose sum is just below the
cycle, event times beyond the counter bound so that the timer fires in between,
and a system time two words long so that the carry into the offset shows.
`MCTimeHeap` has six nodes, the least at which the last node of the heap can be
earlier than the parent of a deleted node in the other branch and has to move up;
its times are fixed, and the six events are interchangeable, which makes the
symmetry sound (no liveness is checked there).  `MCNotify` has three control
blocks, one static and two that come and go, and words of 5 values.  It leaves
`adj_tim` out: adjustments back, again and again, put an event off for ever, and
nothing promises otherwise.  A control block has one period, where `acre_cyc`
could give it another one each time.

`MCSerial` has a send buffer of 2 and a receive buffer of 3 characters, the
smallest sizes with which `BUFCNT_STOP` and `BUFCNT_START` differ from each other
and from "full", and a transmitter of one character where the SCIF takes
several: that makes "the transmitter is full" as common as it can be.  The
writer sends two characters, both LF, so that the CR before an LF, a full
buffer between CR and LF, and a second character all occur.  The reader reads
one character at a time and echoes it until `eSerialPort_control` turns the echo
off.  The reader's calls are broken off, at any place; that of a reader with echo
may be broken off with either right or both.  The writer's are not, which would only
make the run longer; the theorem has any set of such tasks.

`MCNetTimer` has two tasks, one function beside `if_slowtimo` and two entries: the
table is full at times, signals of the handler are refused because the count
of its semaphore is at its maximum, a task waits for the lock behind another one
and the timer task, and both can cancel the same function.  Times are one and
two ticks, "up with the next tick" and "not yet".

**What the application may do.**  Two properties are about programs with a
discipline, named in their comments and kept by the application:
`PreemptedByHigher` (no rotation and no change of base priority) and
`CeilingNeverBlocks` (ceilings only, no sleeping or suspension while holding).
`LockerStaysScheduled` and `NoSwitchWhileDisabled` are checked for programs that
do not create active tasks; `MCCreateActive` shows why.

**Fairness.**  `MCTimed`: a pending timer interrupt is taken when the CPU is
unlocked again and again (`SF` on `int_entry`), a due event is served by some
handler run (`SF` on `timeout`), handlers end and a dispatched task leaves its
call (`WF`).  This is what the hardware and `signal_time` do; it is not assumed
that any task makes progress.  `loc_cpu` is left out, since a task may keep the
CPU locked for ever.

`MCNotify`: time goes on (`[]<>` of a change of the counter).  Nothing else is
needed, because `tick` is disabled once an interrupt has been pending, or a
handler running, for `LATENCY`: time can then only pass if the interrupt is taken
and the handlers return.  `AlarmGoesOff` and `CyclicGoesOn` exclude a program
that sets the same time event anew for ever.

`MCSerial`: the line transmits, the transmit interrupt is taken, and a task inside
a call goes on (`WF`).  The receiving side has no fairness: the peer may be silent.
`WriterGoesOn` has four premises.  Nobody has been terminated with the right to send.
The peer does not stop the port for good,
and the port does not stop the peer: with buffers this small the port's own STOP
and START characters, which go before those in the buffer, could keep the
transmitter busy.  And the port transmits: a port that is closed and opened
again does not, see below, which is also why deadlock is not an error there.

`MCNetTimer`: the handler is called again and again, as the cyclic notification it is,
and the timer task and a task inside `timeout` or `untimeout` go on (`WF`): they
wait for nothing but the lock, which is never kept.  No task has to call anything.

**Divergences found.**

* `MCCreateActive`: `acre_tsk` with `TA_ACT` makes the new task ready but calls
  no `dispatch()` (`task_manage.c:191`), as `act_tsk` does.  The creator goes on
  running below a task of higher priority, and when it locks a mutex, the
  assertion `p_runtsk == p_schedtsk` of `mutex.c:501` fails.  If the creator
  disables dispatching meanwhile, `p_schedtsk` is frozen on the new task, and
  the exit of the next interrupt handler, which does not look at `dspflg`,
  takes the processor away.
* `MCGetTst`: `get_tst` sets `E_NOEXS` for a task that does not exist
  (`task_manage.c:368`) and overwrites it with `E_OK` (`task_manage.c:390`).
* `MCAcreFlg`: `acre_flg` has no `unlock_cpu()` after `lock_cpu()`
  (`eventflag.c:220`, `:235`), so its caller continues with the CPU locked.
* `MCSerialResume`: on START `eiSIOCBR_readyReceive` sends one character of the
  send buffer directly; if the transmitter takes it, the send callback, which was
  disabled while sending was stopped, stays disabled (`tSerialPortMain.c:573`),
  and the rest of the buffer waits.  Writers only add to it then.  A flow
  control character that finds the transmitter full happens to start it again.

Met while modelling, without a statement in the repository to hold them against:

* A reader that makes room sends START at once while STOP may still wait in
  `receiveFlowControl` (`tSerialPortMain.c:382`).  The peer receives START and
  then STOP, and stays stopped although `receiveStopped` is false; the next START
  is sent only after another STOP, which takes characters from the peer.
* `eSIOPort_open` does nothing the second time (`tSCIF.c:135`), but
  `eSIOPort_close` turns transmitter and receiver off: a port opened again only
  fills its buffers.
* A reader that has taken a character with more behind it and is released by force,
  or asked to terminate, while it waits to echo it (`tSerialPortMain.c:437`) leaves
  by the error exit and passes by the signal of line 446.  The semaphore has no
  count, nobody is receiving, and `eiSIOCBR_readyReceive` signals only for the first
  character of an empty buffer: every later read waits, however many characters
  there are, until the port is closed and opened again.  `TokensOK` says just this:
  with `"receive"` in `abandoned` there is something to receive and nobody has the
  right.  In `eSerialPort_write` an error exit does no harm, since a writer waits only
  without the right to send.
* If the CR before an LF fills the send buffer the writer waits for the
  semaphore, and another writer may put its character between the two
  (`tSerialPortMain.c:282`).
* `fsnd_dtq` reports `E_OK` where it has found no queue (`dataqueue.c:616`), the
  same slip as in `get_tst`.  `fsnd_dtq` tests the capacity, and `chg_pri` reads
  `TPRI_INI`, before the CPU is locked.
* `acre_mpf` returns memory when there is none to return (`mempfix.c:256`), which
  shows nowhere since `kernel_free` does nothing.
* `timeout` drops a callout without telling the caller when the table is full
  (`net_timer.c:119`), also when it is a periodic function that registers itself
  again, which then never runs any more.
* A callout of 0 ticks, which `nd6_nbr.c:842` may ask for, is not counted down, so
  the handler does not signal it: it waits until another callout's time is up.
  With 0 among the times `ImplementsCalloutService` fails; `NetTimerAssumption`
  excludes it.
* `check_nfyinfo` rejects every mode without an error notification
  (`time_manage.c:285`), and `notify_handler` sends with `snd_dtq`, which refuses
  to be called from a handler (`time_manage.c:334`).

## 4. Theorems

`KernelProofs` and `MutexProofs` prove for any tasks, objects, priorities and attributes, any
configuration that satisfies `KernelAssumption` and any calls of its
application, provided that it creates no task with `TA_ACT` (`NoActiveCreation`):

| Theorem | Statement | Checked in |
|---|---|---|
| `SchedulerCorrect` | `Spec => []SchedulerOK` | `MCTasks` |
| `RunningTaskUndisturbed` | `Spec => NoSwitchWhileDisabled` | `MCTasks` |
| `WaitQueuesCorrect` | `Spec => []WaitQueueOK` | `MCTasks`, `MCObjects` |
| `WaitInfoCorrect` | `Spec => []WaitInfoOK` | `MCTasks`, `MCObjects` |
| `TerminationRequestsServed` | `Spec => []TerminationRequestOK` | `MCTasks` |
| `MutexesCorrect` | `Spec => []MutexOK` | `MCTasks` |
| `CeilingsCorrect` | `Spec => []CeilingOK` | `MCTasks` |
| `LockerScheduled` | `Spec => LockerStaysScheduled` | `MCTasks` |
| `FreeListsCorrect` | `Spec => []FreeListsOK` | `MCTasks` |
| `ObjectFreeListsCorrect` | `Spec => []ObjectFreeListsOK` | `MCObjects` |
| `ImplementsLocks` | `Spec => ImplementsLockService` | `MCTasks` |
| `HandoverCorrect` | `Spec => MutexHandover` | `MCTasks` |

`TimeEventProofs` proves for every number of time events, every word size,
period, adjustment and latency that satisfy `TimeEventAssumption` and
`TimeWindowAssumption`:

| Theorem | Statement | Checked in |
|---|---|---|
| `TypeCorrect` | `Spec => []TypeOK` | `MCTimeEvent` |
| `CounterReadInTime` | `Spec => []TimerInTime` | `MCTimeEvent` |
| `SystimNear` | `Spec => []SystimNearEvttim` | `MCTimeEvent` |
| `SystimNeverBack` | `Spec => SystimMonotonic` | `MCTimeEvent` |
| `HeapCorrect` | `Spec => []HeapOK` | `MCTimeHeap` |
| `HeapKeeps` | `Spec => HeapKeepsOthers` | `MCTimeHeap` |
| `WindowCorrect` | `Spec => []InWindow` | `MCTimeEvent` |
| `TimerSetForTop` | `Spec => []TimerCoversTop` | `MCTimeEvent` |
| `CalledInTurn` | `Spec => CallsInOrder` | `MCTimeEvent` |
| `LefttimCorrect` | `Spec => []LefttimExact` | `MCTimeEvent` |
| `NotificationsCorrect` | `NotificationSpec => []NotificationsOK` | `MCNotify` |

These are all the properties of `TimeEvent` that the runs check, and those of
`Notification` but for liveness; the last holds for any cyclic and alarm
notifications, static and dynamic, and any periods and phases.

`SerialProofs` proves `SemaphoresMatchBuffers`, `Spec => []TokensOK` of `MCSerial`, for
any number of tasks, any characters and buffers and a transmitter of any size,
with and without echo, CR LF conversion and flow control in both directions, and
with calls of any tasks broken off anywhere.

`NetTimerProofs` proves `CalloutsImplementService`, `Spec => ImplementsCalloutService`
of `MCNetTimer`, for any tasks, functions and times and a table of any size.

`LockServiceProofs` proves `LockSafety`: in `LockService`, for any clients and
locks, nobody waits for a free lock, for a lock of its own, or for two at once.
`ImplementsLocks` carries this over to the mutexes of the kernel.

*Assumptions.*  `TaskOpsAssumption` says that the kinds of objects are disjoint
and that there is a priority; `KernelAssumption` is what the configurator
guarantees: no id is in a list twice, a control block belongs to one kind, initial
priorities and counts are in range.  `NoActiveCreation` cannot be dropped: with
`TA_ACT` in a creating call `SchedulerOK` and `LockerStaysScheduled` are false
(`MCCreateActive`).

`TimeEventAssumption` has the ranges of the constants, the
compile-time checks of `time_event.c` (`HRTCNT_BOUND` below the counter's
cycle), `ADJTIM` within `TMAX_ADJTIM` as `adj_tim` checks it, and two conditions
on latency: `HRTCNT_BOUND + LATENCY < TCYC_HRTCNT` (otherwise a late interrupt
lets the counter pass its cycle unread) and
`HRTCNT_BOUND + LATENCY + TMAX_ADJTIM < EVTTIM_MOD` (one step advances by less
than a word).  On mpcore these leave `2^32 - 4000000002 - 1000000`
microseconds, nearly five minutes, for the latency.

`TimeWindowAssumption` relates the margin to what it is for.  In the past,
`BOUNDARY_MARGIN` has room for the latency and two adjustments; with the margin of
`time_event.h` (200 s) and `TMAX_ADJTIM` (1 s) that leaves 198 seconds for the
latency.  In the future, a word beyond the margin has room for the farthest time that
is registered (`Ahead`: a relative time counted from the upper bound of the present,
or a period) and, because the event time may be set back, for two adjustments
more: 200 s + 4000 s + 2 s and the step of the counter are less than the 4294 s
of a word, with `TMAX_RELTIM` of `t_stddef.h`.  `time_event.c` checks the step alone
(at most 4000); the other constants stand in three files and nothing in the code
compares them.

`NotificationAssumption` is what the configurator guarantees of the notifications: the
static ones are finitely many, a phase fits a word, and a control block for dynamic
ones is in its list once and has no static notification.

`SerialPortAssumption` says that the sizes are positive, the tasks finitely many (they
are counted), the lengths of a call positive, that the tasks whose calls may be broken
off (`BROKENOFF`) are some of them, any or all, and that the tasks do not write the
characters the driver itself inserts (CR, STOP, START).

`NetTimerAssumption` says that the timer task is not one of the tasks that call
`timeout` and `untimeout`, that the functions differ from `if_slowtimo` and the null
pointer, and that the times are positive and the table is not empty.

*Argument, kernel.*  A kernel function is an operator on states, and it is called in
states where the invariant does not hold: between `wait_dequeue_wobj` and
`make_non_wait` a task is in the waiting state and in no queue, and while
`change_priority` moves a task it is in none either.  So the invariant has a
parameter: `Inv(s, X, E)` says that ready queues, wait queues and states agree for
all tasks but those of `X`, which are in transit.  Taking a task out of a queue
adds it to `X`, putting it into one takes it out again (`Settle`, `Start`, `Enter`),
and a call begins and ends with `X` empty.  `E` is the set of tasks whose
termination may be pending although they allow it: the running task while
dispatching is disabled, nobody otherwise (`Ends`).

Three facts carry the proof.  `p_schedtsk` is the head of the first non-empty ready
queue (`IsFirst`), stated without a search, so that each of the short cuts of
`task.c` can be compared with it; `SearchFirst` and `FirstUnique` show that this
is what a search finds.  A wait queue lists the tasks with that object in
`p_wobjcb` and a fitting `tstat` (`WaitOK`), for all objects at once: so the
queue from which a timeout takes a task is the one that holds it.  And while
dispatching is disabled the running task is runnable and is `p_schedtsk`, whence
`p_runtsk = p_schedtsk` whenever no handler runs.

`WaitProofs` has the operations on queues and on the choice of the task that
runs, the life of a wait and the mutex functions, each shown to
preserve `Inv` for any `E`.  The loops of `init_wait_queue`, `mutex_release_all`,
`set_flg` and `initialize_task` are functions of the number of turns; that the
invariant holds after all of them follows from the least number of turns after
which it would not (`LeastOf`).  `KernelProofs` adds what changes between calls
(`KInv`: the free lists, `dspflg`, the mutexes), and for each service call that it is such an
operation followed by a dispatch (`Dispatched`), or one that leaves `p_schedtsk`
as it is (`Quiet`).  The second kind is where a missing `dispatch()` would show, and
`acre_tsk` with `TA_ACT` is the one call that is neither.  For the action property
`NoSwitchWhileDisabled` each of these lemmas also says that a step which begins and
ends with dispatching disabled leaves `p_runtsk` as it is (`Undisturbed`, `StepOK`).  What data a semaphore, a
flag or a queue holds does not matter to the invariant (`DataEdit`), so the calls
on the five kinds of objects share their lemmas (`handed_step`, `block_step`,
`drained_step`, `create_step`, `delete_step`).

The mutexes have a part of their own, `LockInv(s, X, M)`: a task's list `p_lastmtx`
has the mutexes it owns, a dormant task has none, and nobody waits for a free
mutex.  `X` is as above; `M` is the mutex in transit, out of its owner's list and
not yet given to the next owner or forgotten.  Most calls do not touch what
`LockInv` speaks of, and one relation says so for them (`SameLock`, with `Preserves`
beside it for a whole call); the exceptions are the lemmas on `mutex_acquire`,
`mutex_release`, `mutex_release_all`, on the deletion and initialization of a mutex
and on the termination of a task, where the order counts: the mutexes of a task
are released before it is made dormant.

`CeilingOK` is not inductive: what `mutex_drop_priority` and `mutex_release` compute
is right only for a task whose base priority respects the ceilings of what it holds
and waits for.  `Fit(s, t)` says so without a minimum: the priority is at most the
base priority and every ceiling held, equals one of them, no ceiling held is below the
base priority, and a task waits for a mutex only if it may lock it.  The last part
is what lets `mutex_release` give a mutex to a task without the test that `loc_mtx`
makes; it survives because `chg_pri` looks at the mutex a task waits for, too, and
because it is the task's base priority that is tested, which nobody else changes.
`CalcLeast` connects the minimum of `mutex_calc_priority` with it.  Every lemma on
an operation says which tasks stay `Fit` (`Keeps`, `CeilingsKept`).

`LockerStaysScheduled` follows from `p_runtsk = p_schedtsk` in task context, and
from the fact that no step of an interrupt handler gives a free mutex an owner
(`NoNewOwner`, a part of `StepOK`).

`MutexProofs` looks at every step a second time, for who owns each mutex that
exists (`Owner`) and who waits for it (`Line`), which is what the mapping to
`LockService` shows.  Its invariant is `MInv == IInv /\ OwnFree(Cur)`: nobody waits for a
mutex of its own, which `IInv` leaves open and without which a mutex given up in
`task_terminate` could pass to the task that ends.  Most calls change neither
(`Still`); any state `r` that another one ends in is related to the present one
by one of a few forms: nothing visible changes (`Alike`), a task takes a free mutex
(`Taken`), joins a queue (`Joined`) or leaves one without the mutex (`Left`), mutexes are
passed on (`PassedOn`), or a mutex is deleted or initialized (`Wiped`).  One lemma for
each form says that it is a step of the service and hands over correctly
(`LockStepOK`), one lemma per call finds the form.  The queues of `r` need not be
computed: `IInv'` says that they hold the tasks that wait (`EndLined`), so it is enough to
know whose state changed.  Termination is the hard case: `mutex_release_all` hands a
list of mutexes to several tasks, one after another, and that none of them is
the task that ends, that each is handed over once and that nothing else moves is
carried through the loop by `Shared` (`SharedMore`, `AllHanded`, `HeirsLeave`).

*Argument, time events.*  None of the state properties is inductive alone; their
conjunction `IInv == TypeOK /\ SystimNearEvttim /\ TimerInTime` is.
`TimerInTime` says that time since the last reading plus the time left to the
interrupt is at most `HRTCNT_BOUND` (and with the interrupt pending or handled,
at most that plus the delay); only with it is the modular difference of two
readings the time that passed, which `tick_step` needs, and bounded, which
everything else needs.  `SystimNearEvttim` is the subtle one: `check_adjtim`
refuses to go back only when the lag has already reached `TMAX_ADJTIM`, and the
bound holds because one more adjustment adds at most another `TMAX_ADJTIM`
(`SetBackOK`) and everything else lets the lag shrink (`AdvanceBehind`).
`SystimNeverBack` follows from `AdvanceTotal`: offset plus most advanced event
time, before it is reduced modulo `SYSTIM_MOD`, grows by no more than the
advance, because the wrap of the event time is carried into the offset exactly
once.  The first part of the module supplies that the heap operations only move time
events about; it rests on the well-foundedness of the naturals for `Min` and `Max`.
The lemmas follow the code: one for each function on a record, one for each
action, one for `Next`.

The properties of the heap and the window need a second invariant, `EInv`, proved
on top of the first: `HeapOK` is about times that really are left, the code
compares words, and the two agree only in the window.  `Timed` says of every
registered event that its time, relative to the boundary, is ahead by the time
left (`InWindow`), that the heap is ordered by what the code compares, and that
an event is no farther ahead than when it was registered, but for what the event
time was set back since (`TimeOK`).  The last part bounds the window on the far
side; without it an adjustment back would lead out of it.  `Near` sharpens
`SystimNearEvttim` to less than two adjustments for the same reason.  `Punctual`
bounds the near side: an event is late by at most two adjustments and the delay, and
by less than two adjustments while no interrupt is pending, because `check_adjtim`
refuses to go forward when an event is late by `TMAX_ADJTIM` already
(`PermittedForward`).  `Covering` says that the timer is set no later than
any event.  It is what makes `Punctual` inductive, for as long as the timer runs no
event becomes due unnoticed, and `Punctual` in turn keeps `InWindow`.

Two words are `Congruent` if they stand for the same time, and `InWindowOK` is the
bridge: in the window, being x ahead relative to the boundary and being congruent to
the present plus x are the same.  The order of the heap does not depend on where
times are compared from as long as all stay in the window (`HeapShift`), so time
that passes and adjustments leave it alone.  For the operations themselves
the module shows that the nodes on the way up or down form a chain
(`AncestorsChain`, `DescentChain`), and that moving them by one place keeps the order
and every event (`UpOrdered`, `UpMoves`, `DownOrdered`, `DownMoves`); deleting from the
middle moves the last event either way (`DeleteHeap`).

*Argument, notifications.*  None of this is about time: whether a time event is
registered changes with calls and callbacks only, whenever they happen.  So the
invariant `NInv` needs of the time events no more than that the data have their types
and the heap has each event once (`SoundNow`), which every operation keeps without
the window or the latency; a heap gains or loses exactly one event, whatever their
order (`InsertGains`, `DeleteLoses`).  `Agrees(B, X, R, q, H)` then says of the
control blocks `B` of one kind that those which run, `R`, are among those which exist,
`X`, and exactly those in the heap `H`, and that the list `q` has the others, each
once.  A call changes these four in one of five ways, each of which keeps `Agrees`
for both kinds (`AgreesTail`, `AgreesEnd`, `AgreesStart`, `AgreesStop`,
`AgreesOther`).  The callback of an alarm takes its event out and clears `almsta`, that
of a cyclic notification puts the event in again and leaves `cycsta` (`Taken`); which
event that is must be the same for the time event manager and for the
notifications, though the first looks at the time after it has noted that the
interrupt is being handled (`DueSame`).

*Argument, serial port.*  `TokensOK` counts; a step is easier to follow as a question
about sets.  `IInv` says that at most one task may send and at most one may
receive (`OneSends`, `OneReceives`), when there is none, and that the send
buffer never exceeds its size; `Counts` brings the cardinalities back at the
end.  A right in `abandoned` is nowhere else, and `break_off` moves it there from the
task that had it, whose place in a queue it empties (`BreakOffStep`,
`CancelEffect`).  Three additions make this inductive.  `TasksOK`: a task that waits for the
semaphore to send is about to put a character, one that waits to receive is
about to get one, so whoever is released takes the right over.  `SemaphoreOK`: a
semaphore with waiters has no count, and nobody waits twice, so a signal either
releases exactly one task or sets the count.  `Quiet`: a closed port has both
callbacks disabled and the semaphores as `eSerialPort_open` expects them, since it
does not initialize them.  Then the buffer's two edges are where the right
changes hands with an interrupt handler: the character that fills the send
buffer takes it from the task (`SendStep`) and the one that leaves a full buffer
gives it back (`CharacterLeaves`); the first received character creates the right
to receive (`CharacterArrives`) and the last one taken ends it (`GetStep`).
That no signal overflows is a consequence, not an assumption.

*Argument, callouts.*  The refinement needs an invariant about the lock and what is
known under it.  `LockOK`: the semaphore has a count of at most one, at most one
thread is at a place where it holds the lock, and only while the count is zero,
and its queue has exactly the threads that wait for it, each once.  `ThreadOK`: a
thread that is about to clear an entry has found its function in it, and the
entry stays so, because tasks need the lock to change it and the handler leaves
the function alone; the timer task is about to call a function only with one in
its hands.  Then every step is looked at twice: that it preserves the
invariant, and which step of `CalloutService` it is.  Most are none
(`CallStutters`, `FirstStoreStutters`, ...).  The others are the last store, which
registers the callout (`SecondStoreRegisters`), `untimeout` deciding for an entry
(`CompareFinds`) and clearing it (`ClearCancels`), the timer task
taking an entry out (`LookCalls`) and coming back from its function
(`TimerStepReturns`), and the handler, a tick for all entries at once
(`HandlerTicks`).  An entry between two stores is hidden by the mapping, so the
handler, which may count such an entry down, changes nothing the service sees.

*Only model-checked:* of the kernel `TypeOK`, the contents of the
objects and the refinement of `DataChannel`; and of the serial port
the order of what is sent.  Liveness under fairness and
`ENABLED` are out of the prover's reach, and so is induction over data given as
a recursive definition.

Two properties of `MCTasks` hold for its applications and not for every configuration,
so no theorem states them.  `CeilingNeverBlocks` needs a program that waits for nothing
while it holds a mutex, and the calls it names do not cover waiting for objects.
`PreemptedByHigher` fails, for instance, where a task that holds a ceiling mutex is
suspended, and is resumed while another task has disabled dispatching: when that
task re-initializes the mutex, the owner drops to the head of the queue of its own
priority, before the running task if that has the same.

## 5. Not modelled

*In the modelled parts:* the error returns that change nothing, parameter checks,
logging, the overrun timer, power-down.  `kernel_malloc` always has memory and
`kernel_free` does nothing, as in `startup.c`; a creating call that runs out of
memory changes nothing.  Task stacks and register contents have no counterpart.
`check_nfyinfo` and `notify_handler` keep no state of their own: they choose
among calls that are modelled.

*Whole components:*

* System log (`tSysLog.c`) and log task: a ring buffer under one interrupt lock,
  without the interplay of several actors that the other parts have.
* CPU exceptions, ISR queues, reference calls: tables and reads.
* TINET but for its callouts: TCP, UDP, IP, ARP and PPP.  It is a system of its own
  on top of the kernel's semaphores and data queues; nothing of the kernel
  depends on it.
* mbed, mruby, `tecsgen`, the configurator, `src/tools`: third-party or generated,
  and most of the lines of the repository.

## 6. What could follow

1. TINET: the ARP cache, the TCP state machine and the PPP option automaton, on
   top of the callouts.
2. The system log ring and the log task, which empties it into the serial port.
3. Proofs: for the kernel, on top of `IInv`, the contents of the objects.
