# A TLA+ model of LinRTOS

LinRTOS is a small preemptive real-time kernel for Cortex-M: fixed-priority
scheduling with time slicing, task delays on a wrapping tick, a scheduler lock,
message queues, semaphores and mutexes, and a command-line component (lincli)
with its own work queues and cooperative scheduler.  This directory holds TLA+
modules that model the kernel and the command line, TLC configurations that
check them on small instances, and proofs for TLAPS of what holds in every
instance.

Contents: 1 the system, 2 the modules, 3 how the code became a model, 4 the
runs, 5 fairness, 6 the proofs, 7 where code and documentation disagree, 8 what
is not modelled, 9 the plan, 10 how to run it.

## 1. The system

| component | state | operations | what makes it correct |
|---|---|---|---|
| scheduler core, `src/sched.c` | `ready_list[]`, `ready_map`, `rtos_current_tcb`, `sched_lock`, `need_resched`, a task's `state`, `priority`, `time_slice` | `rtos_task_ready`, `rtos_task_unready`, `rtos_pick_highest_ready`, `rtos_switch_context`, `rtos_sched`, `rtos_sched_time_slice` | a ready task is linked once, on its own priority's list; the bitmap is exact; one task is RUNNING; a higher task never waits without a switch on its way; equal tasks take turns |
| tick handler and delay lists, `src/tick.c` | `tick_count`, two delay lists, `wake_tick`, `wakeup_reason` | `rtos_tick_handler`; the insertions in `task.c` and `queue.c` | a delay ends at the tick it was set for, across the wrap of `tick_count`, and is not forgotten |
| task API, `src/task.c` | the TCB pool, `terminated_list` | create, delete (self, other), yield, delay, delay_until, abort_delay, suspend, resume, set_priority, lock, unlock; the idle task's reclaiming | no TCB slot is given out twice; every way out of BLOCKED unlinks both list nodes; under the lock nobody else runs |
| port, `src/port/cortex_m` | PendSV pending, PRIMASK | PendSV, critical sections, the first SVC | a requested switch happens, and only outside of handlers |
| message queues and semaphores, `src/queue.c`, `src/semaphore.c` | ring buffer, `messages_waiting`, two event lists, `event_list` of a task | send (back, front, overwrite), recv, peek, with timeout, and both from interrupts; give, take | items arrive once and in order; a waiting task is on one event list, in the order of priority; no wake-up is lost |
| mutexes, `src/mutex.c` | `mutex_holder`, `recursive_count`, `original_priority`, `held_queue` | take, give, recursive take and give; `rtos_queue_release_held` when a holder is deleted | one holder; inheritance; the priority is restored |
| lincli: `workqueue.c`, and `jiffies` in `tick.c` and `scheduler.c` | `work_list`, `delayed_list`, PENDING and RUNNING, `nr_running`, `jiffies` | queue, delay, the tick handler, run, flush, cancel | an acceptance is one run or a cancellation; a work is linked once if and only if it is PENDING; delayed work runs, across the wrap |
| lincli: `stateM.c`, `scheduler.c`, `cli_mpool.c`, parts of `cmd_dispose.c` and `cli_env.c` | the engine's two states, `cmd_ctx` with its chains, the pool's bitmap, the variables | start-up commands, a line, its chain, variables that stand for chains, the call of a command until it ends | every block has one owner and goes back; commands run once, in order, none after a failure; the prompt comes back |
| lincli: `kfifo.c`, `cli_io.c`, `cli_cmd_line.c` | `in`, `out`, the buffer, `cli_in_push_lock`, the key engine | receive (in an interrupt), clear, pop, tell keys apart | bytes come out once and in order; keys are told apart whatever the line delivers when |
| lincli: `cli_edit.c`, `cli_history.c` | `cmd_line`, `history`, what the terminal shows | type, move, delete, recall, redraw, ENTER | the terminal shows the line; the last lines can be had again |
| lincli: completion, parsing, users, output, printing | strings | sequential | not a matter of interleavings |
| cm_backtrace, board example, build | - | - | third-party, vendor or build-time code |

How they interact.  Everything in the kernel shares `g_kernel` and the TCBs.
Tasks call the API; a call is one or several critical sections with unprotected
code between them, in which SysTick, PendSV and the application's interrupts may
run.  A call that makes a task ready calls `rtos_sched`, which requests PendSV;
PendSV picks the highest ready task.  The tick handler wakes delayed tasks and
rotates equal ones.  Queues use the delay lists for timeouts and the task API
uses the queues' event lists when it unblocks, suspends or deletes a waiting
task.

lincli is one task, of the highest priority, that loops over `scheduler_task`:
one run of the state engine (which handles a byte of input, a start-up command, a
command of a line, or a call of a command's function), `++jiffies`, the work
queue's tick handler, one work; then it sleeps for 20 ticks.  The receive
interrupt puts bytes into its FIFO; any task or handler may queue work; other
tasks flush and cancel it; SysTick counts the same `jiffies`.

What is hard: the windows between the critical sections of one call
(`rtos_sched`, `rtos_task_create`, `rtos_task_delay_until`, the comparison of
priorities after a send, the idle task's reclaiming); the wrap of `tick_count`;
two ways of being woken that race (send and tick); calls made under the
scheduler lock, when the caller goes on although it is blocked; a ring buffer
whose emptiness only a counter tells; in lincli, work functions that run outside
the lock while the work is queued again or cancelled, a counter with two
writers, a FIFO without a lock, escape sequences that arrive in pieces, and pool
blocks that live across the states of a cooperative scheduler.  PROJECT.json lists these as hazards, each
at its line and with the properties that cover it, or the reason why none does.

## 2. The modules

    IntrusiveLists    the lists of the kernel and of the work queue, as sequences
    RtosSched         sched.c: the kernel's state and the operators on it
    RtosTick          tick.c, and the event-list helpers of queue.c
    RtosTask          the task API, PendSV and SysTick as actions; properties
    RtosRing          the ring buffer of queue.c
    RtosQueue         RtosTask with queues, semaphores and an interrupt handler
    RtosMutex         RtosTask with mutexes, plain and recursive, and inheritance
    WorkQueue         workqueue.c and the two writers of jiffies
    StateEngine       stateM.c: operators on an engine [from, to]
    CliText           the texts of the command line: commands, variables, arguments
    CliScheduler      scheduler.c with the pool, the variables, the preparation of commands
    CliInput          the input FIFO, the receive interrupt, the prompt and the key engine
    LineEditor        the line, its history and the terminal
    Timers, Mailbox, WorkPool, CommandLine, ByteStream, Editor
                      what the delay lists, the queues, the work queue, the
                      scheduler of the command line, its input and its editor promise
    MCTask, MCQueue, MCMutex, MCWork, MCCli, MCInput   instances for TLC
    ListLemmas        facts about lists of tasks (Unlink, insertion)
    RtosTaskProofs, RtosQueueProofs, RtosMutexProofs, WorkQueueProofs,
    CliSchedulerProofs, CliInputProofs, LineEditorProofs   theorems

`RtosSched` <- `RtosTick` <- `RtosTask` is a chain of EXTENDS, and `RtosQueue` and
`RtosMutex` both extend `RtosTask` (no function of `mutex.c` calls one of the
others' operations but the initialisation): there is one kernel, its state is the record `k`, and a component adds operators
and actions on it.  `RtosTask` instantiates `Timers` (as `Sleeping`) and
`RtosQueue` instantiates `Mailbox` (as `Boxes`) with refinement mappings, and so do
`WorkQueue` `WorkPool`, `CliScheduler` `CommandLine`, `CliInput` `ByteStream` and
`LineEditor` `Editor`.  `CliScheduler` and `CliInput` both extend `StateEngine`,
`CliScheduler` and `CommandLine` both `CliText`.

The modules of lincli stand beside the kernel's and do not extend them.  What they
need of the kernel is that critical sections exclude one another, that the
lincli task is made ready again after its sleep (`DelayEnds`), and that it has the
processor before other tasks.  Nor do they extend one another, because they share
little: `CliScheduler` is told that a line was entered (`Enter`), `CliInput` when the
prompt is left and entered again (`LeavePrompt`, `EnterPrompt`), and `LineEditor`
which key was pressed; each of these is arbitrary where it is received.

| in the model | in the code |
|---|---|
| `k.ready_list[p]`, `k.delay_list`, `k.waiting[e]`, ... | the intrusive lists, head first, as sequences of tasks |
| `k.delay_list`, `k.overflow_list` | `*px_delayed_task_list`, `*px_overflow_delayed_task_list`; the pointer swap is a swap of the two |
| `k.pend_sv` | PENDSVSET in the ICSR |
| `k.used`, `handles` | `s_tcb_used_mask`; the TCB pointers the application holds and may still use |
| `isr` | whether `rtos_tick_handler` is in its critical section |
| `pc`, `ret`, `arg` | where a thread is in an API call, where it goes after `rtos_sched`, and a local variable |
| `owns` | how many takes a task was told have succeeded and it has not given back: the application's own view, compared with the kernel's in `OwnerIsHolder` |
| `ring`, `call`, `got` | ring buffers; the arguments of a blocked call; what the last step received (for the refinement of `Mailbox`) |
| `round`, `seen` | where the lincli task is in `scheduler_task`, and the `jiffies` it has in a register |
| `work[r]` | the local variable of `__workqueue_run_one` in the task r |
| `eng`, `mec` | `scheduler_eng`, `cmd_line_mec` |
| `ctx.chain`, `ctx.sub_chain` | the text that `chain_p` and `sub_chain_p` point to, as a sequence of commands |
| `ctx.args` | the block that `argv` points into (for `ArgsStayAllocated`) |
| `pops`, `copied` | the bytes popped for this key; the byte `kfifo_get` has copied before it moves `out` |
| `early`, `lost`, `opened` | which bytes came in away from the prompt, whether input has been lost, whether a command reads it (for the properties only) |
| `terminal` | external: what the terminal shows behind the prompt, and its cursor |

## 3. How the code became a model

*Steps.*  A step of a thread is one critical section, or the code between two.
Where a function calls others in the same section, as most do, its operator is
their composition (`DeleteSelf` is Deactivate, ReleaseHeld, the terminated list
and the unlocking loop at once).  Code outside of a critical section that only
reads its own locals is part of the step before it.  After a wait the test of
`wakeup_reason` is merged with the next critical section: while the task is not
BLOCKED nobody else touches the field.  `rtos_sched` is two steps,
`RtosSched` (the check) and `RtosRequestSwitch`, because the request comes after
the section ends and a tick may come between.

*The tick handler* runs in one critical section with a loop over the delay list.
It is three actions, `SysTick`, `SysTickWake` for each task and `SysTickEnd`;
`isr = "tick"` keeps everything else out meanwhile, as the section does.

*Handlers.*  SysTick and PendSV have the lowest priority and do not preempt each
other; PendSV goes first when both are pending.  The application's interrupt has
a higher priority, so it may come at any point outside a critical section; it is
one atomic step, and it calls `rtos_sched` when `pxHigherPrioTaskWoken` says so,
as docs/rtos_queue.md asks for (`portYIELD_FROM_ISR` itself is not in the
repository).

*The application* is arbitrary within these limits: it passes only handles that
are valid (it does not use the handle of a deleted task, which the code cannot
notice); with `YieldBlocked = FALSE` it yields only when it is ready (section 7
says why that matters); it makes blocking queue calls only without the scheduler
lock (`MayWait`); it sends urgent items, and only those, to the front, so that
`Mailbox` can tell where an item belongs; it uses the plain calls on plain mutexes
and the recursive ones on recursive mutexes, does not take a plain mutex it
already has, and with `MayHaveTwo = FALSE` none while it has another; delays and timeouts are below half of
the range of `tick_count` (`DelayAssumption`, `TimeoutAssumption`), because
`int32_t` differences order only those.  The constants `Calls` and `QueueCalls`
say which functions an instance calls, and one disabled function is one action
that cannot fire.

*Numbers.*  `tick_count` and `wake_tick` wrap at `TickMod` (2^32 in the code),
and comparisons are those of the code: unsigned for the choice of the list,
`(int32_t)(a - b)` for the order.  The only bound on a counter is `MaxLock`, how
deep the application nests the lock.

*Left out of these modules:* stack contents, registers, the FPU; names;
`is_running`, which is TRUE from the first task on; `rtos_sched_yield`, which has no
caller; return codes, except where a property needs them.  The initial state is the
one in which `rtos_scheduler_start` starts the first task: the tasks of main() are
on their lists and the idle task, created after them, is the last of priority 0.

*Actions* are named after the functions: `TaskDelay` is `rtos_task_delay`,
`TaskCreate`, `TaskCreateReady`, `TaskCreateReturn` are the three windows of
`rtos_task_create`, `QueueSend` and `QueueRecv` a first round of the loops in
`rtos_queue_generic_send` and `_recv`, `QueueRetry` and `QueueTimeout` what
happens after the wait, `QueueWoken` the comparison of priorities after the
section.  A semaphore is a queue outside `DataQueues`.  `MutexTakeRecursive`,
`MutexTakeInner` and `MutexTakeCount` are the three sections of
`rtos_mutex_take_recursive`, `MutexGiveRecursive` and `MutexGiveInner` the two of
`rtos_mutex_give_recursive`.  `Inherit` and `Restore` compose `SetPriority` with
the `rtos_sched` that it ends in, whose request for a switch is merged into the
section of the take or give it is called from.  PROJECT.json maps every
definition to the lines it stands for.

*The work queue.*  Each critical section is a step, each unlocked test of a flag or of a
list another, and `++jiffies` two (a load and a store), as SysTick may come in between.
A work function is arbitrary: it is the time between `Take` and `Finish`, in which
anybody may queue any work.  `MaxLate`, how many ticks lincli may fall behind, is an
assumption: nothing in the code bounds it.  lincli has the highest priority and loops;
beyond half of 2^32 ticks `time_after` would compare wrongly.

*The command line.*  A text is a sequence of commands (what `&&` separates); a command
is a name, alone or with one variable among its arguments, a variable, or blank.  The
value of a variable that stands among arguments may have a `&&` too, and then makes a
chain of the line; its replacement may be too long for a block in every case, and the
command is then run as it stands (`InEnvBuf`).  What the words after a name decide
(which option, which user, a request for help) is the choice among `Outcomes`; help
takes two blocks and gives them back before the preparation ends (`cli_print_help`).
`stateEngineRun` is two steps, the change of state with its exit and entry, and the
task.  In `CliInput` a byte goes in two steps, as an interrupt may come between the copy
and the move of `out`, and the byte is checked against what it was until then.  Every
byte that `invalid_char_task` tells apart is there but TAB (section 8); the ones of its
default branch are one, `control`.  One key of `LineEditor` is one step: nobody else
touches the line.  Nobody types into a line of `MaxLine` characters, which is below
`CMD_LINE_BUF_SIZE`: an assumption about the user that the code does not enforce
(section 7).  The terminal is modelled by what the characters and escape sequences sent
to it do, in one row.

## 4. The runs

| run | instance | checks |
|---|---|---|
| `task_api` | 2 TCB slots and the idle task, 3 priorities, slice 1, `tick_count` mod 4, lock depth 1, every call | `TypeOK`, `ReadyConsistent`, `DelayConsistent`, `PoolConsistent`, `RunningIsCurrent`, `NoMissedSwitch`, `LockHoldsCpu` |
| `task_timing` | 3 equal tasks, slice 1, mod 6, delays 1 and 2, abort_delay | `DelayWindows`, `DelaysAreExact`, `RoundRobin`, `DelayEnds` |
| `queue_data` | 2 tasks of priorities 1 and 2, an interrupt that sends, a queue of 2 with ordinary and urgent items, a binary semaphore, peek, no timeout | `QueueTypeOK`, `QueueNoMissedSwitch`, `QueuesAreMailboxes` |
| `queue_wait` | 3 tasks, one of a higher priority, an interrupt that receives, a queue of 1 with overwrite, timeout 1, abort_delay | `WaitersConsistent`, `NoLostWakeup`, `EventListsSorted`, `WokenInTurn` |
| `mutex` | 3 tasks of three priorities, a recursive and a plain mutex, depth 2, waits of one tick or for ever, delay and delete | `HolderConsistent`, `OwnerIsHolder`, `HolderOutranksWaiters`, `PriorityRestored`, `WokenIsHolder` |
| `work` | 2 works, queued with a delay or without, lincli and one client, `jiffies` mod 12, lateness 1 | `PendingIsLinked`, `RunningIsRun`, `HandlerLeavesNoneExpired`, `QueueIsWorkPool`, `AcceptedWorkRuns`, `CancelReturns` |
| `cli` | 4 commands (ordinary, staged, with a buffer of its own, without a function), 3 variables, also among arguments, 5 lines, 3 start-up entries, a pool of 5 | `BlocksAreOwned`, `PromptHoldsNothing`, `NeverOutOfBlocks`, `RunsTheCommandLine`, `PromptReturns` |
| `input` | a line of one letter and the delete key, each cut or whole, a control character, a FIFO of 2 bytes, counters mod 4 | `NoStrayCharacters`, `TypedAheadIsDropped`, `InputIsAStream`, `InputGoesOn` |
| `line` | 2 characters, a buffer of 4, a history of 2 | `TerminalShowsLine`, `LineIsAnEditor` |
| `queue_peek`, `mutex_nested`, `cli_args` | as small as shows it | violations, see section 7 |

What they show:

- `ReadyConsistent`, `DelayConsistent`: whatever the calls, states and lists agree.
- `PoolConsistent`: a TCB is not given out while it is in use, in spite of the
  windows in create and in the idle task.
- `NoMissedSwitch`, `QueueNoMissedSwitch`: when the running task is not the first
  of the highest priority, a switch is pending, about to be requested by the very
  task that runs, or remembered in `need_resched` under the lock.
- `LockHoldsCpu`: between two steps under the lock the current task is the same.
- `DelayWindows`: the active list lies ahead of `tick_count`, the overflow list
  behind it; this is why comparing as integers is right on each list.
- `DelaysAreExact`: the two lists implement `Timers`: the n-th tick after the call
  wakes the task, no earlier and no later one.
- `QueuesAreMailboxes`: ring buffer, counter and wake-ups implement `Mailbox`.
- `WaitersConsistent`: a task is on an event list if and only if it is blocked in
  a call on that queue, with its timer running unless it waits for ever.
- `NoLostWakeup`: items beside a waiting receiver are there for receivers that
  were woken and will try again, and so are free places beside a waiting sender.
- `EventListsSorted`: waiting tasks are ordered by priority.
- `WokenInTurn`: among equals who waits first is woken first, whoever joins the list,
  times out or is aborted in between; only a more urgent task gets ahead, and what a
  send or a receive wakes is the head.
- `HolderConsistent`: a mutex is available exactly when it has no holder, its holder
  is alive and finds it in `held_queue`, and nobody waits for an available one.
- `OwnerIsHolder`: mutual exclusion as the tasks see it, and the recursive count.
- `HolderOutranksWaiters`, `PriorityRestored`: a holder has at least the priority of
  every waiter, and a task without a mutex has the one it was created with, through
  hand-over, waits that time out, and the deletion of holders and waiters.
- `WokenIsHolder`: the assertion in `rtos_mutex_take`, where no wait is aborted.
- `PendingIsLinked`, `RunningIsRun`: the two flags, the lists and `nr_running` agree,
  whoever queues, runs, flushes or cancels in between.
- `HandlerLeavesNoneExpired`: the sorted list lets the handler stop early, across the
  wrap of `jiffies` and its lost counts.
- `QueueIsWorkPool`: the work queue implements `WorkPool`.
- `AcceptedWorkRuns`, `CancelReturns`: accepted work is run or cancelled, and a
  cancellation returns although the work may be queued and run again and again.
- `BlocksAreOwned`, `PromptHoldsNothing`: no block of the pool leaks or has two owners.
- `NeverOutOfBlocks`: four blocks beside those of the variables are enough for every
  command, for setting a variable and for help in the start-up table; help on a line
  needs a fifth, because it holds two at once beside the chain, the sub-chain and `env_buf`.
- `RunsTheCommandLine`: engine, chains and buffers implement `CommandLine`: commands in
  order, one at a time, a variable by its value at the time, nothing after a failure.
- `PromptReturns`: after the start-up table and after every line.
- `InputIsAStream`: the FIFO implements `ByteStream`, with the interrupt between any two
  steps, and with its counters wrapping.
- `NoStrayCharacters`: no part of an escape sequence becomes a character, unless the
  input was lost or cut (section 7).
- `TypedAheadIsDropped`: no key at the prompt stems from a byte received before it.
- `InputGoesOn`: bytes are taken, and the handling of a key ends.
- `TerminalShowsLine`: what is on the terminal is the line, the cursor at its place.
- `LineIsAnEditor`: the shifted buffers and the rows of the history implement `Editor`.
- `RoundRobin`, `DelayEnds`: under the fairness below, an equal task gets its turn,
  and a delay ends.  `RoundRobin` leaves priority 0 out: the idle task has it and is
  exempt from time slicing (`tick.c:71`), so a task of priority 0 starves.

*Why the bounds are enough.*  Two slots and an idle task give every relation
between a caller and its victim, a creator and what it creates, a dead task and
the one that gets its slot; three priorities give lower, equal (0 is the idle
task's) and higher.  Three sleeping tasks give an insertion at the head, in the
middle and at the tail; a range of six ticks with delays of up to two lets every
run cross the wrap, with tasks on both lists.  Two items make the ring wrap in
both directions; a queue of one makes every send and receive wake somebody.  Three tasks on one queue
give two that wait and one that overtakes.  The proofs of section 6 lift what
they cover to every size.  `queue_wait` uses
symmetry between t1 and t2, which have one priority and are told apart by their
order on the list only.  In `mutex` two can wait for a third, so a holder is boosted
twice, and handing over leaves one waiting.  Its VIEW (`Seen` in `MCMutex`) makes one state of
those that differ in what no later step and none of its properties can tell:

- at which tick it is, as long as the sleeping tasks are as many ticks from their
  wake-up and in the same order (that the two delay lists are one such timer queue
  across every wrap is what `DelaysAreExact` checks);
- `wakeup_reason` of a task that is not in a wait: the give or the tick that ends its
  next wait sets it before it is read (nobody aborts a wait in this run);
- the priority and slice of a deleted task that no thread is about to compare.

`work` has two works, so both lists with an order on them, a work on
its way from one list to the other, and two runners at once (lincli and a client that
flushes); the client cancels as well; twelve values of `jiffies` are the fewest that
`JiffiesAssumption` allows with a delay of 2 and a lateness of 1.  In `cli` the pool is
five, and each of the three variables takes one block when it is set at run time.  With none
set help has its blocks wherever it is asked for, the fifth of `NeverOutOfBlocks` among them;
with one set it prints nothing inside an expansion; with two, commands in an expansion have
no block for their arguments; with three there is none for an expansion (`DisposeNoMemory`):
so every place where a block is taken runs out of them.  (The default configuration has six,
so each of these comes with one variable more.)  In `input` the delete key is longer than the FIFO and the line fills it, so bursts are
cut by a pause and by a full FIFO, and `in` and `out` wrap after two rounds of the
buffer.  In `line` a line can be longer than half its buffer, and the history
overflows.

Type invariants that are not listed above are conjuncts of the first property of
their module (`HolderConsistent`, `BlocksAreOwned`, `NoStrayCharacters`,
`TerminalShowsLine`) or theorems
(`WorkTypeOK`).

Every passing property has a mutant in PROJECT.json: an operator changed as a
plausible bug would change it, with which TLC finds the property violated.

## 5. Fairness

The runs of the kernel use `Spec`, `QueueSpec` and `MutexSpec`, without fairness, but
for `task_timing`, which uses `FairSpec`: strong fairness of `SysTick`, because the interrupt stays pending in
the NVIC until it is taken, however often PendSV goes first; weak fairness of the
rest of the handler, of PendSV and of the two steps of `rtos_sched`, which are
straight-line kernel code.  Nothing is assumed of the application, which may
compute for ever or not call anything: this is why the run allows delay and abort_delay but
neither set_priority nor the lock, with either of which one task can starve the
others by right.

`WorkFairSpec`: weak fairness of lincli's round, because the task is made ready again
after each sleep (`DelayEnds`) and has the highest priority, and because work
functions return; weak fairness of the steps of a flush; strong fairness of a
cancellation, whose task gets the processor while lincli sleeps, and looks at the
flag then.  `CliFairSpec`: weak fairness of the engine's steps; that a command that
says CLI_CONTINUE says something else at last is what `FinishCommand` in it assumes of
the commands.  `InputFairSpec`: lincli goes on with what it does; nothing is assumed
of who types.  `LineSpec` has no fairness.

## 6. The proofs

`RtosTaskProofs` proves of `RtosTask`, for any number of tasks, priorities, ticks,
slices and lock levels, and any set of calls:

| theorem | states |
|---|---|
| `Invariance` | the inductive invariant `IInv` |
| `TypeCorrect` | `TypeOK` |
| `ReadyQueuesCorrect` | `ReadyConsistent` |
| `DelayListsCorrect` | `DelayConsistent` |
| `OneTaskRuns` | `RunningIsCurrent` |
| `PoolCorrect` | `PoolConsistent` |
| `LockCorrect` | `LockHoldsCpu` |
| `NoSwitchMissed` | `NoMissedSwitch` |
| `WindowsCorrect` | `DelayWindows` |
| `DelaysCorrect` | `DelaysAreExact` |

Assumptions: the named ASSUMEs of the modules, and `YieldsReady` (the application
yields only when it is ready), which is necessary: section 7 has the sequence
that violates the first theorem without it.

None of these properties is inductive alone.  `IInv` is `KernelInv /\ ThreadInv`.

- `KernelInv(s, H)` is about a kernel s and the handles H: the ready lists hold
  exactly the live tasks that are READY or RUNNING, the delay lists exactly the
  BLOCKED ones, the terminated list tasks that are in use and that nobody has a
  handle of, and the current task is one of these.  Stating it as equations
  between sets (`Queued(s) = {...}`) makes it easy to carry through a composition
  of operators, in the middle of which lists and states disagree: lemmas such as
  `TaskReadyEffect` say what an operator does to these sets, and `SuspendInv`,
  `DelayInv`, `SetPriorityInv`, `DeleteSelfInv`, `SwitchContextInv`, `TickWakeInv`,
  ... that a whole critical section restores the invariant.
- `ThreadInv` is about the windows: who holds a slot in `arg` between two critical
  sections (`SlotsInv`), that a task that deleted itself only asks for a switch
  (`DyingInv`), and that no request is outstanding while the scheduler is locked
  (`LockInv`, without which `LockHoldsCpu` does not follow).

There is a lemma for each action; `NextInv` collects them.  `ListLemmas` has what
is needed about sequences without repetition.  `KernelInv` does without the absence
of queue calls, so `RtosQueueProofs` can build on it; only `DelayConsistent` of
`RtosTask` uses `NoEvents` (no task is on an event list).

`NoSwitchMissed` needs to know who is about to ask for a switch.  `SwitchInv` says: when
the running task is not the first of the highest priority (`~Leads`), and no switch is
pending, the running thread itself is at `sched` or `pend`, or at `created` or `woken`
with the task it is about to compare itself with in `arg` and of a higher priority
(`Outranked`), or the request is in `need_resched` under the lock.  For each
operator there is a lemma that says who may overtake the running task through it
(`DeactivateQuiet`, `SetPrioritySwitch`, ...).

`DelaysCorrect` is about arithmetic: `Timed(s, n)` says that both lists are sorted by
wake-up tick, that those of the active list are from n to `Half - 1` ticks ahead, and those
of the overflow list as much ahead when `TickMod` is added.  n is 1 between two ticks and
0 while the handler works on the list, after it has swapped the lists at the wrap
(`TickTimed`).  With it the code's two comparisons, the unsigned one and the signed
difference, order the tasks by the ticks left (`Left`), and each step is a step of
`Timers`.  An insertion of the code keeps a list sorted (`InsertOrdered` in `ListLemmas`).

`RtosQueueProofs` proves of `RtosQueue`, for any number of tasks, queues and lengths, with
the task API and an interrupt handler beside the queue calls:

| theorem | states |
|---|---|
| `QueueTypesCorrect` | `QueueTypeOK` |
| `QueueNoSwitchMissed` | `QueueNoMissedSwitch` |
| `QueuesImplementMailboxes` | `QueuesAreMailboxes` |
| `WaitersCorrect` | `WaitersConsistent` |
| `EventListsStaySorted` | `EventListsSorted`, if `set_priority` is not in `Calls` |
| `FirstComeFirstServed` | `WokenInTurn`, if `set_priority` is not in `Calls` |
| `NoWakeupLost` | `NoLostWakeup`, if neither `delete` is in `Calls` nor `peek` in `QueueCalls` |
| `RingStartsEmpty`, `BackAppends`, `FrontPrepends`, `RecvTakesFirst`, `OverwriteReplaces` | the ring buffer is a double-ended queue |

The inductive invariant is `QInv == TasksInv /\ RingsInv`.

- `TasksInv` is the kernel's `IInv` and `SwitchInv`, that a thread has the arguments of a call
  exactly while it is blocked in it or on its way out of it (`CallsInv`), that a blocked
  task is not about to do anything else (`WaitShape`), and that nobody blocks under the
  scheduler lock (`LockWaits`).  The actions of `RtosTask` keep it by the lemmas of
  `RtosTaskProofs`; for the calls, `FinishInv`, `BlockInv` and `WokenInv` say how a critical
  section may leave the kernel, and `TrySendInv` and `TryRecvInv` that a round of the loops
  of `queue.c` leaves it so.
- `RingsInv` is `RingOK(r, len, n, S)` for every queue, with n its `messages_waiting`:
  `write_to` is n slots after the first item.  The ring theorems say what a send or
  a receive then does to the contents, for every length and position of the pointers;
  the refinement of `Mailbox` is their composition with the calls (`SentStep`,
  `ReceivedStep`): a call that succeeds takes the step of the mailbox, and blocking,
  failing, waking and every call of the task API stutter.

Three more invariants, each on top of `QInv`, are about the tasks that wait.

- `WaitInv`: a task that is on an event list is blocked in a call that waits there, and its
  time runs unless it waits for ever; one that was woken has no time running.
  `StepCases` lists what a step may do to the event lists: nothing, wake the first of a list
  (`Picks`), append the caller to the one it waits in (`Joins`), or take one task out
  because its time is up, its delay is aborted, it is suspended or deleted.
- `SortedLists`: the list of every queue is ordered by the present priorities.  A priority
  that changes while its task waits breaks it, because `rtos_task_set_priority`
  does not move the task in the event list (`task.c:414`): hence the hypothesis.
  With it a step does what `WokenInTurn` says (`TurnStep`): the caller goes behind
  its own priority (`JoinsInTurn`), what else leaves a list leaves the others in their order
  (`OrderKept`), and a send or a receive wakes the first (`ServesTurn`).
- `NoneLost`: as long as a task waits in the list e, what there is for it
  (`Spare`: items for a receiver, free places for a sender) does not exceed the tasks
  that were woken from e and have not tried again.  A send adds an item and wakes
  one; a retry takes one item and counts one less (`PickRetries`, `Balance`); who times out or
  is aborted was on the list, so it is not counted.  Both hypotheses are
  necessary: a task that was woken and is deleted before it runs, by one of the same
  priority, takes the wake-up with it, and one that peeks has its wake-up for an item that it
  leaves there (run `queue_peek`).  `PoolAssumption`, that the tasks are finitely
  many, is the static pool of control blocks (`s_tcb_pool`, `task.c:24`).

`RtosMutexProofs` proves of `RtosMutex`, for any number of tasks, mutexes and priorities,
any timeouts and any depth of nesting:

| theorem | states |
|---|---|
| `MutexInvariance` | the inductive invariant `MutexInv` |
| `HoldersCorrect` | `HolderConsistent` |
| `OwnersCorrect` | `OwnerIsHolder` |
| `WokenCorrect` | `WokenIsHolder`, if neither `suspend` nor `abort_delay` is in `Calls` |
| `PriorityInherited` | `HolderOutranksWaiters`, if `set_priority` is not in `Calls` |
| `PriorityGivenBack` | `PriorityRestored`, if neither `set_priority` nor `create` is in `Calls` |

Besides `YieldsReady` they assume `OneAtATime`: the application takes no mutex while it has
another.  It is necessary, because a TCB has one `held_queue`: a second take overwrites it,
and the deletion of the task releases the second mutex only.  The run `mutex` satisfies
all these hypotheses.

`MutexInv` is the kernel's `IInv` and `TaskOK` of each task, which says for each place of a
call what the task holds and waits for.  `HolderConsistent` alone is not inductive: between
a give and the return of the call of the heir, the heir is a holder that does not know it
yet, and a recursive mutex is held before its count is set.

- `CallOK`: a task in a call is alive, has its arguments and no mutex that it was told of;
  the inner sections (take, count and give) belong to calls on recursive mutexes, and
  before the last two it is the holder.
- `HoldOK`: `mutex_holder` and `held_queue` are inverse to each other, and a task that
  holds a mutex either was told so (`owns`), or is in the take of it, with
  its wake-up or the count still to come, or in the give.
- `WaitOK`: a task on an event list is in the take of that mutex, which has a holder; one
  that is off it again has no time running and is the holder or was timed out.

A section that releases a mutex, by a give or by the deletion of its holder, is one of two:
nobody waits and the mutex is free (`Frees`), or the first that waits is the
holder, off the list, READY, with `wakeup_reason = 1` (`Passes`).  `GiveGives` and
`ReleaseHeldReleases` show this of the code's operators, in spite of the `SetPriority` and
`Sched` in between; what follows for the tasks is then shown once for both.  The actions of
`RtosTask` that release nothing (`TaskStep` without a deletion) leave the objects alone and
may only take tasks out of the event lists; they keep `TaskOK` because a task that is
waiting is not running and the other fields of its call stay (`Stays`).

The two theorems about priorities rest on an invariant each, on top of `MutexInv`.

- `Ranked`: the holder of a mutex is at least as urgent as each task that waits for it, and
  every event list is ordered by priority.  The second part is what makes the first
  inductive: a give hands the mutex to the first of the list, who must outrank the others.
  A take that waits boosts the holder and takes its place in the list (`WaitStep`); in every
  other step of a living task nobody joins a list (`Sheds`), nobody's priority falls unless
  the task gives the mutex in the same section, and the mutexes stay where they are or pass
  to the first that waits (`Heirs`), which is `Calm`.  `rtos_task_set_priority` may lower a
  holder and does not move a waiter, hence the hypothesis.
- `Settled`: the priority that a task goes back to when it gives its mutex (`Own`: what the
  mutex remembers of it, if it was boosted, or else its priority) is the one it was created
  with.  No step changes `Own` of a task that lives on (`Keeps`).  This needs that the code
  puts `original_priority` back each time `rtos_task_set_priority` has
  overwritten it (`mutex.c`; `SetAndSchedPrices`), and that a boost of a task
  that is boosted already leaves what its mutex remembers.

`WorkQueueProofs` proves of `WorkQueue`, for any number of works, clients and delays
and any range of `jiffies` that `JiffiesAssumption` allows:

| theorem | states |
|---|---|
| `WorkInvariant` | the inductive invariant `WorkInv` |
| `WorkTypes` | `WorkTypeOK` |
| `LinksAreFlagged` | `PendingIsLinked` |
| `RunningWorkIsRun` | `RunningIsRun` |
| `NoneExpiredStays` | `HandlerLeavesNoneExpired` |
| `WorkQueueImplementsWorkPool` | `QueueIsWorkPool` |

`WorkInv` adds to the properties that lincli has a work in its local variable exactly
while it is in a work function, and so for each client (`InFunction`): without it
`Finish` could clear the flag of a work that somebody else is counted for.  The
refinement needs `PendingIsLinked` only: a step of the queue is the step of the pool
of the same name, or a stutter.

`NoneExpiredStays` rests on `InTime`: the delayed list is sorted by what its works are
ahead of `jiffies` (`Ahead`), and each is ahead by less than half of the range, counted
from `MaxLate + 1` ticks over.  `jiffies` may go back, because `++jiffies` is a load and a
store and takes back the ticks in between, but never behind the value that lincli loaded:
hence the bound is on what a work is ahead plus `Lag`, the ticks since the load.  A step of
the clock moves all works alike (`AheadMoves`), so the list stays sorted over a wrap, and
`time_after` compares two of them as what they are ahead (`AheadCompares`).  The bound on
the delays in `JiffiesAssumption` is what the proof needs, without a tick to spare.

`CliSchedulerProofs` proves of `CliScheduler`, for any command table, start-up table,
lines, variables and number of blocks:

| theorem | states |
|---|---|
| `CliInvariant` | the inductive invariant `CliInv` |
| `BlocksOwned` | `BlocksAreOwned` |
| `PromptIsClean` | `PromptHoldsNothing` |
| `BlocksSuffice` | `NeverOutOfBlocks` |

`CliInv` is the ownership of the blocks and `Held`, which says in which states of the
scheduler a block may be held for what: a preparation overwrites `arg_buf`, and a
line `chain_buf`, so a block leaks unless these are free by then.  `OwnedBy` also has
`env_buf = NULL`: `handle_dispatch_result` never keeps the buffer (section 7, `cli_args`).
So beside those of the variables at most a chain, a sub-chain and `env_buf` are held while a
command is prepared; the fourth is free for its arguments, and help takes a fourth and
a fifth (`alloc_help_marks`).  Help gives both back at once, so the invariant is the same
after it as before.  A `handle_dispatch_result` that keeps the buffer takes
`DisposeDispatchHolds` and `BlocksSuffice` to be proved anew.

The same module proves `SchedulerIsCommandLine` (`RunsTheCommandLine`): the scheduler
implements `CommandLine`.  `Tracks` says how the engine, `cmd_ret` and the chains go
together, for instance that no command is prepared behind a failure and that a freed
sub-chain is an empty one.  Each action has a lemma that names its step of `CommandLine`:
`SwitchState` is `End` when it leaves `cmd_run` and a stutter otherwise, leaving a line is
`Refuse`, a command that is ready is `Run`.  What links the two is `ExtractedView`: the
command that `extract_next_cmd` returns, from whichever chain, is the head of what the
line has left (`LeftOfText`: but for a blank end).

`LineEditorProofs` proves `TerminalIsTheLine` (`TerminalShowsLine`) for any characters
and sizes, under `LineAssumption`.  That no key writes beyond a buffer is not among what it
shows: it is what the assumption, that nobody types into a line of `MaxLine` characters,
takes out of consideration.  The code would let the line grow up to `CMD_LINE_BUF_SIZE`.  `LineInv` adds that the line holds characters only and every row of the
history a text with nothing but '\0' behind it (`Holds`), so that `strlen` finds what
`history_save` stored, and never more than `MaxLine`.  From the same invariant follows
`EditorImplemented` (`LineIsAnEditor`): the line is its text before and behind `pos`, the
history the texts of its first `count` rows, and every key does to these what `Editor`
says, or nothing (`Redraw`).  The lemmas on `Text` say what the part of a row is when it
is one longer at either end; `SavedKeeps` that shifting the rows and taking the next
number of them is what `Kept` says.

`CliInputProofs` proves `EarlyBytesDropped` (`TypedAheadIsDropped`) for any bursts and
FIFO.  `InputInv` adds that the lock is set from the end of a line to the clearing of
the FIFO unless a command opened the input, and that `cli_in_pop` is never left half
done while the place changes.

It also proves `FifoIsAStream` (`InputIsAStream`), from an invariant of the FIFO alone,
`FifoInv`: the counters are in their range, no more is in than fits, and a byte that is
copied is still the first.  `Put` and `Taken` say that the difference of the counters is
the length although they wrap, `SlotWraps` that a slot is found from a wrapped counter as
from one that never wrapped.  It is here that `FifoAssumption` is needed: the size of the
FIFO divides 2^32 (`kfifo.c:30`: a slot is the counter under the mask `size - 1`, so the
size has to be a power of two; it is 128, and nothing checks it).  With any other size
`SlotWraps` fails at the first wrap.

The third theorem is `NoStrays` (`NoStrayCharacters`), if `SendsKeys`: whatever is typed is
letters, BS, ENTER, and escape sequences of three bytes, or of four if the third is a 3.
It is necessary, because these are the only lengths the ESC states of the
command line know (`EditStates`); of a longer sequence the rest would be typed into the
line.  The run `input` satisfies it.  The inductive invariant is `LineInv`:

- `PopsFit`: what the handler of a key has popped is a letter, a control character, or as
  much of an escape sequence as the state of the engine stands for.
- As long as nothing is lost, what has been popped of this key, what the FIFO holds and what
  the terminal has still to send, put behind each other, divide into keys (`Keys`).  The
  interrupt moves bytes from the last part to the second, or appends a key sequence
  (`KeysJoin`); a pop moves one from the second to the first (`PopMoves`); and
  when a key has been handled, all of it has been popped (`WholeKey`), so that the rest
  is again keys (`KeysRest`).  What `FifoIsAStream` says of the FIFO is used here for its
  contents (`Unread`).

Checked by TLC only: liveness, which is out of the prover's reach.

## 7. Where code and documentation disagree

Shown by runs:

- `queue_peek`: a peek that was blocked takes the wake-up of a send and leaves the
  item, without waking the next receiver, who stays blocked beside it.
- `mutex_nested`: a task has two mutexes, A below B; one waiter boosts it through A,
  a more urgent one through B.  The second boost remembers the first as the
  priority to go back to and, through `rtos_task_set_priority`, overwrites what A
  remembered.  After both gives the task keeps a priority that is not its own.
- `cli_args`: `dispatch_cmd` returns 0 both for a command that needs no run and when
  it has switched to `cmd_run`, so the block with the replaced variables is freed
  while the command's `argv` points into it, and `cmd_ctx.env_buf`, which
  `scheduler_cmd_run_exit` is to free, is never set.  A command that sets a variable, or
  anything else that takes a block, overwrites the arguments.

Seen while modelling, and kept out of the runs by the limits named:

- Under the scheduler lock `rtos_task_delay` returns at once with the caller BLOCKED.
  A second delay is provided for in the code (`task.c:301`); yield, or delay 0, is not,
  and links the task into the ready list, where the end of the delay links it again:
  one node twice on a circular list (`YieldBlocked`).
- `rtos_task_delay_until` computes the remaining ticks in one critical section and
  arms the delay in another, so a tick or a preemption in between is added to the
  "absolute" wake-up (`task.h:45`).
- `wakeup_reason = 2` stays behind after a plain delay; a later receive with
  `RTOS_WAIT_FOREVER` that is aborted reports a timeout.
- Aborting the wait for a mutex leads into the assertion that the woken task is the
  holder (`mutex.c:125`); there is no return code for this case.
- `workqueue.h:59` says that an external timer interrupt maintains `jiffies`; SysTick and
  `scheduler_task` both count it, without a lock, so it runs too fast by one count per
  round of lincli, or loses one.
- `cancel_work_sync` is to wait while the work runs (`workqueue.c:231`).  A work that is
  queued again while it runs may be run by a second task at the same time; the first
  to finish clears RUNNING, and a cancellation returns while the other still runs.
  Called by lincli or by the work itself it spins for ever, as does `flush_work` of a
  delayed work called by lincli, which alone counts the ticks it waits for.
- `flush_workqueue` tests its two lists one after the other without the lock; the tick
  handler in between moves a work from the second to the first, and the call returns
  with work pending.
- An escape sequence that arrives in two bursts, more than 20 ticks apart or so, is
  given up half-way with an error, and its rest is typed into the line.
  `scheduler_task` returns early on the error: no `jiffies`, no work in that round.
- `su` opens the input in its entry and nothing closes it before the prompt clears it.
- An insertion into a line of `CMD_LINE_BUF_SIZE - 1` characters writes one past the
  buffer, into `cmd_line.size` (`cli_edit.c:192`); a line of `CMD_LINE_BUF_SIZE` has no
  end in its row of the history, nor room for one in its block (`scheduler.c:418`).
  The only check is `size == CMD_LINE_BUF_SIZE` (`cli_cmd_line.c:80`), one character too
  late.  The models assume shorter lines (`MaxLine`).
- ENTER on an empty line leaves `history.index` where it was: the next arrow goes on
  from there.
- A variable with a chain inside the chain of another variable drops the rest of the
  outer one (`try_sub_chain`); one that refers to itself is expanded for ever.
- Help prints nothing, and reports nothing, when there are no two blocks for its marks
  (`cmd_dispose.c:696`): on a line inside an expansion, when two variables have been set.
- `&&` in a start-up command is an argument like any other.

## 8. What is not modelled, and why

Not yet: the start of the scheduler (the window between `is_running = 1` and the first
SVC); the output FIFO of the command line; completion, and with it TAB; how words become
arguments; who may run what.  The first is assembly around one flag, the others are
sequential code whose content, text, no property here tells apart.
Not at all: assembly register handling, fault dumps, formatted output, the build, and
the HAL and CMSIS code of the board example, which is vendor code and nine tenths of
the repository's lines.  An application that breaks the limits of section 3 is not
modelled either; the hazards say which of these would be worth a model.

## 9. The plan

1. done: `RtosSched`, `RtosTick`, `RtosTask` with `Timers`; their proofs.
2. done: `RtosRing`, `RtosQueue` with `Mailbox`; the proofs of the ring, of the kernel
   beside the queues, of the tasks that wait, and of the refinement.
3. done: `RtosMutex`, with the proofs of who holds, who waits and at which priority.  Left: an
   abstract lock that it implements.
4. done: `WorkQueue` with `WorkPool`, `StateEngine`, `CliScheduler` with `CommandLine`,
   `CliInput` with `ByteStream`, `LineEditor` with `Editor`, each with the proofs of its
   invariants and of the refinement.
5. Left: the boot window; the output FIFO.
6. done: a theorem for every invariant, action property and refinement of a passing run.

## 10. How to run it

    tlc -workers 2 -config task_api.cfg MCTask      (likewise task_timing)
    tlc -workers 2 -config queue_data.cfg MCQueue   (likewise the other queue_*)
    tlc -workers 2 -config mutex.cfg MCMutex        (likewise mutex_nested)
    tlc -workers 2 -config work.cfg MCWork
    tlc -workers 2 -config cli.cfg MCCli            (likewise cli_args)
    tlc -workers 2 -config input.cfg MCInput
    tlc -workers 2 -config line.cfg LineEditor
    tlapm ListLemmas.tla ; tlapm RtosTaskProofs.tla ; tlapm RtosQueueProofs.tla
    tlapm RtosMutexProofs.tla ; tlapm WorkQueueProofs.tla ; tlapm CliSchedulerProofs.tla
    tlapm CliInputProofs.tla ; tlapm LineEditorProofs.tla

The runs take seconds to about three minutes each, the proofs about
half an hour in all.
