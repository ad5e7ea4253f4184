# A TLA+ model of sawang

sawang (`src/gear/`) is a C library for the proxies of gonggo, a dispatcher of web socket
requests. A proxy is a process that links the library, hands five callbacks to `work()`
(`work.h`, `callback.h`) and so puts a backend service behind gonggo. gonggo itself is another
program and is not in the repository; proxy and gonggo talk through POSIX shared memories with
robust mutexes and condition variables.

This directory models a proxy from its start to its end, checks the models with TLC and proves
their main invariants with TLAPS.

## 1. The system

```
gonggo --channel shm--> channel thread --parse_queue--> comm thread --f_run--> backend
   ^                          |                             |                    |
   |                          +------ respond tables -------+---- ProxyReply <---+
   |                                                               |
   +----subscribe shm---- subscribe thread <------reply_queue------+

main: starts, activates, pauses, stops     gonggo_alive thread: waits for the death of gonggo
```

| component | state | operations | interacts with |
|---|---|---|---|
| respond tables (`respondtable.c`) | `singleshot_table`, `multirespond_table`: task key -> ids of waiting requests | set, drop, request_dup, dup_task_key | channel and comm threads, backend threads; one lock |
| parse queue, reply queue (`parsequeue.c`, `replyqueue.c`) | two FIFO queues | append, pop_head, push_head | the threads at their ends |
| channel thread (`proxychannel.c`) | channel shm: state, rid | request, subscription, drop, REST, stop request | gonggo; appends to both queues, wakes comm and subscribe threads while it holds the lock of the shm |
| comm thread (`proxycomm.c`) | the task it runs | callbacks `f_start`, `f_run`, `f_multirespond_clear`, `f_stop`; `proxy_comm_reply` | tables, queues, subscribe thread |
| subscribe thread (`proxysubscribe.c`) | subscribe shm: state; `failed_task` | deliver a reply, retry a refused one | gonggo; keeps `proxy_subscribe_lock` while gonggo decides |
| main (`work.c`) | `proxy_exit`, the resources and contexts it holds | start, activation, pause loop, stop sequence | all threads |
| gonggo_alive thread (`gonggoalive.c`) | `gonggo_dead`; the mutex gonggo holds while it lives | wait for the mutex, conclude, stop the proxy | gonggo, the same thread of every other proxy, main |
| alive mutex (`alivemutex.c`) | a mutex the proxy holds while it lives | create, lock, die, destroy | gonggo |
| activation (`proxyactivator.c`) | activation shm: state, name | wait for idle, request, wait for the verdict | gonggo, other proxies |
| configuration, log, uuid, glib stand-ins | - | sequential helpers | - |

**What is hard.** Four threads of a proxy, the threads of the backend and a second process share
two queues, two tables and two state words under six locks, and no wait has a predicate loop.
A snapshot of a table entry is used after its lock is released; a queue is found empty before
the wait; a subscription races with the drop of the last other subscriber; gonggo refuses an answer, cannot
be given one, or dies with a lock; a signal, a stop request and the death of gonggo end the
proxy while locks are held across waits. Proxies that start together talk to gonggo through one
memory and steal one another's wake-ups. A start fails half way, or finds the memories a killed
proxy left. `PROJECT.json` lists these hazards at their lines.

**What makes it correct**, by component:

- tables: a key is present iff a request waits for it; set and drop are the insertion and the removal of a pair;
- request path: each registered request is answered, by an answer to what it asked, not before gonggo has
  recorded it, and once; a topic is run while, and only while, it has subscribers;
- delivery: no reply is lost or handed over twice, whatever gonggo refuses;
- threads: none sleeps on work; no signal is lost, the one that ends the thread included;
- stop: whatever asks the proxy to stop, all threads leave, none before its turn, `f_stop` runs and main returns,
  as long as gonggo lives or no answer is out when it dies;
- watching: gonggo is taken for dead only when it is, unless another proxy was killed with its mutex; its leaving
  is noticed by all, its crash by one;
- activation: gonggo and the proxies agree on how many are active, and on who, as long as gonggo keeps a verdict until its
  proxy has read it or given up; no proxy waits for ever;
- life cycle: no thread runs without what it uses, everything is given back, and gonggo can tell
  the end of the process however it comes.

## 2. The modules

| module | models | lines of the code |
|---|---|---|
| `RespondTable` | operators on a respond table, each one critical section | `respondtable.c` |
| `RequestFlow` (extends `RespondTable`) | the path of requests and replies through a running proxy | `proxychannel.c`, `proxycomm.c`, `proxysubscribe.c`, queues |
| `RequestLedger` | what that path promises gonggo, without threads, tables or queues; `RequestFlow` implements it | the same, abstractly |
| `MCRequestFlow` | the symmetry of request ids for TLC | - |
| `Shutdown` | all threads, locks and waits during the stop, with the death of gonggo; requests only counted | `work.c`, stop functions and loops of the threads |
| `GonggoAlive` | one gonggo and several proxies at its robust mutex | `gonggoalive.c` |
| `Activation` | proxies that start together and one gonggo at the activation memory | `proxyactivator.c` |
| `ActivationTurns` | what that comes to for gonggo and the proxies, without locks, waits and time; `Activation` implements it | the same, abstractly |
| `Lifecycle` | the start of a process, its failures, its stop, its kill and its next life | `work.c`, the creation and destruction functions, `alivemutex.c` |
| `RequestFlow_proofs`, `RequestService_proofs`, `RequestAnswer_proofs`, `RequestLedger_proofs`, `Shutdown_proofs`, `GonggoAlive_proofs`, `Activation_proofs`, `Lifecycle_proofs` | theorems | - |

How they fit together: `Lifecycle` is the frame of a process. Where it says only that a thread runs,
`RequestFlow` says what the threads do while the proxy works and `Shutdown` how they come out of their
waits; where it says that the activation has an outcome, `Activation` says how that comes about; its
`AliveFinds` is the verdict of `GonggoAlive`.

### RespondTable

A table is a function from the keys present to nonempty sets of ids. `respond_table_set` never adds
an id twice, so a set loses only the order of an array, which nobody but the reader of the JSON
answer sees. `respond_table_dup_task_key` iterates over a hash table: it returns any of the keys
that hold the id.

### RequestFlow

- A step of a thread ends at its next critical section or blocking call. `channel_pc`, `comm_pc`,
  `subscribe_pc` and `call[t].pc` are those places; e.g. `ChannelSetsRequest` is the critical
  section of `proxychannel.c:333` with what precedes it, `ChannelAppendsJob` that of line 338.
- A thread holds its own lock except before its loop and while it waits (`LockFree`); `waiting` and
  `woken` stand for `pthread_cond_wait` before and after a signal. `proxy_comm_awake` and
  `proxy_subscribe_awake` need that lock: the caller blocks while the thread works, and a signal to a
  thread that does not wait is lost.
- `asked[r]` is the request of an id: a single-shot service, a topic, a drop of a request or an
  invalid one. The service and payload the code prints into a task key are one model value. This
  assumes that the key the channel prints equals the one `task_key_from_reply_arg` rebuilds, which
  holds when gonggo writes the service before the payload and the parser normalises both.
- `call[t]` is the frame of a `proxy_comm_reply` in the comm thread or in a backend thread; several
  may be between the snapshot (`ReplyLooksUp`, `ReplyFallsBack`), the drops (`ReplyDrops`, one id per
  critical section) and the append.
- A call of `ProxyReply` from inside `f_run` is one of the comm thread (`Comm`).
- gonggo (`GonggoRequests`, `GonggoConfirms`, `GonggoTakes`) and the backend (`BackendReplies`)
  are external. gonggo gives each request an id of its own, puts one only into an idle channel,
  and reacts to the states the proxy signals. The backend answers a single-shot task once per `f_run` and pushes to a
  topic between `f_run` and `f_multirespond_clear`, and it does not answer a task nobody gave it.
- `Faults` chooses what may go wrong: `"shm"`, a shared memory cannot be opened or created (CHANNEL_FAILS, a
  failed answer); `"refuse"`, SUBSCRIBE_FAILED; `"spurious"`, a wake-up of the comm or subscribe thread nobody
  signalled; `"abandon"`, one of the channel thread.
- After a spurious wake-up the channel thread gives up a request it has acknowledged (`proxychannel.c:289`). Such a request is in
  `abandoned`, and gonggo, which has read ACKNOWLEDGED, may record it all the same (`GonggoRecordsAbandoned`). `Accepted` are
  the recorded requests the proxy has not given up: those it owes an answer.
- `registered`, `delivered`, `abandoned`, `appended`, `handed`, `retried` and the `key` of a reply are history: what gonggo
  has confirmed and got, how many replies were put back before the last rest of the subscribe thread, and what a reply is about.
- The two null callbacks the code tolerates are taken as given: `f_run` and `f_multirespond_clear`
  exist. `proxy_comm_drop_multirespond_request` is not modelled, since no task reaches it: the
  channel thread turns every `gonggorequestdrop` into a drop task or rejects it.

### RequestLedger

The state is what gonggo and the proxy owe one another: what each id asked, which ids gonggo has
recorded, the replies still to be taken, and how often each id was answered. `Answer` needs
`Owing`: somebody waits, every id named is recorded and asked exactly this, and the multirespond flag
says whether gonggo keeps the id. `Deliver` takes a reply once. The refinement in `RequestFlow` is

    Ledger == INSTANCE RequestLedger WITH Kept <- MultiKeys, pending <- Undelivered, outstanding <- Outstanding

`Undelivered` are the replies in the queue, among the refused ones, and in the hand of the subscribe
thread until gonggo takes them. Two replies may be equal (a topic that pushes twice), so `pending` is a
set with the number `outstanding` beside it. The code lets a reply travel through a queue, a refusal, the
list of failed tasks and the queue again: all of that is stuttering, and every step that makes or loses
a reply otherwise is not a step of the ledger. What the ledger does not promise, the code does not keep: that an id is
answered once (finding 1), and that replies are taken in the order in which they were made.

### Shutdown

The same threads, those of the backend included, with less data: queues are lengths, and a task may or may not be
answered. In return it has every lock the threads hold across waits, the termination flags, the two state
words with the accesses the code makes without a lock (`SubscribeTests`, `SubscribeResets`), REST and
stop requests, EOWNERDEAD, the signal and main's stop sequence in its order (`MainDies`, `proxy_channel_stop`,
`proxy_subscribe_stop` and `MainEndsSubscribe`, `gonggo_alive_stop`, `proxy_comm_stop`, `MainJoins`).

- `orphaned` is the set of locks gonggo held when it died; the next owner gets EOWNERDEAD and makes
  the mutex consistent.
- `ChannelWakes` is the channel thread after a wait, in the loop (`LoopWakes`), in the exchange
  (`ExchangeWakes`) or in a REST exchange (`RestWakes`). When the memory of a REST answer cannot be
  made, the thread goes back to its loop without a signal to gonggo (`RestUnanswered`, `proxychannel.c:425`).
- A thread of the backend appends a reply (`BackendReplies`) and awakes the subscribe thread in a step of its own
  (`BackendAwakes`, `calling`), once `f_run` was called (`served`) and whether gonggo lives or not. `MaxPushes` bounds these
  replies. Two things are assumed: `f_stop` ends the threads of the backend and waits for the calls they are in, since the queues
  and contexts they use are destroyed afterwards; and they do not push for ever during the stop, since the subscribe thread
  does not test its flag before its queue is empty (`proxysubscribe.c:105`).
- `AliveFinds` is the death of gonggo, found. When another proxy has made the mutex unrecoverable before, this one
  spins and never finds it (`OtherProxyFinds`, finding 5).
- `Terminate` is whatever sets `proxy_exit` and signals main, at every place of main: a signal handled between the test of
  `proxy_exit` and `pause` is lost (finding 4).
- Initially the threads run and the activation has succeeded (`main_pc = "test"`) or failed (`"die"`).
- Spurious wake-ups are left to `RequestFlow`. Signals reach main, the thread the kernel prefers for a
  signal of the process. While `gonggo` is alive it does not answer a state word that says TERMINATION.
- `Faults`: `"crash"`, gonggo dies; `"refuse"`, it refuses an answer or one cannot be created.

### GonggoAlive

Each proxy is a process; `pc` is that of its gonggo_alive thread: `watch` (before the lock), `locked`, `unlinks`, `holding`
(after status 0, before the unlock), `cleanup`. `mutex` follows the rules of a robust mutex: `inconsistent` after the death of its
owner, `unrecoverable` when unlocked in that state. A thread that gets ENOTRECOVERABLE spins without changing anything, so that it has
no action.

- The verdict (`AliveConcludes`) and the three unlink flags (`AliveUnlinks`, which counts them) are steps of their own: the
  asynchronous cancel of main (`gonggo_alive_stop`, `AliveCancelled`) may come between any two of them.
- `Faults`: `"kill"`, a proxy is killed, with the mutex if it has it; `"late"`, a proxy starts on what a crash left:
  `pthread_mutex_trylock` then takes the inconsistent mutex, `gonggo_alive_create_shm` unmaps it, and nobody gets it again. The
  theorems hold with `"late"`; no run has it, because the mutex is then lost and what the liveness properties say of the others fails.
- gonggo locks the mutex once and keeps it; a crash before that lock is not modelled. When the mutex comes from a dead proxy,
  gonggo is assumed to make it consistent. A proxy that gets it first finds a living gonggo dead (section 3).

### Activation

- One memory holds the state word and the name of the requester; one lock and one condition variable
  serve the proxies that wait for IDLE and the one that waits for its verdict. `pthread_cond_signal`
  wakes any sleeper.
- Time is in units of five seconds, so that ACTIVATION_IDLE_TIMEOUT is 1 and
  ACTIVATION_REQUEST_RESPOND_TIMEOUT is 2. `Tick` happens only when nothing that takes less is left
  to do (`Urgent`): steps are milliseconds, waits are seconds.
- A critical section is a step. `IdleTest` is the loop of `proxy_activation_get_map` with the request
  that follows under the same lock: it waits, asks or gives up (`Busy`, `LastTimeout`).
- `lock = "kept"` stands for ever: both busy paths and EOWNERDEAD unmap the memory with the lock in
  their hands. On `Busy` the unlock then touches unmapped memory, and the process crashes or goes on.
- `Kill` takes a proxy away at any point, in a critical section or outside.
- gonggo is external (`GonggoAnswers`, `GonggoIdles`): it answers a request after `delay` units, goes to
  IDLE when its verdict is acknowledged, and withdraws a verdict nobody acknowledges after some units of its choice, for each
  verdict anew. `patience` is the set of those it chooses from, and never changes. Nothing in `src/` says how long gonggo keeps a verdict, least of all
  FAILED and PROXY_DYING, which nobody acknowledges, so that the assumptions on the constants admit any such set. `Patient` says
  that gonggo keeps every verdict longer than ACTIVATION_REQUEST_RESPOND_TIMEOUT; properties that need it name it
  (`VerdictIsOwn`, `GrantsAreTaken`). Without it a proxy may read the verdict of another (section 3).

### ActivationTurns

The conversation (`talk`), the proxy it is about, those who have asked and wait for an answer (`pending`), the proxies gonggo counts
as active and those that take themselves for activated. `TakeUp(p)` takes up a grant, once, by one of those who wait; `Leave(p)` is one
that gives up, dies or is refused; `Withdraw` takes back a grant nobody took up; `Close` ends what is over. When gonggo is `patient`, only the
proxy that asked takes up the grant, nobody waits any more at a `Withdraw` or a `Close`, and at a `Close` both sides agree on who is active. The
refinement is

    Turns == INSTANCE ActivationTurns
               WITH talk <- Talk, asking <- requester, pending <- Pending, active <- Active, patient <- Patient

A proxy that waits for its turn, loses a wake-up or is turned away does not move the conversation: all of that is stuttering.

### Lifecycle

- `main_pc` and `turn` are the place of main in `work`; `held` is what the process has acquired, `files`
  which shared memories of the proxy exist, `mutex` and `alive` what is in the alive memory. Every
  step of the start may fail (`Faults`), and the code's own way back is taken: destroy what was made, or
  go through the stop when a thread cannot be created.
- `thread[t]` is reduced to what matters here: created, running, in a callback, ended. A callback keeps the lock of its
  loop, so `StopThread` waits for it.
- `Opened` is the `shm_open` that is tried without and then with O_CREAT; the code looks at `errno`
  whether or not the first call failed, so an ENOENT left by an earlier memory opens an existing one
  twice (`noent`, `leaked`). `errno` is clean when `work` is entered.
- `Vanish` is the end without a word: a kill, or the segmentation faults of an unchecked `mmap`
  (`proxychannel.c:184`) and of `gonggoalive.c:131`. A robust mutex the process held is then `orphaned`.
- `Restart` runs `work` again over the memories that are there, when gonggo has noticed the former
  end or has itself been started again.
- `AliveUnlinks` sets the three unlink flags one after another, and `AliveCancelled` may come between.
- `alive_mutex_destroy` destroys the mutex in a memory that outlives the process (`mutex = "destroyed"`, `alivemutex.c:85`);
  the next life initialises it again.
- The channel and comm threads go on with what they have when gonggo is dead: `Callback` does not ask for gonggo.
- The proxy is alone with gonggo. What the death of another proxy does to the verdict is in `GonggoAlive`.
- `faultless` is history: nothing failed, nobody was killed, no cancel met a crash.
- `f_start` runs after the started flag is set, so that `f_payload_parse` may run before it returns: this behaviour is in the
  model. The signal that comes between the test and the pause is left to `Shutdown`.
- A NULL callback (`work.c:49`) makes `work` return without `clean_up`: identifiers and log stay allocated. That end is
  `"refused"`, which `AllGivenBack` does not cover.

## 3. The runs

| run | instance | shows |
|---|---|---|
| `flow_safety` | 3 ids, 1 service, 1 topic, 1 backend thread and the comm thread as repliers, 1 push, failing memories, refusals and spurious wake-ups (3,175,102 states) | `TypeOK`, `RepliesMatchRequests`, `AnswerAfterRegistration`, `ServiceRunsWhileSubscribed`, `NoOrphanService`, `NoRequestLost`, `NoReplyLost`, `CommNeverSleepsOnWork`, `SubscribeNeverSleepsOnWork`, and the refinement `LedgerKept` |
| `flow_liveness` | 2 ids, 1 push, refusals and abandoned requests, `FairSpec` (161,360 states) | `RequestsAnswered`: an accepted request is answered in the end, or refused and put back for the next awake; `DropTakesEffect`; `AbandonedLeavesNoTrace`: a request given up in the middle of its exchange is nowhere in the proxy, though gonggo may record it; `AnswerAfterRegistration` |
| `flow_singleshot_once` | 3 ids | violation of `SingleShotOnce` |
| `flow_drop_answered` | 3 ids | violation of `DropAnswered` |
| `stop` | 2 exchanges, 1 push, crash and refusals (1,459,417 states) | `TypeOK`, `StopIsNotMissed`, `WakeUpsAreDue`, `NobodyLeavesEarly`; `StopHangsOnlyOnAnswers`: the stop ends whenever gonggo lives, and when it is dead unless the subscribe thread waits for its verdict for ever |
| `stop_crash` | 2 exchanges, crash at any moment | violation of `StopCompletes` |
| `stop_signal_race` | 1 exchange | violation of `SignalStartsStop` |
| `alive` | 3 proxies that may be killed (8,602 states) | `TypeOK`, `VerdictIsRight`, `GonggoRegains`, `LeavingNoticed`, `CrashFound` |
| `alive_crash` | 2 proxies | violation of `CrashNoticed` |
| `activation` | 3 proxies, delay 0 or 1, patience {3} or {0, 3} (267,529 states) | `TypeOK`, `VerdictIsOwn`, `GrantsAreTaken`, `GrantsAreCounted`, `ServedInTurn`, `ActivationEnds`, and the refinement `TurnsKept`, each with a gonggo that outwaits the proxies and with one that may withdraw a verdict at once |
| `activation_busy` | 3 proxies, delay 0 or 1, patience 3 | violation of `BusyLeavesTheLock` |
| `lifecycle` | all faults, any number of lives (20,474 states); deadlock checked | `TypeOK`, `NothingUsedAfterDestroy`, `AllGivenBack`, `StopIsLastCallback`, `MutexTellsTheEnd`, `MemoriesFollowGonggo`, `NoDescriptorLost`, `StopEnds` |

**Bounds.** Three ids are what the races need: two requests of one task, or two subscribers, and a
third that drops or repeats one of them. One service and one topic suffice because tables treat keys independently; the second
replier makes two snapshots coexist. `MaxPushes` only bounds how often a topic replies. Abandoned requests are in the smaller run because
with three ids and all the other faults the state space is out of reach; the theorems are about all of them together. In
`Shutdown` two exchanges suffice for a reply to be with gonggo while the channel or the comm thread, with the
second one, is blocked in the awake of the subscribe thread, and one push for a thread of the backend to reply after
the crash and between the stop of one thread and that of the next. In `GonggoAlive` three proxies are one that is killed with the mutex, one
that spoils it and one that watches on. In `Activation` three proxies are one that talks to gonggo, one that waits for its turn and one that
steals a wake-up or is killed; a delay of one unit makes gonggo slow enough for both time-outs to matter; a patience of 3 is the
shortest that outwaits the proxies, and 0 the one that never does. With
`delay = 0`, two participants and a patience of at most three nobody is turned away (`ServedInTurn`). Each of the conditions (`TwoAtOnce`)
is needed, as TLC shows at once when it is dropped: with a third participant, or with a patience of four when the
other proxy is killed and its signal costs the waiting one a wait, the waits run out first. Three is the longest
patience the condition admits, so that the run is at its edge. `Lifecycle` is finite without a bound: the run with all faults has the
behaviours of every smaller set of faults, so that its safety properties are settled for every value of `Faults`.

The request flow runs end when all ids are used, the stop runs with a crash end in the deadlock finding
3 describes, and activations end: `CHECK_DEADLOCK FALSE` there.

**Fairness.** Weak fairness of each thread: the scheduler runs a runnable thread, critical sections and
callbacks are finite. Weak fairness suffices for locks because the requests that keep a lock busy are bounded. gonggo
is fair in answering a state it was signalled (`GonggoConfirms`, `GonggoTakes`), the backend in answering a
single-shot task and in going on with a call of `ProxyReply` it is in (`BackendAwakes`). Nothing is assumed of new requests, pushes,
drops, signals or faults. `GonggoLocks` is strongly fair: its competitors sleep after every release (`gonggoalive.c:70`), and `GonggoRegains`
relies on that; a competitor that takes the mutex again at every release is assumed away. In `Activation`
proxies and gonggo are weakly fair, and so is `Tick`: time-outs are what the code relies on. In `Lifecycle` main and
every thread are weakly fair, and `StopThread` strongly: requests are not bounded there, and main
gets the lock of a loop that gives it up again and again. All of that is assumed only while gonggo lives, since a
thread may wait for a dead gonggo for ever (finding 3); hence `StopEnds` asks for a living gonggo, and what becomes of a stop after a crash is the
question of `Shutdown`, which has the waits.

**Findings** (runs that expect a violation; details in `PROJECT.json`).

1. `SingleShotOnce`: `proxy_comm_reply` forgets ids only when there are two or more
   (`proxycomm.c:155-167`); one alone stays in the table and is answered again.
2. `DropAnswered`: the drop task is queued before its id is in the table (`proxychannel.c:313-314`).
3. `StopCompletes` under a crash: locks are held across the wait for a gonggo that is dead
   (`proxysubscribe.c:253`), and an unlocked reset overwrites the termination (`proxysubscribe.c:104`, `125`).
4. `SignalStartsStop`: test and `pause` are not atomic (`work.c:151-153`).
5. `CrashNoticed`: with two proxies or more, one of them makes the mutex unrecoverable for the others
   (`gonggoalive.c:98`).
6. `BusyLeavesTheLock`: a proxy that is turned away as busy keeps the lock of the activation memory it has
   unmapped (`proxyactivator.c:137-140`), and no proxy can be activated afterwards.

Three more things the code does are conditions in properties that hold, and no runs of their own:

- EOWNERDEAD is taken for the death of gonggo, but comes from any owner: a proxy killed with the mutex (`gonggoalive.c:56-68`) before
  gonggo has locked it makes another stop and unlink its memories while gonggo lives (`gonggoalive.c:57`). `VerdictIsRight` admits that
  for a gonggo that is starting, when another proxy was killed, and in no other case.
- A proxy reads the verdict without looking whose it is (`proxyactivator.c:63-76`). When gonggo does not keep a refusal until
  it is read, the proxy takes the SUCCESS of the next one (`SuccessIsForReader` is false). `VerdictIsOwn` and `GrantsAreTaken` ask for a
  patient gonggo; `GrantsAreCounted` does not.
- A cancel loses the news of a crash when it comes after the lock and before the verdict (`gonggoalive.c:56-57`): the mutex is
  then made unrecoverable by a proxy that has concluded nothing. `CrashFound` names that case (`FindingLost`).

## 4. The proofs

The proofs hold for any constants that satisfy `FlowAssumption`, `StopAssumption`, `AliveAssumption`,
`ActivationAssumption` and `LifecycleAssumption`, and for every combination of faults. Every invariant the passing runs check is
a theorem but one, and so are the two refinements. The one is `GrantsAreCounted`, which needs the cardinality of sets.
No assumption is made on the patience of gonggo: where a property needs it, the condition is in the property.

- `RequestFlow_proofs`:
  - the respond tables first: `set` and `drop` keep `IsTable`, and `TableIsSetOfPairs` identifies a table with the
    set of pairs it stands for.
  - `TypeCorrect`. `TypeOK` is not inductive: what a thread writes comes from the request or task it
    holds, so `TypeInv` adds the shape of that data at each place (`ChannelShape`, `CommShape`,
    `CallShape`, `SubscribeShape`). The proof has a lemma per thread.
  - `RepliesAreRight` and `NoEarlyAnswer` from `RequestInv`: every id in a table, in the frame of a call,
    in the channel past the confirmation or in a pending reply is registered and asked for the key
    it is filed under. The strengthening is needed because a reply is made from a snapshot of a table entry, and
    an entry from the channel: the property must hold upstream to hold of a reply.
  - `RepliesAreConserved`: the count in `NoReplyLost` through append, pop, failure, push back and delivery.
  - `CommIsAwakened` from `RestInv`, which adds the moment between the empty queue and the wait.
  - `SubscribeIsAwakened` from `SleepInv`: what is in the queue of a sleeping subscribe thread was put back before it
    rested (`retried`) or belongs to somebody who has yet to awake it. It holds under every fault; a reply that was put back is
    delivered with the next awake, which the code does not owe. `CommCallInv` says when the comm thread is to awake.
  - `AbandonedIsForgotten`: `AbandonedLeavesNoTrace` needs to follow the id from the channel, where it may still be when it
    is given up, to every place a request can be.
  - `SubscribersAreServed`: `ServiceRunsWhileSubscribed` is inductive with `TypeInv`; the case that
    matters is the drop that leaves a topic without subscribers while another subscription runs.
- `RequestService_proofs`: `NoTopicIsOrphaned` from `OrphanInv`. A task may wait in the queue long after its
  subscriber was put into the table; it must not start a topic nobody subscribes to any more. The invariant is
  about the order of the queue: a drop of an id is behind the task that id has queued (`QueueInv`,
  `DropAhead`), because the same thread puts the id into the table, queues its task and looks up the ids of drops (`FreshInv`,
  `AppendInv`, `DropsKnown`).
- `RequestAnswer_proofs`: `RequestsAreNotLost` from `AnswerInv`. `NoRequestLost` names the places at which an accepted request may
  be; that it is inductive needs that an id is not recorded twice, nor recorded anew once its exchange is over (`Unrecorded`), that a call drops only
  ids its reply will carry (`DropsCarried`), that what gonggo has taken reached it (`TakenInv`), and whose
  call the comm thread is in (`CommCallInv`).
- `RequestLedger_proofs`: `RequestFlowImplementsLedger`, `Spec => LedgerKept`: the initial states map to initial
  states, and every step is a step of the ledger or leaves it alone. It rests on `TypeInv`, `RequestInv` and `CarriesSomebody` (no
  reply is made for an empty snapshot).
- `Activation_proofs`:
  - `ActivationTypeCorrect` for any patience.
  - `VerdictsAreOwn` from `OwnInv`, under `Patient`. The argument is about time: a conversation
    belongs to the proxy whose name is in the memory (`OneConversation`), and the proxy gives up waiting before gonggo gives
    up the verdict (`EndsInTime`).
  - `NoGrantIsLeft`: `GrantsAreTaken`, the other direction of `VerdictIsOwn`, from the same invariant.
  - `ActivationImplementsTurns`, `Spec => TurnsKept`, whatever the patience: the steps that write the state word are those of
    `ActivationTurns`. That who asks is neither waiting nor counted already is `GrantsAreAsked`; what `ActivationTurns` adds for a patient
    gonggo follows from `OneConversation`, `VerdictIsOwn` and `GrantsAreTaken`.
  - `TwoAreServed`: `ServedInTurn` under `TwoAtOnce`, again about time, and without `Patient`. A proxy waits for its turn only when
    the other has asked (`RequesterHasAsked`), the time its waits last (`Left`) exceeds what gonggo still needs, and it is awake when
    the memory is idle or soon (`WaitsInTime`). The signal of an answer that goes to the wrong proxy costs it one wait, which is
    why `TwoAtOnce` asks for one to spare.
- `Shutdown_proofs`:
  - `ShutdownTypeCorrect`, and `StopReachesThreads`, that `StopIsNotMissed` holds with gonggo alive or dead. One
    invariant per thread (`ChannelTold`, `SubscribeTold`, `CommTold`) relates its termination flag to the state
    word or signal that tells it.
  - `WakeUpsAreRight`: `WakeUpsAreDue` says that a thread waits for an answer exactly as long as the state word awaits one. It is
    inductive once a thread at work is known to have no wake-up left (`WokenWaits`), and the channel thread to go no
    further once told (`ChannelTold`).
  - `ThreadsLeaveInOrder`: `NobodyLeavesEarly` from `StopInOrder`, which relates each flag and each TERMINATION to the
    place of main. That no task is appended once `f_stop` may run rests on the order of main's stops and on the lock
    `proxy_channel_stop` waits for.
- `GonggoAlive_proofs`: `AliveTypeCorrect` and `VerdictsAreRight`, with kills, cancels and late starts, from `TracesOfGonggo`: flag and mutex
  tell how gonggo ended, or that a proxy died with the mutex while gonggo was starting, and the count of unlink flags goes
  with the place of the thread.
- `Lifecycle_proofs`: all seven invariants of `Lifecycle`, from one invariant, `LifeInv`. Its parts say, for every place of
  main, which turn it is at (`TurnInv`), what has been acquired (`HeldInv`), which threads exist, are started or are over
  (`ThreadInv`), which were told to end (`ToldInv`), what is known of the death of gonggo and which unlink flags are set
  (`DeathInv`, `UnlinkInv`), what the alive mutex tells (`MutexInv`), which memories exist (`FilesInv`) and what errno was left
  (`ErrnoInv`). Each part has a lemma, which cites the others it needs:
  - `LifecycleTypeCorrect`, `ThreadsHaveResources` (a thread lives only while main has not come to `destroy`: `HeldInv`, `ThreadInv`),
    `EverythingIsGivenBack`.
  - `NoCallbackAfterStop`: the channel thread was told before the comm thread, at a moment it ran no callback, since
    `StopThread` takes the lock of its loop; told, it starts none.
  - `MutexIsRight`: the flag is cleared together with the lock (`alive_mutex_die`), what a kill leaves is orphaned, and a new life
    sets both again only after gonggo has noticed the former end, with nothing granted.
  - `MemoriesAreRight`: the flags are set one after another, so that only `DeathInv`, which follows the thread of gonggo_alive through
    them, says that the flagged memories are always the first of that order, and all when the thread ends without a cancel.
  - `DescriptorsAreKept`: as long as nothing fails the memories are missing from the end of the order in which they are opened
    (`OpenedInOrder`), hence an ENOENT left behind is never met by a memory that exists.

Only model-checked: `GrantsAreCounted`, and the liveness properties, which are beyond the prover (`RequestsAnswered`,
`DropTakesEffect`, `StopHangsOnlyOnAnswers`, `GonggoRegains`, `LeavingNoticed`, `CrashFound`, `ActivationEnds`, `StopEnds`).

## 5. Not modelled

- `confvar.c`: a configuration file is split into names and values before `work` is called; text
  handling without state that another part shares.
- `log.c`: formatting and output. A thread that is cancelled inside `proxy_log` is below the steps of the models.
- `proxyuuid.c`, `util.c`, `glibshim.c`: wrappers of libraries; that ids are unique is assumed.
- JSON and the layout of shared memories: a message is a model value. The content of a REST answer.
- `malloc` that fails, which the code does not check.
- `respond_table_remove`, `respond_table_task_exists`, `respond_table_request_exists`: without a caller.
  `proxy_comm_drop_multirespond_request`: no task reaches it.

Hazards the code makes no promise about have a note in `PROJECT.json`: a refused reply waits for the next awake
(`proxysubscribe.c:121`) and may be overtaken (`proxysubscribe.c:128`), a copy of subscribers may be older than a drop
(`proxycomm.c:147`), tasks queued at the stop are freed (`replyqueue.c:23`), gonggo may wait for an answer to a request the proxy has given up
(`proxychannel.c:289`). The models have the behaviour. A start after a crash takes the mutex of gonggo with it (`gonggoalive.c:131`):
`GonggoAlive` has it as the fault `"late"`, which no run has.

## 6. Plan

Done: the modules of section 2 in the order `RespondTable`, `RequestFlow`, `Shutdown`, `GonggoAlive`, `Activation`,
`RequestLedger`, `Lifecycle`, `ActivationTurns`, with the proofs of section 4.

What could be added: an abstract stop (running, stopping, stopped) that `Shutdown` implements while gonggo lives; the
text algorithms of `confvar.c` and `glibshim.c` against reference definitions.
