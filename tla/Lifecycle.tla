------------------------------ MODULE Lifecycle ------------------------------
(***************************************************************************)
(* The life of a proxy process (work.c): main acquires the resources and   *)
(* contexts one by one, starts the four threads, has the proxy activated,  *)
(* and gives everything back when it stops or a step fails.  The process   *)
(* may be killed and started again; the shared memories of the proxy       *)
(* outlive it.                                                             *)
(*                                                                         *)
(* The threads are reduced to what they need and to the callbacks they     *)
(* run.  How they are brought out of their waits is in Shutdown, how       *)
(* gonggo answers in Activation, how its death is found in GonggoAlive.    *)
(* The proxy is alone with gonggo here: how the death of another proxy is  *)
(* taken for the death of gonggo is in GonggoAlive.                        *)
(***************************************************************************)
EXTENDS Naturals, Sequences

CONSTANT Faults  \* what may fail, a subset of FaultKinds

\* A NULL callback; sigaction, shm_open, mmap or pthread_create fails; the
\* process is killed.
FaultKinds == {"null", "sigaction", "open", "map", "thread", "kill"}

ASSUME LifecycleAssumption == Faults \subseteq FaultKinds

\* Threads and their contexts, in the order of work.c.
ThreadOrder == <<"channel", "subscribe", "alive", "comm">>
Threads == {ThreadOrder[i] : i \in 1..4}

\* The shared memories of the proxy.
Files == {"alive_mutex", "channel", "subscribe"}

VARIABLES
  main_pc, turn,            \* turn: the context or thread main is at
  held,                     \* resources and contexts of the process
  unlink,                   \* the shm_unlink flags
  noent, leaked,            \* errno is ENOENT; memories with a descriptor lost
  thread, cancelled,        \* the threads; gonggo_alive has been cancelled
  ended,                    \* the threads told to end
  proxy_exit, gonggo_dead,
  files,                    \* shared memories of the proxy that exist
  mutex, alive,             \* the alive mutex of the proxy and its flag
  gonggo, granted,          \* gonggo; it counts the proxy as active
  faultless                 \* history: nothing failed, nobody was killed

errnoVars   == <<noent, leaked>>
threadVars  == <<unlink, thread, cancelled, ended, proxy_exit, gonggo_dead>>
processVars == <<main_pc, turn, held, errnoVars, threadVars>>
mutexVars   == <<mutex, alive>>
gonggoVars  == <<gonggo, granted>>
vars == <<processVars, files, mutexVars, gonggoVars, faultless>>

Gone == {"refused", "failed", "stopped", "killed"}

\* A process at the entry of work; errno is clean.
Init ==
  /\ main_pc = "work" /\ turn = 1 /\ held = {} /\ unlink = {} /\ noent = FALSE /\ leaked = {}
  /\ thread = [t \in Threads |-> "none"] /\ cancelled = FALSE /\ ended = {}
  /\ proxy_exit = FALSE /\ gonggo_dead = FALSE
  /\ files = {} /\ mutex = "free" /\ alive = FALSE
  /\ gonggo = "alive" /\ granted = FALSE /\ faultless = TRUE

Fault(kind) == kind \in Faults /\ faultless' = FALSE
NoFault == UNCHANGED faultless

\* The process ends without a word: killed, or by a segmentation fault.  The
\* kernel marks a robust mutex it held.
Vanish ==
  /\ main_pc' = "killed" /\ held' = {}
  /\ thread' = [t \in Threads |-> "none"]
  /\ mutex' = IF mutex = "held" THEN "orphaned" ELSE mutex
  /\ UNCHANGED <<turn, unlink, errnoVars, cancelled, ended, proxy_exit, gonggo_dead, alive,
                 gonggoVars>>
-----------------------------------------------------------------------------
(* The start of work.                                                      *)

Resources == {"uuid", "log", "tables", "queues", "alive_mutex"}

\* clean_up: what the resources are when it has run.
CleanedUp(resources) == resources \ Resources

\* Its last step when the memory of the alive mutex is mapped: the mutex in it
\* is destroyed, also when the memory is kept.
alive_mutex_destroy == mutex' = "destroyed" /\ UNCHANGED alive

work ==
  /\ main_pc = "work"
  /\ held' = {"uuid", "log"}
  /\ \/ main_pc' = "sigaction" /\ NoFault
     \/ Fault("null") /\ main_pc' = "refused"
  /\ UNCHANGED <<turn, threadVars, errnoVars, files, mutexVars, gonggoVars>>

\* sigaction, and the tables and queues, which cannot fail.
SetsUp ==
  /\ main_pc = "sigaction"
  /\ \/ main_pc' = "alive_mutex" /\ held' = held \cup {"tables", "queues"} /\ NoFault
     \/ Fault("sigaction") /\ main_pc' = "failed" /\ held' = CleanedUp(held)
  /\ UNCHANGED <<turn, threadVars, errnoVars, files, mutexVars, gonggoVars>>

(***************************************************************************)
(* The memory is opened, and opened again with O_CREAT if errno is ENOENT, *)
(* which may be left from an earlier call: the first descriptor is lost.   *)
(***************************************************************************)
Opened(file) ==
  /\ NoFault
  /\ files' = files \cup {file}
  /\ noent' = (noent \/ file \notin files)
  /\ leaked' = IF noent /\ file \in files THEN leaked \cup {file} ELSE leaked

\* shm_open fails for another reason than a missing memory, or creating fails.
NotOpened(file) ==
  /\ Fault("open") /\ noent' = FALSE
  /\ leaked' \in {leaked, IF noent /\ file \in files THEN leaked \cup {file} ELSE leaked}

alive_mutex_create ==
  /\ main_pc = "alive_mutex"
  /\ \/ /\ Opened("alive_mutex")
        /\ main_pc' = "context" /\ held' = held \cup {"alive_mutex"}
        /\ mutex' = "free" /\ alive' = TRUE
     \/ /\ NotOpened("alive_mutex") /\ UNCHANGED <<files, mutexVars>>
        /\ main_pc' = "failed" /\ held' = CleanedUp(held)
     \/ /\ Fault("map") /\ files' = files \cup {"alive_mutex"} /\ UNCHANGED mutexVars
        /\ main_pc' = "failed" /\ held' = CleanedUp(held)
        /\ UNCHANGED <<errnoVars>>
  /\ UNCHANGED <<turn, threadVars, gonggoVars>>

Context == ThreadOrder[turn]

ContextMade ==
  /\ held' = held \cup {Context}
  /\ IF turn = 4 THEN main_pc' = "create" /\ turn' = 1
                 ELSE turn' = turn + 1 /\ UNCHANGED main_pc

ContextFails_KeepsContexts ==
  /\ main_pc' = "failed" /\ held' = CleanedUp(held) /\ alive_mutex_destroy
  /\ UNCHANGED turn

\* The contexts made so far are destroyed with their memories; the memory of
\* the alive mutex is kept.
ContextFails ==
  /\ main_pc' = "failed" /\ held' = CleanedUp(held \ Threads) /\ alive_mutex_destroy
  /\ UNCHANGED turn

\* The channel and subscribe contexts; their mmap is not checked.
ShmContextInit(file) ==
  /\ main_pc = "context" /\ Context = file
  /\ \/ Opened(file) /\ ContextMade /\ UNCHANGED mutexVars
          /\ UNCHANGED <<threadVars, gonggoVars>>
     \/ /\ NotOpened(file) /\ ContextFails
        /\ files' = files \ (held \ {"alive_mutex"})
        /\ UNCHANGED <<threadVars, gonggoVars>>
     \/ Fault("map") /\ files' = files \cup {file} /\ Vanish

proxy_channel_context_init   == ShmContextInit("channel")
proxy_subscribe_context_init == ShmContextInit("subscribe")

\* A gonggo that has crashed is refused; a memory of gonggo that cannot be
\* opened or mapped is used all the same.
gonggo_alive_context_init ==
  /\ main_pc = "context" /\ Context = "alive"
  /\ \/ /\ gonggo # "crashed" /\ ContextMade /\ NoFault
        /\ UNCHANGED <<threadVars, errnoVars, files, mutexVars, gonggoVars>>
     \/ /\ gonggo = "crashed" /\ ContextFails /\ NoFault
        /\ files' = files \ {"channel", "subscribe"}
        /\ UNCHANGED <<threadVars, errnoVars, gonggoVars>>
     \/ (Fault("open") \/ Fault("map")) /\ UNCHANGED files /\ Vanish

proxy_comm_context_init ==
  /\ main_pc = "context" /\ Context = "comm"
  /\ ContextMade /\ NoFault
  /\ UNCHANGED <<threadVars, errnoVars, files, mutexVars, gonggoVars>>

\* pthread_create; a failure goes the way of a stop.
CreateThread ==
  /\ main_pc = "create"
  /\ \/ NoFault /\ main_pc' = "wait" /\ thread' = [thread EXCEPT ![Context] = "created"]
          /\ UNCHANGED <<turn, proxy_exit>>
     \/ Fault("thread") /\ main_pc' = "die" /\ proxy_exit' = TRUE /\ turn' = 1
          /\ UNCHANGED thread
  /\ UNCHANGED <<held, unlink, errnoVars, cancelled, ended, gonggo_dead, files, mutexVars,
                 gonggoVars>>

IsStarted(t) == thread[t] \notin {"none", "created"}

WaitForStarted_AtOnce ==
  /\ main_pc = "wait"
  /\ IF turn = 4 THEN main_pc' = "lock" /\ turn' = 1 ELSE main_pc' = "create" /\ turn' = turn + 1
  /\ UNCHANGED <<held, threadVars, errnoVars, files, mutexVars, gonggoVars, faultless>>

\* The waitfor_started of the thread.
WaitForStarted ==
  /\ main_pc = "wait" /\ IsStarted(Context)
  /\ IF turn = 4 THEN main_pc' = "lock" /\ turn' = 1 ELSE main_pc' = "create" /\ turn' = turn + 1
  /\ UNCHANGED <<held, threadVars, errnoVars, files, mutexVars, gonggoVars, faultless>>

alive_mutex_lock_Never ==
  /\ main_pc = "lock" /\ main_pc' = "activate" /\ UNCHANGED mutex
  /\ UNCHANGED <<turn, held, threadVars, errnoVars, files, alive, gonggoVars, faultless>>

alive_mutex_lock ==
  /\ main_pc = "lock" /\ main_pc' = "activate" /\ mutex' = "held"
  /\ UNCHANGED <<turn, held, threadVars, errnoVars, files, alive, gonggoVars, faultless>>

\* The outcome of proxy_activate.
proxy_activate ==
  /\ main_pc = "activate"
  /\ \/ gonggo = "alive" /\ granted' = TRUE /\ main_pc' = "pause" /\ UNCHANGED proxy_exit
     \/ granted' = FALSE /\ main_pc' = "die" /\ proxy_exit' = TRUE
  /\ UNCHANGED <<turn, held, unlink, errnoVars, thread, cancelled, ended, gonggo_dead, files,
                 mutexVars, gonggo, faultless>>
-----------------------------------------------------------------------------
(* The threads.                                                            *)

Runs(t, from, to) == thread[t] = from /\ thread' = [thread EXCEPT ![t] = to]

\* The started flag is set before anything else; the comm thread goes on to
\* f_start.
ThreadStarts(t) ==
  /\ Runs(t, "created", IF t = "comm" THEN "f_start" ELSE "running")
  /\ UNCHANGED <<proxy_exit, gonggo_dead, unlink>>

\* f_payload_parse and f_rest in the channel thread, on a request of gonggo;
\* f_run and f_multirespond_clear in the comm thread.  What gonggo has left
\* behind is still handled after its death.
Callback(t) ==
  /\ \/ /\ t \in {"channel", "comm"} /\ granted /\ t \notin ended
        /\ Runs(t, "running", "callback")
     \/ Runs(t, "callback", "running")
     \/ t = "comm" /\ Runs(t, "f_start", "running")
  /\ UNCHANGED <<proxy_exit, gonggo_dead, unlink>>

\* The loop is left on request, or at the death of gonggo; the comm thread
\* leaves through f_stop.  A thread that waits for an answer when gonggo ends
\* may stay in its wait for ever.
ThreadEnds(t) ==
  /\ \/ /\ t \in {"channel", "subscribe"} /\ (t \in ended \/ gonggo = "crashed")
        /\ Runs(t, "running", "ended")
     \/ t = "comm" /\ t \in ended /\ Runs(t, "running", "f_stop")
     \/ t = "comm" /\ Runs(t, "f_stop", "ended")
  /\ UNCHANGED <<proxy_exit, gonggo_dead, unlink>>

AliveFinds ==
  /\ gonggo # "alive" /\ gonggo_dead' = TRUE
  /\ Runs("alive", "running", IF gonggo = "crashed" THEN "unlinks" ELSE "kills")
  /\ UNCHANGED <<proxy_exit, unlink>>

AliveUnlinks_Reversed ==
  /\ \/ unlink = {} /\ unlink' = {"alive_mutex"} /\ Runs("alive", "unlinks", "unlinks")
     \/ /\ unlink = {"alive_mutex"} /\ unlink' = {"alive_mutex", "subscribe"}
        /\ Runs("alive", "unlinks", "unlinks")
     \/ /\ unlink = {"alive_mutex", "subscribe"} /\ unlink' = Files
        /\ Runs("alive", "unlinks", "kills")
  /\ UNCHANGED <<proxy_exit, gonggo_dead>>

AliveUnlinks_Channel ==
  /\ Runs("alive", "unlinks", "kills")
  /\ unlink' = {"subscribe", "alive_mutex"}
  /\ UNCHANGED <<proxy_exit, gonggo_dead>>

\* The three flags are set one after another.
AliveUnlinks ==
  /\ \/ unlink = {} /\ unlink' = {"channel"} /\ Runs("alive", "unlinks", "unlinks")
     \/ /\ unlink = {"channel"} /\ unlink' = {"channel", "subscribe"}
        /\ Runs("alive", "unlinks", "unlinks")
     \/ unlink = {"channel", "subscribe"} /\ unlink' = Files /\ Runs("alive", "unlinks", "kills")
  /\ UNCHANGED <<proxy_exit, gonggo_dead>>

AliveKills ==
  /\ Runs("alive", "kills", "ended") /\ proxy_exit' = TRUE
  /\ UNCHANGED <<gonggo_dead, unlink>>

\* The cancel is asynchronous.
AliveCancelled ==
  /\ cancelled /\ thread["alive"] \notin {"none", "ended"}
  /\ thread' = [thread EXCEPT !["alive"] = "ended"]
  /\ faultless' = (faultless /\ thread["alive"] # "unlinks")
  /\ UNCHANGED <<proxy_exit, gonggo_dead, unlink>>

ThreadNext(t) ==
  /\ \/ (ThreadStarts(t) \/ Callback(t) \/ ThreadEnds(t)) /\ NoFault
     \/ t = "alive" /\ (AliveFinds \/ AliveUnlinks \/ AliveKills) /\ NoFault
     \/ t = "alive" /\ AliveCancelled
  /\ UNCHANGED <<main_pc, turn, held, errnoVars, cancelled, ended, files, mutexVars, gonggoVars>>
-----------------------------------------------------------------------------
(* The stop.                                                               *)

\* A SIGTERM; the pause of main ends with proxy_exit.
SigTerm ==
  /\ main_pc \notin Gone /\ held # {} /\ ~proxy_exit /\ proxy_exit' = TRUE
  /\ UNCHANGED <<main_pc, turn, held, unlink, errnoVars, thread, cancelled, ended, gonggo_dead,
                 files, mutexVars, gonggoVars, faultless>>

MainLeavesPause ==
  /\ main_pc = "pause" /\ proxy_exit /\ main_pc' = "die"
  /\ UNCHANGED <<turn, held, threadVars, errnoVars, files, mutexVars, gonggoVars, faultless>>

alive_mutex_die ==
  /\ main_pc = "die" /\ main_pc' = "stop"
  /\ mutex' = "free" /\ alive' = FALSE
  /\ UNCHANGED <<turn, held, threadVars, errnoVars, files, gonggoVars, faultless>>

NextThread_NoReset(here, next) ==
  turn' = turn + 1 /\ main_pc' = IF turn = 4 THEN next ELSE here

NextThread(here, next) ==
  IF turn = 4 THEN main_pc' = next /\ turn' = 1 ELSE main_pc' = here /\ turn' = turn + 1

StopThread_NoLock ==
  /\ main_pc = "stop" /\ NextThread("stop", "join")
  /\ IF IsStarted(Context) /\ (Context = "alive" => ~gonggo_dead)
     THEN ended' = ended \cup {Context} /\ cancelled' = (cancelled \/ Context = "alive")
     ELSE UNCHANGED <<ended, cancelled>>
  /\ UNCHANGED <<held, unlink, errnoVars, thread, proxy_exit, gonggo_dead, files, mutexVars,
                 gonggoVars, faultless>>

\* The stop function of a started thread waits for the lock of its loop, which
\* the thread keeps during a callback.
StopThread ==
  /\ main_pc = "stop" /\ NextThread("stop", "join")
  /\ thread[Context] # "callback"
  /\ IF IsStarted(Context) /\ (Context = "alive" => ~gonggo_dead)
     THEN ended' = ended \cup {Context} /\ cancelled' = (cancelled \/ Context = "alive")
     ELSE UNCHANGED <<ended, cancelled>>
  /\ UNCHANGED <<held, unlink, errnoVars, thread, proxy_exit, gonggo_dead, files, mutexVars,
                 gonggoVars, faultless>>

Joinable_Always == thread[Context] = "ended"

\* Only a started thread is joined.
Joinable == IsStarted(Context) => thread[Context] = "ended"

JoinThread ==
  /\ main_pc = "join" /\ Joinable /\ NextThread("join", "destroy")
  /\ UNCHANGED <<held, threadVars, errnoVars, files, mutexVars, gonggoVars, faultless>>

\* The memory goes if it is to be unlinked.
Destroyed(t) == held' = held \ {t} /\ files' = files \ (unlink \cap {t})

proxy_channel_context_destroy   == turn = 1 /\ Destroyed("channel")
proxy_subscribe_context_destroy == turn = 2 /\ Destroyed("subscribe")
gonggo_alive_context_destroy    == turn = 3 /\ Destroyed("alive")
proxy_comm_context_destroy      == turn = 4 /\ Destroyed("comm")

DestroyContext ==
  /\ main_pc = "destroy" /\ NextThread("destroy", "clean_up")
  /\ \/ proxy_channel_context_destroy \/ proxy_subscribe_context_destroy
     \/ gonggo_alive_context_destroy \/ proxy_comm_context_destroy
  /\ UNCHANGED <<threadVars, errnoVars, mutexVars, gonggoVars, faultless>>

clean_up ==
  /\ main_pc = "clean_up" /\ main_pc' = "stopped"
  /\ held' = CleanedUp(held) /\ files' = files \ (unlink \cap {"alive_mutex"})
  /\ alive_mutex_destroy
  /\ UNCHANGED <<turn, threadVars, errnoVars, gonggoVars, faultless>>
-----------------------------------------------------------------------------
(* What surrounds the process.                                             *)

Kill ==
  /\ main_pc \notin Gone /\ Fault("kill") /\ Vanish /\ UNCHANGED files

GonggoDies ==
  /\ gonggo = "alive" /\ gonggo' \in {"left", "crashed"}
  /\ UNCHANGED <<processVars, files, mutexVars, granted, faultless>>

\* The proxy is started again, after gonggo has noticed the end or has been
\* started again itself.
Restart ==
  /\ main_pc \in Gone /\ main_pc' = "work" /\ turn' = 1
  /\ held' = {} /\ unlink' = {} /\ noent' = FALSE /\ leaked' = {}
  /\ thread' = [t \in Threads |-> "none"] /\ cancelled' = FALSE /\ ended' = {}
  /\ proxy_exit' = FALSE /\ gonggo_dead' = FALSE
  /\ gonggo' = "alive" /\ granted' = FALSE
  /\ UNCHANGED <<files, mutexVars, faultless>>
-----------------------------------------------------------------------------
MainNext ==
  \/ work \/ SetsUp \/ alive_mutex_create
  \/ proxy_channel_context_init \/ proxy_subscribe_context_init
  \/ gonggo_alive_context_init \/ proxy_comm_context_init
  \/ CreateThread \/ WaitForStarted \/ alive_mutex_lock \/ proxy_activate \/ MainLeavesPause
  \/ alive_mutex_die \/ StopThread \/ JoinThread \/ DestroyContext \/ clean_up

Next ==
  \/ MainNext \/ (\E t \in Threads : ThreadNext(t))
  \/ SigTerm \/ Kill \/ GonggoDies \/ Restart

Spec == Init /\ [][Next]_vars

\* Fairness: while gonggo lives and answers, main and the threads are scheduled,
\* every callback returns, and main gets a lock that its thread gives up again
\* and again.
FairSpec ==
  /\ Spec
  /\ WF_vars(gonggo = "alive" /\ MainNext) /\ SF_vars(gonggo = "alive" /\ StopThread)
  /\ \A t \in Threads : WF_vars(gonggo = "alive" /\ ThreadNext(t))
-----------------------------------------------------------------------------
PlacesOK ==
  /\ main_pc \in Gone \cup {"work", "sigaction", "alive_mutex", "context", "create", "wait", "lock",
                            "activate", "pause", "die", "stop", "join", "destroy", "clean_up"}
  /\ turn \in 1..4
  /\ thread \in [Threads -> {"none", "created", "running", "callback", "f_start", "f_stop",
                             "unlinks", "kills", "ended"}]
  /\ mutex \in {"free", "held", "orphaned", "destroyed"} /\ gonggo \in {"alive", "left", "crashed"}
SetsOK ==
  /\ held \subseteq Resources \cup Threads /\ ended \subseteq Threads
  /\ unlink \subseteq Files /\ files \subseteq Files /\ leaked \subseteq Files
FlagsOK ==
  /\ noent \in BOOLEAN /\ cancelled \in BOOLEAN /\ proxy_exit \in BOOLEAN /\ gonggo_dead \in BOOLEAN
  /\ alive \in BOOLEAN /\ granted \in BOOLEAN /\ faultless \in BOOLEAN
TypeOK == PlacesOK /\ SetsOK /\ FlagsOK

Live(t) == thread[t] \notin {"none", "ended"}

\* What the code of a thread reaches: its own context, the queues and tables,
\* and the contexts of the threads it awakes.
Uses(t) ==
  CASE t = "channel"   -> {"log", "uuid", "tables", "queues", "channel", "subscribe", "comm"}
    [] t = "subscribe" -> {"log", "uuid", "queues", "subscribe"}
    [] t = "alive"     -> {"log", "alive"}
    [] t = "comm"      -> {"log", "tables", "queues", "subscribe", "comm"}

\* No thread runs without a resource it uses, from whichever step the start
\* is abandoned at and in whatever order the threads end (work.c:223).
NothingUsedAfterDestroy == \A t \in Threads : Live(t) => Uses(t) \subseteq held

\* When work returns, also after a failed start, no thread runs and nothing is
\* held (but for a NULL callback, work.c:49).
AllGivenBack ==
  main_pc \in {"failed", "stopped"} =>
    held = {} /\ \A t \in Threads : thread[t] \in {"none", "ended"}

\* f_stop destroys what the callbacks use (callback.h:46): none of them runs
\* or starts once it has been called, in whichever thread.
StopIsLastCallback ==
  thread["comm"] \in {"f_stop", "ended"} => \A t \in Threads : thread[t] # "callback"

\* gonggo is told by the alive mutex whether the proxy it has activated still
\* serves it: held and alive while it does, orphaned or not alive when the
\* process is gone, whenever it was killed.
MutexTellsTheEnd ==
  granted =>
    /\ main_pc = "pause" => mutex = "held" /\ alive
    /\ main_pc \in Gone => mutex = "orphaned" \/ ~alive

\* After a stop the memories are there for the gonggo that lives or has left,
\* and none is there after a crash that was found before the stop.  A cancel in
\* the middle of the flags leaves the memories that are opened first missing,
\* and keeps the alive mutex, which is the last to go (gonggoalive.c:61).
MemoriesFollowGonggo ==
  main_pc = "stopped" =>
    /\ gonggo # "crashed" => files = Files
    /\ gonggo = "crashed" /\ gonggo_dead /\ ~cancelled => files = {}
    /\ "channel" \in files => files = Files
    /\ "alive_mutex" \notin files => files = {}

\* Over any number of lives in which no call fails, nobody is killed and no
\* cancel meets a crash, no descriptor is lost to a stale errno: the memories
\* exist in the order in which they are opened (proxychannel.c:171).
NoDescriptorLost == faultless => leaked = {}

\* A stop, also that of a start which has failed half way, ends as long as gonggo
\* lives: main waits for no lock that is not given up and joins no thread that
\* does not leave, nor one it has not started (work.c:203).
StopEnds == main_pc = "die" ~> (main_pc \in Gone \/ gonggo # "alive")
=============================================================================
