------------------------------ MODULE Shutdown ------------------------------
(***************************************************************************)
(* How a sawang proxy stops (work.c): main leaves its pause loop, asks     *)
(* each thread to end, joins them and destroys their contexts.  The        *)
(* threads of RequestFlow, those of the backend included, are here with    *)
(* their locks, condition variables and termination flags; requests, tasks *)
(* and replies are only counted.                                           *)
(*                                                                         *)
(* A step of a thread runs up to its next lock, wait or access to a state  *)
(* word another thread may change without a lock.                          *)
(***************************************************************************)
EXTENDS Naturals

CONSTANTS
  MaxRequests,  \* bound: exchanges gonggo starts on the channel
  MaxPushes,    \* bound: replies threads of the backend make
  Faults        \* what may happen, a subset of FaultKinds

\* "crash": gonggo dies; "refuse": gonggo answers SUBSCRIBE_FAILED, or the shared
\* memory of an answer cannot be created.
FaultKinds == {"crash", "refuse"}

ASSUME StopAssumption ==
  MaxRequests \in Nat /\ MaxPushes \in Nat /\ Faults \subseteq FaultKinds

VARIABLES
  main_pc, proxy_exit,
  gonggo, orphaned,            \* is it alive; the shm locks it held when it died
  requests,                    \* exchanges gonggo has started
  channel_pc, channel_state, channel_woken, proxy_channel_end,
  parse_queue, reply_queue, failed_task,    \* their lengths
  subscribe_pc, subscribe_state, subscribe_woken, proxy_subscribe_end,
  comm_pc, comm_woken, proxy_comm_end,
  served, pushes, calling,     \* f_run was called; replies of backend threads, and those not awoken yet
  alive_pc, gonggo_dead

mainVars      == <<main_pc, proxy_exit>>
gonggoVars    == <<gonggo, requests>>
channelVars   == <<channel_pc, channel_state, channel_woken>>
subscribeVars == <<subscribe_pc, subscribe_state, subscribe_woken>>
commVars      == <<comm_pc, comm_woken>>
endVars       == <<proxy_channel_end, proxy_subscribe_end, proxy_comm_end>>
backendVars   == <<served, pushes, calling>>
aliveVars     == <<alive_pc, gonggo_dead>>
queueVars     == <<parse_queue, reply_queue, failed_task>>
vars == <<mainVars, gonggoVars, orphaned, channelVars, queueVars, subscribeVars, commVars,
          backendVars, endVars, aliveVars>>

\* The threads are started; the activation succeeded, or failed and main stops.
Init ==
  /\ main_pc \in {"test", "die"} /\ proxy_exit = (main_pc = "die")
  /\ gonggo = "alive" /\ orphaned = {} /\ requests = 0
  /\ channel_pc = "top" /\ channel_state = "INIT" /\ channel_woken = FALSE
  /\ parse_queue = 0 /\ reply_queue = 0 /\ failed_task = 0
  /\ subscribe_pc = "start" /\ subscribe_state = "INIT" /\ subscribe_woken = FALSE
  /\ comm_pc = "start" /\ comm_woken = FALSE
  /\ served = FALSE /\ pushes = 0 /\ calling = 0
  /\ proxy_channel_end = FALSE /\ proxy_subscribe_end = FALSE /\ proxy_comm_end = FALSE
  /\ alive_pc = "watch" /\ gonggo_dead = FALSE
-----------------------------------------------------------------------------
(* Locks.  A thread holds the lock of its loop except at these places; a   *)
(* woken waiter must take the lock again to go on.                         *)

ChannelLockFree   == channel_pc \in {"idle", "acked", "failed", "rested", "exited"}
SubscribeLockFree == subscribe_pc \in {"start", "waiting", "exited"}
CommLockFree      == comm_pc \in {"start", "waiting", "stopping", "exited"}

\* pthread_cond_signal: lost on a thread that does not wait.
proxy_subscribe_awake ==
  SubscribeLockFree /\ subscribe_woken' = (subscribe_woken \/ subscribe_pc = "waiting")
proxy_comm_awake ==
  CommLockFree /\ comm_woken' = (comm_woken \/ comm_pc = "waiting")

\* proxy_exit is set and SIGTERM interrupts the pause of main, if it pauses.
Terminate ==
  /\ proxy_exit' = TRUE
  /\ main_pc' = IF main_pc = "pause" THEN "test" ELSE main_pc
-----------------------------------------------------------------------------
(* gonggo and the operator of the proxy, from how src/ uses them.          *)

SigTerm ==
  /\ ~proxy_exit /\ Terminate
  /\ UNCHANGED <<gonggoVars, orphaned, channelVars, queueVars, subscribeVars, commVars,
                 backendVars, endVars, aliveVars>>

\* A request, a REST request or a stop request is put into the idle channel.
GonggoRequests ==
  /\ gonggo = "alive" /\ requests < MaxRequests
  /\ channel_pc = "idle" /\ channel_state = "IDLE"
  /\ channel_state' \in {"REQUEST", "REST", "STOP_REQUEST"}
  /\ channel_woken' = TRUE /\ requests' = requests + 1
  /\ UNCHANGED <<mainVars, gonggo, orphaned, channel_pc, queueVars, subscribeVars, commVars,
                 backendVars, endVars, aliveVars>>

GonggoConfirms ==
  /\ gonggo = "alive"
  /\ \/ channel_pc = "acked" /\ channel_state = "ACKNOWLEDGED"
     \/ channel_pc = "failed" /\ channel_state = "FAILS"
     \/ channel_pc = "rested" /\ channel_state = "REST_RESPOND"
  /\ channel_state' = "DONE" /\ channel_woken' = TRUE
  /\ UNCHANGED <<mainVars, gonggoVars, orphaned, channel_pc, queueVars, subscribeVars, commVars,
                 backendVars, endVars, aliveVars>>

GonggoTakes ==
  /\ gonggo = "alive"
  /\ subscribe_pc = "sent" /\ subscribe_state = "ANSWER"
  /\ subscribe_state' \in {"DONE"} \cup (IF "refuse" \in Faults THEN {"FAILED"} ELSE {})
  /\ subscribe_woken' = TRUE
  /\ UNCHANGED <<mainVars, gonggoVars, orphaned, channelVars, queueVars, subscribe_pc, commVars,
                 backendVars, endVars, aliveVars>>

\* gonggo dies, with or without the lock of a shared memory nobody else holds.
GonggoDies ==
  /\ "crash" \in Faults /\ gonggo = "alive" /\ gonggo' = "dead"
  /\ orphaned' \in SUBSET ({"subscribe"} \cup (IF ChannelLockFree THEN {"channel"} ELSE {}))
  /\ UNCHANGED <<mainVars, requests, channelVars, queueVars, subscribeVars, commVars, backendVars,
                 endVars, aliveVars>>
-----------------------------------------------------------------------------
(* The channel thread: proxy_channel, proxy_channel_exchange and           *)
(* proxy_channel_rest.                                                     *)

ChannelLoops ==
  /\ channel_pc = "top"
  /\ IF proxy_channel_end THEN channel_pc' = "exited" /\ UNCHANGED channel_state
                          ELSE channel_pc' = "idle" /\ channel_state' = "IDLE"
  /\ UNCHANGED <<mainVars, gonggoVars, orphaned, channel_woken, queueVars, subscribeVars, commVars,
                 backendVars, endVars, aliveVars>>

LockOrphaned == "channel" \in orphaned

\* proxy_channel_exchange up to its wait: the request is read, or not.
ExchangeStarts ==
  /\ channel_state = "REQUEST"
  /\ \/ channel_pc' = "acked" /\ channel_state' = "ACKNOWLEDGED"
     \/ channel_pc' = "failed" /\ channel_state' = "FAILS"

\* proxy_channel_rest up to its wait: f_rest has answered, or an error is the answer.
RestResponds == channel_pc' = "rested" /\ channel_state' = "REST_RESPOND"

\* Without memory for the answer there is no answer, and no wait.
RestUnanswered == channel_pc' = "top" /\ UNCHANGED channel_state

\* The wait of the loop returns with the lock.
LoopWakes ==
  /\ channel_pc = "idle"
  /\ \/ (LockOrphaned \/ channel_state = "TERMINATION")
          /\ channel_pc' = "exited" /\ UNCHANGED channel_state
     \/ ~LockOrphaned /\ ExchangeStarts
     \/ ~LockOrphaned /\ channel_state = "REST" /\ (RestResponds \/ RestUnanswered)
     \/ ~LockOrphaned /\ channel_state = "STOP_REQUEST"
          /\ channel_pc' = "kill" /\ UNCHANGED channel_state

\* EOWNERDEAD and CHANNEL_TERMINATION end also the wait of an exchange.
ExchangeWakes ==
  /\ channel_pc \in {"acked", "failed"} /\ UNCHANGED channel_state
  /\ \/ (LockOrphaned \/ channel_state = "TERMINATION") /\ channel_pc' = "exited"
     \/ ~LockOrphaned /\ channel_state = "DONE"
          /\ channel_pc' \in IF channel_pc = "acked" THEN {"append_task", "append_reply", "top"}
                                                  ELSE {"top"}

\* CHANNEL_TERMINATION does not end the wait of a REST answer.
RestWakes ==
  /\ channel_pc = "rested" /\ UNCHANGED channel_state
  /\ channel_pc' = IF LockOrphaned THEN "exited" ELSE "top"

ChannelWakes ==
  /\ channel_woken /\ channel_woken' = FALSE /\ orphaned' = orphaned \ {"channel"}
  /\ LoopWakes \/ ExchangeWakes \/ RestWakes
  /\ UNCHANGED <<mainVars, gonggoVars, queueVars, subscribeVars, commVars, backendVars, endVars,
                 aliveVars>>

ChannelKills ==
  /\ channel_pc = "kill" /\ channel_pc' = "top" /\ Terminate
  /\ UNCHANGED <<gonggoVars, orphaned, channel_state, channel_woken, queueVars, subscribeVars,
                 commVars, backendVars, endVars, aliveVars>>

ChannelAppends ==
  /\ \/ channel_pc = "append_task" /\ channel_pc' = "awake_comm"
          /\ parse_queue' = parse_queue + 1 /\ UNCHANGED reply_queue
     \/ channel_pc = "append_reply" /\ channel_pc' = "awake_subscribe"
          /\ reply_queue' = reply_queue + 1 /\ UNCHANGED parse_queue
  /\ UNCHANGED <<mainVars, gonggoVars, orphaned, channel_state, channel_woken, failed_task,
                 subscribeVars, commVars, backendVars, endVars, aliveVars>>

\* The channel lock is held while the lock of the other thread is awaited.
ChannelAwakes ==
  /\ \/ channel_pc = "awake_comm" /\ proxy_comm_awake /\ UNCHANGED subscribe_woken
     \/ channel_pc = "awake_subscribe" /\ proxy_subscribe_awake /\ UNCHANGED comm_woken
  /\ channel_pc' = "top"
  /\ UNCHANGED <<mainVars, gonggoVars, orphaned, channel_state, channel_woken, queueVars,
                 subscribe_pc, subscribe_state, comm_pc, backendVars, endVars, aliveVars>>
-----------------------------------------------------------------------------
(* The comm thread.                                                        *)

CommLocks ==
  /\ comm_pc = "start" \/ (comm_pc = "waiting" /\ comm_woken)
  /\ comm_woken' = FALSE
  /\ comm_pc' = IF proxy_comm_end THEN "stopping" ELSE "pop"
  /\ UNCHANGED <<mainVars, gonggoVars, orphaned, channelVars, queueVars, subscribeVars,
                 backendVars, endVars, aliveVars>>

CommPops_NoNullCheck ==
  /\ comm_pc = "pop"
  /\ parse_queue' = parse_queue - 1 /\ comm_pc' \in {"pop", "reply"} /\ served' = TRUE
  /\ UNCHANGED <<mainVars, gonggoVars, orphaned, channelVars, reply_queue, failed_task,
                 subscribeVars, comm_woken, pushes, calling, endVars, aliveVars>>

\* A task is run, with or without a reply before f_run returns; from then on
\* threads of the backend may reply, too.
CommPops ==
  /\ comm_pc = "pop"
  /\ IF parse_queue = 0
     THEN comm_pc' = "waiting" /\ UNCHANGED <<parse_queue, served>>
     ELSE parse_queue' = parse_queue - 1 /\ comm_pc' \in {"pop", "reply"} /\ served' = TRUE
  /\ UNCHANGED <<mainVars, gonggoVars, orphaned, channelVars, reply_queue, failed_task,
                 subscribeVars, comm_woken, pushes, calling, endVars, aliveVars>>

CommReplies ==
  /\ comm_pc = "reply" /\ comm_pc' = "awake"
  /\ reply_queue' = reply_queue + 1
  /\ UNCHANGED <<mainVars, gonggoVars, orphaned, channelVars, parse_queue, failed_task,
                 subscribeVars, comm_woken, backendVars, endVars, aliveVars>>

CommAwakes ==
  /\ comm_pc = "awake" /\ comm_pc' = "pop" /\ proxy_subscribe_awake
  /\ UNCHANGED <<mainVars, gonggoVars, orphaned, channelVars, queueVars, subscribe_pc,
                 subscribe_state, comm_woken, backendVars, endVars, aliveVars>>

\* f_stop, outside the lock.  It ends the threads of the backend, and waits for
\* a call of ProxyReply one of them is in.
CommStops ==
  /\ comm_pc = "stopping" /\ calling = 0 /\ comm_pc' = "exited"
  /\ UNCHANGED <<mainVars, gonggoVars, orphaned, channelVars, queueVars, subscribeVars, comm_woken,
                 backendVars, endVars, aliveVars>>
-----------------------------------------------------------------------------
(* The threads of the backend, which call ProxyReply until f_stop is over. *)

BackendReplies ==
  /\ served /\ pushes < MaxPushes /\ comm_pc # "exited"
  /\ reply_queue' = reply_queue + 1
  /\ pushes' = pushes + 1 /\ calling' = calling + 1
  /\ UNCHANGED <<mainVars, gonggoVars, orphaned, channelVars, parse_queue, failed_task,
                 subscribeVars, commVars, served, endVars, aliveVars>>

BackendAwakes ==
  /\ calling > 0 /\ calling' = calling - 1 /\ proxy_subscribe_awake
  /\ UNCHANGED <<mainVars, gonggoVars, orphaned, channelVars, queueVars, subscribe_pc,
                 subscribe_state, commVars, served, pushes, endVars, aliveVars>>
-----------------------------------------------------------------------------
(* The subscribe thread.  The state word is tested and set to IDLE without *)
(* the lock of the shared memory.                                          *)

SubscribeLocks ==
  /\ subscribe_pc = "start" \/ (subscribe_pc = "waiting" /\ subscribe_woken)
  /\ subscribe_woken' = FALSE /\ subscribe_pc' = "test"
  /\ UNCHANGED <<mainVars, gonggoVars, orphaned, channelVars, queueVars, subscribe_state, commVars,
                 backendVars, endVars, aliveVars>>

\* The condition of the loop.
SubscribeTests ==
  /\ subscribe_pc = "test"
  /\ subscribe_pc' = IF proxy_subscribe_end \/ subscribe_state = "TERMINATION" THEN "exited"
                                                                             ELSE "reset"
  /\ UNCHANGED <<mainVars, gonggoVars, orphaned, channelVars, queueVars, subscribe_state,
                 subscribe_woken, commVars, backendVars, endVars, aliveVars>>

\* proxy_subscribe_shm_idle.
SubscribeResets ==
  /\ subscribe_pc = "reset" /\ subscribe_pc' = "pop" /\ subscribe_state' = "IDLE"
  /\ UNCHANGED <<mainVars, gonggoVars, orphaned, channelVars, queueVars, subscribe_woken, commVars,
                 backendVars, endVars, aliveVars>>

\* What failed goes back to the queue when the replies have run out, and on
\* the way out of the loop.
reply_queue_push_head(rest) == reply_queue' = rest + failed_task /\ failed_task' = 0

SubscribeRests ==
  /\ subscribe_pc = "pop" /\ reply_queue = 0 /\ subscribe_pc' = "waiting"
  /\ reply_queue_push_head(0)
  /\ UNCHANGED <<mainVars, gonggoVars, orphaned, channelVars, parse_queue, subscribe_state,
                 subscribe_woken, commVars, backendVars, endVars, aliveVars>>

\* The lock of the shared memory is taken: EOWNERDEAD ends the loop and the
\* reply is destroyed; an answer that cannot be created fails.
SubscribeSends ==
  /\ subscribe_pc = "pop" /\ reply_queue > 0
  /\ orphaned' = orphaned \ {"subscribe"}
  /\ IF "subscribe" \in orphaned
     THEN subscribe_pc' = "exited" /\ reply_queue_push_head(reply_queue - 1)
            /\ UNCHANGED subscribe_state
     ELSE /\ reply_queue' = reply_queue - 1
          /\ \/ subscribe_pc' = "sent" /\ subscribe_state' = "ANSWER" /\ UNCHANGED failed_task
             \/ /\ "refuse" \in Faults
                /\ subscribe_pc' = "reset" /\ failed_task' = failed_task + 1
                /\ UNCHANGED subscribe_state
  /\ UNCHANGED <<mainVars, gonggoVars, channelVars, parse_queue, subscribe_woken, commVars,
                 backendVars, endVars, aliveVars>>

\* The verdict, EOWNERDEAD or the TERMINATION of proxy_subscribe_stop.
SubscribeConcludes ==
  /\ subscribe_pc = "sent" /\ subscribe_woken /\ subscribe_woken' = FALSE
  /\ orphaned' = orphaned \ {"subscribe"}
  /\ IF "subscribe" \in orphaned \/ subscribe_state = "TERMINATION"
     THEN subscribe_pc' = "exited" /\ reply_queue_push_head(reply_queue)
     ELSE /\ subscribe_pc' = "reset" /\ UNCHANGED reply_queue
          /\ failed_task' = IF subscribe_state = "DONE" THEN failed_task ELSE failed_task + 1
  /\ UNCHANGED <<mainVars, gonggoVars, channelVars, parse_queue, subscribe_state, commVars,
                 backendVars, endVars, aliveVars>>
-----------------------------------------------------------------------------
(* The gonggo_alive thread: it finds gonggo dead, or is cancelled.  When   *)
(* another proxy was first to find a crash, the mutex is unrecoverable and *)
(* the thread spins until it is cancelled (see GonggoAlive).               *)

AliveFinds ==
  /\ alive_pc = "watch" /\ gonggo = "dead"
  /\ alive_pc' = "exited" /\ gonggo_dead' = TRUE /\ Terminate
  /\ UNCHANGED <<gonggoVars, orphaned, channelVars, queueVars, subscribeVars, commVars,
                 backendVars, endVars>>

OtherProxyFinds ==
  /\ alive_pc = "watch" /\ gonggo = "dead" /\ alive_pc' = "spin"
  /\ UNCHANGED <<mainVars, gonggoVars, orphaned, channelVars, queueVars, subscribeVars, commVars,
                 backendVars, endVars, gonggo_dead>>

AliveEnds ==
  /\ alive_pc = "cancelled" /\ alive_pc' = "exited"
  /\ UNCHANGED <<mainVars, gonggoVars, orphaned, channelVars, queueVars, subscribeVars, commVars,
                 backendVars, endVars, gonggo_dead>>
-----------------------------------------------------------------------------
(* main.                                                                   *)

\* The test of proxy_exit and the pause are two steps.
MainTests ==
  /\ \/ main_pc = "test" /\ main_pc' = IF proxy_exit THEN "die" ELSE "tested"
     \/ main_pc = "tested" /\ main_pc' = "pause"
  /\ UNCHANGED <<proxy_exit, gonggoVars, orphaned, channelVars, queueVars, subscribeVars, commVars,
                 backendVars, endVars, aliveVars>>

\* alive_mutex_die: gonggo learns that the proxy stops.
MainDies ==
  /\ main_pc = "die" /\ main_pc' = "stop_channel"
  /\ UNCHANGED <<proxy_exit, gonggoVars, orphaned, channelVars, queueVars, subscribeVars, commVars,
                 backendVars, endVars, aliveVars>>

proxy_channel_stop_NoLock ==
  /\ main_pc = "stop_channel"
  /\ main_pc' = "stop_subscribe"
  /\ orphaned' = orphaned \ {"channel"}
  /\ channel_state' = "TERMINATION" /\ proxy_channel_end' = TRUE
  /\ channel_woken' = (channel_pc \in {"idle", "acked", "failed", "rested"})
  /\ UNCHANGED <<proxy_exit, gonggoVars, channel_pc, queueVars, subscribeVars, commVars,
                 backendVars, proxy_subscribe_end, proxy_comm_end, aliveVars>>

proxy_channel_stop ==
  /\ main_pc = "stop_channel" /\ ChannelLockFree
  /\ main_pc' = "stop_subscribe"
  /\ orphaned' = orphaned \ {"channel"}
  /\ channel_state' = "TERMINATION" /\ proxy_channel_end' = TRUE
  /\ channel_woken' = (channel_pc # "exited")
  /\ UNCHANGED <<proxy_exit, gonggoVars, channel_pc, queueVars, subscribeVars, commVars,
                 backendVars, proxy_subscribe_end, proxy_comm_end, aliveVars>>

proxy_subscribe_stop_NoSignal ==
  /\ main_pc = "stop_subscribe" /\ main_pc' = "end_subscribe"
  /\ orphaned' = orphaned \ {"subscribe"}
  /\ subscribe_state' = "TERMINATION"
  /\ UNCHANGED <<proxy_exit, gonggoVars, channelVars, queueVars, subscribe_pc, subscribe_woken,
                 commVars, backendVars, endVars, aliveVars>>

\* The first half of proxy_subscribe_stop, under the lock of the shared memory.
proxy_subscribe_stop ==
  /\ main_pc = "stop_subscribe" /\ main_pc' = "end_subscribe"
  /\ orphaned' = orphaned \ {"subscribe"}
  /\ subscribe_state' = "TERMINATION"
  /\ subscribe_woken' = (subscribe_woken \/ subscribe_pc = "sent")
  /\ UNCHANGED <<proxy_exit, gonggoVars, channelVars, queueVars, subscribe_pc, commVars,
                 backendVars, endVars, aliveVars>>

MainEndsSubscribe_NoLock ==
  /\ main_pc = "end_subscribe" /\ subscribe_woken' = (subscribe_woken \/ subscribe_pc = "waiting")
  /\ main_pc' = "stop_alive" /\ proxy_subscribe_end' = TRUE
  /\ UNCHANGED <<proxy_exit, gonggoVars, orphaned, channelVars, queueVars, subscribe_pc,
                 subscribe_state, commVars, backendVars, proxy_channel_end, proxy_comm_end,
                 aliveVars>>

\* Its second half, under proxy_subscribe_lock.
MainEndsSubscribe ==
  /\ main_pc = "end_subscribe" /\ proxy_subscribe_awake
  /\ main_pc' = "stop_alive" /\ proxy_subscribe_end' = TRUE
  /\ UNCHANGED <<proxy_exit, gonggoVars, orphaned, channelVars, queueVars, subscribe_pc,
                 subscribe_state, commVars, backendVars, proxy_channel_end, proxy_comm_end,
                 aliveVars>>

gonggo_alive_stop ==
  /\ main_pc = "stop_alive" /\ main_pc' = "stop_comm"
  /\ alive_pc' = IF ~gonggo_dead THEN "cancelled" ELSE alive_pc
  /\ UNCHANGED <<proxy_exit, gonggoVars, orphaned, channelVars, queueVars, subscribeVars, commVars,
                 backendVars, endVars, gonggo_dead>>

proxy_comm_stop_NoSignal ==
  /\ main_pc = "stop_comm" /\ CommLockFree
  /\ main_pc' = "join" /\ proxy_comm_end' = TRUE
  /\ UNCHANGED <<proxy_exit, gonggoVars, orphaned, channelVars, queueVars, subscribeVars, commVars,
                 backendVars, proxy_channel_end, proxy_subscribe_end, aliveVars>>

proxy_comm_stop ==
  /\ main_pc = "stop_comm" /\ proxy_comm_awake
  /\ main_pc' = "join" /\ proxy_comm_end' = TRUE
  /\ UNCHANGED <<proxy_exit, gonggoVars, orphaned, channelVars, queueVars, subscribeVars, comm_pc,
                 backendVars, proxy_channel_end, proxy_subscribe_end, aliveVars>>

\* The four joins, whose order nobody sees; the contexts are destroyed next.
AllExited == channel_pc = "exited" /\ subscribe_pc = "exited" /\ alive_pc = "exited" /\ comm_pc = "exited"

MainJoins ==
  /\ main_pc = "join" /\ AllExited /\ main_pc' = "stopped"
  /\ UNCHANGED <<proxy_exit, gonggoVars, orphaned, channelVars, queueVars, subscribeVars, commVars,
                 backendVars, endVars, aliveVars>>

\* The process has ended.
Stopped == main_pc = "stopped" /\ UNCHANGED vars
-----------------------------------------------------------------------------
ChannelNext == ChannelLoops \/ ChannelWakes \/ ChannelKills \/ ChannelAppends \/ ChannelAwakes
CommNext == CommLocks \/ CommPops \/ CommReplies \/ CommAwakes \/ CommStops
SubscribeNext == SubscribeLocks \/ SubscribeTests \/ SubscribeResets \/ SubscribeRests
                   \/ SubscribeSends \/ SubscribeConcludes
AliveNext == AliveFinds \/ AliveEnds
MainNext == MainTests \/ MainDies \/ proxy_channel_stop \/ proxy_subscribe_stop
              \/ MainEndsSubscribe \/ gonggo_alive_stop \/ proxy_comm_stop \/ MainJoins
GonggoAnswers == GonggoConfirms \/ GonggoTakes

Next ==
  \/ MainNext \/ ChannelNext \/ CommNext \/ SubscribeNext \/ AliveNext
  \/ BackendReplies \/ BackendAwakes \/ OtherProxyFinds
  \/ SigTerm \/ GonggoRequests \/ GonggoAnswers \/ GonggoDies \/ Stopped

Spec == Init /\ [][Next]_vars

(***************************************************************************)
(* Fairness: every runnable thread is scheduled, every callback returns,   *)
(* and a gonggo that lives answers what it was signalled.  That another    *)
(* proxy finds the crash first, and that the backend pushes, is never due. *)
(***************************************************************************)
FairSpec ==
  /\ Spec
  /\ WF_vars(MainNext) /\ WF_vars(ChannelNext) /\ WF_vars(CommNext) /\ WF_vars(SubscribeNext)
  /\ WF_vars(BackendAwakes) /\ WF_vars(AliveNext) /\ WF_vars(GonggoConfirms) /\ WF_vars(GonggoTakes)
-----------------------------------------------------------------------------
PlacesOK ==
  /\ main_pc \in {"test", "tested", "pause", "die", "stop_channel", "stop_subscribe", "end_subscribe",
                  "stop_alive", "stop_comm", "join", "stopped"}
  /\ gonggo \in {"alive", "dead"} /\ orphaned \subseteq {"channel", "subscribe"}
  /\ channel_pc \in {"top", "idle", "acked", "failed", "rested", "kill", "append_task",
                     "append_reply", "awake_comm", "awake_subscribe", "exited"}
  /\ channel_state \in {"INIT", "IDLE", "REQUEST", "ACKNOWLEDGED", "FAILS", "DONE", "REST",
                        "REST_RESPOND", "STOP_REQUEST", "TERMINATION"}
  /\ subscribe_pc \in {"start", "test", "reset", "pop", "waiting", "sent", "exited"}
  /\ subscribe_state \in {"INIT", "IDLE", "ANSWER", "DONE", "FAILED", "TERMINATION"}
  /\ comm_pc \in {"start", "pop", "reply", "awake", "waiting", "stopping", "exited"}
  /\ alive_pc \in {"watch", "spin", "cancelled", "exited"}
CountsOK ==
  /\ requests \in Nat /\ pushes \in Nat /\ calling \in Nat
  /\ parse_queue \in Nat /\ reply_queue \in Nat /\ failed_task \in Nat
FlagsOK ==
  /\ channel_woken \in BOOLEAN /\ subscribe_woken \in BOOLEAN /\ comm_woken \in BOOLEAN
  /\ proxy_channel_end \in BOOLEAN /\ proxy_subscribe_end \in BOOLEAN /\ proxy_comm_end \in BOOLEAN
  /\ proxy_exit \in BOOLEAN /\ gonggo_dead \in BOOLEAN /\ served \in BOOLEAN

\* Every thread is at a place it has, and no queue is popped when empty.
TypeOK == PlacesOK /\ CountsOK /\ FlagsOK

\* No thread misses the stop between the test of its flag and its wait: one
\* that waits with its flag set has been awakened, whatever gonggo and the
\* other threads signalled before, and whether gonggo lives.
StopIsNotMissed ==
  /\ proxy_channel_end /\ channel_pc \in {"idle", "acked", "failed", "rested"} => channel_woken
  /\ proxy_subscribe_end /\ subscribe_pc = "waiting" => subscribe_woken
  /\ proxy_comm_end /\ comm_pc = "waiting" => comm_woken

\* A thread that sleeps on the condition variable of a shared memory is awakened
\* just when the state word leaves the state it sleeps in: no request, answer or
\* TERMINATION is overlooked, and no wake-up meant for an earlier exchange is
\* taken for the answer to this one, though the thread of the subscription
\* writes that word without a lock (proxysubscribe.c:228).
WakeUpsAreDue ==
  /\ channel_pc = "idle" => (channel_woken <=> channel_state # "IDLE")
  /\ channel_pc = "acked" => (channel_woken <=> channel_state # "ACKNOWLEDGED")
  /\ channel_pc = "failed" => (channel_woken <=> channel_state # "FAILS")
  /\ channel_pc = "rested" => (channel_woken <=> channel_state # "REST_RESPOND")
  /\ subscribe_pc = "sent" => (subscribe_woken <=> subscribe_state # "ANSWER")

\* While gonggo lives no thread leaves its loop before main has told it to, and
\* the comm thread goes last: nobody appends a task to its queue, or awakes it,
\* once f_stop may run (work.c:184-199).
SubscribeIsStopped == main_pc \in {"end_subscribe", "stop_alive", "stop_comm", "join", "stopped"}
NobodyLeavesEarly ==
  /\ channel_pc = "exited" => proxy_channel_end \/ gonggo = "dead"
  /\ subscribe_pc = "exited" => SubscribeIsStopped \/ gonggo = "dead"
  /\ alive_pc = "exited" => main_pc \in {"stop_comm", "join", "stopped"} \/ gonggo = "dead"
  /\ comm_pc \in {"stopping", "exited"} =>
       proxy_comm_end /\ channel_pc \notin {"append_task", "awake_comm"}

\* SIGTERM, a stop request of gonggo or its death stops the proxy: once
\* proxy_exit is set, main leaves its pause loop.
SignalStartsStop == proxy_exit ~> main_pc \notin {"test", "tested", "pause"}

\* What the proxy does on its way out ends: the threads leave their loops in
\* spite of the locks they hold while they wait for one another, f_stop runs
\* and main joins them (README.md:12, gonggoalive.c:59).
StopCompletes == main_pc = "die" ~> main_pc = "stopped"

\* What keeps a stop from its end is an answer, and nothing else: the subscribe
\* thread waits for the verdict of a dead gonggo, with proxy_subscribe_lock held
\* and nobody to awake it.  So the stop ends whenever gonggo lives, whatever the
\* backend pushes, whatever locks gonggo takes to its grave and in whichever
\* exchange its death finds the other threads.
AnswerIsOut == gonggo = "dead" /\ subscribe_pc = "sent" /\ ~subscribe_woken
StopHangsOnlyOnAnswers == StopCompletes \/ <>[]AnswerIsOut
=============================================================================
