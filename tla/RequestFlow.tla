----------------------------- MODULE RequestFlow -----------------------------
(***************************************************************************)
(* The path of a request through a sawang proxy while it runs:             *)
(*                                                                         *)
(*   gonggo --channel shm--> channel thread --parse_queue--> comm thread   *)
(*      ^                          |                            |  f_run   *)
(*      |                          |  respond tables            v          *)
(*   subscribe shm <-- subscribe thread <--reply_queue-- proxy_comm_reply  *)
(*                                                                         *)
(* Each step of a thread below runs up to its next critical section or     *)
(* blocking call.  gonggo (the dispatcher) and the backend behind the      *)
(* callbacks are not under src/: they are modelled from how src/ uses      *)
(* them.  Starting and stopping the threads is the business of Shutdown.   *)
(***************************************************************************)
EXTENDS Naturals, Sequences, RespondTable

CONSTANTS
  Rids,       \* request ids, each used for one request
  Services,   \* tasks whose parse result is PARSE_SINGLESHOT
  Topics,     \* tasks whose parse result is PARSE_MULTIRESPOND
  Workers,    \* backend threads that call ProxyReply outside f_run
  Comm,       \* the proxy_comm thread, the other caller of ProxyReply
  NoRid,      \* an empty rid field, a payload without a rid
  MaxPushes,  \* bound: replies pushed for multirespond tasks
  Faults      \* what may go wrong, a subset of FaultKinds

\* "shm": a shared memory of a payload cannot be opened, mapped or created;
\* "refuse": gonggo answers SUBSCRIBE_FAILED; "spurious": pthread_cond_wait
\* returns to the comm or subscribe thread although nobody signalled; "abandon":
\* it does so to the channel thread, which then gives its request up.
FaultKinds == {"shm", "refuse", "spurious", "abandon"}

ASSUME FlowAssumption ==
  /\ NoRid \notin Rids
  /\ Comm \notin Workers
  /\ MaxPushes \in Nat
  /\ Faults \subseteq FaultKinds

Repliers == Workers \cup {Comm}

(***************************************************************************)
(* A request is the pair of the service the client names and its payload,  *)
(* and printed, it is the key of its task.  A drop (unsubscribe) names the *)
(* request to forget; NoRid stands for a payload without a rid string.     *)
(***************************************************************************)
SingleKeys  == [kind : {"single"}, arg : Services]
MultiKeys   == [kind : {"multi"}, arg : Topics]
DropKeys    == [kind : {"drop"}, arg : Rids \cup {NoRid}]
BadRequests == [kind : {"invalid"}, arg : {NoRid}]
NoKey       == [kind |-> "none", arg |-> NoRid]
Keys        == SingleKeys \cup MultiKeys \cup DropKeys
Requests    == Keys \cup BadRequests

VARIABLES
  asked, registered, delivered,  \* gonggo: request of a rid, rids it has recorded, answers it got
  abandoned,                     \* acknowledged, and given up by the channel thread before CHANNEL_DONE
  channel_pc, channel_state, channel_rid, channel_unsub,   \* the channel thread and its shm
  singleshot_table, multirespond_table, parse_queue, reply_queue,
  comm_pc, comm_task,            \* the comm thread and the ParseQueueTask it holds
  call,                          \* the proxy_comm_reply call of each replier
  subscribe_pc, subscribe_state, subscribe_task, failed_task,
  owed, active, pushes,          \* the backend: answers owed, topics running, replies pushed
  appended, handed,              \* history: replies queued, replies gonggo took,
  retried                        \* and those put back at the last SubscribeRests

gonggoVars    == <<asked, registered, delivered, abandoned>>
channelVars   == <<channel_pc, channel_state, channel_rid, channel_unsub>>
tableVars     == <<singleshot_table, multirespond_table>>
commVars      == <<comm_pc, comm_task>>
subscribeVars == <<subscribe_state, subscribe_task, failed_task, handed, retried>>
replyVars     == <<reply_queue, appended>>
backendVars   == <<owed, active, pushes>>
vars == <<gonggoVars, channelVars, tableVars, parse_queue, commVars, call,
          subscribe_pc, subscribeVars, replyVars, backendVars>>

\* ParseQueueTask; a task is a drop iff it names a task to unsubscribe from.
Tasks == [key : Keys, unsub_key : MultiKeys \cup {NoKey}, unsub_uuid : Rids \cup {NoRid}]
NoTask == [key |-> NoKey, unsub_key |-> NoKey, unsub_uuid |-> NoRid]
IsDrop(task) == task.unsub_key # NoKey

\* ReplyQueueTask: the rids of the JSON text and multiple_respond.  The key it
\* answers is not in the text; it is kept to state what a reply is about.
Replies == [rids : SUBSET Rids, multi : BOOLEAN, key : Requests]
NoReply == [rids |-> {}, multi |-> FALSE, key |-> NoKey]

\* The frame of a proxy_comm_reply call: todo is what it has still to drop.
Calls == [pc : {"return", "lookup", "fallback", "drop", "append", "awake"},
          key : Keys \cup {NoKey}, rids : SUBSET Rids, todo : SUBSET Rids, multi : BOOLEAN]
NoCall == [pc |-> "return", key |-> NoKey, rids |-> {}, todo |-> {}, multi |-> FALSE]
Calling(key) == [NoCall EXCEPT !.pc = "lookup", !.key = key]

Init ==
  /\ asked = [r \in Rids |-> NoKey] /\ registered = {} /\ abandoned = {}
  /\ delivered = [r \in Rids |-> 0]
  /\ channel_pc = "idle" /\ channel_state = "IDLE"
  /\ channel_rid = NoRid /\ channel_unsub = NoKey
  /\ singleshot_table = EmptyTable /\ multirespond_table = EmptyTable
  /\ parse_queue = <<>> /\ reply_queue = <<>>
  /\ comm_pc = "start" /\ comm_task = NoTask
  /\ call = [t \in Repliers |-> NoCall]
  /\ subscribe_pc = "start" /\ subscribe_state = "INIT"
  /\ subscribe_task = NoReply /\ failed_task = <<>>
  /\ owed = [k \in SingleKeys |-> 0] /\ active = {} /\ pushes = 0
  /\ appended = 0 /\ handed = 0 /\ retried = 0
-----------------------------------------------------------------------------
(* Queues and wake-ups shared by the threads.                              *)

parse_queue_append(task) == parse_queue' = Append(parse_queue, task)

reply_queue_append(reply) ==
  /\ reply_queue' = Append(reply_queue, reply)
  /\ appended' = appended + 1

\* A thread holds its lock except before its loop and in pthread_cond_wait;
\* an awake call needs that lock, and the signal is lost on a thread that does
\* not wait.
LockFree(pc) == pc \in {"start", "waiting", "woken"}
Signalled(pc) == IF pc = "waiting" THEN "woken" ELSE pc

proxy_comm_awake_Unlocked == comm_pc' = Signalled(comm_pc)
proxy_comm_awake ==
  /\ LockFree(comm_pc)
  /\ comm_pc' = Signalled(comm_pc)

proxy_subscribe_awake_Unlocked == subscribe_pc' = Signalled(subscribe_pc)
proxy_subscribe_awake ==
  /\ LockFree(subscribe_pc)
  /\ subscribe_pc' = Signalled(subscribe_pc)

\* A wait without a predicate loop may end with nobody having signalled.
Spurious == "spurious" \in Faults
CommWakesAlone ==
  /\ Spurious /\ comm_pc = "waiting" /\ comm_pc' = "woken"
  /\ UNCHANGED <<gonggoVars, channelVars, tableVars, parse_queue, comm_task, call,
                 subscribe_pc, subscribeVars, replyVars, backendVars>>
SubscribeWakesAlone ==
  /\ Spurious /\ subscribe_pc = "waiting" /\ subscribe_pc' = "woken"
  /\ UNCHANGED <<gonggoVars, channelVars, tableVars, parse_queue, commVars, call,
                 subscribeVars, replyVars, backendVars>>
-----------------------------------------------------------------------------
(* The channel thread.  It holds the lock of the channel shm except while  *)
(* it waits for gonggo, with channel_pc "idle", "acked" or "failed".       *)

\* The request in the channel, as its payload says.
Request == asked[channel_rid]

\* gonggo puts a request into the idle channel.
GonggoRequests(r, q) ==
  /\ channel_pc = "idle" /\ channel_state = "IDLE"
  /\ asked[r] = NoKey
  /\ asked' = [asked EXCEPT ![r] = q]
  /\ channel_state' = "REQUEST" /\ channel_rid' = r
  /\ UNCHANGED <<registered, delivered, abandoned, channel_pc, channel_unsub, tableVars,
                 parse_queue, commVars, call, subscribe_pc, subscribeVars, replyVars, backendVars>>

ChannelParses_FilesAtOnce ==
  /\ channel_pc = "idle" /\ channel_state = "REQUEST"
  /\ channel_state' = "ACKNOWLEDGED" /\ channel_pc' = "acked"
  /\ singleshot_table' = IF Request \in SingleKeys
                         THEN respond_table_set(singleshot_table, Request, channel_rid)
                         ELSE singleshot_table
  /\ UNCHANGED <<gonggoVars, channel_rid, channel_unsub, multirespond_table, parse_queue,
                 commVars, call, subscribe_pc, subscribeVars, replyVars, backendVars>>

\* The channel thread reads and parses the payload and reports the outcome.
ChannelParses ==
  /\ channel_pc = "idle" /\ channel_state = "REQUEST"
  /\ \/ channel_state' = "ACKNOWLEDGED" /\ channel_pc' = "acked"
     \/ "shm" \in Faults /\ channel_state' = "FAILS" /\ channel_pc' = "failed"
  /\ UNCHANGED <<gonggoVars, channel_rid, channel_unsub, tableVars, parse_queue,
                 commVars, call, subscribe_pc, subscribeVars, replyVars, backendVars>>

\* gonggo records the acknowledged request and hands the channel back.
GonggoConfirms ==
  /\ channel_pc \in {"acked", "failed"} /\ channel_state # "DONE"
  /\ channel_state' = "DONE"
  /\ registered' = IF channel_pc = "acked" THEN registered \cup {channel_rid} ELSE registered
  /\ UNCHANGED <<asked, delivered, abandoned, channel_pc, channel_rid, channel_unsub, tableVars,
                 parse_queue, commVars, call, subscribe_pc, subscribeVars, replyVars,
                 backendVars>>

\* gonggo was signalled CHANNEL_ACKNOWLEDGED, and comes to it when the channel
\* thread has given up and is idle again: it may record the request all the same.
GonggoRecordsAbandoned(r) ==
  /\ channel_pc = "idle" /\ channel_state = "IDLE"
  /\ r \in abandoned \ registered
  /\ registered' = registered \cup {r}
  /\ UNCHANGED <<asked, delivered, abandoned, channelVars, tableVars, parse_queue, commVars,
                 call, subscribe_pc, subscribeVars, replyVars, backendVars>>

\* proxy_channel_shm_idle, and back to the wait at the top of the loop.
proxy_channel_shm_idle ==
  /\ channel_pc' = "idle"
  /\ channel_state' = "IDLE" /\ channel_rid' = NoRid
  /\ channel_unsub' = NoKey

ChannelWoken == channel_state = "DONE" \/ "abandon" \in Faults

\* A request is handled only after gonggo has confirmed it.
Confirmed_Skipped == TRUE
Confirmed == channel_state = "DONE"

\* The wait ended with nothing to do: no payload, or no CHANNEL_DONE, and then
\* an acknowledged request is abandoned.
ChannelGivesUp ==
  /\ ChannelWoken
  /\ \/ channel_pc = "failed" /\ UNCHANGED abandoned
     \/ channel_pc = "acked" /\ ~Confirmed /\ abandoned' = abandoned \cup {channel_rid}
  /\ proxy_channel_shm_idle
  /\ UNCHANGED <<asked, registered, delivered, tableVars, parse_queue, commVars, call,
                 subscribe_pc, subscribeVars, replyVars, backendVars>>

ChannelHandles_Failed == ChannelWoken /\ channel_pc \in {"acked", "failed"} /\ Confirmed

\* A payload that could not be read is not handled.
ChannelHandles == ChannelWoken /\ channel_pc = "acked" /\ Confirmed

\* The services a drop may be about; none when its rid is missing or unknown.
proxy_channel_create_unsubscribe_task_key(q) ==
  IF q.arg = NoRid THEN {} ELSE respond_table_dup_task_key(multirespond_table, q.arg)

ChannelRejects_Silent ==
  /\ ChannelHandles
  /\ \/ Request \in BadRequests
     \/ Request \in DropKeys /\ proxy_channel_create_unsubscribe_task_key(Request) = {}
  /\ reply_queue_append([rids |-> {channel_rid}, multi |-> FALSE, key |-> Request])
  /\ proxy_channel_shm_idle
  /\ UNCHANGED <<gonggoVars, tableVars, parse_queue, commVars, call, subscribe_pc,
                 subscribeVars, backendVars>>

\* PARSE_INVALID, or a drop of an unknown rid: an answer with a status only.
ChannelRejects ==
  /\ ChannelHandles
  /\ \/ Request \in BadRequests
     \/ Request \in DropKeys /\ proxy_channel_create_unsubscribe_task_key(Request) = {}
  /\ reply_queue_append([rids |-> {channel_rid}, multi |-> FALSE, key |-> Request])
  /\ channel_pc' = "awake_subscribe"
  /\ UNCHANGED <<gonggoVars, channel_state, channel_rid, channel_unsub, tableVars,
                 parse_queue, commVars, call, subscribe_pc, subscribeVars, backendVars>>

\* A drop of a known rid: the lookup, then the job, then the table.
ChannelFindsTopic ==
  /\ ChannelHandles /\ Request \in DropKeys
  /\ \E k \in proxy_channel_create_unsubscribe_task_key(Request) : channel_unsub' = k
  /\ channel_pc' = "append_drop"
  /\ UNCHANGED <<gonggoVars, channel_state, channel_rid, tableVars, parse_queue, commVars,
                 call, subscribe_pc, subscribeVars, replyVars, backendVars>>

ChannelAppendsDrop ==
  /\ channel_pc = "append_drop"
  /\ parse_queue_append([key |-> Request, unsub_key |-> channel_unsub,
                         unsub_uuid |-> Request.arg])
  /\ channel_pc' = "set_drop"
  /\ UNCHANGED <<gonggoVars, channel_state, channel_rid, channel_unsub, tableVars, commVars,
                 call, subscribe_pc, subscribeVars, replyVars, backendVars>>

ChannelSetsDrop ==
  /\ channel_pc = "set_drop"
  /\ singleshot_table' = respond_table_set(singleshot_table, Request, channel_rid)
  /\ channel_pc' = "awake_comm"
  /\ UNCHANGED <<gonggoVars, channel_state, channel_rid, channel_unsub, multirespond_table,
                 parse_queue, commVars, call, subscribe_pc, subscribeVars, replyVars,
                 backendVars>>

\* Any other request: the table, then the job.  A multirespond id that was in
\* the array already is no new job.
ChannelSetsRequest ==
  /\ ChannelHandles
  /\ \/ /\ Request \in SingleKeys
        /\ singleshot_table' = respond_table_set(singleshot_table, Request, channel_rid)
        /\ channel_pc' = "append_job"
        /\ UNCHANGED <<multirespond_table, channel_state, channel_rid, channel_unsub>>
     \/ /\ Request \in MultiKeys
        /\ multirespond_table' = respond_table_set(multirespond_table, Request, channel_rid)
        /\ IF IsNewEntry(multirespond_table, Request, channel_rid)
           THEN channel_pc' = "append_job" /\ UNCHANGED <<channel_state, channel_rid, channel_unsub>>
           ELSE proxy_channel_shm_idle
        /\ UNCHANGED singleshot_table
  /\ UNCHANGED <<gonggoVars, parse_queue, commVars, call, subscribe_pc, subscribeVars,
                 replyVars, backendVars>>

ChannelAppendsJob ==
  /\ channel_pc = "append_job"
  /\ parse_queue_append([NoTask EXCEPT !.key = Request])
  /\ channel_pc' = "awake_comm"
  /\ UNCHANGED <<gonggoVars, channel_state, channel_rid, channel_unsub, tableVars, commVars,
                 call, subscribe_pc, subscribeVars, replyVars, backendVars>>

\* The last call of a request; it blocks while the awakened thread works.
ChannelAwakes ==
  /\ \/ channel_pc = "awake_comm" /\ proxy_comm_awake /\ UNCHANGED subscribe_pc
     \/ channel_pc = "awake_subscribe" /\ proxy_subscribe_awake /\ UNCHANGED comm_pc
  /\ proxy_channel_shm_idle
  /\ UNCHANGED <<gonggoVars, tableVars, parse_queue, comm_task, call, subscribeVars,
                 replyVars, backendVars>>
-----------------------------------------------------------------------------
(* The comm thread.  It holds proxy_comm_lock from CommLocks to CommRests, *)
(* callbacks included.                                                     *)

CommLocks ==
  /\ comm_pc \in {"start", "woken"} /\ comm_pc' = "pop"
  /\ UNCHANGED <<gonggoVars, channelVars, tableVars, parse_queue, comm_task, call,
                 subscribe_pc, subscribeVars, replyVars, backendVars>>

CommPops ==
  /\ comm_pc = "pop" /\ call[Comm].pc = "return"
  /\ IF parse_queue = <<>>
     THEN comm_pc' = "rest" /\ UNCHANGED <<parse_queue, comm_task>>
     ELSE /\ parse_queue' = Tail(parse_queue)
          /\ comm_task' = Head(parse_queue)
          /\ comm_pc' = IF IsDrop(Head(parse_queue)) THEN "drop" ELSE "run"
  /\ UNCHANGED <<gonggoVars, channelVars, tableVars, call, subscribe_pc, subscribeVars,
                 replyVars, backendVars>>

\* The empty queue was seen, and a task may have been queued since.
CommRests ==
  /\ comm_pc = "rest" /\ comm_pc' = "waiting"
  /\ UNCHANGED <<gonggoVars, channelVars, tableVars, parse_queue, comm_task, call,
                 subscribe_pc, subscribeVars, replyVars, backendVars>>

\* f_run: the backend owes one answer to a single-shot task and serves a topic
\* until it is cleared.  It may reply before f_run returns.
CommRuns ==
  /\ comm_pc = "run" /\ comm_pc' = "running"
  /\ \/ /\ comm_task.key \in SingleKeys
        /\ owed' = [owed EXCEPT ![comm_task.key] = @ + 1] /\ UNCHANGED active
     \/ /\ comm_task.key \in MultiKeys
        /\ active' = active \cup {comm_task.key} /\ UNCHANGED owed
  /\ UNCHANGED <<gonggoVars, channelVars, tableVars, parse_queue, comm_task, call,
                 subscribe_pc, subscribeVars, replyVars, pushes>>

CommRunReturns ==
  /\ comm_pc = "running" /\ call[Comm].pc = "return"
  /\ comm_pc' = "pop"
  /\ UNCHANGED <<gonggoVars, channelVars, tableVars, parse_queue, comm_task, call,
                 subscribe_pc, subscribeVars, replyVars, backendVars>>

LastSubscriberDropped_Any ==
  ~IsNewEntry(multirespond_table, comm_task.unsub_key, comm_task.unsub_uuid)
LastSubscriberDropped_Early ==
  /\ ~IsNewEntry(multirespond_table, comm_task.unsub_key, comm_task.unsub_uuid)
  /\ comm_task.unsub_key \notin DOMAIN multirespond_table

\* The drop left the topic without subscribers.
LastSubscriberDropped ==
  /\ ~IsNewEntry(multirespond_table, comm_task.unsub_key, comm_task.unsub_uuid)
  /\ comm_task.unsub_key \notin DOMAIN multirespond_table'

\* The answer of a drop starts when the drop, and the clear if any, is done.
CommDrops ==
  /\ comm_pc = "drop"
  /\ multirespond_table' =
       respond_table_drop(multirespond_table, comm_task.unsub_key, comm_task.unsub_uuid)
  /\ IF LastSubscriberDropped
     THEN comm_pc' = "clear" /\ UNCHANGED call
     ELSE comm_pc' = "pop" /\ call' = [call EXCEPT ![Comm] = Calling(comm_task.key)]
  /\ UNCHANGED <<gonggoVars, channelVars, singleshot_table, parse_queue, comm_task,
                 subscribe_pc, subscribeVars, replyVars, backendVars>>

\* f_multirespond_clear.
CommClears ==
  /\ comm_pc = "clear" /\ comm_pc' = "pop"
  /\ active' = active \ {comm_task.unsub_key}
  /\ call' = [call EXCEPT ![Comm] = Calling(comm_task.key)]
  /\ UNCHANGED <<gonggoVars, channelVars, tableVars, parse_queue, comm_task,
                 subscribe_pc, subscribeVars, replyVars, owed, pushes>>
-----------------------------------------------------------------------------
(* proxy_comm_reply, called by the backend from a thread of its own or     *)
(* from inside f_run, and by the comm thread for a drop.                   *)

BackendReplies(t, k) ==
  /\ call[t].pc = "return"
  /\ t = Comm => comm_pc = "running"
  /\ \/ k \in SingleKeys /\ owed[k] > 0
        /\ owed' = [owed EXCEPT ![k] = @ - 1] /\ UNCHANGED pushes
     \/ k \in active /\ pushes < MaxPushes
        /\ pushes' = pushes + 1 /\ UNCHANGED owed
  /\ call' = [call EXCEPT ![t] = Calling(k)]
  /\ UNCHANGED <<gonggoVars, channelVars, tableVars, parse_queue, commVars, subscribe_pc,
                 subscribeVars, replyVars, active>>

MoreThanOne(rids) == \A r \in rids : rids # {r}

\* A snapshot of the single-shot requests of the key.  Of two or more, each
\* is dropped from the table; one alone stays in it.
ReplyLooksUp(t) ==
  LET rids == respond_table_request_dup(singleshot_table, call[t].key) IN
  /\ call[t].pc = "lookup"
  /\ call' = [call EXCEPT ![t] =
       IF rids = {} THEN [@ EXCEPT !.pc = "fallback"]
       ELSE IF MoreThanOne(rids) THEN [@ EXCEPT !.pc = "drop", !.rids = rids, !.todo = rids]
       ELSE [@ EXCEPT !.pc = "append", !.rids = rids]]
  /\ UNCHANGED <<gonggoVars, channelVars, tableVars, parse_queue, commVars, subscribe_pc,
                 subscribeVars, replyVars, backendVars>>

ReplyFallsBack_FlagForgotten(t) ==
  LET rids == respond_table_request_dup(multirespond_table, call[t].key) IN
  /\ call[t].pc = "fallback"
  /\ call' = [call EXCEPT ![t] =
       IF rids = {} THEN NoCall ELSE [@ EXCEPT !.pc = "append", !.rids = rids]]
  /\ UNCHANGED <<gonggoVars, channelVars, tableVars, parse_queue, commVars, subscribe_pc,
                 subscribeVars, replyVars, backendVars>>

\* No single-shot request: the subscribers of the key, if any.
ReplyFallsBack(t) ==
  LET rids == respond_table_request_dup(multirespond_table, call[t].key) IN
  /\ call[t].pc = "fallback"
  /\ call' = [call EXCEPT ![t] =
       IF rids = {} THEN NoCall ELSE [@ EXCEPT !.pc = "append", !.rids = rids, !.multi = TRUE]]
  /\ UNCHANGED <<gonggoVars, channelVars, tableVars, parse_queue, commVars, subscribe_pc,
                 subscribeVars, replyVars, backendVars>>

ReplyDrops_RemovesTask(t, r) ==
  /\ call[t].pc = "drop" /\ r \in call[t].todo
  /\ singleshot_table' = Restrict(singleshot_table, DOMAIN singleshot_table \ {call[t].key})
  /\ call' = [call EXCEPT ![t].todo = {}, ![t].pc = "append"]
  /\ UNCHANGED <<gonggoVars, channelVars, multirespond_table, parse_queue, commVars,
                 subscribe_pc, subscribeVars, replyVars, backendVars>>

ReplyDrops(t, r) ==
  /\ call[t].pc = "drop" /\ r \in call[t].todo
  /\ singleshot_table' = respond_table_drop(singleshot_table, call[t].key, r)
  /\ call' = [call EXCEPT ![t].todo = @ \ {r},
                          ![t].pc = IF call[t].todo = {r} THEN "append" ELSE "drop"]
  /\ UNCHANGED <<gonggoVars, channelVars, multirespond_table, parse_queue, commVars,
                 subscribe_pc, subscribeVars, replyVars, backendVars>>

ReplyAppends(t) ==
  /\ call[t].pc = "append"
  /\ reply_queue_append([rids |-> call[t].rids, multi |-> call[t].multi, key |-> call[t].key])
  /\ call' = [call EXCEPT ![t].pc = "awake"]
  /\ UNCHANGED <<gonggoVars, channelVars, tableVars, parse_queue, commVars, subscribe_pc,
                 subscribeVars, backendVars>>

ReplyAwakes(t) ==
  /\ call[t].pc = "awake"
  /\ proxy_subscribe_awake
  /\ call' = [call EXCEPT ![t] = NoCall]
  /\ UNCHANGED <<gonggoVars, channelVars, tableVars, parse_queue, commVars, subscribeVars,
                 replyVars, backendVars>>
-----------------------------------------------------------------------------
(* The subscribe thread.  It holds proxy_subscribe_lock from its lock to   *)
(* SubscribeRests, the wait for gonggo's verdict on an answer included.    *)

proxy_subscribe_shm_idle == subscribe_state' = "IDLE"

SubscribeLocks ==
  /\ subscribe_pc \in {"start", "woken"} /\ subscribe_pc' = "pop"
  /\ proxy_subscribe_shm_idle /\ retried' = 0
  /\ UNCHANGED <<gonggoVars, channelVars, tableVars, parse_queue, commVars, call,
                 subscribe_task, failed_task, handed, replyVars, backendVars>>

SubscribeFindsEmpty ==
  /\ subscribe_pc = "pop" /\ reply_queue = <<>> /\ subscribe_pc' = "rest"
  /\ UNCHANGED <<gonggoVars, channelVars, tableVars, parse_queue, commVars, call,
                 subscribeVars, replyVars, backendVars>>

SubscribeRests_KeepsFailed ==
  /\ subscribe_pc = "rest" /\ subscribe_pc' = "waiting"
  /\ reply_queue' = failed_task \o reply_queue /\ retried' = Len(failed_task)
  /\ UNCHANGED <<gonggoVars, channelVars, tableVars, parse_queue, commVars, call,
                 subscribe_state, subscribe_task, failed_task, handed, appended, backendVars>>

\* What failed goes back to the head of the queue, for the next awake.
SubscribeRests ==
  /\ subscribe_pc = "rest" /\ subscribe_pc' = "waiting"
  /\ reply_queue' = failed_task \o reply_queue
  /\ failed_task' = <<>> /\ retried' = Len(failed_task)
  /\ UNCHANGED <<gonggoVars, channelVars, tableVars, parse_queue, commVars, call,
                 subscribe_state, subscribe_task, handed, appended, backendVars>>

\* The next reply: its answer shm is offered to gonggo, or cannot be created.
SubscribeSends ==
  /\ subscribe_pc = "pop" /\ reply_queue # <<>>
  /\ reply_queue' = Tail(reply_queue)
  /\ \/ /\ subscribe_task' = Head(reply_queue)
        /\ subscribe_state' = "ANSWER" /\ subscribe_pc' = "sent"
        /\ UNCHANGED failed_task
     \/ /\ "shm" \in Faults
        /\ failed_task' = Append(failed_task, Head(reply_queue))
        /\ proxy_subscribe_shm_idle
        /\ UNCHANGED <<subscribe_pc, subscribe_task>>
  /\ UNCHANGED <<gonggoVars, channelVars, tableVars, parse_queue, commVars, call, handed,
                 retried, appended, backendVars>>

\* gonggo takes the offered answer, or refuses it.
GonggoTakes ==
  /\ subscribe_pc = "sent" /\ subscribe_state = "ANSWER"
  /\ \/ /\ subscribe_state' = "DONE" /\ handed' = handed + 1
        /\ delivered' = [r \in Rids |-> IF r \in subscribe_task.rids THEN delivered[r] + 1
                                                                    ELSE delivered[r]]
     \/ "refuse" \in Faults /\ subscribe_state' = "FAILED" /\ UNCHANGED <<handed, delivered>>
  /\ UNCHANGED <<asked, registered, abandoned, channelVars, tableVars, parse_queue, commVars,
                 call, subscribe_pc, subscribe_task, failed_task, retried, replyVars,
                 backendVars>>

Taken_OnAnyVerdict == subscribe_state # "ANSWER"

\* Only SUBSCRIBE_DONE disposes of a reply.
Taken == subscribe_state = "DONE"

SubscribeConcludes ==
  /\ subscribe_pc = "sent" /\ (subscribe_state # "ANSWER" \/ Spurious)
  /\ failed_task' = IF Taken THEN failed_task ELSE Append(failed_task, subscribe_task)
  /\ subscribe_task' = NoReply
  /\ proxy_subscribe_shm_idle /\ subscribe_pc' = "pop"
  /\ UNCHANGED <<gonggoVars, channelVars, tableVars, parse_queue, commVars, call, handed,
                 retried, replyVars, backendVars>>
-----------------------------------------------------------------------------
ChannelNext ==
  ChannelParses \/ ChannelGivesUp \/ ChannelRejects \/ ChannelFindsTopic \/ ChannelAppendsDrop
    \/ ChannelSetsDrop \/ ChannelSetsRequest \/ ChannelAppendsJob \/ ChannelAwakes
CommNext ==
  CommLocks \/ CommPops \/ CommRests \/ CommRuns \/ CommRunReturns \/ CommDrops \/ CommClears
ReplyNext(t) ==
  \/ ReplyLooksUp(t) \/ ReplyFallsBack(t) \/ ReplyAppends(t) \/ ReplyAwakes(t)
  \/ \E r \in Rids : ReplyDrops(t, r)
SubscribeNext ==
  SubscribeLocks \/ SubscribeFindsEmpty \/ SubscribeRests \/ SubscribeSends \/ SubscribeConcludes
GonggoNext ==
  \/ GonggoConfirms \/ GonggoTakes
  \/ \E r \in Rids : GonggoRecordsAbandoned(r) \/ \E q \in Requests : GonggoRequests(r, q)
BackendNext == \E t \in Repliers, k \in SingleKeys \cup MultiKeys : BackendReplies(t, k)

Next ==
  \/ ChannelNext \/ CommNext \/ SubscribeNext \/ GonggoNext \/ BackendNext
  \/ \E t \in Repliers : ReplyNext(t)
  \/ CommWakesAlone \/ SubscribeWakesAlone

Spec == Init /\ [][Next]_vars

(***************************************************************************)
(* Fairness: every runnable thread is scheduled and every call returns;    *)
(* gonggo reacts to a signalled state, and the backend answers each        *)
(* single-shot task once.  New requests, pushes and faults are never due.  *)
(***************************************************************************)
FairSpec ==
  /\ Spec
  /\ WF_vars(ChannelNext) /\ WF_vars(CommNext) /\ WF_vars(SubscribeNext)
  /\ WF_vars(GonggoConfirms) /\ WF_vars(GonggoTakes)
  /\ \A t \in Repliers : WF_vars(ReplyNext(t))
  /\ \A k \in SingleKeys : WF_vars(\E t \in Workers : BackendReplies(t, k))
-----------------------------------------------------------------------------
(* State functions the properties are written with.                        *)

ChannelBusy == channel_pc # "idle" \/ channel_state = "REQUEST"
SomeRid == channel_rid \in Rids /\ Request \in Requests

\* The requests gonggo has recorded and the channel thread went on with.
Accepted == registered \ abandoned

\* The reply the subscribe thread has popped and not disposed of.
InHand == IF subscribe_pc = "sent" THEN {subscribe_task} ELSE {}
PendingReplies == Range(reply_queue) \cup Range(failed_task) \cup InHand

\* The replies gonggo has still to take, and their number.
Offered == IF subscribe_pc = "sent" /\ subscribe_state # "DONE" THEN {subscribe_task} ELSE {}
Undelivered == Range(reply_queue) \cup Range(failed_task) \cup Offered
Outstanding == Len(reply_queue) + Len(failed_task)
                 + (IF subscribe_pc = "sent" /\ subscribe_state # "DONE" THEN 1 ELSE 0)

Ledger == INSTANCE RequestLedger
            WITH Kept <- MultiKeys, pending <- Undelivered, outstanding <- Outstanding

\* The calls that carry rids: past the snapshot, short of the append.
Carrying(t) == call[t].pc \in {"drop", "append"}

\* An answer to r has been given, or made from a snapshot and not lost.
Answered(r) ==
  \/ delivered[r] > 0
  \/ \E reply \in PendingReplies : r \in reply.rids
  \/ \E t \in Repliers : Carrying(t) /\ r \in call[t].rids

\* A task for k is on its way from the channel to f_run.
RunPending(k) ==
  \/ channel_pc = "append_job" /\ Request = k
  \/ \E i \in DOMAIN parse_queue : parse_queue[i].key = k
  \/ comm_pc = "run" /\ comm_task.key = k

\* A reply call for k is still to look up the table, or to be made.
LookupPending(k) == \E t \in Repliers : call[t].pc = "lookup" /\ call[t].key = k
ReplyDue(k) == RunPending(k) \/ LookupPending(k) \/ (k \in SingleKeys /\ owed[k] > 0)
DropDue(k) == RunPending(k) \/ LookupPending(k)
                \/ (comm_pc \in {"drop", "clear"} /\ comm_task.key = k)

InChannel(r) == channel_rid = r /\ channel_pc \in {"acked", "append_drop", "set_drop"}
WaitingIn(table) == UNION {table[k] : k \in DOMAIN table}
Awaits(r) == r \in respond_table_request_dup(singleshot_table, asked[r])
-----------------------------------------------------------------------------
(* Every variable keeps its type, the tables the shape respondtable.c      *)
(* keeps them in: no key with an empty array, no key of the other table.   *)
TypeOK ==
  /\ asked \in [Rids -> Requests \cup {NoKey}]
  /\ registered \in SUBSET Rids /\ abandoned \in SUBSET Rids
  /\ delivered \in [Rids -> Nat]
  /\ channel_pc \in {"idle", "acked", "failed", "append_drop", "set_drop", "append_job",
                     "awake_comm", "awake_subscribe"}
  /\ channel_state \in {"IDLE", "REQUEST", "ACKNOWLEDGED", "FAILS", "DONE"}
  /\ channel_rid \in Rids \cup {NoRid}
  /\ channel_unsub \in MultiKeys \cup {NoKey}
  /\ IsTable(singleshot_table, SingleKeys \cup DropKeys, Rids)
  /\ IsTable(multirespond_table, MultiKeys, Rids)
  /\ parse_queue \in Seq(Tasks)
  /\ reply_queue \in Seq(Replies) /\ failed_task \in Seq(Replies)
  /\ comm_pc \in {"start", "pop", "rest", "waiting", "woken", "run", "running", "drop", "clear"}
  /\ comm_task \in Tasks \cup {NoTask}
  /\ call \in [Repliers -> Calls]
  /\ subscribe_pc \in {"start", "pop", "rest", "waiting", "woken", "sent"}
  /\ subscribe_state \in {"INIT", "IDLE", "ANSWER", "DONE", "FAILED"}
  /\ subscribe_task \in Replies \cup {NoReply}
  /\ owed \in [SingleKeys -> Nat]
  /\ active \in SUBSET MultiKeys
  /\ pushes \in Nat /\ appended \in Nat /\ handed \in Nat /\ retried \in Nat

\* A reply names only requests that asked for exactly what it answers, and
\* gonggo is told to keep a request (remove_request false) iff it is a
\* subscription: the two tables and the stale snapshots never mix requests.
RepliesMatchRequests ==
  \A reply \in PendingReplies :
    /\ \A r \in reply.rids : asked[r] = reply.key
    /\ reply.multi <=> reply.key \in MultiKeys

\* No answer reaches gonggo for a request it has not recorded: whatever the
\* tables, the replies and the calls in progress name was confirmed through
\* CHANNEL_DONE, also when the wait for it ends before.
AnswerAfterRegistration ==
  /\ \A reply \in PendingReplies : reply.rids \subseteq registered
  /\ \A t \in Repliers : Carrying(t) => call[t].rids \subseteq registered
  /\ \A r \in Rids : delivered[r] > 0 => r \in registered

\* A request that was acknowledged and given up leaves no trace in the proxy,
\* although gonggo may count on it: no table, call or reply ever names it.
AbandonedLeavesNoTrace ==
  \A r \in abandoned :
    /\ r \notin WaitingIn(singleshot_table) \cup WaitingIn(multirespond_table)
    /\ \A reply \in PendingReplies : r \notin reply.rids
    /\ \A t \in Repliers : Carrying(t) => r \notin call[t].rids
    /\ delivered[r] = 0

\* A topic with subscribers is served: f_run for it has been called since the
\* last f_multirespond_clear, or the task that will call it is on its way.
\* Subscribing races with the drop that clears the topic.
ServiceRunsWhileSubscribed ==
  \A k \in DOMAIN multirespond_table :
    RunPending(k) \/ (k \in active /\ ~(comm_pc = "clear" /\ comm_task.unsub_key = k))

\* The backend is never left serving a topic nobody subscribes to, except
\* while the comm thread is between the last drop and the clear.
NoOrphanService ==
  \A k \in active :
    k \in DOMAIN multirespond_table \/ (comm_pc = "clear" /\ comm_task.unsub_key = k)

\* A single-shot request confirmed through CHANNEL_DONE is not forgotten: it has
\* an answer, given or under way, or waits in the table for a reply call that is
\* still due, so that no snapshot of another reply call can miss it for good.
NoRequestLost ==
  \A r \in Accepted :
    asked[r] \in SingleKeys \cup BadRequests =>
      Answered(r) \/ InChannel(r) \/ (Awaits(r) /\ ReplyDue(asked[r]))

\* Every reply queued is in the queue, with the subscribe thread, among the
\* failed ones, or was taken by gonggo; none is lost or taken twice, however
\* often it fails and goes back to the head of the queue.
NoReplyLost == appended = handed + Outstanding

\* The threads, queues and tables keep the promise of RequestLedger: whatever
\* their interleaving, a reply is made for recorded requests that asked for
\* what it answers, and gonggo takes every reply once, refusals or not.
LedgerKept == Ledger!Spec

\* The comm thread never sleeps on a task: when it waits with a task queued,
\* the channel thread has its proxy_comm_awake still to make.
CommNeverSleepsOnWork ==
  comm_pc = "waiting" /\ parse_queue # <<>> => channel_pc \in {"set_drop", "awake_comm"}

\* The subscribe thread never sleeps on a reply either: of those in the queue of
\* a sleeping thread, all but the ones it has put back itself after they failed
\* were appended by somebody whose proxy_subscribe_awake is still to come.
SubscribeNeverSleepsOnWork ==
  subscribe_pc = "waiting" /\ Len(reply_queue) > retried =>
    channel_pc = "awake_subscribe" \/ \E t \in Repliers : call[t].pc = "awake"

\* Its reply has failed, and is back in the queue for the next awake.
PutBack(r) == subscribe_pc = "waiting" /\ \E i \in 1..retried : r \in reply_queue[i].rids

\* A request for a single-shot service, or one the parser rejects, that gonggo has
\* confirmed is answered in the end, or refused and ready to be answered again,
\* whatever becomes of the requests that are given up.
RequestsAnswered ==
  \A r \in Rids :
    (r \in Accepted /\ asked[r] \in SingleKeys \cup BadRequests)
      ~> (delivered[r] > 0 \/ PutBack(r))

\* A request dropped by a registered drop leaves the multirespond table, and
\* a topic without subscribers is cleared.
DropTakesEffect ==
  /\ \A r, s \in Rids :
       (r \in registered /\ asked[r] = [kind |-> "drop", arg |-> s] /\ channel_unsub # NoKey
          /\ channel_rid = r)
         ~> (\A k \in DOMAIN multirespond_table : s \notin multirespond_table[k])
  /\ \A k \in MultiKeys : (k \in active /\ k \notin DOMAIN multirespond_table) ~> k \notin active

\* What PARSE_SINGLESHOT says (callback.h:13): a single-shot request is
\* answered once.
SingleShotOnce ==
  \A r \in Rids : asked[r] \in SingleKeys => delivered[r] <= 1

\* A successful drop is answered with MULTIRESPOND_CLEAR_SUCCESS
\* (proxyservicestatus.h:8): its answer is given, under way, or still due.
DropAnswered ==
  \A r \in Accepted :
    asked[r] \in DropKeys =>
      Answered(r) \/ InChannel(r) \/ (Awaits(r) /\ DropDue(asked[r]))
=============================================================================
