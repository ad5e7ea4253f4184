------------------------- MODULE RequestFlow_proofs -------------------------
(***************************************************************************)
(* Proofs about RequestFlow for any number of requests, tasks and backend  *)
(* threads, under every combination of faults.                             *)
(***************************************************************************)
EXTENDS RequestFlow, TLAPS

(***************************************************************************)
(* What respond_table_set, respond_table_drop and the two lookups do to a  *)
(* table, stated over the pairs <<task, request>> it stands for.           *)
(***************************************************************************)
\* A table after EmptyTable: respond_table_create leaves nobody waiting.
LEMMA EmptyTableIsTable ==
  ASSUME NEW TaskKeys, NEW Uuids
  PROVE  IsTable(EmptyTable, TaskKeys, Uuids) /\ DOMAIN EmptyTable = {}
BY DEF EmptyTable, IsTable

\* respond_table_set keeps the shape of a table, whether the task is new in
\* it or not.
LEMMA SetIsTable ==
  ASSUME NEW TaskKeys, NEW Uuids, NEW table, IsTable(table, TaskKeys, Uuids),
         NEW task_key \in TaskKeys, NEW uuid \in Uuids
  PROVE  IsTable(respond_table_set(table, task_key, uuid), TaskKeys, Uuids)
BY DEF IsTable, respond_table_set, respond_table_request_dup

\* respond_table_set adds its request to its task, and nothing else.
LEMMA SetAdds ==
  ASSUME NEW table, NEW task_key, NEW uuid, NEW k
  PROVE  respond_table_request_dup(respond_table_set(table, task_key, uuid), k)
           = respond_table_request_dup(table, k) \cup (IF k = task_key THEN {uuid} ELSE {})
BY DEF respond_table_set, respond_table_request_dup

\* respond_table_drop keeps the shape of a table: no array is left empty.
LEMMA DropIsTable ==
  ASSUME NEW TaskKeys, NEW Uuids, NEW table, IsTable(table, TaskKeys, Uuids),
         NEW task_key, NEW uuid
  PROVE  IsTable(respond_table_drop(table, task_key, uuid), TaskKeys, Uuids)
<1> DEFINE rest == respond_table_request_dup(table, task_key) \ {uuid}
<1>1. CASE rest = {}
  BY <1>1 DEF IsTable, respond_table_drop, Restrict
<1>2. CASE rest # {}
  <2>1. task_key \in DOMAIN table /\ rest \in (SUBSET Uuids) \ {{}}
    BY <1>2 DEF IsTable, respond_table_request_dup
  <2>2. respond_table_drop(table, task_key, uuid) = [table EXCEPT ![task_key] = rest]
    BY <1>2 DEF respond_table_drop
  <2> QED BY <2>1, <2>2 DEF IsTable
<1> QED BY <1>1, <1>2

\* respond_table_drop takes its request from its task, and nothing else.
LEMMA DropRemoves ==
  ASSUME NEW TaskKeys, NEW Uuids, NEW table, IsTable(table, TaskKeys, Uuids),
         NEW task_key, NEW uuid, NEW k
  PROVE  respond_table_request_dup(respond_table_drop(table, task_key, uuid), k)
           = respond_table_request_dup(table, k) \ (IF k = task_key THEN {uuid} ELSE {})
<1> DEFINE rest == respond_table_request_dup(table, task_key) \ {uuid}
<1>1. CASE rest = {}
  BY <1>1 DEF IsTable, respond_table_drop, respond_table_request_dup, Restrict
<1>2. CASE rest # {}
  <2>1. task_key \in DOMAIN table
    BY <1>2 DEF respond_table_request_dup
  <2>2. respond_table_drop(table, task_key, uuid) = [table EXCEPT ![task_key] = rest]
    BY <1>2 DEF respond_table_drop
  <2> QED BY <2>1, <2>2 DEF IsTable, respond_table_request_dup
<1> QED BY <1>1, <1>2

\* A key is present in a table iff some request waits under it.
LEMMA PresentIffWaiting ==
  ASSUME NEW TaskKeys, NEW Uuids, NEW table, IsTable(table, TaskKeys, Uuids), NEW k
  PROVE  /\ k \in DOMAIN table <=> respond_table_request_dup(table, k) # {}
         /\ respond_table_request_dup(table, k) \subseteq Uuids
         /\ k \in DOMAIN table => table[k] = respond_table_request_dup(table, k)
BY DEF IsTable, respond_table_request_dup

\* What a table stands for grows by one pair with each respond_table_set, and
\* shrinks by one pair with each respond_table_drop.
THEOREM TableIsSetOfPairs ==
  ASSUME NEW TaskKeys, NEW Uuids, NEW table, IsTable(table, TaskKeys, Uuids),
         NEW task_key \in TaskKeys, NEW uuid \in Uuids
  PROVE  /\ Waiting(respond_table_set(table, task_key, uuid))
              = Waiting(table) \cup {<<task_key, uuid>>}
         /\ Waiting(respond_table_drop(table, task_key, uuid))
              = Waiting(table) \ {<<task_key, uuid>>}
<1>1. \A t : IsTable(t, TaskKeys, Uuids) =>
        Waiting(t) = {p \in TaskKeys \X Uuids : p[2] \in respond_table_request_dup(t, p[1])}
  BY DEF IsTable, Waiting, respond_table_request_dup
<1>2. IsTable(respond_table_set(table, task_key, uuid), TaskKeys, Uuids)
  BY SetIsTable
<1>3. IsTable(respond_table_drop(table, task_key, uuid), TaskKeys, Uuids)
  BY DropIsTable
<1>4. \A k : respond_table_request_dup(respond_table_set(table, task_key, uuid), k)
           = respond_table_request_dup(table, k) \cup (IF k = task_key THEN {uuid} ELSE {})
  BY SetAdds
<1>5. \A k : respond_table_request_dup(respond_table_drop(table, task_key, uuid), k)
           = respond_table_request_dup(table, k) \ (IF k = task_key THEN {uuid} ELSE {})
  BY DropRemoves
<1>6. Waiting(respond_table_set(table, task_key, uuid)) = Waiting(table) \cup {<<task_key, uuid>>}
  BY <1>1, <1>2, <1>4
<1>7. Waiting(respond_table_drop(table, task_key, uuid)) = Waiting(table) \ {<<task_key, uuid>>}
  BY <1>1, <1>3, <1>5
<1> QED BY <1>6, <1>7
-----------------------------------------------------------------------------
USE FlowAssumption

(***************************************************************************)
(* TypeOK is not inductive: what a thread writes is read from the request  *)
(* or the task it holds, so its type depends on where the thread is.       *)
(***************************************************************************)
ChannelShape ==
  /\ channel_pc = "idle" => channel_state \in {"IDLE", "REQUEST"}
  /\ ChannelBusy => SomeRid
  /\ channel_pc \in {"append_drop", "set_drop"} => Request \in DropKeys /\ channel_unsub \in MultiKeys
  /\ channel_pc = "append_job" => Request \in SingleKeys \cup MultiKeys

\* A task is a drop of a multirespond task, or one of those f_run is for.
TaskShape(task) ==
  IF IsDrop(task) THEN task.key \in DropKeys ELSE task.key \in SingleKeys \cup MultiKeys

CommShape ==
  /\ \A i \in 1..Len(parse_queue) : TaskShape(parse_queue[i])
  /\ comm_pc \in {"run", "running", "drop", "clear"} => comm_task \in Tasks /\ TaskShape(comm_task)
  /\ comm_pc \in {"drop", "clear"} => IsDrop(comm_task)
  /\ comm_pc \in {"run", "running"} => ~IsDrop(comm_task)

CallShape == \A t \in Repliers : call[t].pc # "return" => call[t].key \in Keys

SubscribeShape ==
  subscribe_pc = "sent" => subscribe_task \in Replies /\ subscribe_state \in {"ANSWER", "DONE", "FAILED"}

TypeInv == TypeOK /\ ChannelShape /\ CommShape /\ CallShape /\ SubscribeShape

(***************************************************************************)
(* The proof that TypeInv is inductive, by the thread that takes the step. *)
(***************************************************************************)
\* What the pop of a queue returns and leaves.
LEMMA HeadTail ==
  ASSUME NEW S, NEW q \in Seq(S), q # <<>>
  PROVE  /\ Head(q) \in S /\ Head(q) = q[1] /\ 1 \in 1..Len(q)
         /\ Tail(q) \in Seq(S) /\ Len(Tail(q)) = Len(q) - 1
         /\ \A i \in 1..Len(Tail(q)) : Tail(q)[i] = q[i + 1] /\ i + 1 \in 1..Len(q)
<1>1. Len(q) \in Nat /\ Len(q) # 0
  OBVIOUS
<1>2. Head(q) = q[1] /\ 1 \in 1..Len(q) /\ Head(q) \in S
  BY <1>1
<1>3. Tail(q) \in Seq(S) /\ Len(Tail(q)) = Len(q) - 1
  BY <1>1
<1>4. \A i \in 1..Len(Tail(q)) : Tail(q)[i] = q[i + 1] /\ i + 1 \in 1..Len(q)
  BY <1>1, <1>3
<1> QED BY <1>2, <1>3, <1>4

LEMMA CallingType ==
  ASSUME NEW key \in Keys
  PROVE  Calling(key) \in Calls /\ Calling(key).key = key
BY DEF Calling, NoCall, Calls

LEMMA InitTypeInv == Init => TypeInv
BY EmptyTableIsTable
   DEF Init, TypeInv, ChannelShape, ChannelBusy, SomeRid, Request, CommShape, TaskShape, IsDrop, CallShape, SubscribeShape,
       TypeOK, Requests, Keys, SingleKeys, MultiKeys, DropKeys, BadRequests, NoKey, Tasks, NoTask, Replies, NoReply, Calls, NoCall, Repliers, Calling

\* The tables keep their shape, and each its own kind of keys.
LEMMA ChannelKeepsTables ==
  ASSUME TypeInv, ChannelNext
  PROVE  /\ IsTable(singleshot_table, SingleKeys \cup DropKeys, Rids)'
         /\ IsTable(multirespond_table, MultiKeys, Rids)'
<1> USE DEF TypeInv, TypeOK, tableVars
<1>1. CASE ChannelSetsDrop
  BY <1>1, SetIsTable DEF ChannelSetsDrop, ChannelShape, ChannelBusy, SomeRid
<1>2. CASE ChannelSetsRequest
  <2>1. channel_rid \in Rids
    BY <1>2 DEF ChannelSetsRequest, ChannelHandles, ChannelShape, ChannelBusy, SomeRid
  <2>2. CASE Request \in SingleKeys /\ UNCHANGED multirespond_table
               /\ singleshot_table' = respond_table_set(singleshot_table, Request, channel_rid)
    BY <2>1, <2>2, SetIsTable
  <2>3. CASE Request \in MultiKeys /\ UNCHANGED singleshot_table
               /\ multirespond_table' = respond_table_set(multirespond_table, Request, channel_rid)
    BY <2>1, <2>3, SetIsTable
  <2> QED BY <1>2, <2>2, <2>3 DEF ChannelSetsRequest
<1>3. CASE UNCHANGED tableVars
  BY <1>3
<1> QED
  BY <1>1, <1>2, <1>3
     DEF ChannelNext, ChannelParses, ChannelGivesUp, ChannelRejects, ChannelFindsTopic,
         ChannelAppendsDrop, ChannelAppendsJob, ChannelAwakes

LEMMA ChannelKeepsType ==
  ASSUME TypeInv, ChannelNext
  PROVE  TypeInv'
<1> USE DEF TypeInv, ChannelShape, ChannelBusy, SomeRid, Request, CommShape, TaskShape, IsDrop, CallShape, SubscribeShape,
            TypeOK, Requests, Keys, SingleKeys, MultiKeys, DropKeys, BadRequests, NoKey, Tasks, NoTask, Replies, NoReply, Calls, NoCall, Repliers,
            vars, gonggoVars, channelVars, tableVars, commVars, subscribeVars, replyVars, backendVars
<1>1. CASE ChannelParses
  BY <1>1 DEF ChannelParses
<1>2. CASE ChannelGivesUp
  BY <1>2 DEF ChannelGivesUp, proxy_channel_shm_idle
<1>3. CASE ChannelRejects
  <2>1. [rids |-> {channel_rid}, multi |-> FALSE, key |-> Request] \in Replies
    BY <1>3 DEF ChannelRejects, ChannelHandles
  <2>2. reply_queue' \in Seq(Replies) /\ appended' \in Nat
    BY <1>3, <2>1 DEF ChannelRejects, reply_queue_append
  <2> QED BY <1>3, <2>2 DEF ChannelRejects, ChannelHandles
<1>4. CASE ChannelFindsTopic
  <2>1. channel_unsub' \in MultiKeys
    BY <1>4 DEF ChannelFindsTopic, ChannelHandles, IsTable,
                proxy_channel_create_unsubscribe_task_key, respond_table_dup_task_key
  <2> QED BY <1>4, <2>1 DEF ChannelFindsTopic, ChannelHandles
<1>5. CASE ChannelAppendsDrop
  BY <1>5 DEF ChannelAppendsDrop, parse_queue_append
<1>6. CASE ChannelSetsDrop
  BY <1>6, ChannelKeepsTables DEF ChannelSetsDrop
<1>7. CASE ChannelSetsRequest
  BY <1>7, ChannelKeepsTables DEF ChannelSetsRequest, ChannelHandles, proxy_channel_shm_idle
<1>8. CASE ChannelAppendsJob
  BY <1>8 DEF ChannelAppendsJob, parse_queue_append
<1>9. CASE ChannelAwakes
  BY <1>9 DEF ChannelAwakes, proxy_comm_awake, proxy_subscribe_awake, Signalled, LockFree, proxy_channel_shm_idle
<1> QED BY <1>1, <1>2, <1>3, <1>4, <1>5, <1>6, <1>7, <1>8, <1>9 DEF ChannelNext

LEMMA CommKeepsType ==
  ASSUME TypeInv, CommNext \/ CommWakesAlone
  PROVE  TypeInv'
<1> USE DEF TypeInv, TypeOK, ChannelShape, ChannelBusy, SomeRid, Request, CommShape, CallShape,
            SubscribeShape, gonggoVars, channelVars, tableVars, commVars, subscribeVars, replyVars,
            backendVars
<1>1. CASE CommLocks
  BY <1>1 DEF CommLocks
<1>2. CASE CommPops
  <2>1. CASE parse_queue = <<>>
    BY <1>2, <2>1 DEF CommPops
  <2>2. CASE parse_queue # <<>>
    <3>1. parse_queue' = Tail(parse_queue) /\ comm_task' = Head(parse_queue)
      BY <1>2, <2>2 DEF CommPops
    <3>2. Head(parse_queue) \in Tasks /\ TaskShape(Head(parse_queue)) /\ parse_queue' \in Seq(Tasks)
      BY <2>2, <3>1, HeadTail
    <3>3. \A i \in 1..Len(parse_queue') : TaskShape(parse_queue'[i])
      BY <2>2, <3>1, HeadTail
    <3> QED BY <1>2, <2>2, <3>1, <3>2, <3>3 DEF CommPops
  <2> QED BY <2>1, <2>2
<1>3. CASE CommRests
  BY <1>3 DEF CommRests
<1>4. CASE CommRuns
  <2>1. owed' \in [SingleKeys -> Nat] /\ active' \subseteq MultiKeys
    <3>1. CASE UNCHANGED active /\ owed' = [owed EXCEPT ![comm_task.key] = @ + 1]
                 /\ comm_task.key \in SingleKeys
      BY <3>1
    <3>2. CASE UNCHANGED owed /\ active' = active \cup {comm_task.key} /\ comm_task.key \in MultiKeys
      BY <3>2
    <3> QED BY <1>4, <3>1, <3>2 DEF CommRuns
  <2> QED BY <1>4, <2>1 DEF CommRuns
<1>5. CASE CommRunReturns
  BY <1>5 DEF CommRunReturns
<1>6. CASE CommDrops
  <2>1. comm_task \in Tasks /\ comm_task.key \in Keys /\ comm_task.unsub_key \in MultiKeys
    BY <1>6 DEF CommDrops, TaskShape, IsDrop, Tasks, Keys
  <2>2. call' \in [Repliers -> Calls] /\ CallShape'
    BY <1>6, <2>1, CallingType DEF CommDrops, Repliers
  <2>3. IsTable(multirespond_table', MultiKeys, Rids)
    BY <1>6, DropIsTable DEF CommDrops
  <2> QED BY <1>6, <2>1, <2>2, <2>3 DEF CommDrops
<1>7. CASE CommClears
  <2>1. comm_task \in Tasks /\ comm_task.key \in Keys
    BY <1>7 DEF CommClears, TaskShape, IsDrop, Keys
  <2>2. call' \in [Repliers -> Calls] /\ CallShape'
    BY <1>7, <2>1, CallingType DEF CommClears, Repliers
  <2> QED BY <1>7, <2>1, <2>2 DEF CommClears
<1>8. CASE CommWakesAlone
  BY <1>8 DEF CommWakesAlone
<1> QED BY <1>1, <1>2, <1>3, <1>4, <1>5, <1>6, <1>7, <1>8 DEF CommNext

LEMMA SubscribeKeepsType ==
  ASSUME TypeInv, SubscribeNext \/ SubscribeWakesAlone
  PROVE  TypeInv'
<1> USE DEF TypeInv, TypeOK, ChannelShape, ChannelBusy, SomeRid, Request, CommShape, CallShape,
            SubscribeShape, gonggoVars, channelVars, tableVars, commVars, subscribeVars, replyVars,
            backendVars, proxy_subscribe_shm_idle
<1>1. CASE SubscribeLocks
  BY <1>1 DEF SubscribeLocks
<1>2. CASE SubscribeFindsEmpty
  BY <1>2 DEF SubscribeFindsEmpty
<1>3. CASE SubscribeRests
  BY <1>3 DEF SubscribeRests
<1>4. CASE SubscribeSends
  <2>1. Head(reply_queue) \in Replies /\ reply_queue' \in Seq(Replies)
    BY <1>4, HeadTail DEF SubscribeSends
  <2>2. failed_task' \in Seq(Replies)
    <3>1. CASE UNCHANGED failed_task
      BY <3>1
    <3>2. CASE failed_task' = Append(failed_task, Head(reply_queue))
      BY <2>1, <3>2
    <3> QED BY <1>4, <3>1, <3>2 DEF SubscribeSends
  <2> QED BY <1>4, <2>1, <2>2 DEF SubscribeSends
<1>5. CASE SubscribeConcludes
  <2>1. failed_task' \in Seq(Replies)
    BY <1>5 DEF SubscribeConcludes
  <2> QED BY <1>5, <2>1 DEF SubscribeConcludes
<1>6. CASE SubscribeWakesAlone
  BY <1>6 DEF SubscribeWakesAlone
<1> QED BY <1>1, <1>2, <1>3, <1>4, <1>5, <1>6 DEF SubscribeNext

LEMMA ReplyKeepsType ==
  ASSUME TypeInv, NEW t \in Repliers, ReplyNext(t)
  PROVE  TypeInv'
<1> USE DEF TypeInv, TypeOK, ChannelShape, ChannelBusy, SomeRid, Request, CommShape,
            SubscribeShape, gonggoVars, channelVars, tableVars, commVars, subscribeVars, replyVars,
            backendVars
<1>1. call[t] \in Calls /\ (call[t].pc # "return" => call[t].key \in Keys)
  BY DEF CallShape
<1>2. CASE ReplyLooksUp(t)
  <2>1. respond_table_request_dup(singleshot_table, call[t].key) \subseteq Rids
    BY PresentIffWaiting
  <2>2. call' \in [Repliers -> Calls] /\ CallShape'
    BY <1>1, <1>2, <2>1 DEF ReplyLooksUp, Calls, CallShape
  <2> QED BY <1>2, <2>2 DEF ReplyLooksUp
<1>3. CASE ReplyFallsBack(t)
  <2>1. respond_table_request_dup(multirespond_table, call[t].key) \subseteq Rids
    BY PresentIffWaiting
  <2>2. call' \in [Repliers -> Calls] /\ CallShape'
    BY <1>1, <1>3, <2>1 DEF ReplyFallsBack, Calls, CallShape, NoCall
  <2> QED BY <1>3, <2>2 DEF ReplyFallsBack
<1>4. ASSUME NEW r \in Rids, ReplyDrops(t, r)
      PROVE  TypeInv'
  <2>1. IsTable(singleshot_table', SingleKeys \cup DropKeys, Rids)
    BY <1>4, DropIsTable DEF ReplyDrops
  <2>2. call' \in [Repliers -> Calls] /\ CallShape'
    BY <1>1, <1>4 DEF ReplyDrops, Calls, CallShape
  <2> QED BY <1>4, <2>1, <2>2 DEF ReplyDrops
<1>5. CASE ReplyAppends(t)
  <2>1. [rids |-> call[t].rids, multi |-> call[t].multi, key |-> call[t].key] \in Replies
    BY <1>1, <1>5 DEF ReplyAppends, Calls, Replies, Requests
  <2>2. call' \in [Repliers -> Calls] /\ CallShape'
    BY <1>1, <1>5 DEF ReplyAppends, Calls, CallShape
  <2> QED BY <1>5, <2>1, <2>2 DEF ReplyAppends, reply_queue_append
<1>6. CASE ReplyAwakes(t)
  <2>1. call' \in [Repliers -> Calls] /\ CallShape'
    BY <1>1, <1>6 DEF ReplyAwakes, Calls, CallShape, NoCall
  <2> QED BY <1>6, <2>1 DEF ReplyAwakes, proxy_subscribe_awake, LockFree, Signalled
<1> QED BY <1>2, <1>3, <1>4, <1>5, <1>6 DEF ReplyNext

LEMMA BackendKeepsType ==
  ASSUME TypeInv, BackendNext
  PROVE  TypeInv'
<1> USE DEF TypeInv, TypeOK, ChannelShape, ChannelBusy, SomeRid, Request, CommShape,
            SubscribeShape, gonggoVars, channelVars, tableVars, commVars, subscribeVars, replyVars,
            backendVars
<1>1. PICK t \in Repliers, k \in SingleKeys \cup MultiKeys : BackendReplies(t, k)
  BY DEF BackendNext
<1>2. call' \in [Repliers -> Calls] /\ CallShape'
  BY <1>1, CallingType DEF BackendReplies, CallShape, Keys
<1>3. owed' \in [SingleKeys -> Nat] /\ pushes' \in Nat
  <2>1. CASE k \in SingleKeys /\ owed[k] > 0 /\ owed' = [owed EXCEPT ![k] = @ - 1]
               /\ UNCHANGED pushes
    BY <2>1
  <2>2. CASE pushes' = pushes + 1 /\ UNCHANGED owed
    BY <2>2
  <2> QED BY <1>1, <2>1, <2>2 DEF BackendReplies
<1> QED BY <1>1, <1>2, <1>3 DEF BackendReplies

LEMMA GonggoKeepsType ==
  ASSUME TypeInv, GonggoNext
  PROVE  TypeInv'
<1> USE DEF TypeInv, TypeOK, ChannelShape, ChannelBusy, SomeRid, Request, CommShape, CallShape,
            SubscribeShape, gonggoVars, channelVars, tableVars, commVars, subscribeVars, replyVars,
            backendVars
<1>1. CASE GonggoConfirms
  BY <1>1 DEF GonggoConfirms
<1>2. CASE GonggoTakes
  <2>1. delivered' \in [Rids -> Nat]
    <3>1. CASE UNCHANGED delivered
      BY <3>1
    <3>2. CASE delivered' = [r \in Rids |-> IF r \in subscribe_task.rids THEN delivered[r] + 1
                                                                        ELSE delivered[r]]
      BY <3>2
    <3> QED BY <1>2, <3>1, <3>2 DEF GonggoTakes
  <2>2. handed' \in Nat /\ subscribe_state' \in {"DONE", "FAILED"}
    BY <1>2 DEF GonggoTakes
  <2>3. UNCHANGED <<asked, registered, abandoned, channelVars, tableVars, parse_queue, commVars, call,
                    subscribe_pc, subscribe_task, failed_task, retried, replyVars, backendVars>>
    BY <1>2 DEF GonggoTakes
  <2> QED BY <2>1, <2>2, <2>3
<1>3. ASSUME NEW r \in Rids, NEW q \in Requests, GonggoRequests(r, q)
      PROVE  TypeInv'
  BY <1>3 DEF GonggoRequests
<1>4. ASSUME NEW r \in Rids, GonggoRecordsAbandoned(r)
      PROVE  TypeInv'
  BY <1>4 DEF GonggoRecordsAbandoned
<1> QED BY <1>1, <1>2, <1>3, <1>4 DEF GonggoNext

LEMMA NextKeepsType ==
  ASSUME TypeInv, [Next]_vars
  PROVE  TypeInv'
<1>1. CASE UNCHANGED vars
  BY <1>1 DEF vars, TypeInv, TypeOK, ChannelShape, ChannelBusy, SomeRid, Request, CommShape,
              CallShape, SubscribeShape, gonggoVars, channelVars, tableVars, commVars,
              subscribeVars, replyVars, backendVars
<1> QED
  BY <1>1, ChannelKeepsType, CommKeepsType, SubscribeKeepsType, ReplyKeepsType,
     BackendKeepsType, GonggoKeepsType DEF Next

LEMMA AlwaysTypeInv == Spec => []TypeInv
<1>1. Init => TypeInv
  BY InitTypeInv
<1>2. TypeInv /\ [Next]_vars => TypeInv'
  BY NextKeepsType
<1> QED BY <1>1, <1>2, PTL DEF Spec

\* The tables, the queues and the calls in progress stay well formed whatever
\* the threads do.
THEOREM TypeCorrect == Spec => []TypeOK
<1>1. TypeInv => TypeOK
  BY DEF TypeInv
<1> QED BY <1>1, AlwaysTypeInv, PTL
-----------------------------------------------------------------------------
(***************************************************************************)
(* Replies and requests.  RepliesMatchRequests and AnswerAfterRegistration *)
(* hold because what a reply is made from, a snapshot of a table, names    *)
(* only confirmed requests of the key they are filed under, and because    *)
(* neither the request of a rid nor its confirmation is ever taken back.   *)
(***************************************************************************)
\* gonggo records a request after it is parsed, and not twice; one the channel
\* thread goes on with it has not abandoned.
Unrecorded ==
  /\ (channel_pc = "idle" /\ channel_state = "REQUEST")
       \/ (channel_pc = "acked" /\ channel_state # "DONE") => channel_rid \notin registered
  /\ ChannelBusy => channel_rid \notin abandoned
  /\ \A r \in registered \cup abandoned : asked[r] # NoKey

KnownIn(table) ==
  \A k \in Keys : \A r \in respond_table_request_dup(table, k) :
    asked[r] = k /\ r \in Accepted

ChannelKnown ==
  /\ channel_pc \notin {"idle", "acked", "failed"} => channel_rid \in Accepted
  /\ channel_pc = "acked" /\ channel_state = "DONE" => channel_rid \in Accepted

CallsKnown ==
  \A t \in Repliers :
    /\ call[t].pc \in {"lookup", "fallback"} => ~call[t].multi
    /\ Carrying(t) => /\ \A r \in call[t].rids : asked[r] = call[t].key /\ r \in Accepted
                      /\ call[t].multi <=> call[t].key \in MultiKeys

\* Answers go to accepted requests only.
AcceptedFirst ==
  /\ \A reply \in PendingReplies : reply.rids \subseteq Accepted
  /\ \A r \in Rids : delivered[r] > 0 => r \in Accepted

RequestInv ==
  /\ Unrecorded
  /\ KnownIn(singleshot_table) /\ KnownIn(multirespond_table)
  /\ ChannelKnown /\ CallsKnown
  /\ RepliesMatchRequests /\ AcceptedFirst

LEMMA UnrecordedKept ==
  ASSUME TypeInv, Unrecorded, [Next]_vars
  PROVE  Unrecorded'
<1> USE DEF TypeInv, TypeOK, Unrecorded, ChannelBusy, gonggoVars, channelVars
<1>1. ASSUME NEW r \in Rids, NEW q \in Requests, GonggoRequests(r, q)
      PROVE  Unrecorded'
  <2>1. q # NoKey
    BY DEF Requests, Keys, SingleKeys, MultiKeys, DropKeys, BadRequests, NoKey
  <2> QED BY <1>1, <2>1 DEF GonggoRequests
<1>2. CASE GonggoConfirms
  <2>1. channel_pc = "acked" => channel_rid \in Rids /\ asked[channel_rid] # NoKey
    BY DEF ChannelShape, SomeRid, Request, Requests, Keys, SingleKeys, MultiKeys, DropKeys,
           BadRequests, NoKey
  <2> QED BY <1>2, <2>1 DEF GonggoConfirms
<1>3. ASSUME NEW r \in Rids, GonggoRecordsAbandoned(r)
      PROVE  Unrecorded'
  BY <1>3 DEF GonggoRecordsAbandoned
<1>4. CASE ChannelGivesUp
  BY <1>4 DEF ChannelGivesUp, proxy_channel_shm_idle, ChannelShape, SomeRid, Request,
       Requests, Keys, SingleKeys, MultiKeys, DropKeys, BadRequests, NoKey
<1>5. CASE ChannelNext /\ ~ChannelGivesUp
  BY <1>5 DEF ChannelNext, ChannelParses, ChannelRejects, ChannelFindsTopic,
       ChannelAppendsDrop, ChannelSetsDrop, ChannelSetsRequest, ChannelAppendsJob, ChannelAwakes,
       ChannelHandles, Confirmed, proxy_channel_shm_idle
<1>6. CASE UNCHANGED <<asked, registered, abandoned, channelVars>>
  BY <1>6
<1> QED
  BY <1>1, <1>2, <1>3, <1>4, <1>5, <1>6
     DEF Next, vars, CommNext, CommLocks, CommPops, CommRests, CommRuns, CommRunReturns, CommDrops,
         CommClears, SubscribeNext, SubscribeLocks, SubscribeFindsEmpty, SubscribeRests,
         SubscribeSends, SubscribeConcludes, GonggoNext, GonggoTakes, BackendNext, BackendReplies,
         ReplyNext, ReplyLooksUp, ReplyFallsBack, ReplyDrops, ReplyAppends, ReplyAwakes,
         CommWakesAlone, SubscribeWakesAlone

\* What a request is, and that gonggo knows it, is never taken back.
LEMMA RequestsAreStable ==
  ASSUME TypeInv, Unrecorded, [Next]_vars
  PROVE  /\ Accepted \subseteq Accepted'
         /\ \A r \in Rids : asked[r] # NoKey => asked'[r] = asked[r]
<1> USE DEF TypeInv, TypeOK, Accepted, gonggoVars
<1>1. CASE GonggoConfirms
  BY <1>1 DEF GonggoConfirms
<1>2. ASSUME NEW r \in Rids, NEW q \in Requests, GonggoRequests(r, q)
      PROVE  /\ Accepted \subseteq Accepted'
             /\ \A s \in Rids : asked[s] # NoKey => asked'[s] = asked[s]
  BY <1>2 DEF GonggoRequests
<1>3. ASSUME NEW r \in Rids, GonggoRecordsAbandoned(r)
      PROVE  Accepted \subseteq Accepted' /\ asked' = asked
  BY <1>3 DEF GonggoRecordsAbandoned
<1>4. CASE ChannelGivesUp
  BY <1>4 DEF ChannelGivesUp, Confirmed, Unrecorded
<1>5. CASE UNCHANGED <<asked, registered, abandoned>>
  BY <1>5
<1> QED
  BY <1>1, <1>2, <1>3, <1>4, <1>5
     DEF Next, vars, ChannelNext, ChannelParses, ChannelRejects, ChannelFindsTopic,
         ChannelAppendsDrop, ChannelSetsDrop, ChannelSetsRequest, ChannelAppendsJob, ChannelAwakes,
         CommNext, CommLocks, CommPops, CommRests, CommRuns, CommRunReturns, CommDrops, CommClears,
         SubscribeNext, SubscribeLocks, SubscribeFindsEmpty, SubscribeRests, SubscribeSends,
         SubscribeConcludes, GonggoNext, GonggoTakes, BackendNext, BackendReplies, ReplyNext,
         ReplyLooksUp, ReplyFallsBack, ReplyDrops, ReplyAppends, ReplyAwakes, CommWakesAlone,
         SubscribeWakesAlone

\* The tables after any step.
LEMMA TableSteps ==
  ASSUME TypeInv, [Next]_vars
  PROVE  \/ UNCHANGED tableVars
         \/ ChannelSetsDrop \/ ChannelSetsRequest \/ CommDrops
         \/ \E t \in Repliers, r \in Rids : ReplyDrops(t, r)
BY DEF Next, vars, ChannelNext, ChannelParses, ChannelGivesUp, ChannelRejects, ChannelFindsTopic,
       ChannelAppendsDrop, ChannelAppendsJob, ChannelAwakes, CommNext, CommLocks, CommPops, CommRests,
       CommRuns, CommRunReturns, CommClears, SubscribeNext, SubscribeLocks,
       SubscribeFindsEmpty, SubscribeRests, SubscribeSends, SubscribeConcludes, GonggoNext,
       GonggoConfirms, GonggoRecordsAbandoned, GonggoTakes, GonggoRequests, BackendNext, BackendReplies, ReplyNext,
       ReplyLooksUp, ReplyFallsBack, ReplyAppends, ReplyAwakes, CommWakesAlone, SubscribeWakesAlone

LEMMA TablesStayKnown ==
  ASSUME TypeInv, RequestInv, [Next]_vars
  PROVE  KnownIn(singleshot_table)' /\ KnownIn(multirespond_table)'
<1> USE DEF TypeInv, TypeOK, RequestInv, Accepted, tableVars, KnownIn
<1>1. /\ Accepted \subseteq Accepted'
      /\ \A r \in Rids : asked[r] # NoKey => asked'[r] = asked[r]
  BY RequestsAreStable
<1>2. NoKey \notin Keys
  BY DEF NoKey, Keys, SingleKeys, MultiKeys, DropKeys
<1>3. CASE UNCHANGED tableVars
  BY <1>1, <1>2, <1>3, PresentIffWaiting
<1>4. ASSUME NEW table, NEW k, UNCHANGED <<asked, registered, abandoned>>, KnownIn(table),
             asked[channel_rid] = k, channel_rid \in Accepted
      PROVE  \A j \in Keys : \A r \in respond_table_request_dup(respond_table_set(table, k, channel_rid), j) :
               asked'[r] = j /\ r \in Accepted'
  BY <1>4, SetAdds
<1>5. CASE ChannelSetsDrop
  BY <1>4, <1>5 DEF ChannelSetsDrop, ChannelKnown, Request, gonggoVars
<1>6. CASE ChannelSetsRequest
  <2>1. channel_rid \in Accepted /\ UNCHANGED <<asked, registered, abandoned>>
    BY <1>6 DEF ChannelSetsRequest, ChannelHandles, Confirmed, ChannelKnown, gonggoVars
  <2>2. CASE UNCHANGED multirespond_table
               /\ singleshot_table' = respond_table_set(singleshot_table, Request, channel_rid)
    BY <1>4, <2>1, <2>2 DEF Request
  <2>3. CASE UNCHANGED singleshot_table
               /\ multirespond_table' = respond_table_set(multirespond_table, Request, channel_rid)
    BY <1>4, <2>1, <2>3 DEF Request
  <2> QED BY <1>6, <2>2, <2>3 DEF ChannelSetsRequest
<1>7. CASE CommDrops
  BY <1>7, DropRemoves DEF CommDrops, gonggoVars
<1>8. ASSUME NEW t \in Repliers, NEW r \in Rids, ReplyDrops(t, r)
      PROVE  KnownIn(singleshot_table)' /\ KnownIn(multirespond_table)'
  BY <1>8, DropRemoves DEF ReplyDrops, gonggoVars
<1> QED BY <1>3, <1>5, <1>6, <1>7, <1>8, TableSteps

LEMMA ChannelStaysKnown ==
  ASSUME TypeInv, RequestInv, [Next]_vars
  PROVE  ChannelKnown'
<1> USE DEF TypeInv, TypeOK, RequestInv, ChannelKnown, channelVars
<1>1. Accepted \subseteq Accepted'
  BY RequestsAreStable DEF RequestInv
<1>2. CASE UNCHANGED channelVars
  BY <1>1, <1>2
<1>3. CASE ChannelNext
  BY <1>1, <1>3 DEF ChannelNext, ChannelParses, ChannelGivesUp, ChannelRejects, ChannelFindsTopic,
       ChannelAppendsDrop, ChannelSetsDrop, ChannelSetsRequest, ChannelAppendsJob, ChannelAwakes,
       ChannelHandles, Confirmed, proxy_channel_shm_idle
<1>4. CASE GonggoConfirms
  BY <1>4 DEF GonggoConfirms, Unrecorded, ChannelBusy, Accepted
<1>5. ASSUME NEW r \in Rids, NEW q \in Requests, GonggoRequests(r, q)
      PROVE  ChannelKnown'
  BY <1>5 DEF GonggoRequests
<1> QED
  BY <1>2, <1>3, <1>4, <1>5
     DEF Next, vars, CommNext, CommLocks, CommPops, CommRests, CommRuns, CommRunReturns, CommDrops,
         CommClears, SubscribeNext, SubscribeLocks, SubscribeFindsEmpty, SubscribeRests,
         SubscribeSends, SubscribeConcludes, GonggoNext, GonggoRecordsAbandoned, GonggoTakes,
         BackendNext, BackendReplies, ReplyNext, ReplyLooksUp, ReplyFallsBack, ReplyDrops,
         ReplyAppends, ReplyAwakes, CommWakesAlone, SubscribeWakesAlone

\* The calls of proxy_comm_reply after any step.
LEMMA CallSteps ==
  ASSUME TypeInv, [Next]_vars
  PROVE  \/ UNCHANGED call
         \/ \E t \in Repliers : ReplyNext(t)
         \/ \E t \in Repliers, key \in Keys : call' = [call EXCEPT ![t] = Calling(key)]
<1> USE DEF TypeInv, TypeOK, CommShape
<1>1. CASE CommDrops \/ CommClears
  BY <1>1 DEF CommDrops, CommClears, TaskShape, Keys, Repliers
<1>2. CASE BackendNext
  BY <1>2 DEF BackendNext, BackendReplies, Keys
<1> QED
  BY <1>1, <1>2
     DEF Next, vars, ChannelNext, ChannelParses, ChannelGivesUp, ChannelRejects, ChannelFindsTopic,
         ChannelAppendsDrop, ChannelSetsDrop, ChannelSetsRequest, ChannelAppendsJob, ChannelAwakes,
         CommNext, CommLocks, CommPops, CommRests, CommRuns, CommRunReturns,
         SubscribeNext, SubscribeLocks, SubscribeFindsEmpty, SubscribeRests, SubscribeSends,
         SubscribeConcludes, GonggoNext, GonggoConfirms, GonggoRecordsAbandoned, GonggoTakes, GonggoRequests,
         CommWakesAlone, SubscribeWakesAlone

LEMMA CallsStayKnown ==
  ASSUME TypeInv, RequestInv, [Next]_vars
  PROVE  CallsKnown'
<1> USE DEF TypeInv, TypeOK, RequestInv
<1>1. /\ Accepted \subseteq Accepted'
      /\ \A r \in Rids : asked[r] # NoKey => asked'[r] = asked[r]
  BY RequestsAreStable
<1>2. ASSUME NEW t \in Repliers, Carrying(t)
      PROVE  \A r \in call[t].rids : asked'[r] = call[t].key /\ r \in Accepted'
  <2>1. call[t].key # NoKey
    <3>1. NoKey \notin Keys
      BY DEF NoKey, Keys, SingleKeys, MultiKeys, DropKeys
    <3> QED BY <1>2, <3>1 DEF CallShape, Carrying
  <2>2. \A r \in call[t].rids : r \in Rids /\ asked[r] = call[t].key /\ r \in Accepted
    BY <1>2 DEF CallsKnown, Accepted
  <2> QED BY <1>1, <2>1, <2>2
<1>3. CASE UNCHANGED call
  BY <1>2, <1>3 DEF CallsKnown, Carrying
<1>4. ASSUME NEW t \in Repliers, NEW key \in Keys, call' = [call EXCEPT ![t] = Calling(key)]
      PROVE  CallsKnown'
  BY <1>2, <1>4 DEF CallsKnown, Carrying, Calling, NoCall
<1>5. ASSUME NEW t \in Repliers, ReplyNext(t)
      PROVE  CallsKnown'
  <2> USE DEF CallsKnown, Carrying
  <2>1. UNCHANGED <<asked, Accepted>> /\ call[t] \in Calls
    BY <1>5 DEF ReplyNext, ReplyLooksUp, ReplyFallsBack, ReplyDrops, ReplyAppends, ReplyAwakes,
                Accepted, gonggoVars
  <2>2. call[t].pc # "return" => call[t].key \in Keys
    BY DEF CallShape
  <2>3. CASE ReplyLooksUp(t)
    <3>1. \A r \in respond_table_request_dup(singleshot_table, call[t].key) :
            asked[r] = call[t].key /\ r \in Accepted
      BY <2>2, <2>3 DEF ReplyLooksUp, KnownIn
    <3>2. respond_table_request_dup(singleshot_table, call[t].key) # {} => call[t].key \notin MultiKeys
      <4>1. DOMAIN singleshot_table \subseteq SingleKeys \cup DropKeys
        BY DEF IsTable
      <4>2. (SingleKeys \cup DropKeys) \cap MultiKeys = {}
        BY DEF MultiKeys, SingleKeys, DropKeys
      <4> QED BY <4>1, <4>2 DEF respond_table_request_dup
    <3> QED BY <2>1, <2>3, <3>1, <3>2 DEF ReplyLooksUp, Calls
  <2>4. CASE ReplyFallsBack(t)
    <3>1. \A r \in respond_table_request_dup(multirespond_table, call[t].key) :
            asked[r] = call[t].key /\ r \in Accepted
      BY <2>2, <2>4 DEF ReplyFallsBack, KnownIn
    <3>2. respond_table_request_dup(multirespond_table, call[t].key) # {} => call[t].key \in MultiKeys
      <4>1. DOMAIN multirespond_table \subseteq MultiKeys
        BY DEF IsTable
      <4> QED BY <4>1 DEF respond_table_request_dup
    <3> QED BY <2>1, <2>4, <3>1, <3>2 DEF ReplyFallsBack, Calls, NoCall
  <2>5. ASSUME NEW r \in Rids, ReplyDrops(t, r)
        PROVE  CallsKnown'
    BY <2>1, <2>5 DEF ReplyDrops, Calls
  <2>6. CASE ReplyAppends(t)
    BY <2>1, <2>6 DEF ReplyAppends, Calls
  <2>7. CASE ReplyAwakes(t)
    BY <2>1, <2>7 DEF ReplyAwakes, NoCall
  <2> QED BY <1>5, <2>3, <2>4, <2>5, <2>6, <2>7 DEF ReplyNext
<1> QED BY <1>3, <1>4, <1>5, CallSteps

\* The elements of a queue: of one that grows at its end, that shrinks at its
\* head, and that another queue is put before.
LEMMA QueueElements ==
  ASSUME NEW S, NEW q \in Seq(S)
  PROVE  Range(q) = {q[i] : i \in 1..Len(q)} /\ Range(q) \subseteq S
BY DEF Range

LEMMA AppendElements ==
  ASSUME NEW S, NEW q \in Seq(S), NEW x \in S
  PROVE  Range(Append(q, x)) = Range(q) \cup {x}
<1>1. Append(q, x) \in Seq(S) /\ Len(Append(q, x)) = Len(q) + 1 /\ Len(q) \in Nat
  OBVIOUS
<1>2. (\A i \in 1..Len(q) : Append(q, x)[i] = q[i]) /\ Append(q, x)[Len(q) + 1] = x
  OBVIOUS
<1>3. \A i \in 1..Len(q) + 1 : i \in 1..Len(q) \/ i = Len(q) + 1
  BY <1>1
<1>4. 1..Len(q) \subseteq 1..Len(q) + 1 /\ Len(q) + 1 \in 1..Len(q) + 1
  BY <1>1
<1>5. /\ Range(Append(q, x)) = {Append(q, x)[i] : i \in 1..Len(q) + 1}
      /\ Range(q) = {q[i] : i \in 1..Len(q)}
  BY <1>1, QueueElements
<1>6. Range(Append(q, x)) \subseteq Range(q) \cup {x}
  BY <1>2, <1>3, <1>5
<1>7. Range(q) \cup {x} \subseteq Range(Append(q, x))
  BY <1>2, <1>4, <1>5
<1> QED BY <1>6, <1>7

LEMMA PopElements ==
  ASSUME NEW S, NEW q \in Seq(S), q # <<>>
  PROVE  Range(q) = {Head(q)} \cup Range(Tail(q)) /\ Head(q) \in S
<1>1. \A i \in 1..Len(q) : i = 1 \/ (i - 1 \in 1..Len(Tail(q)) /\ i = (i - 1) + 1)
  BY HeadTail
<1>2. Range(q) = {q[i] : i \in 1..Len(q)} /\ Range(Tail(q)) = {Tail(q)[i] : i \in 1..Len(Tail(q))}
  <2>1. Tail(q) \in Seq(S)
    BY HeadTail
  <2> QED BY <2>1, QueueElements
<1>3. Range(q) \subseteq {Head(q)} \cup Range(Tail(q))
  <2>1. ASSUME NEW i \in 1..Len(q), i # 1
        PROVE  q[i] = Tail(q)[i - 1] /\ i - 1 \in 1..Len(Tail(q))
    BY <1>1, <2>1, HeadTail
  <2>2. ASSUME NEW i \in 1..Len(q)  PROVE  q[i] \in {Head(q)} \cup Range(Tail(q))
    <3>1. CASE i = 1
      <4>1. Head(q) = q[1]
        BY HeadTail
      <4> QED BY <3>1, <4>1
    <3>2. CASE i # 1
      <4>1. Tail(q)[i - 1] \in Range(Tail(q))
        BY <1>2, <2>1, <3>2
      <4> QED BY <2>1, <3>2, <4>1
    <3> QED BY <3>1, <3>2
  <2> QED BY <1>2, <2>2
<1>4. {Head(q)} \cup Range(Tail(q)) \subseteq Range(q)
  BY <1>2, HeadTail
<1> QED BY <1>3, <1>4, HeadTail

LEMMA ConcatElements ==
  ASSUME NEW S, NEW p \in Seq(S), NEW q \in Seq(S)
  PROVE  Range(p \o q) = Range(p) \cup Range(q)
<1>1. \A i \in 1..Len(p) : (p \o q)[i] = p[i] /\ i \in 1..Len(p \o q)
  OBVIOUS
<1>2. \A i \in 1..Len(q) : (p \o q)[Len(p) + i] = q[i] /\ Len(p) + i \in 1..Len(p \o q)
  OBVIOUS
<1>3. \A i \in 1..Len(p \o q) :
        i \in 1..Len(p) \/ (i - Len(p) \in 1..Len(q) /\ i = Len(p) + (i - Len(p)))
  OBVIOUS
<1>4. /\ Range(p \o q) = {(p \o q)[i] : i \in 1..Len(p \o q)}
      /\ Range(p) = {p[i] : i \in 1..Len(p)} /\ Range(q) = {q[i] : i \in 1..Len(q)}
  <2>1. p \o q \in Seq(S)
    OBVIOUS
  <2> QED BY <2>1, QueueElements
<1>5. Range(p \o q) \subseteq Range(p) \cup Range(q)
  BY <1>1, <1>2, <1>3, <1>4
<1>6. Range(p) \cup Range(q) \subseteq Range(p \o q)
  BY <1>1, <1>2, <1>4
<1> QED BY <1>5, <1>6

\* The steps that touch a reply; in any other, the queues, the reply in hand
\* and the verdict on it stay.
RepliesUntouched ==
  /\ UNCHANGED <<reply_queue, failed_task, subscribe_task, appended, handed>>
  /\ subscribe_pc' = "sent" <=> subscribe_pc = "sent"
  /\ subscribe_pc = "sent" => UNCHANGED subscribe_state

LEMMA ReplySteps ==
  ASSUME [Next]_vars
  PROVE  \/ ChannelRejects \/ (\E t \in Repliers : ReplyAppends(t))
         \/ SubscribeRests \/ SubscribeSends \/ SubscribeConcludes \/ GonggoTakes
         \/ RepliesUntouched
<1> USE DEF RepliesUntouched, subscribeVars, replyVars
<1>1. CASE ChannelNext
  <2>1. CASE ChannelAwakes
    BY <2>1 DEF ChannelAwakes, proxy_comm_awake, proxy_subscribe_awake, LockFree, Signalled
  <2> QED BY <1>1, <2>1
     DEF ChannelNext, ChannelParses, ChannelGivesUp, ChannelFindsTopic, ChannelAppendsDrop,
         ChannelSetsDrop, ChannelSetsRequest, ChannelAppendsJob
<1>2. CASE CommNext
  BY <1>2 DEF CommNext, CommLocks, CommPops, CommRests, CommRuns, CommRunReturns, CommDrops,
              CommClears
<1>3. CASE SubscribeNext
  BY <1>3 DEF SubscribeNext, SubscribeLocks, SubscribeFindsEmpty
<1>4. CASE GonggoNext
  BY <1>4 DEF GonggoNext, GonggoConfirms, GonggoRecordsAbandoned, GonggoRequests
<1>5. CASE BackendNext
  BY <1>5 DEF BackendNext, BackendReplies
<1>6. ASSUME NEW t \in Repliers, ReplyNext(t)
      PROVE  ReplyAppends(t) \/ RepliesUntouched
  <2>1. CASE ReplyAwakes(t)
    BY <2>1 DEF ReplyAwakes, proxy_subscribe_awake, LockFree, Signalled
  <2> QED BY <1>6, <2>1 DEF ReplyNext, ReplyLooksUp, ReplyFallsBack, ReplyDrops
<1>7. CASE CommWakesAlone \/ SubscribeWakesAlone
  BY <1>7 DEF CommWakesAlone, SubscribeWakesAlone
<1>8. CASE UNCHANGED vars
  BY <1>8 DEF vars
<1> QED BY <1>1, <1>2, <1>3, <1>4, <1>5, <1>6, <1>7, <1>8 DEF Next

\* The pending replies after any step: none is new but the one appended by
\* ChannelRejects or by ReplyAppends.
LEMMA PendingSteps ==
  ASSUME TypeInv, [Next]_vars
  PROVE  \/ PendingReplies' \subseteq PendingReplies
         \/ /\ ChannelRejects
            /\ PendingReplies' \subseteq PendingReplies
                  \cup {[rids |-> {channel_rid}, multi |-> FALSE, key |-> Request]}
         \/ \E t \in Repliers :
              /\ ReplyAppends(t)
              /\ PendingReplies' \subseteq PendingReplies
                   \cup {[rids |-> call[t].rids, multi |-> call[t].multi, key |-> call[t].key]}
<1> USE DEF TypeInv, TypeOK, SubscribeShape, subscribeVars, replyVars
<1>1. CASE ChannelRejects
  <2> DEFINE reply == [rids |-> {channel_rid}, multi |-> FALSE, key |-> Request]
  <2>1. reply \in Replies
    BY <1>1 DEF ChannelRejects, ChannelHandles, ChannelShape, ChannelBusy, SomeRid, Replies
  <2>2. reply_queue' = Append(reply_queue, reply)
    BY <1>1 DEF ChannelRejects, reply_queue_append
  <2> HIDE DEF reply
  <2>3. Range(reply_queue') = Range(reply_queue) \cup {reply}
    BY <2>1, <2>2, AppendElements
  <2>4. PendingReplies' \subseteq PendingReplies \cup {reply}
    BY <1>1, <2>3 DEF ChannelRejects, PendingReplies, InHand
  <2> QED BY <1>1, <2>4 DEF reply
<1>2. ASSUME NEW t \in Repliers, ReplyAppends(t)
      PROVE  PendingReplies' \subseteq PendingReplies
                   \cup {[rids |-> call[t].rids, multi |-> call[t].multi, key |-> call[t].key]}
  <2>1. [rids |-> call[t].rids, multi |-> call[t].multi, key |-> call[t].key] \in Replies
    BY <1>2 DEF ReplyAppends, CallShape, Calls, Replies, Requests
  <2> QED BY <1>2, <2>1, AppendElements DEF ReplyAppends, reply_queue_append, PendingReplies, InHand
<1>3. CASE SubscribeRests
  <2>1. reply_queue' = failed_task \o reply_queue /\ failed_task' = <<>> /\ InHand' = {}
    BY <1>3 DEF SubscribeRests, InHand
  <2>2. Range(<<>>) = {}
    BY DEF Range
  <2>3. Range(reply_queue') = Range(failed_task) \cup Range(reply_queue)
    BY <2>1, ConcatElements
  <2> QED BY <2>1, <2>2, <2>3 DEF PendingReplies
<1>4. CASE SubscribeSends
  <2>1. Range(reply_queue) = {Head(reply_queue)} \cup Range(reply_queue') /\ Head(reply_queue) \in Replies
    BY <1>4, PopElements DEF SubscribeSends
  <2>2. CASE UNCHANGED failed_task /\ subscribe_task' = Head(reply_queue)
    BY <2>1, <2>2 DEF PendingReplies, InHand
  <2>3. CASE failed_task' = Append(failed_task, Head(reply_queue))
               /\ UNCHANGED <<subscribe_pc, subscribe_task>>
    BY <2>1, <2>3, AppendElements DEF PendingReplies, InHand
  <2> QED BY <1>4, <2>2, <2>3 DEF SubscribeSends
<1>5. CASE SubscribeConcludes
  <2>1. subscribe_pc' # "sent" /\ UNCHANGED reply_queue /\ subscribe_task \in Replies
        /\ InHand = {subscribe_task}
    BY <1>5 DEF SubscribeConcludes, InHand
  <2>2. CASE UNCHANGED failed_task
    BY <2>1, <2>2 DEF PendingReplies, InHand
  <2>3. CASE failed_task' = Append(failed_task, subscribe_task)
    BY <2>1, <2>3, AppendElements DEF PendingReplies, InHand
  <2> QED BY <1>5, <2>2, <2>3 DEF SubscribeConcludes
<1>6. CASE GonggoTakes \/ RepliesUntouched
  BY <1>6 DEF GonggoTakes, RepliesUntouched, PendingReplies, InHand
<1> QED BY <1>1, <1>2, <1>3, <1>4, <1>5, <1>6, ReplySteps

LEMMA RepliesStayKnown ==
  ASSUME TypeInv, RequestInv, [Next]_vars
  PROVE  RepliesMatchRequests' /\ AcceptedFirst'
<1> USE DEF TypeInv, TypeOK, RequestInv
<1>1. /\ Accepted \subseteq Accepted'
      /\ \A r \in Rids : asked[r] # NoKey => asked'[r] = asked[r]
  BY RequestsAreStable
<1>2. PendingReplies \subseteq Replies
  BY QueueElements DEF PendingReplies, InHand, SubscribeShape
<1> DEFINE Known(reply) == /\ \A r \in reply.rids : asked'[r] = reply.key
                           /\ reply.multi <=> reply.key \in MultiKeys
                           /\ reply.rids \subseteq Accepted'
<1>3. \A reply \in PendingReplies : Known(reply)
  BY <1>1, <1>2 DEF RepliesMatchRequests, AcceptedFirst, Replies, Requests, Keys,
                   SingleKeys, MultiKeys, DropKeys, BadRequests, NoKey
<1>4. ASSUME ChannelRejects
      PROVE  Known([rids |-> {channel_rid}, multi |-> FALSE, key |-> Request])
  BY <1>4 DEF ChannelRejects, ChannelHandles, Confirmed, ChannelKnown, Request, gonggoVars,
              Accepted, BadRequests, DropKeys, MultiKeys
<1>5. ASSUME NEW t \in Repliers, ReplyAppends(t)
      PROVE  Known([rids |-> call[t].rids, multi |-> call[t].multi, key |-> call[t].key])
  BY <1>5 DEF ReplyAppends, CallsKnown, Carrying, Accepted, gonggoVars
<1> HIDE DEF Known
<1>6. \A reply \in PendingReplies' : Known(reply)
  <2>1. CASE PendingReplies' \subseteq PendingReplies
    BY <1>3, <2>1
  <2>2. CASE /\ ChannelRejects
             /\ PendingReplies' \subseteq PendingReplies
                   \cup {[rids |-> {channel_rid}, multi |-> FALSE, key |-> Request]}
    BY <1>3, <1>4, <2>2
  <2>3. CASE \E t \in Repliers :
               /\ ReplyAppends(t)
               /\ PendingReplies' \subseteq PendingReplies
                    \cup {[rids |-> call[t].rids, multi |-> call[t].multi, key |-> call[t].key]}
    BY <1>3, <1>5, <2>3
  <2> QED BY <2>1, <2>2, <2>3, PendingSteps
<1>7. \A r \in Rids : delivered'[r] > 0 => r \in Accepted'
  <2>1. CASE GonggoTakes
    <3>1. subscribe_task \in PendingReplies
      BY <2>1 DEF GonggoTakes, PendingReplies, InHand
    <3> QED BY <1>1, <2>1, <3>1 DEF GonggoTakes, AcceptedFirst
  <2>2. CASE UNCHANGED delivered
    BY <1>1, <2>2 DEF AcceptedFirst
  <2> QED
    BY <2>1, <2>2
       DEF Next, vars, gonggoVars, ChannelNext, ChannelParses, ChannelGivesUp, ChannelRejects,
           ChannelFindsTopic, ChannelAppendsDrop, ChannelSetsDrop, ChannelSetsRequest,
           ChannelAppendsJob, ChannelAwakes, CommNext, CommLocks, CommPops, CommRests, CommRuns,
           CommRunReturns, CommDrops, CommClears, SubscribeNext, SubscribeLocks,
           SubscribeFindsEmpty, SubscribeRests, SubscribeSends, SubscribeConcludes, GonggoNext,
           GonggoConfirms, GonggoRecordsAbandoned, GonggoRequests, BackendNext, BackendReplies, ReplyNext, ReplyLooksUp,
           ReplyFallsBack, ReplyDrops, ReplyAppends, ReplyAwakes, CommWakesAlone, SubscribeWakesAlone
<1>8. RepliesMatchRequests'
  BY <1>6 DEF RepliesMatchRequests, Known
<1>9. AcceptedFirst'
  BY <1>6, <1>7 DEF AcceptedFirst, Known
<1> QED BY <1>8, <1>9

LEMMA InitRequestInv == Init => RequestInv
BY DEF Init, RequestInv, Unrecorded, ChannelBusy, KnownIn, EmptyTable, respond_table_request_dup, ChannelKnown, CallsKnown,
       Carrying, RepliesMatchRequests, AcceptedFirst, PendingReplies, InHand, Range, NoCall

LEMMA AlwaysRequestInv == Spec => []RequestInv
<1>1. Init => RequestInv
  BY InitRequestInv
<1>2. TypeInv /\ RequestInv /\ [Next]_vars => RequestInv'
  BY UnrecordedKept, TablesStayKnown, ChannelStaysKnown, CallsStayKnown, RepliesStayKnown DEF RequestInv
<1> QED BY <1>1, <1>2, AlwaysTypeInv, PTL DEF Spec

\* Every reply is about what its requests asked for, and tells gonggo rightly
\* whether to keep them.
THEOREM RepliesAreRight == Spec => []RepliesMatchRequests
<1>1. RequestInv => RepliesMatchRequests
  BY DEF RequestInv
<1> QED BY <1>1, AlwaysRequestInv, PTL

\* gonggo gets no answer for a request it has not recorded.
THEOREM NoEarlyAnswer == Spec => []AnswerAfterRegistration
<1>1. RequestInv => AnswerAfterRegistration
  BY DEF RequestInv, AcceptedFirst, CallsKnown, Accepted, AnswerAfterRegistration
<1> QED BY <1>1, AlwaysRequestInv, PTL

\* A request the channel thread has abandoned is nowhere in the proxy and is
\* never answered, whether gonggo has recorded it or not.
THEOREM AbandonedIsForgotten == Spec => []AbandonedLeavesNoTrace
<1>1. TypeInv /\ RequestInv => AbandonedLeavesNoTrace
  <2> SUFFICES ASSUME TypeInv, RequestInv, NEW r \in abandoned
               PROVE  /\ r \notin WaitingIn(singleshot_table) \cup WaitingIn(multirespond_table)
                      /\ \A reply \in PendingReplies : r \notin reply.rids
                      /\ \A t \in Repliers : Carrying(t) => r \notin call[t].rids
                      /\ delivered[r] = 0
    BY DEF AbandonedLeavesNoTrace
  <2>1. r \in Rids /\ r \notin Accepted /\ delivered[r] \in Nat
    BY DEF TypeInv, TypeOK, Accepted
  <2>2. r \notin WaitingIn(singleshot_table) \cup WaitingIn(multirespond_table)
    <3>1. DOMAIN singleshot_table \subseteq Keys /\ DOMAIN multirespond_table \subseteq Keys
      BY DEF TypeInv, TypeOK, IsTable, Keys
    <3>2. /\ \A k \in DOMAIN singleshot_table : r \notin singleshot_table[k]
          /\ \A k \in DOMAIN multirespond_table : r \notin multirespond_table[k]
      BY <2>1, <3>1 DEF RequestInv, KnownIn, respond_table_request_dup
    <3> QED BY <3>2 DEF WaitingIn
  <2>3. /\ \A reply \in PendingReplies : r \notin reply.rids
        /\ \A t \in Repliers : Carrying(t) => r \notin call[t].rids
        /\ delivered[r] = 0
    BY <2>1 DEF RequestInv, AcceptedFirst, CallsKnown
  <2> QED BY <2>2, <2>3
<1> QED BY <1>1, AlwaysTypeInv, AlwaysRequestInv, PTL
-----------------------------------------------------------------------------
(***************************************************************************)
(* Conservation of replies.                                                *)
(***************************************************************************)
LEMMA ReplyCountKept ==
  ASSUME TypeInv, NoReplyLost, [Next]_vars
  PROVE  NoReplyLost'
<1> USE DEF TypeInv, TypeOK, SubscribeShape, NoReplyLost, Outstanding, subscribeVars, replyVars
<1>0. Len(reply_queue) \in Nat /\ Len(failed_task) \in Nat
  OBVIOUS
<1>1. CASE ChannelRejects \/ \E t \in Repliers : ReplyAppends(t)
  <2>1. /\ UNCHANGED subscribeVars /\ subscribe_pc' = subscribe_pc
        /\ appended' = appended + 1
        /\ \E reply : reply_queue' = Append(reply_queue, reply)
    BY <1>1 DEF ChannelRejects, ReplyAppends, reply_queue_append
  <2>2. Len(reply_queue') = Len(reply_queue) + 1
    BY <2>1
  <2> QED BY <1>0, <2>1, <2>2
<1>2. CASE SubscribeRests
  <2>1. reply_queue' = failed_task \o reply_queue /\ failed_task' = <<>>
        /\ UNCHANGED <<appended, handed>> /\ subscribe_pc = "rest" /\ subscribe_pc' = "waiting"
    BY <1>2 DEF SubscribeRests
  <2>2. Len(reply_queue') = Len(failed_task) + Len(reply_queue) /\ Len(failed_task') = 0
    BY <2>1
  <2> QED BY <1>0, <2>1, <2>2
<1>3. CASE SubscribeSends
  <2>1. Len(reply_queue') = Len(reply_queue) - 1 /\ UNCHANGED <<appended, handed>>
        /\ subscribe_pc = "pop"
    BY <1>3, HeadTail DEF SubscribeSends
  <2>2. CASE subscribe_state' = "ANSWER" /\ subscribe_pc' = "sent" /\ UNCHANGED failed_task
    BY <1>0, <2>1, <2>2
  <2>3. CASE subscribe_pc' = "pop" /\ failed_task' = Append(failed_task, Head(reply_queue))
    <3>1. Len(failed_task') = Len(failed_task) + 1
      BY <2>3
    <3> QED BY <1>0, <2>1, <2>3, <3>1
  <2> QED BY <1>3, <2>2, <2>3 DEF SubscribeSends
<1>4. CASE SubscribeConcludes
  <2>1. subscribe_pc = "sent" /\ subscribe_pc' = "pop" /\ UNCHANGED <<reply_queue, appended, handed>>
    BY <1>4 DEF SubscribeConcludes
  <2>2. CASE subscribe_state = "DONE" /\ UNCHANGED failed_task
    BY <1>0, <2>1, <2>2
  <2>3. CASE subscribe_state # "DONE" /\ failed_task' = Append(failed_task, subscribe_task)
    <3>1. Len(failed_task') = Len(failed_task) + 1
      BY <2>3
    <3> QED BY <1>0, <2>1, <2>3, <3>1
  <2> QED BY <1>4, <2>2, <2>3 DEF SubscribeConcludes, Taken
<1>5. CASE GonggoTakes
  <2>1. subscribe_pc = "sent" /\ subscribe_state = "ANSWER"
        /\ UNCHANGED <<reply_queue, failed_task, subscribe_pc, appended>>
    BY <1>5 DEF GonggoTakes
  <2>2. CASE subscribe_state' = "DONE" /\ handed' = handed + 1
    BY <1>0, <2>1, <2>2
  <2>3. CASE subscribe_state' = "FAILED" /\ UNCHANGED handed
    BY <2>1, <2>3
  <2> QED BY <1>5, <2>2, <2>3 DEF GonggoTakes
<1>6. CASE RepliesUntouched
  BY <1>6 DEF RepliesUntouched
<1> QED BY <1>1, <1>2, <1>3, <1>4, <1>5, <1>6, ReplySteps

\* A reply once queued stays until gonggo takes it, and is taken once, however
\* often gonggo refuses it or its shared memory fails.
THEOREM RepliesAreConserved == Spec => []NoReplyLost
<1>1. Init => NoReplyLost
  BY DEF Init, NoReplyLost, Outstanding
<1>2. TypeInv /\ NoReplyLost /\ [Next]_vars => NoReplyLost'
  BY ReplyCountKept
<1> QED BY <1>1, <1>2, AlwaysTypeInv, PTL DEF Spec
-----------------------------------------------------------------------------
(***************************************************************************)
(* The comm thread and its work.  Between its look at the empty queue and  *)
(* its wait the thread holds proxy_comm_lock, so that the awake of a task  *)
(* queued meanwhile comes after the wait has begun.                        *)
(***************************************************************************)
RestInv ==
  comm_pc \in {"rest", "waiting"} /\ parse_queue # <<>> => channel_pc \in {"set_drop", "awake_comm"}

LEMMA RestInvKept ==
  ASSUME TypeInv, RestInv, [Next]_vars
  PROVE  RestInv'
<1> USE DEF TypeInv, TypeOK, RestInv, commVars
<1>1. CASE ChannelNext
  BY <1>1 DEF ChannelNext, ChannelParses, ChannelGivesUp, ChannelRejects, ChannelFindsTopic,
       ChannelAppendsDrop, ChannelSetsDrop, ChannelSetsRequest, ChannelAppendsJob, ChannelAwakes,
       ChannelHandles, proxy_comm_awake, LockFree, Signalled
<1>2. CASE CommNext \/ CommWakesAlone
  BY <1>2 DEF CommNext, CommLocks, CommPops, CommRests, CommRuns, CommRunReturns, CommDrops,
       CommClears, CommWakesAlone, channelVars
<1>3. CASE GonggoNext
  BY <1>3 DEF GonggoNext, GonggoConfirms, GonggoRecordsAbandoned, GonggoTakes, GonggoRequests, channelVars
<1>4. CASE UNCHANGED <<comm_pc, parse_queue, channel_pc>>
  BY <1>4
<1> QED
  BY <1>1, <1>2, <1>3, <1>4
     DEF Next, vars, channelVars, SubscribeNext, SubscribeLocks, SubscribeFindsEmpty, SubscribeRests,
         SubscribeSends, SubscribeConcludes, BackendNext, BackendReplies, ReplyNext, ReplyLooksUp,
         ReplyFallsBack, ReplyDrops, ReplyAppends, ReplyAwakes, SubscribeWakesAlone

\* No wakeup of the comm thread is lost: it never waits on a queued task
\* without the channel thread being about to awake it.
THEOREM CommIsAwakened == Spec => []CommNeverSleepsOnWork
<1>1. Init => RestInv
  BY DEF Init, RestInv
<1>2. TypeInv /\ RestInv /\ [Next]_vars => RestInv'
  BY RestInvKept
<1>3. RestInv => CommNeverSleepsOnWork
  BY DEF RestInv, CommNeverSleepsOnWork
<1> QED BY <1>1, <1>2, <1>3, AlwaysTypeInv, PTL DEF Spec
-----------------------------------------------------------------------------
(***************************************************************************)
(* The same for the subscribe thread.  A reply queued after the thread has *)
(* seen the empty queue has its awake before it, for whoever appends one   *)
(* has still to take proxy_subscribe_lock.  The rest of the queue of a     *)
(* sleeping thread is what failed and was put back at its head.            *)
(***************************************************************************)
AwakeDue == channel_pc = "awake_subscribe" \/ \E t \in Repliers : call[t].pc = "awake"

SleepInv ==
  /\ subscribe_pc = "rest" /\ reply_queue # <<>> => AwakeDue
  /\ subscribe_pc = "waiting" /\ Len(reply_queue) > retried => AwakeDue

\* The comm thread is in a reply call only inside f_run, or right after a drop.
CommCallInv == comm_pc \notin {"pop", "running"} => call[Comm].pc = "return"

LEMMA CommCallKept ==
  ASSUME TypeInv, CommCallInv, [Next]_vars
  PROVE  CommCallInv'
<1> USE DEF TypeInv, TypeOK, CommCallInv, commVars
<1>1. Comm \in Repliers
  BY DEF Repliers
<1>2. CASE CommNext \/ CommWakesAlone
  BY <1>1, <1>2 DEF CommNext, CommLocks, CommPops, CommRests, CommRuns, CommRunReturns, CommDrops,
       CommClears, CommWakesAlone
<1>3. ASSUME NEW t \in Repliers, ReplyNext(t)
      PROVE  CommCallInv'
  <2>1. call[t].pc # "return" /\ comm_pc' = comm_pc /\ \A u \in Repliers \ {t} : call'[u] = call[u]
    BY <1>3 DEF ReplyNext, ReplyLooksUp, ReplyFallsBack, ReplyDrops, ReplyAppends, ReplyAwakes
  <2> QED BY <1>1, <2>1
<1>4. ASSUME NEW t \in Repliers, NEW k \in SingleKeys \cup MultiKeys, BackendReplies(t, k)
      PROVE  CommCallInv'
  <2>1. (t = Comm => comm_pc = "running") /\ comm_pc' = comm_pc
        /\ \A u \in Repliers \ {t} : call'[u] = call[u]
    BY <1>4 DEF BackendReplies
  <2> QED BY <1>1, <2>1
<1>5. CASE ChannelNext
  BY <1>5 DEF ChannelNext, ChannelParses, ChannelGivesUp, ChannelRejects, ChannelFindsTopic,
       ChannelAppendsDrop, ChannelSetsDrop, ChannelSetsRequest, ChannelAppendsJob, ChannelAwakes,
       ChannelHandles, proxy_comm_awake, LockFree, Signalled
<1>6. CASE UNCHANGED <<comm_pc, call>>
  BY <1>6
<1> QED
  BY <1>2, <1>3, <1>4, <1>5, <1>6
     DEF Next, vars, SubscribeNext, SubscribeLocks, SubscribeFindsEmpty, SubscribeRests,
         SubscribeSends, SubscribeConcludes, SubscribeWakesAlone, GonggoNext, GonggoConfirms,
         GonggoRecordsAbandoned, GonggoTakes, GonggoRequests, BackendNext

\* A due awake stays due until it is made, and it is not made while the
\* subscribe thread holds its lock.
LEMMA AwakeStaysDue ==
  ASSUME TypeInv, AwakeDue, ChannelNext \/ (\E t \in Repliers : ReplyNext(t)) \/ BackendNext
  PROVE  AwakeDue' \/ subscribe_pc' \notin {"rest", "waiting"}
<1> USE DEF TypeInv, TypeOK, AwakeDue
<1>1. CASE ChannelNext
  BY <1>1 DEF ChannelNext, ChannelParses, ChannelGivesUp, ChannelRejects, ChannelFindsTopic,
       ChannelAppendsDrop, ChannelSetsDrop, ChannelSetsRequest, ChannelAppendsJob, ChannelAwakes,
       ChannelHandles, proxy_subscribe_awake, LockFree, Signalled
<1>2. ASSUME NEW t \in Repliers, ReplyNext(t)
      PROVE  AwakeDue' \/ subscribe_pc' \notin {"rest", "waiting"}
  <2>1. CASE ReplyAwakes(t)
    BY <2>1 DEF ReplyAwakes, proxy_subscribe_awake, LockFree, Signalled
  <2>2. CASE ReplyLooksUp(t) \/ ReplyFallsBack(t) \/ ReplyAppends(t) \/ \E r \in Rids : ReplyDrops(t, r)
    <3>1. call[t].pc # "awake" /\ \A u \in Repliers \ {t} : call'[u] = call[u]
      BY <2>2 DEF ReplyLooksUp, ReplyFallsBack, ReplyAppends, ReplyDrops
    <3>2. channel_pc' = channel_pc
      BY <2>2 DEF ReplyLooksUp, ReplyFallsBack, ReplyAppends, ReplyDrops, channelVars
    <3> QED BY <3>1, <3>2
  <2> QED BY <1>2, <2>1, <2>2 DEF ReplyNext
<1>3. ASSUME NEW t \in Repliers, NEW k \in SingleKeys \cup MultiKeys, BackendReplies(t, k)
      PROVE  AwakeDue'
  <2>1. call[t].pc = "return" /\ \A u \in Repliers \ {t} : call'[u] = call[u]
    BY <1>3 DEF BackendReplies
  <2>2. channel_pc' = channel_pc
    BY <1>3 DEF BackendReplies, channelVars
  <2> QED BY <2>1, <2>2
<1> QED BY <1>1, <1>2, <1>3 DEF BackendNext

\* Who appends a reply awakes the thread next.
LEMMA AppendIsDue ==
  ASSUME TypeInv, ChannelNext \/ (\E t \in Repliers : ReplyNext(t)) \/ BackendNext
  PROVE  /\ UNCHANGED retried
         /\ subscribe_pc' \in {subscribe_pc, "woken"}
         /\ reply_queue' = reply_queue \/ AwakeDue'
<1> USE DEF TypeInv, TypeOK, AwakeDue, subscribeVars, replyVars
<1>1. CASE ChannelNext
  BY <1>1 DEF ChannelNext, ChannelParses, ChannelGivesUp, ChannelRejects, ChannelFindsTopic,
       ChannelAppendsDrop, ChannelSetsDrop, ChannelSetsRequest, ChannelAppendsJob, ChannelAwakes,
       ChannelHandles, proxy_subscribe_awake, LockFree, Signalled
<1>2. ASSUME NEW t \in Repliers, ReplyNext(t)
      PROVE  /\ UNCHANGED retried
             /\ subscribe_pc' \in {subscribe_pc, "woken"}
             /\ reply_queue' = reply_queue \/ AwakeDue'
  <2>1. CASE ReplyAppends(t)
    BY <2>1 DEF ReplyAppends
  <2>2. CASE ReplyAwakes(t)
    BY <2>2 DEF ReplyAwakes, proxy_subscribe_awake, LockFree, Signalled
  <2>3. CASE ReplyLooksUp(t) \/ ReplyFallsBack(t) \/ \E r \in Rids : ReplyDrops(t, r)
    BY <2>3 DEF ReplyLooksUp, ReplyFallsBack, ReplyDrops
  <2> QED BY <1>2, <2>1, <2>2, <2>3 DEF ReplyNext
<1>3. CASE BackendNext
  BY <1>3 DEF BackendNext, BackendReplies
<1> QED BY <1>1, <1>2, <1>3

LEMMA SleepInvKept ==
  ASSUME TypeInv, CommCallInv, SleepInv, [Next]_vars
  PROVE  SleepInv'
<1> USE DEF TypeInv, TypeOK, SleepInv
<1>1. CASE ChannelNext \/ (\E t \in Repliers : ReplyNext(t)) \/ BackendNext
  BY <1>1, AwakeStaysDue, AppendIsDue
<1>2. CASE SubscribeRests
  <2>1. Len(failed_task \o reply_queue) = Len(failed_task) + Len(reply_queue)
        /\ (Len(reply_queue) > 0 => reply_queue # <<>>)
    OBVIOUS
  <2>2. AwakeDue' = AwakeDue
    BY <1>2 DEF SubscribeRests, AwakeDue, channelVars
  <2> QED BY <1>2, <2>1, <2>2 DEF SubscribeRests
<1>3. CASE (SubscribeNext /\ ~SubscribeRests) \/ SubscribeWakesAlone
  <2>1. subscribe_pc' # "waiting" /\ (subscribe_pc' = "rest" => reply_queue' = <<>>)
    BY <1>3 DEF SubscribeNext, SubscribeLocks, SubscribeFindsEmpty, SubscribeSends, SubscribeConcludes,
                SubscribeWakesAlone, replyVars
  <2> QED BY <2>1
<1>4. CASE GonggoNext
  BY <1>4 DEF GonggoNext, GonggoConfirms, GonggoRecordsAbandoned, GonggoTakes, GonggoRequests, AwakeDue, channelVars,
       subscribeVars, replyVars
<1>5. CASE UNCHANGED <<channel_pc, call, subscribe_pc, retried, reply_queue>>
  BY <1>5 DEF AwakeDue
<1>6. CASE CommNext
  <2>1. UNCHANGED <<channel_pc, subscribe_pc, retried, reply_queue>>
    BY <1>6 DEF CommNext, CommLocks, CommPops, CommRests, CommRuns, CommRunReturns, CommDrops,
         CommClears, channelVars, subscribeVars, replyVars
  <2>2. \A t \in Repliers : call[t].pc = "awake" => call'[t] = call[t]
    BY <1>6 DEF CommNext, CommLocks, CommPops, CommRests, CommRuns, CommRunReturns, CommDrops,
         CommClears, CommCallInv
  <2> QED BY <2>1, <2>2 DEF AwakeDue
<1> QED
  BY <1>1, <1>2, <1>3, <1>4, <1>5, <1>6
     DEF Next, vars, channelVars, subscribeVars, replyVars, CommWakesAlone

\* No wakeup of the subscribe thread is lost either, whatever fails: it never
\* waits on a reply it has not itself put back unless somebody is about to
\* awake it.
THEOREM SubscribeIsAwakened == Spec => []SubscribeNeverSleepsOnWork
<1>1. Init => CommCallInv /\ SleepInv
  BY DEF Init, CommCallInv, SleepInv, NoCall, Repliers
<1>2. TypeInv /\ CommCallInv /\ SleepInv /\ [Next]_vars => CommCallInv' /\ SleepInv'
  BY CommCallKept, SleepInvKept
<1>3. SleepInv => SubscribeNeverSleepsOnWork
  BY DEF SleepInv, SubscribeNeverSleepsOnWork, AwakeDue
<1> QED BY <1>1, <1>2, <1>3, AlwaysTypeInv, PTL DEF Spec
-----------------------------------------------------------------------------
(***************************************************************************)
(* Topics with subscribers are served.  RunPending(k) follows a task from  *)
(* the channel thread through the queue to f_run; each new subscriber      *)
(* brings one, and a clear hits no topic that has got a subscriber since,  *)
(* but one whose task is still to run.                                     *)
(***************************************************************************)
LEMMA ChannelKeepsService ==
  ASSUME TypeInv, ServiceRunsWhileSubscribed, ChannelNext
  PROVE  ServiceRunsWhileSubscribed'
<1> USE DEF TypeInv, TypeOK, ServiceRunsWhileSubscribed, RunPending, commVars, backendVars, tableVars
<1>1. UNCHANGED <<active, comm_task>> /\ UNCHANGED asked
      /\ (comm_pc' = comm_pc \/ (comm_pc = "waiting" /\ comm_pc' = "woken"))
  BY DEF ChannelNext, ChannelParses, ChannelGivesUp, ChannelRejects, ChannelFindsTopic,
         ChannelAppendsDrop, ChannelSetsDrop, ChannelSetsRequest, ChannelAppendsJob, ChannelAwakes,
         proxy_comm_awake, LockFree, Signalled, gonggoVars
<1>2. CASE ChannelAppendsDrop \/ ChannelAppendsJob
  <2>1. \E task : /\ parse_queue' = Append(parse_queue, task)
                  /\ channel_pc = "append_job" => task.key = Request
    BY <1>2 DEF ChannelAppendsDrop, ChannelAppendsJob, parse_queue_append, NoTask
  <2>2. ASSUME NEW k, RunPending(k)
        PROVE  RunPending(k)'
    <3>1. PICK task : /\ parse_queue' = Append(parse_queue, task)
                      /\ channel_pc = "append_job" => task.key = Request
      BY <2>1
    <3>2. Len(parse_queue) \in Nat /\ DOMAIN parse_queue = 1..Len(parse_queue)
          /\ DOMAIN parse_queue' = 1..Len(parse_queue) + 1
      BY <3>1
    <3>3. \A i \in 1..Len(parse_queue) : parse_queue'[i] = parse_queue[i]
      BY <3>1
    <3>4. parse_queue'[Len(parse_queue) + 1] = task
      BY <3>1
    <3>5. CASE channel_pc = "append_job" /\ Request = k
      <4>1. task.key = k /\ Len(parse_queue) + 1 \in DOMAIN parse_queue'
        BY <3>1, <3>2, <3>5
      <4>2. parse_queue'[Len(parse_queue) + 1].key = k
        BY <3>4, <4>1
      <4> QED BY <4>1, <4>2
    <3>6. CASE \E i \in DOMAIN parse_queue : parse_queue[i].key = k
      BY <3>2, <3>3, <3>6
    <3>7. CASE comm_pc = "run" /\ comm_task.key = k
      BY <1>1, <3>7
    <3> QED BY <2>2, <3>5, <3>6, <3>7
  <2> QED BY <1>1, <1>2, <2>2 DEF ChannelAppendsDrop, ChannelAppendsJob
<1>3. CASE ChannelSetsRequest
  <2>1. CASE UNCHANGED multirespond_table
    BY <1>1, <1>3, <2>1 DEF ChannelSetsRequest, ChannelHandles
  <2>2. CASE multirespond_table' = respond_table_set(multirespond_table, Request, channel_rid)
             /\ Request \in MultiKeys
    <3>1. DOMAIN multirespond_table' = DOMAIN multirespond_table \cup {Request}
      BY <2>2 DEF respond_table_set
    <3>2. ASSUME Request \notin DOMAIN multirespond_table
          PROVE  channel_pc' = "append_job" /\ Request' = Request
      BY <1>1, <1>3, <2>2, <3>2
         DEF ChannelSetsRequest, IsNewEntry, respond_table_request_dup, Request, SingleKeys, MultiKeys
    <3>3. ASSUME NEW k \in DOMAIN multirespond_table, RunPending(k)
          PROVE  RunPending(k)'
      BY <1>1, <1>3, <3>3 DEF ChannelSetsRequest, ChannelHandles
    <3> QED BY <1>1, <1>3, <3>1, <3>2, <3>3 DEF ChannelSetsRequest
  <2> QED BY <1>3, <2>1, <2>2 DEF ChannelSetsRequest
<1>4. CASE UNCHANGED <<multirespond_table, parse_queue>> /\ channel_pc # "append_job"
  BY <1>1, <1>4
<1> QED
  BY <1>2, <1>3, <1>4
     DEF ChannelNext, ChannelParses, ChannelGivesUp, ChannelRejects, ChannelFindsTopic,
         ChannelSetsDrop, ChannelAwakes, ChannelHandles

LEMMA CommKeepsService ==
  ASSUME TypeInv, ServiceRunsWhileSubscribed, CommNext \/ CommWakesAlone
  PROVE  ServiceRunsWhileSubscribed'
<1> USE DEF TypeInv, TypeOK, ServiceRunsWhileSubscribed, RunPending, CommShape, channelVars,
            backendVars, tableVars, gonggoVars, Request
<1>1. DOMAIN multirespond_table \subseteq MultiKeys
  BY DEF IsTable
<1>2. CASE CommPops
  <2>1. CASE parse_queue = <<>>
    BY <1>2, <2>1 DEF CommPops
  <2>2. CASE parse_queue # <<>>
    <3>1. parse_queue' = Tail(parse_queue) /\ comm_task' = Head(parse_queue)
          /\ comm_pc' = (IF IsDrop(Head(parse_queue)) THEN "drop" ELSE "run")
          /\ UNCHANGED <<multirespond_table, active, channel_pc, channel_rid, asked>>
      BY <1>2, <2>2 DEF CommPops
    <3>2. ASSUME NEW k \in MultiKeys, RunPending(k)
          PROVE  RunPending(k)'
      <4>1. DOMAIN parse_queue = 1..Len(parse_queue) /\ DOMAIN parse_queue' = 1..Len(parse_queue')
        BY <2>2, <3>1
      <4>2. CASE channel_pc = "append_job" /\ Request = k
        BY <3>1, <4>2
      <4>3. ASSUME NEW i \in 1..Len(parse_queue), parse_queue[i].key = k
            PROVE  RunPending(k)'
        <5>1. CASE i = 1
          <6>1. ~IsDrop(Head(parse_queue))
            BY <2>2, <4>3, <5>1, HeadTail DEF TaskShape, MultiKeys, DropKeys
          <6> QED BY <2>2, <3>1, <4>3, <5>1, <6>1, HeadTail
        <5>2. CASE i # 1
          <6>1. i - 1 \in 1..Len(Tail(parse_queue)) /\ (i - 1) + 1 = i
            BY <2>2, <5>2, HeadTail
          <6>2. Tail(parse_queue)[i - 1] = parse_queue[i]
            BY <2>2, <6>1, HeadTail
          <6> QED BY <3>1, <4>1, <4>3, <6>1, <6>2
        <5> QED BY <5>1, <5>2
      <4>4. comm_pc # "run"
        BY <1>2 DEF CommPops
      <4> QED BY <3>2, <4>1, <4>2, <4>3, <4>4
    <3>3. comm_pc' # "clear"
      BY <3>1
    <3> QED BY <1>1, <3>1, <3>2, <3>3
  <2> QED BY <2>1, <2>2
<1>3. CASE CommRuns
  <2>1. ASSUME NEW k \in DOMAIN multirespond_table
        PROVE  RunPending(k)' \/ k \in active'
    BY <1>1, <1>3, <2>1 DEF CommRuns, MultiKeys, SingleKeys
  <2> QED BY <1>3, <2>1 DEF CommRuns
<1>4. CASE CommDrops
  <2>1. DOMAIN multirespond_table' \subseteq DOMAIN multirespond_table
    BY <1>4 DEF CommDrops, respond_table_drop, Restrict
  <2>2. comm_pc' = "clear" => comm_task.unsub_key \notin DOMAIN multirespond_table'
    BY <1>4 DEF CommDrops, LastSubscriberDropped
  <2> QED BY <1>4, <2>1, <2>2 DEF CommDrops
<1>5. CASE CommClears
  BY <1>5 DEF CommClears
<1>6. CASE CommLocks \/ CommRests \/ CommRunReturns \/ CommWakesAlone
  BY <1>6 DEF CommLocks, CommRests, CommRunReturns, CommWakesAlone
<1> QED BY <1>2, <1>3, <1>4, <1>5, <1>6 DEF CommNext

LEMMA NextKeepsService ==
  ASSUME TypeInv, ServiceRunsWhileSubscribed, [Next]_vars
  PROVE  ServiceRunsWhileSubscribed'
<1>1. CASE GonggoNext
  BY <1>1 DEF GonggoNext, GonggoConfirms, GonggoRecordsAbandoned, GonggoTakes, GonggoRequests, ServiceRunsWhileSubscribed,
       RunPending, Request, channelVars, tableVars, commVars, backendVars
<1>2. CASE UNCHANGED <<asked, channel_pc, channel_rid, multirespond_table, parse_queue, comm_pc,
                       comm_task, active>>
  BY <1>2 DEF ServiceRunsWhileSubscribed, RunPending, Request
<1> QED
  BY <1>1, <1>2, ChannelKeepsService, CommKeepsService
     DEF Next, vars, gonggoVars, channelVars, tableVars, commVars, backendVars, SubscribeNext,
         SubscribeLocks, SubscribeFindsEmpty, SubscribeRests, SubscribeSends, SubscribeConcludes,
         BackendNext, BackendReplies, ReplyNext, ReplyLooksUp, ReplyFallsBack, ReplyDrops,
         ReplyAppends, ReplyAwakes, SubscribeWakesAlone

\* A topic with a subscriber is served, or about to be: subscribing never
\* loses the race with the drop that clears the topic.
THEOREM SubscribersAreServed == Spec => []ServiceRunsWhileSubscribed
<1>1. Init => ServiceRunsWhileSubscribed
  BY DEF Init, ServiceRunsWhileSubscribed, EmptyTable
<1>2. TypeInv /\ ServiceRunsWhileSubscribed /\ [Next]_vars => ServiceRunsWhileSubscribed'
  BY NextKeepsService
<1> QED BY <1>1, <1>2, AlwaysTypeInv, PTL DEF Spec
=============================================================================
