----------------------- MODULE RequestService_proofs -----------------------
(***************************************************************************)
(* The backend never serves a topic without subscribers.  A task in the    *)
(* queue starts a topic long after its request was put into the table; it  *)
(* must not start a topic whose subscribers have been dropped meanwhile.   *)
(* It does not, because of the order of the queue: the drop of a request   *)
(* is queued behind the task the request has queued, as its id is looked   *)
(* up by the thread that has set it.                                       *)
(***************************************************************************)
EXTENDS RequestFlow_proofs

Subscribers(k) == respond_table_request_dup(multirespond_table, k)

\* A drop of r is with the comm thread, or in the queue before position i.
DropAhead(i, r) ==
  \/ comm_pc = "drop" /\ comm_task.unsub_uuid = r
  \/ \E j \in 1..Len(parse_queue) :
       j < i /\ IsDrop(parse_queue[j]) /\ parse_queue[j].unsub_uuid = r

Dropped(r) == DropAhead(Len(parse_queue) + 1, r)

\* gonggo names a fresh rid: no drop of it can be under way before it is set.
DropsKnown ==
  /\ \A r \in Rids : Dropped(r) => asked[r] # NoKey
  /\ channel_pc = "append_drop" => Request.arg \in Rids /\ asked[Request.arg] # NoKey
FreshInv ==
  (channel_pc = "idle" /\ channel_state = "REQUEST") \/ channel_pc = "acked" => ~Dropped(channel_rid)

\* A task that will start a topic has a subscriber nobody has dropped.
AppendInv ==
  channel_pc = "append_job" /\ Request \in MultiKeys =>
    channel_rid \in Subscribers(Request) /\ ~Dropped(channel_rid)
QueueInv ==
  \A i \in 1..Len(parse_queue) : parse_queue[i].key \in MultiKeys =>
    \E r \in Subscribers(parse_queue[i].key) : ~DropAhead(i, r)
RunInv ==
  comm_pc = "run" /\ comm_task.key \in MultiKeys => Subscribers(comm_task.key) # {}

OrphanInv == DropsKnown /\ FreshInv /\ AppendInv /\ QueueInv /\ RunInv /\ NoOrphanService

LEMMA SubscribersType ==
  ASSUME TypeInv
  PROVE  /\ \A k : Subscribers(k) \subseteq Rids
         /\ \A k : k \in DOMAIN multirespond_table <=> Subscribers(k) # {}
         /\ parse_queue \in Seq(Tasks) /\ Len(parse_queue) \in Nat
BY PresentIffWaiting DEF TypeInv, TypeOK, Subscribers

\* What starts and drops topics are different tasks.
LEMMA JobsAreNoDrops ==
  ASSUME TypeInv, NEW i \in 1..Len(parse_queue), parse_queue[i].key \in MultiKeys
  PROVE  ~IsDrop(parse_queue[i])
BY DEF TypeInv, CommShape, TaskShape, MultiKeys, DropKeys

(***************************************************************************)
(* The effect of each step on the drops under way.                         *)
(***************************************************************************)
LEMMA DropsUntouched ==
  ASSUME TypeInv, parse_queue' = parse_queue,
         comm_pc' = "drop" => comm_pc = "drop" /\ comm_task' = comm_task
  PROVE  /\ \A i, r : DropAhead(i, r)' => DropAhead(i, r)
         /\ \A r : Dropped(r)' => Dropped(r)
BY DEF DropAhead, Dropped

LEMMA DropsAppended ==
  ASSUME TypeInv, NEW task \in Tasks, parse_queue' = Append(parse_queue, task),
         UNCHANGED <<comm_pc, comm_task>>
  PROVE  /\ Len(parse_queue') = Len(parse_queue) + 1
         /\ parse_queue'[Len(parse_queue) + 1] = task
         /\ \A i \in 1..Len(parse_queue) : parse_queue'[i] = parse_queue[i]
         /\ \A i \in 1..Len(parse_queue) + 1 : \A r : DropAhead(i, r)' => DropAhead(i, r)
         /\ \A r : Dropped(r)' => Dropped(r) \/ (IsDrop(task) /\ task.unsub_uuid = r)
<1>1. /\ Len(parse_queue) \in Nat /\ Len(parse_queue') = Len(parse_queue) + 1
      /\ parse_queue'[Len(parse_queue) + 1] = task
      /\ \A i \in 1..Len(parse_queue) : parse_queue'[i] = parse_queue[i]
  BY SubscribersType
<1>2. ASSUME NEW i \in 1..Len(parse_queue) + 1, NEW r, DropAhead(i, r)'
      PROVE  DropAhead(i, r)
  BY <1>1, <1>2 DEF DropAhead
<1>3. ASSUME NEW r, Dropped(r)'
      PROVE  Dropped(r) \/ (IsDrop(task) /\ task.unsub_uuid = r)
  BY <1>1, <1>3 DEF Dropped, DropAhead
<1> QED BY <1>1, <1>2, <1>3

LEMMA DropsPopped ==
  ASSUME TypeInv, CommPops
  PROVE  /\ \A i \in 1..Len(parse_queue') : \A r :
              parse_queue # <<>> /\ DropAhead(i, r)' => DropAhead(i + 1, r)
         /\ \A r : Dropped(r)' => Dropped(r)
<1>1. CASE parse_queue = <<>>
  <2>1. parse_queue' = parse_queue /\ comm_pc' # "drop"
    BY <1>1 DEF CommPops
  <2> QED BY <1>1, <2>1, DropsUntouched
<1>2. CASE parse_queue # <<>>
  <2>1. /\ parse_queue' = Tail(parse_queue) /\ comm_task' = Head(parse_queue)
        /\ comm_pc' = "drop" => IsDrop(Head(parse_queue))
    BY <1>2 DEF CommPops
  <2>2. /\ Head(parse_queue) = parse_queue[1] /\ 1 \in 1..Len(parse_queue)
        /\ Len(parse_queue) \in Nat /\ Len(parse_queue') = Len(parse_queue) - 1
        /\ \A j \in 1..Len(parse_queue') :
             parse_queue'[j] = parse_queue[j + 1] /\ j + 1 \in 1..Len(parse_queue)
    BY <1>2, <2>1, HeadTail, SubscribersType
  <2>3. ASSUME NEW i \in Nat, i > 0, NEW r, DropAhead(i, r)'
        PROVE  DropAhead(i + 1, r)
    <3>1. CASE comm_pc' = "drop" /\ comm_task'.unsub_uuid = r
      BY <2>1, <2>2, <2>3, <3>1 DEF DropAhead
    <3>2. ASSUME NEW j \in 1..Len(parse_queue'), j < i, IsDrop(parse_queue'[j]),
                 parse_queue'[j].unsub_uuid = r
          PROVE  DropAhead(i + 1, r)
      <4>1. j + 1 \in 1..Len(parse_queue) /\ j + 1 < i + 1 /\ parse_queue'[j] = parse_queue[j + 1]
        BY <2>2, <2>3, <3>2
      <4> QED BY <3>2, <4>1 DEF DropAhead
    <3> QED BY <2>3, <3>1, <3>2 DEF DropAhead
  <2>4. Len(parse_queue') + 1 \in Nat /\ Len(parse_queue') + 1 > 0
        /\ Len(parse_queue') + 1 + 1 = Len(parse_queue) + 1
    BY <2>2
  <2>5. \A r : Dropped(r)' => Dropped(r)
    BY <2>3, <2>4 DEF Dropped
  <2>6. \A i \in 1..Len(parse_queue') : i \in Nat /\ i > 0
    BY <2>2
  <2> QED BY <2>3, <2>5, <2>6
<1> QED BY <1>1, <1>2
-----------------------------------------------------------------------------
(***************************************************************************)
(* OrphanInv is inductive, by the thread that takes the step.              *)
(***************************************************************************)
\* Steps that touch no table, no queue and no topic, and bring no request on
\* its way: they end one, or change what the channel waits for.
LEMMA QuietKeepsOrphanInv ==
  ASSUME TypeInv, OrphanInv,
         UNCHANGED <<asked, multirespond_table, parse_queue, active>>,
         comm_pc' = "drop" => comm_pc = "drop" /\ comm_task' = comm_task,
         comm_pc' = "run" => comm_pc = "run" /\ comm_task' = comm_task,
         comm_pc = "clear" => comm_pc' = "clear" /\ comm_task' = comm_task,
         channel_pc' \in {"append_drop", "append_job"} => channel_pc' = channel_pc /\ channel_rid' = channel_rid,
         (channel_pc' = "idle" /\ channel_state' = "REQUEST") \/ channel_pc' = "acked" =>
           /\ (channel_pc = "idle" /\ channel_state = "REQUEST") \/ channel_pc = "acked"
           /\ channel_rid' = channel_rid
  PROVE  OrphanInv'
<1>1. /\ \A i, r : DropAhead(i, r)' => DropAhead(i, r)
      /\ \A r : Dropped(r)' => Dropped(r)
  BY DropsUntouched
<1>2. \A k : Subscribers(k)' = Subscribers(k)
  BY DEF Subscribers
<1>3. DropsKnown' /\ FreshInv' /\ AppendInv'
  BY <1>1, <1>2 DEF OrphanInv, DropsKnown, FreshInv, AppendInv, Request
<1>4. QueueInv' /\ RunInv'
  BY <1>1, <1>2 DEF OrphanInv, QueueInv, RunInv
<1>5. NoOrphanService'
  BY DEF OrphanInv, NoOrphanService
<1> QED BY <1>3, <1>4, <1>5 DEF OrphanInv

LEMMA GonggoKeepsOrphanInv ==
  ASSUME TypeInv, OrphanInv, GonggoNext
  PROVE  OrphanInv'
<1> USE DEF tableVars, commVars, channelVars, backendVars
<1>1. CASE GonggoConfirms \/ GonggoTakes \/ \E r \in Rids : GonggoRecordsAbandoned(r)
  BY <1>1, QuietKeepsOrphanInv DEF GonggoConfirms, GonggoRecordsAbandoned, GonggoTakes
<1>2. ASSUME NEW r \in Rids, NEW q \in Requests, GonggoRequests(r, q)
      PROVE  OrphanInv'
  <2>1. /\ asked[r] = NoKey /\ channel_pc = "idle" /\ channel_rid' = r
        /\ \A s \in Rids : asked[s] # NoKey => asked'[s] # NoKey
        /\ UNCHANGED <<channel_pc, multirespond_table, parse_queue, comm_pc, comm_task, active>>
    BY <1>2 DEF GonggoRequests, TypeInv, TypeOK
  <2>2. /\ \A i, s : DropAhead(i, s)' => DropAhead(i, s)
        /\ \A s : Dropped(s)' => Dropped(s)
    BY <2>1, DropsUntouched
  <2>3. DropsKnown' /\ FreshInv' /\ AppendInv'
    BY <2>1, <2>2 DEF OrphanInv, DropsKnown, FreshInv, AppendInv
  <2>4. QueueInv' /\ RunInv'
    BY <2>1, <2>2 DEF OrphanInv, QueueInv, RunInv, Subscribers
  <2>5. NoOrphanService'
    BY <2>1 DEF OrphanInv, NoOrphanService
  <2> QED BY <2>3, <2>4, <2>5 DEF OrphanInv
<1> QED BY <1>1, <1>2 DEF GonggoNext

LEMMA ChannelKeepsOrphanInv ==
  ASSUME TypeInv, RequestInv, OrphanInv, ChannelNext
  PROVE  OrphanInv'
<1> USE DEF tableVars, commVars, channelVars, backendVars, gonggoVars
<1>1. CASE ChannelParses \/ ChannelGivesUp \/ ChannelRejects \/ ChannelSetsDrop \/ ChannelAwakes
  BY <1>1, QuietKeepsOrphanInv
     DEF ChannelParses, ChannelGivesUp, ChannelRejects, ChannelSetsDrop, ChannelAwakes,
         proxy_channel_shm_idle, proxy_comm_awake, LockFree, Signalled
<1>2. CASE ChannelFindsTopic
  <2>1. PICK k \in DOMAIN multirespond_table : Request.arg \in multirespond_table[k] /\ Request.arg # NoRid
    BY <1>2 DEF ChannelFindsTopic, proxy_channel_create_unsubscribe_task_key, respond_table_dup_task_key
  <2>2. Request.arg \in Rids /\ asked[Request.arg] # NoKey
    <3>1. k \in Keys /\ k # NoKey /\ Request.arg \in respond_table_request_dup(multirespond_table, k)
      BY <2>1 DEF TypeInv, TypeOK, IsTable, Keys, NoKey, MultiKeys, respond_table_request_dup
    <3>2. asked[Request.arg] = k
      BY <3>1 DEF RequestInv, KnownIn
    <3> QED BY <3>1, <3>2, SubscribersType DEF Subscribers
  <2>3. /\ \A i, r : DropAhead(i, r)' => DropAhead(i, r)
        /\ \A r : Dropped(r)' => Dropped(r)
    BY <1>2, DropsUntouched DEF ChannelFindsTopic
  <2>4. DropsKnown' /\ FreshInv' /\ AppendInv'
    BY <1>2, <2>2, <2>3 DEF ChannelFindsTopic, OrphanInv, DropsKnown, FreshInv, AppendInv, Request
  <2>5. QueueInv' /\ RunInv' /\ NoOrphanService'
    BY <1>2, <2>3 DEF ChannelFindsTopic, OrphanInv, QueueInv, RunInv, NoOrphanService, Subscribers
  <2> QED BY <2>4, <2>5 DEF OrphanInv
<1>3. CASE ChannelAppendsDrop
  <2> DEFINE task == [key |-> Request, unsub_key |-> channel_unsub, unsub_uuid |-> Request.arg]
  <2>1. task \in Tasks /\ task.key \in DropKeys /\ task.unsub_uuid = Request.arg
    BY <1>3 DEF ChannelAppendsDrop, TypeInv, ChannelShape, Tasks, Keys, DropKeys
  <2>2. /\ parse_queue' = Append(parse_queue, task) /\ channel_pc = "append_drop" /\ channel_pc' = "set_drop"
        /\ UNCHANGED <<asked, channel_rid, multirespond_table, comm_pc, comm_task, active>>
    BY <1>3 DEF ChannelAppendsDrop, parse_queue_append
  <2>3. /\ Len(parse_queue') = Len(parse_queue) + 1
        /\ parse_queue'[Len(parse_queue) + 1] = task
        /\ \A i \in 1..Len(parse_queue) : parse_queue'[i] = parse_queue[i]
        /\ \A i \in 1..Len(parse_queue) + 1 : \A r : DropAhead(i, r)' => DropAhead(i, r)
        /\ \A r : Dropped(r)' => Dropped(r) \/ (IsDrop(task) /\ task.unsub_uuid = r)
    BY <2>1, <2>2, DropsAppended
  <2>4. DropsKnown' /\ FreshInv' /\ AppendInv'
    BY <2>1, <2>2, <2>3 DEF OrphanInv, DropsKnown, FreshInv, AppendInv
  <2>5. QueueInv'
    <3>1. ASSUME NEW i \in 1..Len(parse_queue'), parse_queue'[i].key \in MultiKeys
          PROVE  i \in 1..Len(parse_queue)
      BY <2>1, <2>3, <3>1, SubscribersType DEF MultiKeys, DropKeys
    <3>2. Len(parse_queue) \in Nat /\ \A i \in 1..Len(parse_queue) : i \in 1..Len(parse_queue) + 1
      BY SubscribersType
    <3> QED BY <2>2, <2>3, <3>1, <3>2 DEF OrphanInv, QueueInv, Subscribers
  <2>6. RunInv' /\ NoOrphanService'
    BY <2>2 DEF OrphanInv, RunInv, NoOrphanService, Subscribers
  <2> QED BY <2>4, <2>5, <2>6 DEF OrphanInv
<1>4. CASE ChannelSetsRequest
  <2>1. /\ channel_pc = "acked" /\ channel_pc' \in {"append_job", "idle"}
        /\ channel_pc' = "idle" => channel_state' = "IDLE"
        /\ channel_pc' = "append_job" => channel_rid' = channel_rid
        /\ UNCHANGED <<asked, parse_queue, comm_pc, comm_task, active>>
    BY <1>4 DEF ChannelSetsRequest, ChannelHandles, proxy_channel_shm_idle
  <2>2. \A k : Subscribers(k) \subseteq Subscribers(k)'
    BY <1>4, SetAdds DEF ChannelSetsRequest, Subscribers
  <2>3. ASSUME channel_pc' = "append_job", Request \in MultiKeys
        PROVE  channel_rid \in Subscribers(Request)'
    <3>1. multirespond_table' = respond_table_set(multirespond_table, Request, channel_rid)
      BY <1>4, <2>3 DEF ChannelSetsRequest, SingleKeys, MultiKeys
    <3>2. respond_table_request_dup(multirespond_table', Request)
            = respond_table_request_dup(multirespond_table, Request) \cup {channel_rid}
      BY <3>1, SetAdds
    <3>3. Request' = Request
      BY <2>1, <2>3 DEF Request
    <3> QED BY <3>2, <3>3 DEF Subscribers
  <2>4. /\ \A i, r : DropAhead(i, r)' => DropAhead(i, r)
        /\ \A r : Dropped(r)' => Dropped(r)
    BY <2>1, DropsUntouched
  <2>5. DropsKnown' /\ FreshInv'
    BY <2>1, <2>4 DEF OrphanInv, DropsKnown, FreshInv
  <2>6. AppendInv'
    BY <2>1, <2>3, <2>4 DEF OrphanInv, FreshInv, AppendInv, Request
  <2>7. QueueInv' /\ RunInv'
    BY <2>1, <2>2, <2>4 DEF OrphanInv, QueueInv, RunInv
  <2>8. NoOrphanService'
    <3>1. DOMAIN multirespond_table \subseteq DOMAIN multirespond_table'
      BY <1>4 DEF ChannelSetsRequest, respond_table_set
    <3> QED BY <2>1, <3>1 DEF OrphanInv, NoOrphanService
  <2> QED BY <2>5, <2>6, <2>7, <2>8 DEF OrphanInv
<1>5. CASE ChannelAppendsJob
  <2> DEFINE task == [NoTask EXCEPT !.key = Request]
  <2>1. task \in Tasks /\ task.key = Request /\ ~IsDrop(task)
    BY <1>5 DEF ChannelAppendsJob, TypeInv, ChannelShape, Tasks, Keys, NoTask, IsDrop
  <2>2. /\ parse_queue' = Append(parse_queue, task) /\ channel_pc = "append_job" /\ channel_pc' = "awake_comm"
        /\ UNCHANGED <<asked, channel_rid, multirespond_table, comm_pc, comm_task, active>>
    BY <1>5 DEF ChannelAppendsJob, parse_queue_append
  <2>3. /\ Len(parse_queue') = Len(parse_queue) + 1
        /\ parse_queue'[Len(parse_queue) + 1] = task
        /\ \A i \in 1..Len(parse_queue) : parse_queue'[i] = parse_queue[i]
        /\ \A i \in 1..Len(parse_queue) + 1 : \A r : DropAhead(i, r)' => DropAhead(i, r)
        /\ \A r : Dropped(r)' => Dropped(r) \/ (IsDrop(task) /\ task.unsub_uuid = r)
    BY <2>1, <2>2, DropsAppended
  <2>4. DropsKnown' /\ FreshInv' /\ AppendInv'
    BY <2>1, <2>2, <2>3 DEF OrphanInv, DropsKnown, FreshInv, AppendInv
  <2>5. QueueInv'
    <3>1. ASSUME NEW i \in 1..Len(parse_queue'), parse_queue'[i].key \in MultiKeys
          PROVE  \E r \in Subscribers(parse_queue'[i].key) : ~DropAhead(i, r)'
      <4>1. CASE i = Len(parse_queue) + 1
        <5>1. parse_queue'[i].key = Request /\ i \in 1..Len(parse_queue) + 1
          BY <2>1, <2>3, <4>1
        <5>2. channel_rid \in Subscribers(Request) /\ ~DropAhead(i, channel_rid)
          BY <2>2, <3>1, <4>1, <5>1 DEF OrphanInv, AppendInv, Dropped
        <5> QED BY <2>3, <5>1, <5>2
      <4>2. CASE i \in 1..Len(parse_queue)
        <5>1. i \in 1..Len(parse_queue) + 1
          BY <4>2, SubscribersType
        <5> QED BY <2>3, <3>1, <4>2, <5>1 DEF OrphanInv, QueueInv
      <4> QED BY <2>3, <4>1, <4>2, SubscribersType
    <3> QED BY <2>2, <3>1 DEF QueueInv, Subscribers
  <2>6. RunInv' /\ NoOrphanService'
    BY <2>2 DEF OrphanInv, RunInv, NoOrphanService, Subscribers
  <2> QED BY <2>4, <2>5, <2>6 DEF OrphanInv
<1> QED BY <1>1, <1>2, <1>3, <1>4, <1>5 DEF ChannelNext

LEMMA CommKeepsOrphanInv ==
  ASSUME TypeInv, OrphanInv, CommNext
  PROVE  OrphanInv'
<1> USE DEF tableVars, commVars, channelVars, backendVars, gonggoVars
<1>1. CASE CommLocks \/ CommRests \/ CommRunReturns
  BY <1>1, QuietKeepsOrphanInv DEF CommLocks, CommRests, CommRunReturns
<1>2. CASE CommPops
  <2>1. UNCHANGED <<asked, channel_pc, channel_state, channel_rid, multirespond_table, active>>
        /\ comm_pc = "pop"
    BY <1>2 DEF CommPops
  <2>2. /\ \A i \in 1..Len(parse_queue') : \A r :
             parse_queue # <<>> /\ DropAhead(i, r)' => DropAhead(i + 1, r)
        /\ \A r : Dropped(r)' => Dropped(r)
    BY <1>2, DropsPopped
  <2>3. \A k : Subscribers(k)' = Subscribers(k)
    BY <2>1 DEF Subscribers
  <2>4. DropsKnown' /\ FreshInv' /\ AppendInv'
    BY <2>1, <2>2, <2>3 DEF OrphanInv, DropsKnown, FreshInv, AppendInv, Request
  <2>5. NoOrphanService'
    BY <2>1 DEF OrphanInv, NoOrphanService
  <2>6. CASE parse_queue = <<>>
    <3>1. parse_queue' = <<>> /\ comm_pc' = "rest"
      BY <1>2, <2>6 DEF CommPops
    <3> QED BY <2>4, <2>5, <3>1 DEF OrphanInv, QueueInv, RunInv
  <2>7. CASE parse_queue # <<>>
    <3>1. /\ parse_queue' = Tail(parse_queue) /\ comm_task' = Head(parse_queue)
          /\ Head(parse_queue) = parse_queue[1] /\ 1 \in 1..Len(parse_queue)
          /\ \A j \in 1..Len(parse_queue') :
               parse_queue'[j] = parse_queue[j + 1] /\ j + 1 \in 1..Len(parse_queue)
      BY <1>2, <2>7, HeadTail, SubscribersType DEF CommPops
    <3>2. QueueInv'
      <4>1. ASSUME NEW i \in 1..Len(parse_queue'), parse_queue'[i].key \in MultiKeys
            PROVE  \E r \in Subscribers(parse_queue'[i].key) : ~DropAhead(i, r)'
        <5>1. PICK r \in Subscribers(parse_queue[i + 1].key) : ~DropAhead(i + 1, r)
          BY <3>1, <4>1 DEF OrphanInv, QueueInv
        <5> QED BY <2>2, <2>7, <3>1, <4>1, <5>1
      <4> QED BY <2>3, <4>1 DEF QueueInv
    <3>3. RunInv'
      BY <2>3, <3>1 DEF OrphanInv, QueueInv, RunInv
    <3> QED BY <2>4, <2>5, <3>2, <3>3 DEF OrphanInv
  <2> QED BY <2>6, <2>7
<1>3. CASE CommRuns
  <2>1. /\ comm_pc = "run" /\ comm_pc' = "running"
        /\ UNCHANGED <<asked, channel_pc, channel_state, channel_rid, multirespond_table, parse_queue, comm_task>>
        /\ active' = active \/ (comm_task.key \in MultiKeys /\ active' = active \cup {comm_task.key})
    BY <1>3 DEF CommRuns
  <2>2. /\ \A i, r : DropAhead(i, r)' => DropAhead(i, r)
        /\ \A r : Dropped(r)' => Dropped(r)
    BY <2>1, DropsUntouched
  <2>3. \A k : Subscribers(k)' = Subscribers(k)
    BY <2>1 DEF Subscribers
  <2>4. DropsKnown' /\ FreshInv' /\ AppendInv'
    BY <2>1, <2>2, <2>3 DEF OrphanInv, DropsKnown, FreshInv, AppendInv, Request
  <2>5. QueueInv' /\ RunInv'
    BY <2>1, <2>2, <2>3 DEF OrphanInv, QueueInv, RunInv
  <2>6. NoOrphanService'
    BY <2>1, SubscribersType DEF OrphanInv, RunInv, NoOrphanService
  <2> QED BY <2>4, <2>5, <2>6 DEF OrphanInv
<1>4. CASE CommDrops
  <2>1. /\ comm_pc = "drop" /\ comm_pc' \in {"clear", "pop"}
        /\ UNCHANGED <<asked, channel_pc, channel_state, channel_rid, parse_queue, comm_task, active>>
        /\ multirespond_table' =
             respond_table_drop(multirespond_table, comm_task.unsub_key, comm_task.unsub_uuid)
    BY <1>4 DEF CommDrops
  <2>2. /\ \A i, r : DropAhead(i, r)' => DropAhead(i, r)
        /\ \A r : Dropped(r)' => Dropped(r)
    BY <2>1, DropsUntouched
  <2>3. \A k : Subscribers(k)'
               = Subscribers(k) \ (IF k = comm_task.unsub_key THEN {comm_task.unsub_uuid} ELSE {})
    BY <2>1, DropRemoves DEF Subscribers, TypeInv, TypeOK
  <2>4. \A i, r, k : r \in Subscribers(k) /\ ~DropAhead(i, r) => r \in Subscribers(k)'
    BY <2>1, <2>3 DEF DropAhead
  <2>5. DropsKnown' /\ FreshInv'
    BY <2>1, <2>2 DEF OrphanInv, DropsKnown, FreshInv, Request
  <2>6. AppendInv'
    BY <2>1, <2>2, <2>4 DEF OrphanInv, AppendInv, Request, Dropped
  <2>7. QueueInv' /\ RunInv'
    BY <2>1, <2>2, <2>4 DEF OrphanInv, QueueInv, RunInv
  <2>8. NoOrphanService'
    <3>1. ASSUME NEW k \in active, k \in DOMAIN multirespond_table, k \notin DOMAIN multirespond_table'
          PROVE  comm_pc' = "clear" /\ comm_task'.unsub_key = k
      <4>1. Subscribers(k) # {} /\ Subscribers(k)' = {}
        BY <3>1, SubscribersType DEF Subscribers, respond_table_request_dup
      <4>2. k = comm_task.unsub_key /\ comm_task.unsub_uuid \in Subscribers(k)
        BY <2>3, <4>1
      <4>3. LastSubscriberDropped
        BY <3>1, <4>2 DEF LastSubscriberDropped, IsNewEntry, Subscribers
      <4> QED BY <1>4, <2>1, <4>2, <4>3 DEF CommDrops
    <3> QED BY <2>1, <3>1 DEF OrphanInv, NoOrphanService
  <2> QED BY <2>5, <2>6, <2>7, <2>8 DEF OrphanInv
<1>5. CASE CommClears
  <2>1. /\ comm_pc = "clear" /\ comm_pc' = "pop" /\ active' = active \ {comm_task.unsub_key}
        /\ UNCHANGED <<asked, channel_pc, channel_state, channel_rid, multirespond_table, parse_queue, comm_task>>
    BY <1>5 DEF CommClears
  <2>2. /\ \A i, r : DropAhead(i, r)' => DropAhead(i, r)
        /\ \A r : Dropped(r)' => Dropped(r)
    BY <2>1, DropsUntouched
  <2>3. \A k : Subscribers(k)' = Subscribers(k)
    BY <2>1 DEF Subscribers
  <2>4. DropsKnown' /\ FreshInv' /\ AppendInv'
    BY <2>1, <2>2, <2>3 DEF OrphanInv, DropsKnown, FreshInv, AppendInv, Request
  <2>5. QueueInv' /\ RunInv'
    BY <2>1, <2>2, <2>3 DEF OrphanInv, QueueInv, RunInv
  <2>6. NoOrphanService'
    BY <2>1 DEF OrphanInv, NoOrphanService
  <2> QED BY <2>4, <2>5, <2>6 DEF OrphanInv
<1> QED BY <1>1, <1>2, <1>3, <1>4, <1>5 DEF CommNext

LEMMA NextKeepsOrphanInv ==
  ASSUME TypeInv, RequestInv, OrphanInv, [Next]_vars
  PROVE  OrphanInv'
<1>1. CASE CommWakesAlone
  BY <1>1, QuietKeepsOrphanInv DEF CommWakesAlone, tableVars, channelVars, backendVars, gonggoVars
<1>2. CASE UNCHANGED <<asked, channelVars, tableVars, parse_queue, commVars, active>>
  BY <1>2, QuietKeepsOrphanInv DEF channelVars, tableVars, commVars
<1>3. CASE \E t \in Repliers : ReplyNext(t)
  BY <1>3, QuietKeepsOrphanInv
     DEF ReplyNext, ReplyLooksUp, ReplyFallsBack, ReplyDrops, ReplyAppends, ReplyAwakes, tableVars,
         channelVars, commVars, backendVars, gonggoVars
<1> QED
  BY <1>1, <1>2, <1>3, GonggoKeepsOrphanInv, ChannelKeepsOrphanInv, CommKeepsOrphanInv
     DEF Next, vars, gonggoVars, backendVars, SubscribeNext, SubscribeLocks, SubscribeFindsEmpty,
         SubscribeRests, SubscribeSends, SubscribeConcludes, BackendNext, BackendReplies,
         SubscribeWakesAlone

\* The backend is never left with a topic nobody subscribes to, except until
\* the clear that is about to come: no task that starts a topic is overtaken
\* by the drop of its subscribers.
THEOREM NoTopicIsOrphaned == Spec => []NoOrphanService
<1>1. Init => OrphanInv
  BY DEF Init, OrphanInv, DropsKnown, FreshInv, AppendInv, QueueInv, RunInv, NoOrphanService, Dropped,
         DropAhead
<1>2. TypeInv /\ RequestInv /\ OrphanInv /\ [Next]_vars => OrphanInv'
  BY NextKeepsOrphanInv
<1>3. OrphanInv => NoOrphanService
  BY DEF OrphanInv
<1> QED BY <1>1, <1>2, <1>3, AlwaysTypeInv, AlwaysRequestInv, PTL DEF Spec
=============================================================================
