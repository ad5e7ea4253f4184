------------------------ MODULE RequestAnswer_proofs ------------------------
(***************************************************************************)
(* No registered request for a single-shot service is lost.  It moves from *)
(* the channel to the table, where it waits for the reply call its task    *)
(* will cause, and from the snapshot of such a call, or of any earlier one *)
(* for the same task, through the reply queue to gonggo.  The proof        *)
(* follows it: each section below is about one of these places.            *)
(***************************************************************************)
EXTENDS RequestFlow_proofs

SingleUse == SingleKeys \cup BadRequests

\* What a call drops from the table is in the reply it will make.
DropsCarried == \A t \in Repliers : call[t].pc = "drop" => call[t].todo \subseteq call[t].rids

\* What gonggo has taken reached it.
TakenInv ==
  subscribe_pc = "sent" /\ subscribe_state = "DONE" => \A r \in subscribe_task.rids : delivered[r] > 0

AnswerInv == DropsCarried /\ TakenInv /\ CommCallInv /\ NoRequestLost
-----------------------------------------------------------------------------
(* The strengthenings.                                                     *)

LEMMA DropsCarriedKept ==
  ASSUME TypeInv, DropsCarried, [Next]_vars
  PROVE  DropsCarried'
<1> USE DEF TypeInv, TypeOK, DropsCarried
<1>1. CASE UNCHANGED call
  BY <1>1
<1>2. ASSUME NEW t \in Repliers, NEW key \in Keys, call' = [call EXCEPT ![t] = Calling(key)]
      PROVE  DropsCarried'
  BY <1>2 DEF Calling, NoCall
<1>3. ASSUME NEW t \in Repliers, ReplyNext(t)
      PROVE  DropsCarried'
  <2>1. call[t] \in Calls
    OBVIOUS
  <2>2. ASSUME NEW r \in Rids, ReplyDrops(t, r)
        PROVE  DropsCarried'
    BY <2>1, <2>2 DEF ReplyDrops, Calls
  <2>3. CASE ReplyLooksUp(t)
    BY <2>1, <2>3 DEF ReplyLooksUp, Calls
  <2>4. CASE ReplyFallsBack(t) \/ ReplyAppends(t) \/ ReplyAwakes(t)
    <3>1. \A u \in Repliers \ {t} : call'[u] = call[u]
      BY <2>4 DEF ReplyFallsBack, ReplyAppends, ReplyAwakes
    <3>2. call'[t].pc # "drop"
      <4>1. CASE ReplyFallsBack(t)
        BY <2>1, <4>1 DEF ReplyFallsBack, NoCall, Calls
      <4>2. CASE ReplyAppends(t)
        BY <2>1, <4>2 DEF ReplyAppends, Calls
      <4>3. CASE ReplyAwakes(t)
        BY <2>1, <4>3 DEF ReplyAwakes, NoCall
      <4> QED BY <2>4, <4>1, <4>2, <4>3
    <3> QED BY <3>1, <3>2
  <2> QED BY <1>3, <2>2, <2>3, <2>4 DEF ReplyNext
<1> QED BY <1>1, <1>2, <1>3, CallSteps

\* An answer once delivered stays delivered.
LEMMA DeliveredGrows ==
  ASSUME TypeInv, [Next]_vars
  PROVE  /\ \A r \in Rids : delivered[r] > 0 => delivered'[r] > 0
         /\ ~GonggoTakes => UNCHANGED delivered
<1>1. CASE GonggoTakes
  <2>1. \A r \in Rids : delivered[r] \in Nat /\ delivered'[r] \in {delivered[r], delivered[r] + 1}
    BY <1>1 DEF GonggoTakes, TypeInv, TypeOK
  <2> QED BY <1>1, <2>1
<1>2. CASE UNCHANGED delivered
  BY <1>2
<1> QED
  BY <1>1, <1>2
     DEF Next, vars, gonggoVars, ChannelNext, ChannelParses, ChannelGivesUp, ChannelRejects,
         ChannelFindsTopic, ChannelAppendsDrop, ChannelSetsDrop, ChannelSetsRequest,
         ChannelAppendsJob, ChannelAwakes, CommNext, CommLocks, CommPops, CommRests, CommRuns,
         CommRunReturns, CommDrops, CommClears, SubscribeNext, SubscribeLocks,
         SubscribeFindsEmpty, SubscribeRests, SubscribeSends, SubscribeConcludes, GonggoNext,
         GonggoConfirms, GonggoRecordsAbandoned, GonggoRequests, BackendNext, BackendReplies, ReplyNext, ReplyLooksUp,
         ReplyFallsBack, ReplyDrops, ReplyAppends, ReplyAwakes, CommWakesAlone, SubscribeWakesAlone

LEMMA TakenInvKept ==
  ASSUME TypeInv, TakenInv, [Next]_vars
  PROVE  TakenInv'
<1> USE DEF TypeInv, TypeOK, SubscribeShape, TakenInv
<1>1. CASE GonggoTakes
  <2>1. subscribe_task' = subscribe_task /\ subscribe_task.rids \subseteq Rids
    BY <1>1 DEF GonggoTakes, Replies
  <2> QED BY <1>1, <2>1 DEF GonggoTakes
<1>2. CASE SubscribeSends
  BY <1>2 DEF SubscribeSends, gonggoVars, proxy_subscribe_shm_idle
<1>3. CASE SubscribeRests \/ SubscribeConcludes
  BY <1>3 DEF SubscribeRests, SubscribeConcludes, gonggoVars
<1>4. CASE ChannelRejects
  BY <1>4 DEF ChannelRejects, gonggoVars, subscribeVars
<1>5. ASSUME NEW t \in Repliers, ReplyAppends(t)
      PROVE  TakenInv'
  BY <1>5 DEF ReplyAppends, gonggoVars, subscribeVars
<1>6. CASE RepliesUntouched /\ ~GonggoTakes
  BY <1>6, DeliveredGrows DEF RepliesUntouched
<1> QED BY <1>1, <1>2, <1>3, <1>4, <1>5, <1>6, ReplySteps
-----------------------------------------------------------------------------
(* An answer stays an answer, from the snapshot to gonggo.                 *)

\* A pending reply stays pending until gonggo has it.
LEMMA PendingKept ==
  ASSUME TypeInv, TakenInv, [Next]_vars
  PROVE  \A reply \in PendingReplies :
           reply \in PendingReplies' \/ \A r \in reply.rids : r \in Rids => delivered'[r] > 0
<1> USE DEF TypeInv, TypeOK, SubscribeShape, subscribeVars, replyVars
<1>1. CASE ChannelRejects
  <2> DEFINE new == [rids |-> {channel_rid}, multi |-> FALSE, key |-> Request]
  <2>1. new \in Replies /\ reply_queue' = Append(reply_queue, new)
    BY <1>1 DEF ChannelRejects, ChannelHandles, ChannelShape, ChannelBusy, SomeRid, Replies,
                reply_queue_append
  <2> HIDE DEF new
  <2>2. Range(reply_queue) \subseteq Range(reply_queue')
    BY <2>1, AppendElements
  <2> QED BY <1>1, <2>2 DEF ChannelRejects, PendingReplies, InHand
<1>2. ASSUME NEW t \in Repliers, ReplyAppends(t)
      PROVE  PendingReplies \subseteq PendingReplies'
  <2>1. [rids |-> call[t].rids, multi |-> call[t].multi, key |-> call[t].key] \in Replies
    BY <1>2 DEF ReplyAppends, CallShape, Calls, Replies, Requests
  <2>2. Range(reply_queue) \subseteq Range(reply_queue')
    BY <1>2, <2>1, AppendElements DEF ReplyAppends, reply_queue_append
  <2> QED BY <1>2, <2>2 DEF ReplyAppends, PendingReplies, InHand
<1>3. CASE SubscribeRests
  <2>1. Range(reply_queue') = Range(failed_task) \cup Range(reply_queue)
    BY <1>3, ConcatElements DEF SubscribeRests
  <2> QED BY <1>3, <2>1 DEF SubscribeRests, PendingReplies, InHand
<1>4. CASE SubscribeSends
  <2>1. Range(reply_queue) = {Head(reply_queue)} \cup Range(reply_queue') /\ Head(reply_queue) \in Replies
    BY <1>4, PopElements DEF SubscribeSends
  <2>2. subscribe_pc # "sent"
    BY <1>4 DEF SubscribeSends
  <2>3. CASE UNCHANGED failed_task /\ subscribe_task' = Head(reply_queue) /\ subscribe_pc' = "sent"
    BY <2>1, <2>2, <2>3 DEF PendingReplies, InHand
  <2>4. CASE failed_task' = Append(failed_task, Head(reply_queue))
               /\ UNCHANGED <<subscribe_pc, subscribe_task>>
    BY <2>1, <2>2, <2>4, AppendElements DEF PendingReplies, InHand
  <2> QED BY <1>4, <2>3, <2>4 DEF SubscribeSends
<1>5. CASE SubscribeConcludes
  <2>1. subscribe_pc = "sent" /\ UNCHANGED <<reply_queue, delivered>> /\ subscribe_task \in Replies
    BY <1>5 DEF SubscribeConcludes, gonggoVars
  <2>2. CASE UNCHANGED failed_task /\ Taken
    <3>1. \A r \in subscribe_task.rids : delivered'[r] > 0
      BY <2>1, <2>2 DEF TakenInv, Taken
    <3> QED BY <2>1, <2>2, <3>1 DEF PendingReplies, InHand
  <2>3. CASE failed_task' = Append(failed_task, subscribe_task)
    <3>1. Range(failed_task') = Range(failed_task) \cup {subscribe_task}
      BY <2>1, <2>3, AppendElements
    <3> QED BY <2>1, <3>1 DEF PendingReplies, InHand
  <2> QED BY <1>5, <2>2, <2>3 DEF SubscribeConcludes
<1>6. CASE GonggoTakes \/ RepliesUntouched
  BY <1>6 DEF GonggoTakes, RepliesUntouched, PendingReplies, InHand
<1> QED BY <1>1, <1>2, <1>3, <1>4, <1>5, <1>6, ReplySteps

\* The rids a call carries go on with it, and into the reply it appends.
LEMMA CarriedKept ==
  ASSUME TypeInv, CommCallInv, [Next]_vars, NEW t \in Repliers, Carrying(t), NEW r \in call[t].rids
  PROVE  \/ Carrying(t)' /\ r \in call'[t].rids
         \/ \E reply \in PendingReplies' : r \in reply.rids
<1> USE DEF TypeInv, TypeOK, Carrying
<1>1. CASE UNCHANGED call
  BY <1>1
<1>2. CASE CommDrops \/ CommClears
  <2>1. call[Comm].pc = "return"
    BY <1>2 DEF CommDrops, CommClears, CommCallInv
  <2>2. t # Comm
    BY <2>1
  <2> QED BY <1>2, <2>2 DEF CommDrops, CommClears
<1>3. CASE BackendNext
  BY <1>3 DEF BackendNext, BackendReplies
<1>4. ASSUME NEW u \in Repliers, ReplyNext(u)
      PROVE  \/ Carrying(t)' /\ r \in call'[t].rids
             \/ \E reply \in PendingReplies' : r \in reply.rids
  <2>1. CASE u # t
    <3>1. call'[t] = call[t]
      BY <1>4, <2>1 DEF ReplyNext, ReplyLooksUp, ReplyFallsBack, ReplyDrops, ReplyAppends, ReplyAwakes
    <3> QED BY <3>1
  <2>2. CASE u = t /\ ReplyAppends(t)
    <3> DEFINE reply == [rids |-> call[t].rids, multi |-> call[t].multi, key |-> call[t].key]
    <3>1. reply \in Replies /\ reply_queue' = Append(reply_queue, reply)
      BY <2>2 DEF ReplyAppends, CallShape, Calls, Replies, Requests, reply_queue_append
    <3>2. reply.rids = call[t].rids
      OBVIOUS
    <3> HIDE DEF reply
    <3>3. reply \in Range(reply_queue')
      BY <3>1, AppendElements
    <3> QED BY <3>2, <3>3 DEF PendingReplies
  <2>3. ASSUME u = t, NEW s \in Rids, ReplyDrops(t, s)
        PROVE  Carrying(t)' /\ r \in call'[t].rids
    BY <2>3 DEF ReplyDrops, Calls
  <2> QED BY <1>4, <2>1, <2>2, <2>3 DEF ReplyNext, ReplyLooksUp, ReplyFallsBack, ReplyAwakes
<1> QED
  BY <1>1, <1>2, <1>3, <1>4
     DEF Next, vars, ChannelNext, ChannelParses, ChannelGivesUp, ChannelRejects, ChannelFindsTopic,
         ChannelAppendsDrop, ChannelSetsDrop, ChannelSetsRequest, ChannelAppendsJob, ChannelAwakes,
         CommNext, CommLocks, CommPops, CommRests, CommRuns, CommRunReturns,
         SubscribeNext, SubscribeLocks, SubscribeFindsEmpty, SubscribeRests, SubscribeSends,
         SubscribeConcludes, GonggoNext, GonggoConfirms, GonggoRecordsAbandoned, GonggoTakes, GonggoRequests,
         CommWakesAlone, SubscribeWakesAlone

LEMMA AnsweredKept ==
  ASSUME TypeInv, TakenInv, CommCallInv, [Next]_vars, NEW r \in Rids, Answered(r)
  PROVE  Answered(r)'
<1>1. CASE delivered[r] > 0
  BY <1>1, DeliveredGrows DEF Answered
<1>2. ASSUME NEW reply \in PendingReplies, r \in reply.rids
      PROVE  Answered(r)'
  BY <1>2, PendingKept DEF Answered
<1>3. ASSUME NEW t \in Repliers, Carrying(t), r \in call[t].rids
      PROVE  Answered(r)'
  BY <1>3, CarriedKept DEF Answered
<1> QED BY <1>1, <1>2, <1>3 DEF Answered
-----------------------------------------------------------------------------
(* The task of a request, from the channel to the reply call it causes.    *)

\* The queue of tasks after any step.
LEMMA TaskSteps ==
  ASSUME TypeInv, [Next]_vars, NEW k \in SingleKeys, RunPending(k)
  PROVE  RunPending(k)' \/ owed'[k] > 0
<1> USE DEF TypeInv, TypeOK, RunPending, Request, channelVars, gonggoVars, commVars
<1>1. CASE ChannelAppendsDrop \/ ChannelAppendsJob
  <2>1. PICK task : /\ parse_queue' = Append(parse_queue, task)
                    /\ channel_pc = "append_job" => task.key = Request
    BY <1>1 DEF ChannelAppendsDrop, ChannelAppendsJob, parse_queue_append, NoTask
  <2>2. /\ Len(parse_queue) \in Nat /\ DOMAIN parse_queue = 1..Len(parse_queue)
        /\ DOMAIN parse_queue' = 1..Len(parse_queue) + 1
        /\ \A i \in 1..Len(parse_queue) : parse_queue'[i] = parse_queue[i]
        /\ parse_queue'[Len(parse_queue) + 1] = task
    BY <2>1
  <2>3. Len(parse_queue) + 1 \in DOMAIN parse_queue' /\ DOMAIN parse_queue \subseteq DOMAIN parse_queue'
    BY <2>2
  <2>4. UNCHANGED <<comm_pc, comm_task>>
    BY <1>1 DEF ChannelAppendsDrop, ChannelAppendsJob
  <2> QED BY <2>1, <2>2, <2>3, <2>4
<1>2. CASE CommPops
  <2>1. CASE parse_queue = <<>>
    BY <1>2, <2>1 DEF CommPops
  <2>2. CASE parse_queue # <<>>
    <3>1. /\ parse_queue' = Tail(parse_queue) /\ comm_task' = Head(parse_queue) /\ comm_pc = "pop"
          /\ comm_pc' = (IF IsDrop(Head(parse_queue)) THEN "drop" ELSE "run")
          /\ UNCHANGED <<channel_pc, channel_rid, asked>>
      BY <1>2, <2>2 DEF CommPops
    <3>2. DOMAIN parse_queue = 1..Len(parse_queue) /\ DOMAIN parse_queue' = 1..Len(parse_queue')
      BY <2>2, <3>1
    <3>3. ASSUME NEW i \in 1..Len(parse_queue), parse_queue[i].key = k
          PROVE  RunPending(k)'
      <4>1. CASE i = 1
        <5>1. ~IsDrop(Head(parse_queue))
          BY <2>2, <3>3, <4>1, HeadTail DEF CommShape, TaskShape, SingleKeys, DropKeys
        <5> QED BY <2>2, <3>1, <3>3, <4>1, <5>1, HeadTail
      <4>2. CASE i # 1
        <5>1. i - 1 \in 1..Len(Tail(parse_queue)) /\ (i - 1) + 1 = i
          BY <2>2, <4>2, HeadTail
        <5>2. Tail(parse_queue)[i - 1] = parse_queue[i]
          BY <2>2, <5>1, HeadTail
        <5> QED BY <3>1, <3>2, <3>3, <5>1, <5>2
      <4> QED BY <4>1, <4>2
    <3> QED BY <3>1, <3>2, <3>3
  <2> QED BY <2>1, <2>2
<1>3. CASE CommRuns
  <2>1. CASE comm_task.key = k
    <3>1. k \notin MultiKeys
      BY DEF SingleKeys, MultiKeys
    <3>2. owed'[k] = owed[k] + 1 /\ owed[k] \in Nat
      BY <1>3, <2>1, <3>1 DEF CommRuns
    <3> QED BY <3>2
  <2> QED BY <1>3, <2>1 DEF CommRuns
<1>4. CASE CommLocks \/ CommRests \/ CommRunReturns \/ CommDrops \/ CommClears \/ CommWakesAlone
  BY <1>4 DEF CommLocks, CommRests, CommRunReturns, CommDrops, CommClears, CommWakesAlone
<1>5. CASE ChannelNext /\ ~ChannelAppendsDrop /\ ~ChannelAppendsJob
  BY <1>5 DEF ChannelNext, ChannelParses, ChannelGivesUp, ChannelRejects, ChannelFindsTopic,
       ChannelSetsDrop, ChannelSetsRequest, ChannelAwakes, ChannelHandles, proxy_comm_awake, LockFree,
       Signalled
<1>6. CASE GonggoNext
  BY <1>6 DEF GonggoNext, GonggoConfirms, GonggoRecordsAbandoned, GonggoTakes, GonggoRequests, ChannelShape
<1>7. CASE UNCHANGED <<asked, channelVars, parse_queue, commVars>>
  BY <1>7
<1> QED
  BY <1>1, <1>2, <1>3, <1>4, <1>5, <1>6, <1>7
     DEF Next, vars, CommNext, SubscribeNext, SubscribeLocks, SubscribeFindsEmpty, SubscribeRests,
         SubscribeSends, SubscribeConcludes, SubscribeWakesAlone, BackendNext, BackendReplies,
         ReplyNext, ReplyLooksUp, ReplyFallsBack, ReplyDrops, ReplyAppends, ReplyAwakes

\* A debt of the backend is paid by a reply call, no other.
LEMMA DebtSteps ==
  ASSUME TypeInv, [Next]_vars, NEW k \in SingleKeys, owed[k] > 0
  PROVE  owed'[k] > 0 \/ LookupPending(k)'
<1> USE DEF TypeInv, TypeOK, backendVars
<1>1. ASSUME NEW t \in Repliers, NEW j \in SingleKeys \cup MultiKeys, BackendReplies(t, j)
      PROVE  owed'[k] > 0 \/ LookupPending(k)'
  <2>1. CASE j = k
    <3>1. call'[t] = Calling(k)
      BY <1>1, <2>1 DEF BackendReplies
    <3> QED BY <3>1 DEF LookupPending, Calling, NoCall
  <2>2. CASE j # k
    BY <1>1, <2>2 DEF BackendReplies
  <2> QED BY <2>1, <2>2
<1>2. CASE CommRuns
  <2>1. owed'[k] \in {owed[k], owed[k] + 1} /\ owed[k] \in Nat
    BY <1>2 DEF CommRuns
  <2> QED BY <2>1
<1>3. CASE UNCHANGED owed
  BY <1>3
<1> QED
  BY <1>1, <1>2, <1>3
     DEF Next, vars, ChannelNext, ChannelParses, ChannelGivesUp, ChannelRejects, ChannelFindsTopic,
         ChannelAppendsDrop, ChannelSetsDrop, ChannelSetsRequest, ChannelAppendsJob, ChannelAwakes,
         CommNext, CommLocks, CommPops, CommRests, CommRunReturns, CommDrops, CommClears,
         SubscribeNext, SubscribeLocks, SubscribeFindsEmpty, SubscribeRests, SubscribeSends,
         SubscribeConcludes, GonggoNext, GonggoConfirms, GonggoRecordsAbandoned, GonggoTakes, GonggoRequests, BackendNext,
         ReplyNext, ReplyLooksUp, ReplyFallsBack, ReplyDrops, ReplyAppends, ReplyAwakes,
         CommWakesAlone, SubscribeWakesAlone

\* A call that is to look up the table stays so until it takes its snapshot.
LEMMA LookupSteps ==
  ASSUME TypeInv, CommCallInv, [Next]_vars, NEW t \in Repliers, call[t].pc = "lookup"
  PROVE  call'[t] = call[t] \/ ReplyLooksUp(t)
<1>1. CASE CommDrops \/ CommClears
  BY <1>1 DEF CommDrops, CommClears, CommCallInv, TypeInv, TypeOK
<1>2. CASE BackendNext
  BY <1>2 DEF BackendNext, BackendReplies, TypeInv, TypeOK
<1>3. ASSUME NEW u \in Repliers, ReplyNext(u)
      PROVE  call'[t] = call[t] \/ ReplyLooksUp(t)
  <2>1. CASE u = t
    <3>1. ReplyNext(t)
      BY <1>3, <2>1
    <3> QED BY <3>1 DEF ReplyNext, ReplyFallsBack, ReplyDrops, ReplyAppends, ReplyAwakes
  <2>2. CASE u # t
    BY <1>3, <2>2 DEF TypeInv, TypeOK, ReplyNext, ReplyLooksUp, ReplyFallsBack, ReplyDrops, ReplyAppends, ReplyAwakes
  <2> QED BY <2>1, <2>2
<1> QED
  BY <1>1, <1>2, <1>3
     DEF Next, vars, ChannelNext, ChannelParses, ChannelGivesUp, ChannelRejects, ChannelFindsTopic,
         ChannelAppendsDrop, ChannelSetsDrop, ChannelSetsRequest, ChannelAppendsJob, ChannelAwakes,
         CommNext, CommLocks, CommPops, CommRests, CommRuns, CommRunReturns,
         SubscribeNext, SubscribeLocks, SubscribeFindsEmpty, SubscribeRests, SubscribeSends,
         SubscribeConcludes, GonggoNext, GonggoConfirms, GonggoRecordsAbandoned, GonggoTakes, GonggoRequests,
         CommWakesAlone, SubscribeWakesAlone
-----------------------------------------------------------------------------
(* The wait in the table, and its end.                                     *)

\* A snapshot takes every request that waits for the task.
LEMMA SnapshotAnswers ==
  ASSUME TypeInv, NEW t \in Repliers, ReplyLooksUp(t),
         NEW r \in respond_table_request_dup(singleshot_table, call[t].key)
  PROVE  Answered(r)'
<1>1. call[t] \in Calls
  BY DEF TypeInv, TypeOK
<1>2. Carrying(t)' /\ r \in call'[t].rids
  BY <1>1 DEF ReplyLooksUp, Carrying, Calls, TypeInv, TypeOK
<1> QED BY <1>2 DEF Answered

\* Who takes a request out of the table has an answer to it.
LEMMA WaitSteps ==
  ASSUME TypeInv, DropsCarried, [Next]_vars, NEW k, NEW r \in respond_table_request_dup(singleshot_table, k)
  PROVE  r \in respond_table_request_dup(singleshot_table', k) \/ Answered(r)
<1> USE DEF TypeInv, TypeOK
<1>1. CASE ChannelSetsDrop \/ ChannelSetsRequest
  BY <1>1, SetAdds DEF ChannelSetsDrop, ChannelSetsRequest
<1>2. CASE UNCHANGED singleshot_table
  BY <1>2
<1>3. ASSUME NEW t \in Repliers, NEW s \in Rids, ReplyDrops(t, s)
      PROVE  r \in respond_table_request_dup(singleshot_table', k) \/ Answered(r)
  <2>1. singleshot_table' = respond_table_drop(singleshot_table, call[t].key, s)
        /\ Carrying(t) /\ s \in call[t].rids
    BY <1>3 DEF ReplyDrops, DropsCarried, Carrying
  <2>2. CASE r = s
    BY <2>1, <2>2 DEF Answered
  <2>3. CASE r # s
    BY <2>1, <2>3, DropRemoves
  <2> QED BY <2>2, <2>3
<1> QED BY <1>1, <1>2, <1>3, TableSteps DEF tableVars, CommDrops

LEMMA WaitingKept ==
  ASSUME TypeInv, RequestInv, AnswerInv, [Next]_vars, NEW r \in Rids, asked[r] \in SingleKeys,
         Awaits(r), ReplyDue(asked[r])
  PROVE  Answered(r)' \/ (Awaits(r)' /\ ReplyDue(asked[r])')
<1> DEFINE k == asked[r]
<1>1. k \in SingleKeys /\ asked'[r] = k
  BY RequestsAreStable DEF RequestInv, SingleKeys, NoKey
<1>2. Answered(r)' \/ Awaits(r)'
  BY <1>1, WaitSteps, AnsweredKept DEF AnswerInv, Awaits
<1>3. CASE RunPending(k)
  BY <1>1, <1>2, <1>3, TaskSteps DEF ReplyDue
<1>4. CASE owed[k] > 0
  BY <1>1, <1>2, <1>4, DebtSteps DEF ReplyDue
<1>5. ASSUME NEW t \in Repliers, call[t].pc = "lookup", call[t].key = k
      PROVE  Answered(r)' \/ (Awaits(r)' /\ ReplyDue(asked[r])')
  <2>1. CASE ReplyLooksUp(t)
    BY <1>5, <2>1, SnapshotAnswers DEF Awaits
  <2>2. CASE call'[t] = call[t]
    BY <1>1, <1>2, <1>5, <2>2 DEF ReplyDue, LookupPending
  <2> QED BY <1>5, <2>1, <2>2, LookupSteps DEF AnswerInv
<1> QED BY <1>3, <1>4, <1>5 DEF ReplyDue, LookupPending
-----------------------------------------------------------------------------
(* The way into the table, or, for a request the parser rejects, into the  *)
(* reply queue.                                                            *)

LEMMA InChannelKept ==
  ASSUME TypeInv, RequestInv, AnswerInv, [Next]_vars, NEW r \in Accepted, asked[r] \in SingleUse, InChannel(r)
  PROVE  InChannel(r)' \/ Answered(r)' \/ (Awaits(r)' /\ ReplyDue(asked[r])')
<1> USE DEF TypeInv, TypeOK, Accepted, InChannel, SingleUse
<1>1. channel_rid = r /\ Request = asked[r] /\ channel_pc = "acked" /\ channel_state = "DONE"
  BY DEF AnswerInv, RequestInv, Unrecorded, ChannelShape, Request, SingleKeys, BadRequests, DropKeys
<1>2. asked'[r] = asked[r]
  BY RequestsAreStable DEF RequestInv, SingleKeys, BadRequests, NoKey
<1>3. CASE ChannelRejects
  <2> DEFINE reply == [rids |-> {channel_rid}, multi |-> FALSE, key |-> Request]
  <2>1. reply \in Replies /\ reply_queue' = Append(reply_queue, reply)
    BY <1>3 DEF ChannelRejects, ChannelHandles, ChannelShape, ChannelBusy, SomeRid, Replies,
                reply_queue_append
  <2>2. r \in reply.rids
    BY <1>1
  <2> HIDE DEF reply
  <2>3. reply \in Range(reply_queue')
    BY <2>1, AppendElements
  <2> QED BY <2>2, <2>3 DEF Answered, PendingReplies
<1>4. CASE ChannelSetsRequest
  <2>1. /\ singleshot_table' = respond_table_set(singleshot_table, Request, channel_rid)
        /\ channel_pc' = "append_job" /\ channel_rid' = channel_rid /\ asked' = asked
    BY <1>1, <1>4 DEF ChannelSetsRequest, Request, SingleKeys, MultiKeys, BadRequests, gonggoVars
  <2>2. Awaits(r)'
    BY <1>1, <2>1, SetAdds DEF Awaits
  <2>3. ReplyDue(asked[r])'
    BY <1>1, <2>1 DEF ReplyDue, RunPending, Request
  <2> QED BY <2>2, <2>3
<1>5. ~ChannelFindsTopic /\ ~ChannelGivesUp
  BY <1>1 DEF ChannelFindsTopic, ChannelGivesUp, Confirmed, SingleKeys, BadRequests, DropKeys
<1>6. CASE UNCHANGED <<channel_pc, channel_rid>>
  BY <1>6
<1> QED
  BY <1>1, <1>3, <1>4, <1>5, <1>6
     DEF Next, vars, channelVars, ChannelNext, ChannelParses, ChannelAppendsDrop, ChannelSetsDrop,
         ChannelAppendsJob, ChannelAwakes, CommNext, CommLocks, CommPops, CommRests, CommRuns,
         CommRunReturns, CommDrops, CommClears, SubscribeNext, SubscribeLocks, SubscribeFindsEmpty,
         SubscribeRests, SubscribeSends, SubscribeConcludes, GonggoNext, GonggoConfirms,
         GonggoRecordsAbandoned, GonggoTakes, GonggoRequests, BackendNext, BackendReplies, ReplyNext,
         ReplyLooksUp, ReplyFallsBack, ReplyDrops, ReplyAppends, ReplyAwakes, CommWakesAlone, SubscribeWakesAlone

\* A request gonggo records is with the channel thread, or was abandoned by it.
LEMMA RecordedInChannel ==
  ASSUME TypeInv, [Next]_vars, NEW r \in Accepted', r \notin Accepted
  PROVE  InChannel(r)'
<1> USE DEF Accepted
<1>1. CASE GonggoConfirms
  BY <1>1 DEF GonggoConfirms, InChannel, TypeInv, TypeOK
<1>2. ASSUME NEW s \in Rids, GonggoRecordsAbandoned(s)
      PROVE  FALSE
  BY <1>2 DEF GonggoRecordsAbandoned
<1>3. CASE ChannelGivesUp
  BY <1>3 DEF ChannelGivesUp
<1>4. CASE UNCHANGED <<registered, abandoned>>
  BY <1>4
<1> QED
  BY <1>1, <1>2, <1>3, <1>4
     DEF Next, vars, gonggoVars, ChannelNext, ChannelParses, ChannelRejects,
         ChannelFindsTopic, ChannelAppendsDrop, ChannelSetsDrop, ChannelSetsRequest,
         ChannelAppendsJob, ChannelAwakes, CommNext, CommLocks, CommPops, CommRests, CommRuns,
         CommRunReturns, CommDrops, CommClears, SubscribeNext, SubscribeLocks, SubscribeFindsEmpty,
         SubscribeRests, SubscribeSends, SubscribeConcludes, GonggoNext, GonggoTakes, GonggoRequests,
         BackendNext, BackendReplies, ReplyNext, ReplyLooksUp, ReplyFallsBack, ReplyDrops,
         ReplyAppends, ReplyAwakes, CommWakesAlone, SubscribeWakesAlone

LEMMA NoRequestLostKept ==
  ASSUME TypeInv, RequestInv, AnswerInv, [Next]_vars
  PROVE  NoRequestLost'
<1>1. ASSUME NEW r \in Accepted', asked'[r] \in SingleUse
      PROVE  (Answered(r) \/ InChannel(r) \/ (Awaits(r) /\ ReplyDue(asked[r])))'
  <2>1. CASE r \notin Accepted
    BY <2>1, RecordedInChannel
  <2>2. CASE r \in Accepted
    <3>1. r \in Rids /\ asked[r] \in SingleUse
      BY <1>1, <2>2, RequestsAreStable DEF Accepted, RequestInv, Unrecorded, TypeInv, TypeOK
    <3>2. CASE Answered(r)
      BY <3>1, <3>2, AnsweredKept DEF AnswerInv
    <3>3. CASE InChannel(r)
      BY <2>2, <3>1, <3>3, InChannelKept
    <3>4. CASE Awaits(r) /\ ReplyDue(asked[r])
      <4>1. asked[r] \in Keys
        BY <3>1, <3>4, PresentIffWaiting DEF Awaits, TypeInv, TypeOK, IsTable, Keys, respond_table_request_dup
      <4>2. asked[r] \in SingleKeys
        BY <3>1, <4>1 DEF SingleUse, Keys, SingleKeys, MultiKeys, DropKeys, BadRequests
      <4> QED BY <3>1, <3>4, <4>2, WaitingKept
    <3> QED BY <2>2, <3>1, <3>2, <3>3, <3>4 DEF AnswerInv, NoRequestLost, SingleUse
  <2> QED BY <2>1, <2>2
<1> QED BY <1>1 DEF NoRequestLost, SingleUse

\* A registered single-shot request is answered, on the way to its answer, or
\* waits for a reply call that will come: no snapshot, drop, refusal or failed
\* shared memory makes the proxy forget it.
THEOREM RequestsAreNotLost == Spec => []NoRequestLost
<1>1. Init => AnswerInv
  BY DEF Init, AnswerInv, DropsCarried, TakenInv, CommCallInv, NoRequestLost, Accepted, NoCall, Repliers
<1>2. TypeInv /\ RequestInv /\ AnswerInv /\ [Next]_vars => AnswerInv'
  BY DropsCarriedKept, TakenInvKept, CommCallKept, NoRequestLostKept DEF AnswerInv
<1>3. AnswerInv => NoRequestLost
  BY DEF AnswerInv
<1> QED BY <1>1, <1>2, <1>3, AlwaysTypeInv, AlwaysRequestInv, PTL DEF Spec
=============================================================================
