------------------------ MODULE RequestLedger_proofs ------------------------
(***************************************************************************)
(* RequestFlow implements RequestLedger, for any number of requests, tasks *)
(* and backend threads, under every combination of faults.                 *)
(***************************************************************************)
EXTENDS RequestFlow_proofs

\* Every step of RequestFlow leaves to gonggo what is gonggo's.
LEMMA GonggoSteps ==
  ASSUME [Next]_vars
  PROVE  \/ GonggoTakes \/ GonggoConfirms \/ UNCHANGED <<asked, registered, delivered>>
         \/ \E r \in Rids : GonggoRecordsAbandoned(r) \/ \E q \in Requests : GonggoRequests(r, q)
BY DEF Next, vars, gonggoVars, ChannelNext, ChannelParses, ChannelGivesUp, ChannelRejects, ChannelFindsTopic,
       ChannelAppendsDrop, ChannelSetsDrop, ChannelSetsRequest, ChannelAppendsJob, ChannelAwakes,
       CommNext, CommLocks, CommPops, CommRests, CommRuns, CommRunReturns, CommDrops, CommClears,
       SubscribeNext, SubscribeLocks, SubscribeFindsEmpty, SubscribeRests, SubscribeSends,
       SubscribeConcludes, GonggoNext, BackendNext, BackendReplies, ReplyNext, ReplyLooksUp,
       ReplyFallsBack, ReplyDrops, ReplyAppends, ReplyAwakes, CommWakesAlone, SubscribeWakesAlone

(***************************************************************************)
(* A call never goes on with an empty snapshot of a table, so that no      *)
(* reply is queued for nobody.                                             *)
(***************************************************************************)
CarriesSomebody == \A t \in Repliers : Carrying(t) => call[t].rids # {}

LEMMA CarriesSomebodyKept ==
  ASSUME TypeInv, CarriesSomebody, [Next]_vars
  PROVE  CarriesSomebody'
<1> USE DEF TypeInv, TypeOK, CarriesSomebody, Carrying
<1>1. ASSUME NEW t \in Repliers, ReplyNext(t)
      PROVE  CarriesSomebody'
  <2>1. \A s \in Repliers : s # t => call'[s] = call[s]
    BY <1>1 DEF ReplyNext, ReplyLooksUp, ReplyFallsBack, ReplyDrops, ReplyAppends, ReplyAwakes
  <2>2. CASE ReplyLooksUp(t)
    BY <2>1, <2>2 DEF ReplyLooksUp, Calls
  <2>3. CASE ReplyFallsBack(t)
    BY <2>1, <2>3 DEF ReplyFallsBack, Calls, NoCall
  <2>4. ASSUME NEW r \in Rids, ReplyDrops(t, r)
        PROVE  CarriesSomebody'
    BY <2>1, <2>4 DEF ReplyDrops, Calls
  <2>5. CASE ReplyAppends(t)
    BY <2>1, <2>5 DEF ReplyAppends, Calls
  <2>6. CASE ReplyAwakes(t)
    BY <2>1, <2>6 DEF ReplyAwakes, NoCall
  <2> QED BY <1>1, <2>2, <2>3, <2>4, <2>5, <2>6 DEF ReplyNext
<1>2. ASSUME NEW t \in Repliers, NEW key \in Keys, call' = [call EXCEPT ![t] = Calling(key)]
      PROVE  CarriesSomebody'
  BY <1>2 DEF Calling, NoCall
<1> QED BY <1>1, <1>2, CallSteps

LEMMA AlwaysCarriesSomebody == Spec => []CarriesSomebody
<1>1. Init => CarriesSomebody
  BY DEF Init, CarriesSomebody, Carrying, NoCall
<1>2. TypeInv /\ CarriesSomebody /\ [Next]_vars => CarriesSomebody'
  BY CarriesSomebodyKept
<1> QED BY <1>1, <1>2, AlwaysTypeInv, PTL DEF Spec
-----------------------------------------------------------------------------
(***************************************************************************)
(* What each step does to the replies gonggo has still to take.            *)
(***************************************************************************)
LEMMA NothingOutstanding ==
  ASSUME TypeInv, Outstanding = 0
  PROVE  Undelivered = {}
<1> USE DEF TypeInv, TypeOK
<1>1. Len(reply_queue) = 0 /\ Len(failed_task) = 0 /\ Offered = {}
  <2>1. Len(reply_queue) \in Nat /\ Len(failed_task) \in Nat
    OBVIOUS
  <2> QED BY <2>1 DEF Outstanding, Offered
<1>2. reply_queue = <<>> /\ failed_task = <<>>
  BY <1>1
<1>3. Range(<<>>) = {}
  BY DEF Range
<1> QED BY <1>1, <1>2, <1>3 DEF Undelivered

\* A reply put at the end of the queue is one more.
LEMMA AppendedIsPending ==
  ASSUME TypeInv, NEW reply \in Replies, reply_queue' = Append(reply_queue, reply),
         UNCHANGED <<failed_task, subscribe_pc, subscribe_state, subscribe_task>>
  PROVE  Undelivered' = Undelivered \cup {reply} /\ Outstanding' = Outstanding + 1
<1> USE DEF TypeInv, TypeOK
<1>1. Range(reply_queue') = Range(reply_queue) \cup {reply}
  BY AppendElements
<1>2. Len(reply_queue') = Len(reply_queue) + 1 /\ Len(reply_queue) \in Nat /\ Len(failed_task) \in Nat
  OBVIOUS
<1>3. Undelivered' = Undelivered \cup {reply}
  BY <1>1 DEF Undelivered, Offered
<1>4. Outstanding' = Outstanding + 1
  BY <1>2 DEF Outstanding
<1> QED BY <1>3, <1>4

\* The subscribe thread moves replies between its two queues and its hand, and
\* loses or doubles none.
LEMMA MovedIsPending ==
  ASSUME TypeInv, SubscribeRests \/ SubscribeSends \/ SubscribeConcludes
  PROVE  UNCHANGED <<Undelivered, Outstanding>>
<1> USE DEF TypeInv, TypeOK, SubscribeShape
<1>0. Len(reply_queue) \in Nat /\ Len(failed_task) \in Nat
  OBVIOUS
<1>1. CASE SubscribeRests
  <2>1. /\ reply_queue' = failed_task \o reply_queue /\ failed_task' = <<>>
        /\ Offered = {} /\ Offered' = {} /\ subscribe_pc # "sent" /\ subscribe_pc' # "sent"
    BY <1>1 DEF SubscribeRests, Offered
  <2>2. Range(<<>>) = {}
    BY DEF Range
  <2>3. Range(reply_queue') = Range(failed_task) \cup Range(reply_queue)
    BY <2>1, ConcatElements
  <2>4. Len(reply_queue') = Len(failed_task) + Len(reply_queue) /\ Len(failed_task') = 0
    BY <2>1
  <2>5. Undelivered' = Undelivered
    BY <2>1, <2>2, <2>3 DEF Undelivered
  <2>6. Outstanding' = Outstanding
    BY <1>0, <2>1, <2>4 DEF Outstanding
  <2> QED BY <2>5, <2>6
<1>2. CASE SubscribeSends
  <2>1. /\ Range(reply_queue) = {Head(reply_queue)} \cup Range(reply_queue')
        /\ Head(reply_queue) \in Replies
    BY <1>2, PopElements DEF SubscribeSends
  <2>2. Len(reply_queue') = Len(reply_queue) - 1 /\ subscribe_pc = "pop"
    BY <1>2, HeadTail DEF SubscribeSends
  <2>3. CASE /\ subscribe_pc' = "sent" /\ subscribe_state' = "ANSWER"
             /\ UNCHANGED failed_task /\ subscribe_task' = Head(reply_queue)
    <3>1. Undelivered' = Undelivered
      BY <2>1, <2>2, <2>3 DEF Undelivered, Offered
    <3>2. Outstanding' = Outstanding
      BY <1>0, <2>2, <2>3 DEF Outstanding
    <3> QED BY <3>1, <3>2
  <2>4. CASE failed_task' = Append(failed_task, Head(reply_queue)) /\ subscribe_pc' = subscribe_pc
    <3>1. Len(failed_task') = Len(failed_task) + 1
      BY <2>1, <2>4
    <3>2. Range(failed_task') = Range(failed_task) \cup {Head(reply_queue)}
      BY <2>1, <2>4, AppendElements
    <3>3. Undelivered' = Undelivered
      BY <2>1, <2>2, <2>4, <3>2 DEF Undelivered, Offered
    <3>4. Outstanding' = Outstanding
      BY <1>0, <2>2, <2>4, <3>1 DEF Outstanding
    <3> QED BY <3>3, <3>4
  <2> QED BY <1>2, <2>3, <2>4 DEF SubscribeSends
<1>3. CASE SubscribeConcludes
  <2>1. subscribe_pc = "sent" /\ subscribe_pc' = "pop" /\ UNCHANGED reply_queue
        /\ subscribe_task \in Replies
    BY <1>3 DEF SubscribeConcludes, replyVars
  <2>2. CASE subscribe_state = "DONE" /\ UNCHANGED failed_task
    BY <2>1, <2>2 DEF Undelivered, Offered, Outstanding
  <2>3. CASE subscribe_state # "DONE" /\ failed_task' = Append(failed_task, subscribe_task)
    <3>1. Len(failed_task') = Len(failed_task) + 1
      BY <2>3
    <3>2. Range(failed_task') = Range(failed_task) \cup {subscribe_task}
      BY <2>1, <2>3, AppendElements
    <3>3. Undelivered' = Undelivered
      BY <2>1, <2>3, <3>2 DEF Undelivered, Offered
    <3>4. Outstanding' = Outstanding
      BY <1>0, <2>1, <2>3, <3>1 DEF Outstanding
    <3> QED BY <3>3, <3>4
  <2> QED BY <1>3, <2>2, <2>3 DEF SubscribeConcludes, Taken
<1> QED BY <1>1, <1>2, <1>3

LEMMA UntouchedIsPending ==
  ASSUME RepliesUntouched
  PROVE  UNCHANGED <<Undelivered, Outstanding>>
<1>1. Offered' = Offered
  BY DEF RepliesUntouched, Offered
<1>2. UNCHANGED <<reply_queue, failed_task>>
  BY DEF RepliesUntouched
<1>3. Undelivered' = Undelivered
  BY <1>1, <1>2 DEF Undelivered
<1>4. Outstanding' = Outstanding
  BY DEF RepliesUntouched, Outstanding
<1> QED BY <1>3, <1>4
-----------------------------------------------------------------------------
(***************************************************************************)
(* The refinement: a step of RequestFlow is a step of the ledger or none.  *)
(***************************************************************************)
LEMMA AnswersAreOwed ==
  ASSUME TypeInv, NEW reply \in Replies, Ledger!Owing(reply), UNCHANGED gonggoVars,
         reply_queue' = Append(reply_queue, reply),
         UNCHANGED <<failed_task, subscribe_pc, subscribe_state, subscribe_task>>
  PROVE  Ledger!Next
<1>1. Undelivered' = Undelivered \cup {reply} /\ Outstanding' = Outstanding + 1
  BY AppendedIsPending
<1>2. Ledger!Answer(reply) /\ reply \in Undelivered'
  BY <1>1 DEF Ledger!Answer, gonggoVars
<1> QED BY <1>2 DEF Ledger!Next

LEMMA TakingDelivers ==
  ASSUME TypeInv, TypeInv', GonggoTakes
  PROVE  Ledger!Next \/ UNCHANGED Ledger!ledger
<1> USE DEF TypeInv, TypeOK, SubscribeShape
<1>1. subscribe_pc = "sent" /\ subscribe_state = "ANSWER"
      /\ UNCHANGED <<asked, registered, reply_queue, failed_task, subscribe_pc, subscribe_task>>
  BY DEF GonggoTakes, replyVars
<1>2. Len(reply_queue) \in Nat /\ Len(failed_task) \in Nat
  OBVIOUS
<1>3. CASE /\ subscribe_state' = "DONE"
           /\ delivered' = [r \in Rids |-> IF r \in subscribe_task.rids THEN delivered[r] + 1
                                                                        ELSE delivered[r]]
  <2>1. Undelivered = Undelivered' \cup {subscribe_task}
    BY <1>1, <1>3 DEF Undelivered, Offered
  <2>2. Undelivered' \in {Undelivered, Undelivered \ {subscribe_task}}
    BY <2>1
  <2>3. Outstanding > 0 /\ Outstanding' = Outstanding - 1
    BY <1>1, <1>2, <1>3 DEF Outstanding
  <2>4. Outstanding' = 0 => Undelivered' = {}
    <3>1. (Len(reply_queue') = 0 /\ Len(failed_task') = 0 /\ Offered' = {})
          \/ Outstanding' # 0
      BY <1>1, <1>2, <1>3 DEF Outstanding, Offered
    <3>2. Range(<<>>) = {}
      BY DEF Range
    <3>3. (Len(reply_queue') = 0 => reply_queue' = <<>>) /\ (Len(failed_task') = 0 => failed_task' = <<>>)
      OBVIOUS
    <3> QED BY <3>1, <3>2, <3>3 DEF Undelivered
  <2>5. Ledger!Deliver(subscribe_task)
    BY <1>1, <1>3, <2>2, <2>3, <2>4 DEF Ledger!Deliver
  <2>6. subscribe_task \in Undelivered
    BY <2>1
  <2> QED BY <2>5, <2>6 DEF Ledger!Next
<1>4. CASE subscribe_state' = "FAILED" /\ UNCHANGED delivered
  <2>1. UNCHANGED <<Undelivered, Outstanding>>
    BY <1>1, <1>4 DEF Undelivered, Offered, Outstanding
  <2> QED BY <1>1, <1>4, <2>1 DEF Ledger!ledger
<1> QED BY <1>3, <1>4 DEF GonggoTakes

LEMMA StepIsLedgerStep ==
  ASSUME TypeInv, TypeInv', RequestInv, CarriesSomebody, [Next]_vars
  PROVE  [Ledger!Next]_(Ledger!ledger)
<1>1. CASE ChannelRejects
  <2> DEFINE reply == [rids |-> {channel_rid}, multi |-> FALSE, key |-> Request]
  <2>1. /\ reply_queue' = Append(reply_queue, reply) /\ UNCHANGED gonggoVars
        /\ UNCHANGED <<failed_task, subscribe_pc, subscribe_state, subscribe_task>>
    BY <1>1 DEF ChannelRejects, reply_queue_append, subscribeVars
  <2>2. reply \in Replies /\ channel_rid \in registered
    BY <1>1 DEF TypeInv, ChannelRejects, ChannelHandles, Confirmed, ChannelShape, ChannelBusy,
                SomeRid, Replies, RequestInv, ChannelKnown, Accepted
  <2>3. Request \notin MultiKeys
    BY <1>1 DEF ChannelRejects, BadRequests, DropKeys, MultiKeys
  <2>4. Ledger!Owing(reply)
    BY <2>2, <2>3 DEF Ledger!Owing, Request
  <2> QED BY <2>1, <2>2, <2>4, AnswersAreOwed
<1>2. ASSUME NEW t \in Repliers, ReplyAppends(t)
      PROVE  Ledger!Next
  <2> DEFINE reply == [rids |-> call[t].rids, multi |-> call[t].multi, key |-> call[t].key]
  <2>1. /\ reply_queue' = Append(reply_queue, reply) /\ UNCHANGED gonggoVars
        /\ UNCHANGED <<failed_task, subscribe_pc, subscribe_state, subscribe_task>>
    BY <1>2 DEF ReplyAppends, reply_queue_append, subscribeVars
  <2>2. reply \in Replies
    BY <1>2 DEF TypeInv, TypeOK, ReplyAppends, CallShape, Calls, Replies, Requests
  <2>3. Ledger!Owing(reply)
    BY <1>2 DEF Ledger!Owing, ReplyAppends, RequestInv, CallsKnown, CarriesSomebody, Carrying, Accepted
  <2> QED BY <2>1, <2>2, <2>3, AnswersAreOwed
<1>3. CASE SubscribeRests \/ SubscribeSends \/ SubscribeConcludes
  <2>1. UNCHANGED <<Undelivered, Outstanding>>
    BY <1>3, MovedIsPending
  <2>2. UNCHANGED gonggoVars
    BY <1>3 DEF SubscribeRests, SubscribeSends, SubscribeConcludes
  <2> QED BY <2>1, <2>2 DEF Ledger!ledger, gonggoVars
<1>4. CASE GonggoTakes
  BY <1>4, TakingDelivers
<1>5. CASE RepliesUntouched
  <2>1. UNCHANGED <<Undelivered, Outstanding>>
    BY <1>5, UntouchedIsPending
  <2>2. CASE UNCHANGED <<asked, registered, delivered>>
    BY <2>1, <2>2 DEF Ledger!ledger
  <2>3. CASE GonggoConfirms
    <3>1. CASE UNCHANGED registered
      BY <2>1, <2>3, <3>1 DEF GonggoConfirms, Ledger!ledger
    <3>2. CASE channel_pc = "acked" /\ registered' = registered \cup {channel_rid}
      <4>1. channel_rid \in Rids /\ asked[channel_rid] # NoKey
        BY <3>2 DEF TypeInv, ChannelShape, ChannelBusy, SomeRid, Request, Requests, Keys, SingleKeys,
                    MultiKeys, DropKeys, BadRequests, NoKey
      <4>2. Ledger!Register(channel_rid)
        BY <2>1, <2>3, <3>2, <4>1 DEF Ledger!Register, GonggoConfirms
      <4> QED BY <4>1, <4>2 DEF Ledger!Next
    <3> QED BY <2>3, <3>1, <3>2 DEF GonggoConfirms
  <2>4. ASSUME NEW r \in Rids, NEW q \in Requests, GonggoRequests(r, q)
        PROVE  Ledger!Next
    <3>1. Ledger!Ask(r, q)
      BY <2>1, <2>4 DEF Ledger!Ask, GonggoRequests
    <3> QED BY <3>1 DEF Ledger!Next
  <2>5. ASSUME NEW r \in Rids, GonggoRecordsAbandoned(r)
        PROVE  Ledger!Next
    <3>1. Ledger!Register(r)
      BY <2>1, <2>5 DEF Ledger!Register, GonggoRecordsAbandoned, RequestInv, Unrecorded
    <3> QED BY <3>1 DEF Ledger!Next
  <2> QED BY <1>4, <2>2, <2>3, <2>4, <2>5, GonggoSteps
<1> QED BY <1>1, <1>2, <1>3, <1>4, <1>5, ReplySteps

\* The threads, tables and queues of the proxy keep the promise of
\* RequestLedger: a reply is made only for recorded requests, about what they
\* asked, and gonggo takes it once however often it fails on the way.
THEOREM RequestFlowImplementsLedger == Spec => LedgerKept
<1>1. Init => Ledger!Init
  <2>1. Range(<<>>) = {}
    BY DEF Range
  <2> QED BY <2>1 DEF Init, Ledger!Init, Undelivered, Offered, Outstanding
<1>2. TypeInv /\ TypeInv' /\ RequestInv /\ CarriesSomebody /\ [Next]_vars
        => [Ledger!Next]_(Ledger!ledger)
  BY StepIsLedgerStep
<1> QED
  BY <1>1, <1>2, AlwaysTypeInv, AlwaysRequestInv, AlwaysCarriesSomebody, PTL
     DEF Spec, LedgerKept, Ledger!Spec
=============================================================================
