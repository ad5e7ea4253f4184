--------------------------- MODULE Shutdown_proofs ---------------------------
(***************************************************************************)
(* Proofs about Shutdown for any number of exchanges, any number of        *)
(* replies of the backend and any faults.                                  *)
(***************************************************************************)
EXTENDS Shutdown, TLAPS

USE StopAssumption

LEMMA InitTypeOK == Init => TypeOK
<1>1. Init => PlacesOK
  BY DEF Init, PlacesOK
<1>2. Init => CountsOK
  BY DEF Init, CountsOK
<1>3. Init => FlagsOK
  BY DEF Init, FlagsOK
<1> QED BY <1>1, <1>2, <1>3 DEF TypeOK

LEMMA PlacesKept ==
  ASSUME PlacesOK, [Next]_vars
  PROVE  PlacesOK'
<1> USE DEF PlacesOK, mainVars, gonggoVars, channelVars, subscribeVars, commVars, aliveVars
<1>1. CASE MainNext
  BY <1>1 DEF MainNext, MainTests, MainDies, proxy_channel_stop, proxy_subscribe_stop,
       MainEndsSubscribe, gonggo_alive_stop, proxy_comm_stop, MainJoins
<1>2. CASE ChannelNext
  <2>1. CASE ChannelWakes
    <3>1. /\ channel_pc' \in {"acked", "failed", "rested", "kill", "append_task", "append_reply",
                              "top", "exited"}
          /\ channel_state' \in {channel_state, "ACKNOWLEDGED", "FAILS", "REST_RESPOND"}
      BY <2>1 DEF ChannelWakes, LoopWakes, ExchangeStarts, RestResponds, RestUnanswered, ExchangeWakes,
                  RestWakes
    <3> QED BY <2>1, <3>1 DEF ChannelWakes
  <2>2. CASE ChannelLoops \/ ChannelKills \/ ChannelAppends \/ ChannelAwakes
    BY <2>2 DEF ChannelLoops, ChannelKills, Terminate, ChannelAppends, ChannelAwakes
  <2> QED BY <1>2, <2>1, <2>2 DEF ChannelNext
<1>3. CASE CommNext
  BY <1>3 DEF CommNext, CommLocks, CommPops, CommReplies, CommAwakes, CommStops
<1>4. CASE SubscribeNext
  <2>1. orphaned' \subseteq orphaned
    BY <1>4 DEF SubscribeNext, SubscribeLocks, SubscribeTests, SubscribeResets, SubscribeRests,
         SubscribeSends, SubscribeConcludes
  <2>2. /\ subscribe_pc' \in {"test", "reset", "pop", "waiting", "sent", "exited"}
        /\ subscribe_state' \in {subscribe_state, "IDLE", "ANSWER"}
        /\ UNCHANGED <<mainVars, gonggoVars, channelVars, commVars, aliveVars>>
    BY <1>4 DEF SubscribeNext, SubscribeLocks, SubscribeTests, SubscribeResets, SubscribeRests,
         SubscribeSends, SubscribeConcludes
  <2> QED BY <2>1, <2>2
<1>5. CASE AliveNext \/ SigTerm
  <2>1. Terminate => main_pc' \in {main_pc, "test"}
    BY DEF Terminate
  <2>2. CASE AliveNext
    <3>1. alive_pc' = "exited" /\ main_pc' \in {main_pc, "test"}
      BY <2>1, <2>2 DEF AliveNext, AliveFinds, AliveEnds
    <3>2. UNCHANGED <<gonggo, orphaned, channel_pc, channel_state, subscribe_pc, subscribe_state, comm_pc>>
      BY <2>2 DEF AliveNext, AliveFinds, AliveEnds
    <3> QED BY <3>1, <3>2
  <2>3. CASE SigTerm
    BY <2>1, <2>3 DEF SigTerm
  <2> QED BY <1>5, <2>2, <2>3
<1>6. CASE GonggoRequests
  BY <1>6 DEF GonggoRequests
<1>7. CASE GonggoConfirms
  BY <1>7 DEF GonggoConfirms
<1>8. CASE GonggoTakes
  BY <1>8 DEF GonggoTakes
<1>9. CASE GonggoDies
  BY <1>9 DEF GonggoDies
<1>10. CASE BackendReplies \/ BackendAwakes \/ OtherProxyFinds
  <2>1. CASE BackendReplies \/ BackendAwakes
    <3>1. UNCHANGED <<main_pc, gonggo, orphaned, channel_pc, channel_state, subscribe_pc,
                      subscribe_state, comm_pc, alive_pc>>
      BY <2>1 DEF BackendReplies, BackendAwakes
    <3> QED BY <3>1
  <2>2. CASE OtherProxyFinds
    BY <2>2 DEF OtherProxyFinds
  <2> QED BY <1>10, <2>1, <2>2
<1>11. CASE UNCHANGED vars
  BY <1>11 DEF vars
<1> QED
  BY <1>1, <1>2, <1>3, <1>4, <1>5, <1>6, <1>7, <1>8, <1>9, <1>10, <1>11
     DEF Next, GonggoAnswers, Stopped

LEMMA CountsKept ==
  ASSUME CountsOK, [Next]_vars
  PROVE  CountsOK'
<1> USE DEF CountsOK, gonggoVars, queueVars, backendVars
<1>1. CASE ChannelAppends \/ CommReplies
  BY <1>1 DEF ChannelAppends, CommReplies
<1>2. CASE CommPops
  BY <1>2 DEF CommPops
<1>3. CASE SubscribeRests \/ SubscribeSends \/ SubscribeConcludes
  <2>1. reply_queue > 0 => reply_queue - 1 \in Nat
    OBVIOUS
  <2> QED BY <1>3, <2>1 DEF SubscribeRests, SubscribeSends, SubscribeConcludes, reply_queue_push_head
<1>4. CASE GonggoRequests
  BY <1>4 DEF GonggoRequests
<1>5. CASE BackendReplies
  BY <1>5 DEF BackendReplies
<1>6. CASE BackendAwakes
  BY <1>6 DEF BackendAwakes
<1>7. CASE UNCHANGED <<requests, pushes, calling, queueVars>>
  BY <1>7
<1> QED
  BY <1>1, <1>2, <1>3, <1>4, <1>5, <1>6, <1>7
     DEF Next, vars, MainNext, MainTests, MainDies, proxy_channel_stop, proxy_subscribe_stop,
         MainEndsSubscribe, gonggo_alive_stop, proxy_comm_stop, MainJoins, ChannelNext, ChannelLoops,
         ChannelWakes, ChannelKills, ChannelAwakes, CommNext, CommLocks, CommAwakes, CommStops,
         SubscribeNext, SubscribeLocks, SubscribeTests, SubscribeResets, AliveNext, AliveFinds,
         AliveEnds, OtherProxyFinds, SigTerm, GonggoAnswers, GonggoConfirms, GonggoTakes, GonggoDies,
         Stopped

LEMMA FlagsKept ==
  ASSUME FlagsOK, [Next]_vars
  PROVE  FlagsOK'
<1> USE DEF FlagsOK, mainVars, channelVars, subscribeVars, commVars, backendVars, endVars, aliveVars
<1>1. CASE MainNext
  <2>1. CASE MainTests \/ MainDies \/ MainJoins
    BY <2>1 DEF MainTests, MainDies, MainJoins
  <2>2. CASE proxy_channel_stop \/ gonggo_alive_stop
    BY <2>2 DEF proxy_channel_stop, gonggo_alive_stop
  <2>3. CASE proxy_subscribe_stop \/ MainEndsSubscribe
    BY <2>3 DEF proxy_subscribe_stop, MainEndsSubscribe, proxy_subscribe_awake
  <2>4. CASE proxy_comm_stop
    BY <2>4 DEF proxy_comm_stop, proxy_comm_awake
  <2> QED
    BY <1>1, <2>1, <2>2, <2>3, <2>4 DEF MainNext
<1>2. CASE ChannelNext
  <2>1. CASE ChannelLoops \/ ChannelWakes
    BY <2>1 DEF ChannelLoops, ChannelWakes
  <2>2. CASE ChannelKills
    BY <2>2 DEF ChannelKills, Terminate
  <2>3. CASE ChannelAppends
    BY <2>3 DEF ChannelAppends, proxy_comm_awake
  <2>4. CASE ChannelAwakes
    BY <2>4 DEF ChannelAwakes, proxy_subscribe_awake, proxy_comm_awake
  <2> QED BY <1>2, <2>1, <2>2, <2>3, <2>4 DEF ChannelNext
<1>3. CASE CommNext
  <2>1. CASE CommLocks \/ CommPops
    BY <2>1 DEF CommLocks, CommPops
  <2>2. CASE CommReplies
    BY <2>2 DEF CommReplies
  <2>3. CASE CommAwakes
    BY <2>3 DEF CommAwakes, proxy_subscribe_awake
  <2>4. CASE CommStops
    BY <2>4 DEF CommStops
  <2> QED BY <1>3, <2>1, <2>2, <2>3, <2>4 DEF CommNext
<1>4. CASE SubscribeNext
  <2>1. CASE SubscribeLocks
    BY <2>1 DEF SubscribeLocks
  <2>2. CASE SubscribeTests
    BY <2>2 DEF SubscribeTests
  <2>3. CASE SubscribeResets
    BY <2>3 DEF SubscribeResets
  <2>4. CASE SubscribeRests
    BY <2>4 DEF SubscribeRests
  <2>5. CASE SubscribeSends
    BY <2>5 DEF SubscribeSends
  <2>6. CASE SubscribeConcludes
    BY <2>6 DEF SubscribeConcludes
  <2> QED BY <1>4, <2>1, <2>2, <2>3, <2>4, <2>5, <2>6 DEF SubscribeNext
<1>5. CASE AliveNext \/ SigTerm
  BY <1>5 DEF AliveNext, AliveFinds, AliveEnds, SigTerm, Terminate
<1>6. CASE GonggoRequests \/ GonggoAnswers \/ GonggoDies
  <2>1. CASE GonggoRequests
    BY <2>1 DEF GonggoRequests
  <2>2. CASE GonggoConfirms
    BY <2>2 DEF GonggoConfirms
  <2>3. CASE GonggoTakes
    BY <2>3 DEF GonggoTakes
  <2>4. CASE GonggoDies
    BY <2>4 DEF GonggoDies
  <2> QED BY <1>6, <2>1, <2>2, <2>3, <2>4 DEF GonggoAnswers
<1>7. CASE BackendReplies \/ BackendAwakes \/ OtherProxyFinds
  BY <1>7 DEF BackendReplies, BackendAwakes, OtherProxyFinds, proxy_subscribe_awake
<1>8. CASE UNCHANGED vars
  BY <1>8 DEF vars
<1> QED BY <1>1, <1>2, <1>3, <1>4, <1>5, <1>6, <1>7, <1>8 DEF Next, Stopped

LEMMA NextKeepsType ==
  ASSUME TypeOK, [Next]_vars
  PROVE  TypeOK'
BY PlacesKept, CountsKept, FlagsKept DEF TypeOK

\* Every thread stays at a place it has, and no count goes below zero.
THEOREM ShutdownTypeCorrect == Spec => []TypeOK
BY InitTypeOK, NextKeepsType, PTL DEF Spec
-----------------------------------------------------------------------------
(***************************************************************************)
(* The stop is not missed.  A thread holds its lock from the test of its   *)
(* flag to its wait, so that main, who sets the flag under that lock,      *)
(* finds it at the places below, and it stays there until it has left.     *)
(* The channel thread tests the state word as well, which nobody changes   *)
(* once it says TERMINATION.                                               *)
(***************************************************************************)
ChannelTold ==
  proxy_channel_end =>
    /\ channel_state = "TERMINATION"
    /\ channel_pc \in {"idle", "acked", "failed", "rested", "top", "exited"}
    /\ channel_pc \in {"idle", "acked", "failed", "rested"} => channel_woken

SubscribeTold ==
  proxy_subscribe_end =>
    /\ subscribe_pc \in {"start", "waiting", "test", "exited"}
    /\ subscribe_pc = "waiting" => subscribe_woken

CommTold ==
  proxy_comm_end =>
    /\ comm_pc \in {"start", "waiting", "stopping", "exited"}
    /\ comm_pc = "waiting" => comm_woken

LEMMA ChannelToldKept ==
  ASSUME PlacesOK, ChannelTold, [Next]_vars
  PROVE  ChannelTold'
<1> USE DEF PlacesOK, ChannelTold, channelVars, endVars
<1>1. CASE ChannelNext
  <2>1. CASE ChannelWakes
    <3>1. UNCHANGED proxy_channel_end
      BY <2>1 DEF ChannelWakes
    <3>2. ASSUME proxy_channel_end
          PROVE  channel_state' = "TERMINATION" /\ channel_pc' \in {"top", "exited"}
      BY <2>1, <3>2 DEF ChannelWakes, LoopWakes, ExchangeStarts, RestResponds, RestUnanswered,
                        ExchangeWakes, RestWakes
    <3> QED BY <3>1, <3>2
  <2>2. CASE ChannelLoops \/ ChannelKills \/ ChannelAppends \/ ChannelAwakes
    BY <2>2 DEF ChannelLoops, ChannelKills, ChannelAppends, ChannelAwakes
  <2> QED BY <1>1, <2>1, <2>2 DEF ChannelNext
<1>2. CASE proxy_channel_stop
  BY <1>2 DEF proxy_channel_stop, ChannelLockFree
<1>3. CASE GonggoRequests \/ GonggoConfirms
  BY <1>3 DEF GonggoRequests, GonggoConfirms
<1>4. CASE UNCHANGED <<channelVars, proxy_channel_end>>
  BY <1>4
<1> QED
  BY <1>1, <1>2, <1>3, <1>4
     DEF Next, vars, MainNext, MainTests, MainDies, proxy_subscribe_stop, MainEndsSubscribe,
         gonggo_alive_stop, proxy_comm_stop, MainJoins, CommNext, CommLocks, CommPops, CommReplies,
         CommAwakes, CommStops, SubscribeNext, SubscribeLocks, SubscribeTests, SubscribeResets,
         SubscribeRests, SubscribeSends, SubscribeConcludes, AliveNext, AliveFinds, AliveEnds,
         SigTerm, BackendReplies, BackendAwakes, OtherProxyFinds, GonggoAnswers, GonggoTakes,
         GonggoDies, Stopped

LEMMA SubscribeToldKept ==
  ASSUME PlacesOK, SubscribeTold, [Next]_vars
  PROVE  SubscribeTold'
<1> USE DEF PlacesOK, SubscribeTold, subscribeVars, endVars
<1>1. CASE SubscribeNext
  BY <1>1 DEF SubscribeNext, SubscribeLocks, SubscribeTests, SubscribeResets, SubscribeRests,
       SubscribeSends, SubscribeConcludes
<1>2. CASE ChannelAwakes \/ CommAwakes \/ BackendAwakes \/ MainEndsSubscribe
  BY <1>2 DEF ChannelAwakes, CommAwakes, BackendAwakes, MainEndsSubscribe, proxy_subscribe_awake,
              SubscribeLockFree
<1>3. CASE proxy_subscribe_stop \/ GonggoTakes
  BY <1>3 DEF proxy_subscribe_stop, GonggoTakes
<1>4. CASE UNCHANGED <<subscribeVars, proxy_subscribe_end>>
  BY <1>4
<1> QED
  BY <1>1, <1>2, <1>3, <1>4
     DEF Next, vars, MainNext, MainTests, MainDies, proxy_channel_stop, gonggo_alive_stop,
         proxy_comm_stop, MainJoins, ChannelNext, ChannelLoops, ChannelWakes, ChannelKills,
         ChannelAppends, CommNext, CommLocks, CommPops, CommReplies, CommStops, AliveNext,
         AliveFinds, AliveEnds, SigTerm, BackendReplies, OtherProxyFinds, GonggoRequests,
         GonggoAnswers, GonggoConfirms, GonggoDies, Stopped

LEMMA CommToldKept ==
  ASSUME PlacesOK, CommTold, [Next]_vars
  PROVE  CommTold'
<1> USE DEF PlacesOK, CommTold, commVars, endVars
<1>1. CASE CommNext
  BY <1>1 DEF CommNext, CommLocks, CommPops, CommReplies, CommAwakes, CommStops
<1>2. CASE ChannelAwakes \/ proxy_comm_stop
  BY <1>2 DEF ChannelAwakes, proxy_comm_stop, proxy_comm_awake, CommLockFree
<1>3. CASE UNCHANGED <<commVars, proxy_comm_end>>
  BY <1>3
<1> QED
  BY <1>1, <1>2, <1>3
     DEF Next, vars, MainNext, MainTests, MainDies, proxy_channel_stop, proxy_subscribe_stop,
         MainEndsSubscribe, gonggo_alive_stop, MainJoins, ChannelNext, ChannelLoops, ChannelWakes,
         ChannelKills, ChannelAppends, SubscribeNext, SubscribeLocks, SubscribeTests,
         SubscribeResets, SubscribeRests, SubscribeSends, SubscribeConcludes, AliveNext, AliveFinds,
         AliveEnds, SigTerm, BackendReplies, BackendAwakes, OtherProxyFinds, GonggoRequests,
         GonggoAnswers, GonggoConfirms, GonggoTakes, GonggoDies, Stopped

LEMMA AlwaysTold == Spec => [](ChannelTold /\ SubscribeTold /\ CommTold)
<1>1. Init => ChannelTold /\ SubscribeTold /\ CommTold
  BY DEF Init, ChannelTold, SubscribeTold, CommTold
<1>2. TypeOK /\ ChannelTold /\ SubscribeTold /\ CommTold /\ [Next]_vars
        => ChannelTold' /\ SubscribeTold' /\ CommTold'
  BY ChannelToldKept, SubscribeToldKept, CommToldKept DEF TypeOK
<1> QED BY <1>1, <1>2, ShutdownTypeCorrect, PTL DEF Spec

\* No thread waits on with its termination flag set and nobody to awake it,
\* whether gonggo lives or not.
THEOREM StopReachesThreads == Spec => []StopIsNotMissed
<1>1. ChannelTold /\ SubscribeTold /\ CommTold => StopIsNotMissed
  BY DEF ChannelTold, SubscribeTold, CommTold, StopIsNotMissed
<1> QED BY <1>1, AlwaysTold, PTL
-----------------------------------------------------------------------------
(***************************************************************************)
(* Wake-ups are due.  The property is inductive once it is known that a    *)
(* thread at work has no wake-up left from an earlier wait.                *)
(***************************************************************************)
WokenWaits ==
  /\ channel_woken => channel_pc \in {"idle", "acked", "failed", "rested"}
  /\ subscribe_woken => subscribe_pc \in {"waiting", "sent"}

LEMMA ChannelWakeUpsKept ==
  ASSUME TypeOK, ChannelTold, WokenWaits, WakeUpsAreDue, ChannelNext
  PROVE  WokenWaits' /\ WakeUpsAreDue'
<1> USE DEF TypeOK, PlacesOK, FlagsOK, ChannelTold, WokenWaits, WakeUpsAreDue, subscribeVars
<1>1. CASE ChannelLoops
  BY <1>1 DEF ChannelLoops
<1>2. CASE ChannelWakes
  <2>1. UNCHANGED subscribeVars /\ channel_woken' = FALSE
    BY <1>2 DEF ChannelWakes
  <2>2. /\ channel_pc' # "idle"
        /\ channel_pc' = "acked" => channel_state' = "ACKNOWLEDGED"
        /\ channel_pc' = "failed" => channel_state' = "FAILS"
        /\ channel_pc' = "rested" => channel_state' = "REST_RESPOND"
    BY <1>2 DEF ChannelWakes, LoopWakes, ExchangeStarts, RestResponds, RestUnanswered, ExchangeWakes,
                RestWakes
  <2> QED BY <2>1, <2>2
<1>3. CASE ChannelKills \/ ChannelAppends
  BY <1>3 DEF ChannelKills, ChannelAppends
<1>4. CASE ChannelAwakes
  BY <1>4 DEF ChannelAwakes, proxy_subscribe_awake, SubscribeLockFree
<1> QED BY <1>1, <1>2, <1>3, <1>4 DEF ChannelNext

LEMMA WakeUpsKept ==
  ASSUME TypeOK, ChannelTold, WokenWaits, WakeUpsAreDue, [Next]_vars
  PROVE  WokenWaits' /\ WakeUpsAreDue'
<1> USE DEF TypeOK, PlacesOK, FlagsOK, WokenWaits, WakeUpsAreDue, channelVars, subscribeVars
<1>1. CASE SubscribeNext
  BY <1>1 DEF SubscribeNext, SubscribeLocks, SubscribeTests, SubscribeResets, SubscribeRests,
       SubscribeSends, SubscribeConcludes
<1>2. CASE CommAwakes \/ BackendAwakes \/ MainEndsSubscribe
  BY <1>2 DEF CommAwakes, BackendAwakes, MainEndsSubscribe, proxy_subscribe_awake, SubscribeLockFree
<1>3. CASE proxy_channel_stop
  BY <1>3 DEF proxy_channel_stop, ChannelLockFree
<1>4. CASE proxy_subscribe_stop
  BY <1>4 DEF proxy_subscribe_stop
<1>5. CASE GonggoRequests \/ GonggoConfirms \/ GonggoTakes
  BY <1>5 DEF GonggoRequests, GonggoConfirms, GonggoTakes
<1>6. CASE UNCHANGED <<channelVars, subscribeVars>>
  BY <1>6
<1> QED
  BY <1>1, <1>2, <1>3, <1>4, <1>5, <1>6, ChannelWakeUpsKept
     DEF Next, vars, MainNext, MainTests, MainDies, gonggo_alive_stop, proxy_comm_stop, MainJoins,
         CommNext, CommLocks, CommPops, CommReplies, CommStops, AliveNext, AliveFinds, AliveEnds,
         SigTerm, BackendReplies, OtherProxyFinds, GonggoAnswers, GonggoDies, Stopped

\* No request, answer or TERMINATION is overlooked by the thread it is for, and
\* no wake-up outlives the wait it ended, whatever gonggo and main write.
THEOREM WakeUpsAreRight == Spec => []WakeUpsAreDue
<1>1. Init => WokenWaits /\ WakeUpsAreDue
  BY DEF Init, WokenWaits, WakeUpsAreDue
<1>2. TypeOK /\ ChannelTold /\ WokenWaits /\ WakeUpsAreDue /\ [Next]_vars
        => WokenWaits' /\ WakeUpsAreDue'
  BY WakeUpsKept
<1> QED BY <1>1, <1>2, ShutdownTypeCorrect, AlwaysTold, PTL DEF Spec
-----------------------------------------------------------------------------
(***************************************************************************)
(* Nobody leaves early: what ends a loop was written by main, at its turn, *)
(* or left behind by a dead gonggo.                                        *)
(***************************************************************************)
StopInOrder ==
  /\ main_pc = "stop_subscribe" \/ SubscribeIsStopped => proxy_channel_end
  /\ proxy_subscribe_end \/ subscribe_state = "TERMINATION" => SubscribeIsStopped
  /\ proxy_comm_end => main_pc \in {"join", "stopped"}
  /\ alive_pc = "cancelled" => main_pc \in {"stop_comm", "join", "stopped"}
  /\ channel_state = "TERMINATION" => proxy_channel_end
  /\ orphaned # {} \/ gonggo_dead => gonggo = "dead"

LEMMA MainStopsInOrder ==
  ASSUME TypeOK, ChannelTold, StopInOrder, NobodyLeavesEarly, MainNext
  PROVE  StopInOrder' /\ NobodyLeavesEarly'
<1> USE DEF TypeOK, PlacesOK, FlagsOK, StopInOrder, NobodyLeavesEarly, SubscribeIsStopped
<1>1. CASE MainTests \/ MainDies \/ MainJoins
  BY <1>1 DEF MainTests, MainDies, MainJoins, gonggoVars, channelVars, subscribeVars, commVars,
              endVars, aliveVars
<1>2. CASE proxy_channel_stop
  BY <1>2 DEF proxy_channel_stop, gonggoVars, subscribeVars, commVars, aliveVars
<1>3. CASE proxy_subscribe_stop
  BY <1>3 DEF proxy_subscribe_stop, gonggoVars, channelVars, commVars, endVars, aliveVars
<1>4. CASE MainEndsSubscribe
  BY <1>4 DEF MainEndsSubscribe, gonggoVars, channelVars, commVars, aliveVars
<1>5. CASE gonggo_alive_stop
  BY <1>5 DEF gonggo_alive_stop, gonggoVars, channelVars, subscribeVars, commVars, endVars
<1>6. CASE proxy_comm_stop
  BY <1>6 DEF proxy_comm_stop, gonggoVars, channelVars, subscribeVars, aliveVars
<1> QED BY <1>1, <1>2, <1>3, <1>4, <1>5, <1>6 DEF MainNext

LEMMA ChannelLeavesInOrder ==
  ASSUME TypeOK, ChannelTold, StopInOrder, NobodyLeavesEarly, ChannelNext
  PROVE  StopInOrder' /\ NobodyLeavesEarly'
<1> USE DEF TypeOK, PlacesOK, FlagsOK, StopInOrder, NobodyLeavesEarly, SubscribeIsStopped,
            gonggoVars, subscribeVars, commVars, endVars, aliveVars
<1>1. Terminate => main_pc' = main_pc \/ (main_pc = "pause" /\ main_pc' = "test")
  BY DEF Terminate
<1>2. CASE ChannelLoops \/ ChannelAppends \/ ChannelAwakes
  BY <1>2 DEF ChannelLoops, ChannelAppends, ChannelAwakes, mainVars, ChannelTold
<1>3. CASE ChannelKills
  BY <1>1, <1>3 DEF ChannelKills, ChannelTold
<1>4. CASE ChannelWakes
  <2>1. /\ orphaned' \subseteq orphaned
        /\ UNCHANGED <<mainVars, gonggoVars, subscribeVars, commVars, endVars, aliveVars>>
    BY <1>4 DEF ChannelWakes
  <2>2. /\ channel_pc' = "exited" => channel_state = "TERMINATION" \/ LockOrphaned
        /\ channel_state' # "TERMINATION" \/ channel_state' = channel_state
        /\ proxy_channel_end => channel_pc' \in {"top", "exited"}
    BY <1>4 DEF ChannelWakes, LoopWakes, ExchangeStarts, RestResponds, RestUnanswered, ExchangeWakes,
                RestWakes, ChannelTold
  <2> QED BY <2>1, <2>2 DEF LockOrphaned, mainVars
<1> QED BY <1>2, <1>3, <1>4 DEF ChannelNext

LEMMA NobodyLeavesEarlyKept ==
  ASSUME TypeOK, ChannelTold, StopInOrder, NobodyLeavesEarly, [Next]_vars
  PROVE  StopInOrder' /\ NobodyLeavesEarly'
<1> USE DEF TypeOK, PlacesOK, FlagsOK, StopInOrder, NobodyLeavesEarly, SubscribeIsStopped,
            mainVars, gonggoVars, channelVars, subscribeVars, endVars, aliveVars
<1>1. Terminate => main_pc' = main_pc \/ (main_pc = "pause" /\ main_pc' = "test")
  BY DEF Terminate
<1>2. CASE CommNext
  <2>1. proxy_comm_end => channel_pc \notin {"append_task", "awake_comm"}
    BY DEF ChannelTold
  <2>2. comm_pc' \in {"stopping", "exited"} => proxy_comm_end
    BY <1>2 DEF CommNext, CommLocks, CommPops, CommReplies, CommAwakes, CommStops
  <2>3. UNCHANGED <<mainVars, gonggoVars, orphaned, channelVars, subscribe_pc, subscribe_state,
                    endVars, aliveVars>>
    BY <1>2 DEF CommNext, CommLocks, CommPops, CommReplies, CommAwakes, CommStops
  <2> QED BY <2>1, <2>2, <2>3
<1>3. CASE SubscribeNext
  BY <1>3 DEF SubscribeNext, SubscribeLocks, SubscribeTests, SubscribeResets, SubscribeRests,
       SubscribeSends, SubscribeConcludes, commVars
<1>4. CASE AliveNext \/ SigTerm
  <2>1. CASE AliveFinds \/ SigTerm
    BY <1>1, <2>1 DEF AliveFinds, SigTerm, commVars
  <2>2. CASE AliveEnds
    BY <2>2 DEF AliveEnds, commVars
  <2> QED BY <1>4, <2>1, <2>2 DEF AliveNext
<1>5. CASE GonggoRequests \/ GonggoAnswers \/ GonggoDies
  BY <1>5 DEF GonggoRequests, GonggoAnswers, GonggoConfirms, GonggoTakes, GonggoDies, commVars
<1>6. CASE BackendReplies \/ BackendAwakes \/ OtherProxyFinds
  BY <1>6 DEF BackendReplies, BackendAwakes, OtherProxyFinds, commVars
<1>7. CASE UNCHANGED vars
  BY <1>7 DEF vars, commVars
<1> QED
  BY <1>2, <1>3, <1>4, <1>5, <1>6, <1>7, MainStopsInOrder, ChannelLeavesInOrder DEF Next, Stopped

\* While gonggo lives a thread leaves its loop only when main has told it to,
\* and no task is appended once the comm thread may be in f_stop.
THEOREM ThreadsLeaveInOrder == Spec => []NobodyLeavesEarly
<1>1. Init => StopInOrder /\ NobodyLeavesEarly
  BY DEF Init, StopInOrder, NobodyLeavesEarly, SubscribeIsStopped
<1>2. TypeOK /\ ChannelTold /\ StopInOrder /\ NobodyLeavesEarly /\ [Next]_vars
        => StopInOrder' /\ NobodyLeavesEarly'
  BY NobodyLeavesEarlyKept
<1> QED BY <1>1, <1>2, ShutdownTypeCorrect, AlwaysTold, PTL DEF Spec
=============================================================================
