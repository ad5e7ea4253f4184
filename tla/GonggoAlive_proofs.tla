-------------------------- MODULE GonggoAlive_proofs --------------------------
(***************************************************************************)
(* What the gonggo_alive threads conclude about gonggo is right, for every *)
(* number of proxies, killed or not.                                       *)
(***************************************************************************)
EXTENDS GonggoAlive, TLAPS

(***************************************************************************)
(* VerdictIsRight does not survive a step by itself: a verdict is drawn    *)
(* from the mutex and the flag by who has the mutex.  So the invariant     *)
(* also says what they tell, and where a thread has the mutex.  A verdict  *)
(* on a gonggo that has not started keeps it from starting: its mutex is   *)
(* held, and lost afterwards.                                              *)
(***************************************************************************)
TracesOfGonggo ==
  /\ alive <=> gonggo # "left"
  /\ gonggo = "running" => owner = Gonggo
  /\ mutex # "consistent" => gonggo = "crashed" \/ \E q \in Proxies : pc[q] = "killed"
  /\ gonggo = "crashed" => mutex # "consistent"
  /\ mutex = "unrecoverable" => owner = Nobody

PlaceTells(p) ==
  /\ pc[p] \in {"locked", "unlinks", "holding"} => owner = p
  /\ pc[p] \in {"init", "watch", "locked"} => ~gonggo_dead[p]
  /\ pc[p] \notin {"unlinks", "cleanup", "ended"} => unlink[p] = 0
  /\ pc[p] = "unlinks" => gonggo_dead[p] /\ alive /\ mutex = "inconsistent" /\ unlink[p] < 3
  /\ pc[p] = "holding" => mutex = "consistent" /\ gonggo_dead[p] = ~alive
  /\ gonggo_dead[p] /\ gonggo = "starting" =>
       mutex = "unrecoverable" \/ (mutex = "inconsistent" /\ owner = p)

AliveInv == TypeOK /\ TracesOfGonggo /\ (\A p \in Proxies : PlaceTells(p)) /\ VerdictIsRight

LEMMA InitAliveInv == Init => AliveInv
BY AliveAssumption
   DEF Init, AliveInv, TypeOK, TracesOfGonggo, PlaceTells, VerdictIsRight

LEMMA GonggoKeepsAliveInv ==
  ASSUME AliveInv, GonggoLocks \/ GonggoLeaves \/ GonggoCrashes
  PROVE  AliveInv'
<1> USE AliveAssumption DEF AliveInv, TypeOK, TracesOfGonggo, gonggoVars, proxyVars
<1>1. CASE GonggoLocks
  <2>1. \A p \in Proxies : ~gonggo_dead[p] /\ pc[p] \notin {"locked", "unlinks", "holding"}
    BY <1>1 DEF GonggoLocks, Lockable, PlaceTells
  <2>2. \A p \in Proxies : PlaceTells(p)'
    BY <1>1, <2>1 DEF GonggoLocks, PlaceTells
  <2>3. VerdictIsRight'
    BY <1>1, <2>1 DEF GonggoLocks, VerdictIsRight
  <2> QED BY <1>1, <2>2, <2>3 DEF GonggoLocks
<1>2. CASE GonggoLeaves \/ GonggoCrashes
  <2>1. \A p \in Proxies : ~gonggo_dead[p] /\ pc[p] \notin {"locked", "unlinks", "holding"}
    BY <1>2 DEF GonggoLeaves, GonggoCrashes, PlaceTells, VerdictIsRight
  <2>2. \A p \in Proxies : PlaceTells(p)'
    BY <1>2, <2>1 DEF GonggoLeaves, GonggoCrashes, PlaceTells
  <2>3. VerdictIsRight'
    BY <1>2, <2>1 DEF GonggoLeaves, GonggoCrashes, VerdictIsRight
  <2> QED BY <1>2, <2>2, <2>3 DEF GonggoLeaves, GonggoCrashes
<1> QED BY <1>1, <1>2

\* A step of one proxy says nothing of the place of another, unless it makes
\* the mutex consistent, or loses it, while the other has it.
LEMMA ProxyKeepsAliveInv ==
  ASSUME AliveInv, NEW p \in Proxies,
         gonggo_alive_create_shm(p) \/ ThreadNext(p) \/ gonggo_alive_stop(p) \/ Kill(p)
  PROVE  AliveInv'
<1> USE AliveAssumption DEF AliveInv, TypeOK, gonggoVars
<1> DEFINE AnyKilled == \E q \in Proxies : pc[q] = "killed"
<1>1. CASE gonggo_alive_create_shm(p)
  <2>1. TypeOK' /\ (AnyKilled => AnyKilled')
    BY <1>1 DEF gonggo_alive_create_shm, Lockable
  <2>2. TracesOfGonggo'
    BY <1>1, <2>1 DEF gonggo_alive_create_shm, Lockable, TracesOfGonggo, PlaceTells
  <2>3. ASSUME NEW q \in Proxies PROVE PlaceTells(q)'
    BY <1>1 DEF gonggo_alive_create_shm, Lockable, TracesOfGonggo, PlaceTells
  <2>4. VerdictIsRight'
    BY <1>1, <2>1 DEF gonggo_alive_create_shm, Lockable, TracesOfGonggo, PlaceTells, VerdictIsRight, Watching
  <2> QED BY <2>1, <2>2, <2>3, <2>4
<1>2. CASE AliveLocks(p)
  <2>1. TypeOK' /\ (AnyKilled => AnyKilled')
    BY <1>2 DEF AliveLocks, Lockable
  <2>2. TracesOfGonggo'
    BY <1>2, <2>1 DEF AliveLocks, Lockable, TracesOfGonggo, PlaceTells
  <2>3. ASSUME NEW q \in Proxies PROVE PlaceTells(q)'
    BY <1>2 DEF AliveLocks, Lockable, TracesOfGonggo, PlaceTells
  <2>4. VerdictIsRight'
    BY <1>2, <2>1 DEF AliveLocks, Lockable, TracesOfGonggo, PlaceTells, VerdictIsRight, Watching
  <2> QED BY <2>1, <2>2, <2>3, <2>4
<1>3. CASE AliveConcludes(p)
  <2>1. TypeOK' /\ (AnyKilled => AnyKilled')
    BY <1>3 DEF AliveConcludes
  <2>2. TracesOfGonggo'
    BY <1>3, <2>1 DEF AliveConcludes, TracesOfGonggo, PlaceTells
  <2>3. ASSUME NEW q \in Proxies PROVE PlaceTells(q)'
    <3>1. CASE q = p
      <4>1. gonggo_dead'[p] = (mutex = "inconsistent" \/ ~alive)
        BY <1>3 DEF AliveConcludes
      <4>2. pc'[p] = CASE gonggo_dead'[p] /\ alive -> "unlinks"
                       [] mutex = "inconsistent" /\ ~alive -> "cleanup"
                       [] OTHER -> "holding"
        BY <1>3 DEF AliveConcludes
      <4>3. owner = p /\ mutex # "unrecoverable" /\ unlink[p] = 0
        BY <1>3 DEF AliveConcludes, PlaceTells, TracesOfGonggo
      <4> QED BY <1>3, <3>1, <4>1, <4>2, <4>3 DEF AliveConcludes, PlaceTells, TracesOfGonggo
    <3>2. CASE q # p
      BY <1>3, <3>2 DEF AliveConcludes, PlaceTells
    <3> QED BY <3>1, <3>2
  <2>4. VerdictIsRight'
    BY <1>3, <2>1 DEF AliveConcludes, TracesOfGonggo, PlaceTells, VerdictIsRight, Watching
  <2> QED BY <2>1, <2>2, <2>3, <2>4
<1>4. CASE AliveUnlinks(p)
  <2>1. TypeOK' /\ (AnyKilled => AnyKilled')
    <3>1. unlink[p] + 1 \in 0..3
      BY <1>4 DEF AliveUnlinks, PlaceTells
    <3> QED BY <1>4, <3>1 DEF AliveUnlinks
  <2>2. TracesOfGonggo'
    BY <1>4, <2>1 DEF AliveUnlinks, TracesOfGonggo, PlaceTells
  <2>3. ASSUME NEW q \in Proxies PROVE PlaceTells(q)'
    BY <1>4 DEF AliveUnlinks, TracesOfGonggo, PlaceTells
  <2>4. VerdictIsRight'
    BY <1>4, <2>1 DEF AliveUnlinks, TracesOfGonggo, PlaceTells, VerdictIsRight, Watching
  <2> QED BY <2>1, <2>2, <2>3, <2>4
<1>5. CASE AliveUnlocks(p)
  <2>1. TypeOK' /\ (AnyKilled => AnyKilled')
    BY <1>5 DEF AliveUnlocks
  <2>2. TracesOfGonggo'
    BY <1>5, <2>1 DEF AliveUnlocks, TracesOfGonggo, PlaceTells
  <2>3. ASSUME NEW q \in Proxies PROVE PlaceTells(q)'
    BY <1>5 DEF AliveUnlocks, TracesOfGonggo, PlaceTells
  <2>4. VerdictIsRight'
    BY <1>5, <2>1 DEF AliveUnlocks, TracesOfGonggo, PlaceTells, VerdictIsRight, Watching
  <2> QED BY <2>1, <2>2, <2>3, <2>4
<1>6. CASE AliveCancelled(p)
  <2>1. TypeOK' /\ (AnyKilled => AnyKilled')
    BY <1>6 DEF AliveCancelled
  <2>2. TracesOfGonggo'
    BY <1>6, <2>1 DEF AliveCancelled, TracesOfGonggo, PlaceTells
  <2>3. ASSUME NEW q \in Proxies PROVE PlaceTells(q)'
    BY <1>6 DEF AliveCancelled, TracesOfGonggo, PlaceTells
  <2>4. VerdictIsRight'
    BY <1>6, <2>1 DEF AliveCancelled, TracesOfGonggo, PlaceTells, VerdictIsRight, Watching
  <2> QED BY <2>1, <2>2, <2>3, <2>4
<1>7. CASE gonggo_alive_cleanup(p)
  <2>1. TypeOK' /\ (AnyKilled => AnyKilled')
    BY <1>7 DEF gonggo_alive_cleanup
  <2>2. TracesOfGonggo'
    BY <1>7, <2>1 DEF gonggo_alive_cleanup, TracesOfGonggo, PlaceTells
  <2>3. ASSUME NEW q \in Proxies PROVE PlaceTells(q)'
    BY <1>7 DEF gonggo_alive_cleanup, TracesOfGonggo, PlaceTells
  <2>4. VerdictIsRight'
    BY <1>7, <2>1 DEF gonggo_alive_cleanup, TracesOfGonggo, PlaceTells, VerdictIsRight, Watching
  <2> QED BY <2>1, <2>2, <2>3, <2>4
<1>8. CASE gonggo_alive_stop(p)
  <2>1. TypeOK' /\ (AnyKilled => AnyKilled')
    BY <1>8 DEF gonggo_alive_stop
  <2>2. TracesOfGonggo'
    BY <1>8, <2>1 DEF gonggo_alive_stop, TracesOfGonggo, PlaceTells
  <2>3. ASSUME NEW q \in Proxies PROVE PlaceTells(q)'
    BY <1>8 DEF gonggo_alive_stop, TracesOfGonggo, PlaceTells
  <2>4. VerdictIsRight'
    BY <1>8, <2>1 DEF gonggo_alive_stop, TracesOfGonggo, PlaceTells, VerdictIsRight, Watching
  <2> QED BY <2>1, <2>2, <2>3, <2>4
<1>9. CASE Kill(p)
  <2>1. TypeOK' /\ (AnyKilled => AnyKilled')
    BY <1>9 DEF Kill
  <2>2. TracesOfGonggo'
    BY <1>9, <2>1 DEF Kill, TracesOfGonggo, PlaceTells
  <2>3. ASSUME NEW q \in Proxies PROVE PlaceTells(q)'
    <3>1. CASE q = p
      <4>1. pc'[p] = "killed" /\ ~gonggo_dead'[p] /\ unlink'[p] = 0
        BY <1>9 DEF Kill
      <4> QED BY <3>1, <4>1 DEF PlaceTells
    <3>2. CASE q # p
      <4>1. pc'[q] = pc[q] /\ gonggo_dead'[q] = gonggo_dead[q] /\ unlink'[q] = unlink[q]
        BY <1>9, <3>2 DEF Kill
      <4>2. owner = p => mutex # "unrecoverable"
        BY DEF TracesOfGonggo
      <4> QED BY <1>9, <3>2, <4>1, <4>2 DEF Kill, PlaceTells
    <3> QED BY <3>1, <3>2
  <2>4. VerdictIsRight'
    BY <1>9, <2>1 DEF Kill, TracesOfGonggo, PlaceTells, VerdictIsRight, Watching
  <2> QED BY <2>1, <2>2, <2>3, <2>4
<1> QED BY <1>1, <1>2, <1>3, <1>4, <1>5, <1>6, <1>7, <1>8, <1>9 DEF ThreadNext

LEMMA NextAliveInv == AliveInv /\ [Next]_vars => AliveInv'
<1>1. AliveInv /\ UNCHANGED vars => AliveInv'
  BY DEF vars, gonggoVars, proxyVars, AliveInv, TypeOK, TracesOfGonggo, PlaceTells, VerdictIsRight,
         Watching
<1> QED BY <1>1, GonggoKeepsAliveInv, ProxyKeepsAliveInv DEF Next

LEMMA AlwaysAliveInv == Spec => []AliveInv
BY InitAliveInv, NextAliveInv, PTL DEF Spec

\* Every variable of the alive protocol keeps its type, and a proxy that owns
\* the mutex of gonggo is bound to release it (gonggoalive.c:67-75).
THEOREM AliveTypeCorrect == Spec => []TypeOK
<1>1. AliveInv => TypeOK
  BY DEF AliveInv
<1> QED
  BY <1>1, AlwaysAliveInv, PTL

\* No proxy finds a gonggo dead that runs, and one that is about to only when
\* another proxy was killed; its memories are unlinked only after a crash, and
\* then all of them unless it is cancelled (gonggoalive.c:56-63).
THEOREM VerdictsAreRight == Spec => []VerdictIsRight
<1>1. AliveInv => VerdictIsRight
  BY DEF AliveInv
<1> QED
  BY <1>1, AlwaysAliveInv, PTL
=============================================================================
