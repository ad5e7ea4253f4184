----------------------------- MODULE Activation -----------------------------
(***************************************************************************)
(* Proxies that start at the same time ask one gonggo for their activation *)
(* (proxyactivator.c).  All share one shared memory, with one lock and one *)
(* condition variable, proxy_wakeup, on which those that wait for their    *)
(* turn and the one that waits for its verdict sleep together: a signal    *)
(* may wake any of them.                                                   *)
(*                                                                         *)
(* A critical section is one step.  Time passes in units of five seconds,  *)
(* and only when nothing is left to do: what takes milliseconds is done.   *)
(***************************************************************************)
EXTENDS Integers, FiniteSets

CONSTANTS
  Proxy,
  NoProxy,
  GonggoDelay,    \* bound: units gonggo lets a request wait
  GonggoPatience  \* the values of patience

ACTIVATION_IDLE_TTL == 5
ACTIVATION_IDLE_TIMEOUT == 1
ACTIVATION_REQUEST_RESPOND_TIMEOUT == 2

ASSUME ActivationAssumption ==
  /\ NoProxy \notin Proxy
  /\ GonggoDelay \in Nat
  /\ GonggoPatience \subseteq (SUBSET Nat) \ {{}}

VARIABLES
  state, requester,    \* shm: state, proxy_name with pid
  lock,                \* free; orphaned by a dead proxy; kept by one that went on
  pc, wakeup,          \* of a proxy; why its wait ended
  ttl, timer,          \* its waits left; units until its wait times out
  delay, patience,     \* how slow gonggo is; units it may keep a verdict nobody acknowledges
  gonggo_timer,        \* units until it acts
  granted              \* the proxies gonggo counts as active

proxyVars  == <<pc, wakeup, ttl, timer>>
gonggoVars == <<delay, patience, gonggo_timer, granted>>
vars == <<state, requester, lock, proxyVars, gonggoVars>>

Verdicts == {"SUCCESS", "FAILED", "PROXY_DYING"}
Waiting == {"wait_idle", "wait_verdict"}
Ended == {"absent", "active", "refused", "busy", "crashed", "out_of_service", "killed"}

Init ==
  /\ state = "IDLE" /\ requester = NoProxy /\ lock = "free"
  /\ pc \in [Proxy -> {"absent", "get_map"}]
  /\ wakeup = [p \in Proxy |-> "none"]
  /\ ttl = [p \in Proxy |-> 0] /\ timer = [p \in Proxy |-> 0]
  /\ delay \in 0..GonggoDelay /\ patience \in GonggoPatience
  /\ gonggo_timer = 0 /\ granted = {}

\* gonggo keeps every verdict longer than a proxy waits for it.  Nothing in the
\* proxy says so: a property that needs it names it.
Patient == \A units \in patience : units > ACTIVATION_REQUEST_RESPOND_TIMEOUT
-----------------------------------------------------------------------------
Asleep(p) == pc[p] \in Waiting /\ wakeup[p] = "none"
Woken(p, place) == pc[p] = place /\ wakeup[p] # "none"

\* A proxy goes on to a place, or sleeps there until it is woken.
Sleep(p, place, waits, units) ==
  /\ pc' = [pc EXCEPT ![p] = place] /\ wakeup' = [wakeup EXCEPT ![p] = "none"]
  /\ ttl' = [ttl EXCEPT ![p] = waits] /\ timer' = [timer EXCEPT ![p] = units]
Goto(p, place) == Sleep(p, place, 0, 0)

\* pthread_cond_signal(proxy_wakeup): lost if nobody sleeps.
Signal_proxy_wakeup ==
  IF \E p \in Proxy : Asleep(p)
  THEN \E p \in Proxy : Asleep(p) /\ wakeup' = [wakeup EXCEPT ![p] = "signalled"]
  ELSE UNCHANGED wakeup

(***************************************************************************)
(* proxy_activation_get_map, and the request that follows it under the     *)
(* same lock.  n is ttl before the loop tests it.                          *)
(***************************************************************************)
IdleAwaited_NoTtl(n) == state # "IDLE"
IdleAwaited(n) == n > 0 /\ state # "IDLE"

WaitForIdle_CountsTwice(p, n) ==
  /\ IdleAwaited(n)
  /\ Sleep(p, "wait_idle", IF n > 1 THEN n - 2 ELSE 0, ACTIVATION_IDLE_TIMEOUT)
  /\ UNCHANGED <<state, requester, lock, gonggoVars>>

WaitForIdle(p, n) ==
  /\ IdleAwaited(n)
  /\ Sleep(p, "wait_idle", n - 1, ACTIVATION_IDLE_TIMEOUT)
  /\ UNCHANGED <<state, requester, lock, gonggoVars>>

SendRequest_Barges(p) ==
  /\ state' = "REQUEST" /\ requester' = p /\ gonggo_timer' = delay
  /\ Goto(p, "request_sent")
  /\ UNCHANGED <<lock, delay, patience, granted>>

SendRequest(p) ==
  /\ state = "IDLE"
  /\ state' = "REQUEST" /\ requester' = p /\ gonggo_timer' = delay
  /\ Goto(p, "request_sent")
  /\ UNCHANGED <<lock, delay, patience, granted>>

\* The memory is unmapped and then unlocked: the proxy crashes, or goes on if
\* something else has been mapped there.
Busy(p, n) ==
  /\ n = 0 /\ state # "IDLE"
  /\ \E end \in {"crashed", "busy"} : Goto(p, end)
  /\ lock' = "kept"
  /\ UNCHANGED <<state, requester, gonggoVars>>

IdleTest(p, n) == WaitForIdle(p, n) \/ SendRequest(p) \/ Busy(p, n)

proxy_activation_get_map(p) ==
  /\ pc[p] = "get_map" /\ lock = "free"
  /\ IdleTest(p, ACTIVATION_IDLE_TTL)

WakeForIdle(p) ==
  /\ Woken(p, "wait_idle") /\ lock = "free"
  /\ ~(wakeup[p] = "timedout" /\ ttl[p] = 0)
  /\ IdleTest(p, ttl[p])

\* The last wait has timed out: the lock is not released.
LastTimeout(p) ==
  /\ Woken(p, "wait_idle") /\ lock = "free"
  /\ wakeup[p] = "timedout" /\ ttl[p] = 0
  /\ Goto(p, "busy") /\ lock' = "kept"
  /\ UNCHANGED <<state, requester, gonggoVars>>

\* EOWNERDEAD, wherever the lock is taken: the memory is unmapped under it.
OutOfService(p) ==
  /\ lock = "orphaned"
  /\ pc[p] \in {"get_map", "request_sent"} \/ (pc[p] \in Waiting /\ wakeup[p] # "none")
  /\ Goto(p, "out_of_service") /\ lock' = "kept"
  /\ UNCHANGED <<state, requester, gonggoVars>>
-----------------------------------------------------------------------------
(* proxy_activate, from its second lock on.                                *)

ReadVerdict_NoDone(p) ==
  /\ Goto(p, IF state = "SUCCESS" THEN "active" ELSE "refused")
  /\ UNCHANGED <<state, requester, lock, gonggoVars>>

ReadVerdict_TimeoutRefuses(p) ==
  /\ IF state = "SUCCESS"
     THEN state' = "DONE" /\ gonggo_timer' = 0
            /\ Goto(p, IF wakeup[p] = "timedout" THEN "refused" ELSE "active")
     ELSE UNCHANGED <<state, gonggo_timer>> /\ Goto(p, "refused")
  /\ UNCHANGED <<requester, lock, delay, patience, granted>>

ReadVerdict(p) ==
  /\ IF state = "SUCCESS"
     THEN state' = "DONE" /\ gonggo_timer' = 0 /\ Goto(p, "active")
     ELSE UNCHANGED <<state, gonggo_timer>> /\ Goto(p, "refused")
  /\ UNCHANGED <<requester, lock, delay, patience, granted>>

proxy_activate(p) ==
  /\ pc[p] = "request_sent" /\ lock = "free"
  /\ IF state = "REQUEST"
     THEN Sleep(p, "wait_verdict", 0, ACTIVATION_REQUEST_RESPOND_TIMEOUT)
            /\ UNCHANGED <<state, requester, lock, gonggoVars>>
     ELSE ReadVerdict(p)

WakeForVerdict(p) == Woken(p, "wait_verdict") /\ lock = "free" /\ ReadVerdict(p)

TimesOut_NotForVerdict(p) == pc[p] = "wait_idle" /\ wakeup[p] = "none" /\ timer[p] = 0
TimesOut(p) == Asleep(p) /\ timer[p] = 0

TimeOut(p) ==
  /\ TimesOut(p)
  /\ wakeup' = [wakeup EXCEPT ![p] = "timedout"]
  /\ UNCHANGED <<state, requester, lock, pc, ttl, timer, gonggoVars>>

\* A proxy is killed, in a critical section or outside.
Kill(p) ==
  /\ pc[p] \notin Ended /\ Goto(p, "killed")
  /\ \/ UNCHANGED lock
     \/ lock = "free" /\ ~Asleep(p) /\ lock' = "orphaned"
  /\ UNCHANGED <<state, requester, gonggoVars>>
-----------------------------------------------------------------------------
(* gonggo, from how proxyactivator.c uses it.                              *)

GonggoAnswers ==
  /\ lock = "free" /\ state = "REQUEST"
  /\ state' \in Verdicts /\ gonggo_timer' \in patience
  /\ granted' = IF state' = "SUCCESS" THEN granted \cup {requester} ELSE granted \ {requester}
  /\ Signal_proxy_wakeup
  /\ UNCHANGED <<requester, lock, pc, ttl, timer, delay, patience>>

\* The verdict is acknowledged, or has been kept long enough.
GonggoIdles ==
  /\ lock = "free"
  /\ \/ state = "DONE" /\ UNCHANGED granted
     \/ state \in Verdicts /\ gonggo_timer = 0 /\ granted' = granted \ {requester}
  /\ state' = "IDLE" /\ requester' = NoProxy /\ gonggo_timer' = 0
  /\ Signal_proxy_wakeup
  /\ UNCHANGED <<lock, pc, ttl, timer, delay, patience>>
-----------------------------------------------------------------------------
\* What is not a matter of seconds is done before time passes.
Urgent ==
  \/ \E p \in Proxy : pc[p] = "request_sent"
  \/ \E p \in Proxy : TimesOut(p) \/ (pc[p] \in Waiting /\ wakeup[p] # "none")
  \/ state = "DONE" \/ (state # "IDLE" /\ gonggo_timer = 0)

Tick ==
  /\ lock = "free" /\ ~Urgent
  /\ timer' = [p \in Proxy |-> IF Asleep(p) /\ timer[p] > 0 THEN timer[p] - 1 ELSE timer[p]]
  /\ gonggo_timer' = IF state = "IDLE" THEN 0 ELSE gonggo_timer - 1
  /\ UNCHANGED <<state, requester, lock, pc, wakeup, ttl, delay, patience, granted>>

ProxyNext(p) ==
  \/ proxy_activation_get_map(p) \/ WakeForIdle(p) \/ LastTimeout(p) \/ OutOfService(p)
  \/ proxy_activate(p) \/ WakeForVerdict(p) \/ TimeOut(p)
GonggoNext == GonggoAnswers \/ GonggoIdles

Next == (\E p \in Proxy : ProxyNext(p) \/ Kill(p)) \/ GonggoNext \/ Tick

Spec == Init /\ [][Next]_vars

(***************************************************************************)
(* Fairness: runnable proxies are scheduled, gonggo serves, time passes.   *)
(***************************************************************************)
FairSpec ==
  /\ Spec
  /\ \A p \in Proxy : WF_vars(ProxyNext(p))
  /\ WF_vars(GonggoNext) /\ WF_vars(Tick)
-----------------------------------------------------------------------------
TypeOK ==
  /\ state \in {"IDLE", "REQUEST", "DONE"} \cup Verdicts
  /\ requester \in Proxy \cup {NoProxy}
  /\ lock \in {"free", "orphaned", "kept"}
  /\ pc \in [Proxy -> Ended \cup Waiting \cup {"get_map", "request_sent"}]
  /\ wakeup \in [Proxy -> {"none", "signalled", "timedout"}]
  /\ ttl \in [Proxy -> 0..ACTIVATION_IDLE_TTL]
  /\ timer \in [Proxy -> Nat]
  /\ delay \in 0..GonggoDelay /\ patience \in GonggoPatience /\ gonggo_timer \in Nat
  /\ granted \subseteq Proxy

\* What a proxy logs when it reads ACTIVATION_SUCCESS: that gonggo answers this
\* proxy with it (proxyactivator.c:79).
Active == {p \in Proxy : pc[p] = "active"}
SuccessIsForReader == Active \subseteq granted

\* A proxy takes itself for activated only if gonggo counts it as active: while
\* gonggo is patient the verdict a proxy reads in the shared state word is its
\* own, though it does not look whose it is (proxyactivator.c:63).
VerdictIsOwn == Patient => SuccessIsForReader

\* gonggo counts nobody as active who has given up, died or been turned away:
\* when no verdict is pending its active proxies are those that take themselves
\* for activated, whenever they read the verdict (proxyactivator.c:83), while
\* gonggo is patient.
GrantsAreTaken ==
  Patient => \A p \in granted : p \in Active \/ (p = requester /\ state = "SUCCESS")

\* However impatient gonggo is, a grant is taken up once at most, and by one
\* proxy: gonggo counts as many proxies as are active, besides the one whose
\* SUCCESS nobody has read, whoever of those that wait for a verdict reads it.
GrantsAreCounted ==
  Cardinality(granted) = Cardinality(Active) + (IF state = "SUCCESS" THEN 1 ELSE 0)

\* Of two proxies none is turned away as busy while gonggo answers at once, and
\* waits for an acknowledgement less than a proxy waits for its turn, even when
\* the other is killed in the middle of its activation and when the wake-ups of
\* one are taken by the other (proxyactivator.c:128).
Participants == {p \in Proxy : pc[p] # "absent"}
TwoAtOnce ==
  /\ delay = 0
  /\ \A units \in patience : units + 1 < ACTIVATION_IDLE_TTL * ACTIVATION_IDLE_TIMEOUT
  /\ \E p, q \in Proxy : Participants \subseteq {p, q}
ServedInTurn == TwoAtOnce => \A p \in Proxy : pc[p] \notin {"busy", "crashed"}

\* Stolen wake-ups, time-outs, kills and all: the memory serves the proxies one
\* at a time, a grant is taken up once by a proxy that has asked and not been
\* answered, and by no other than the one it is for while gonggo is patient
\* (ActivationTurns).
Talk ==
  CASE state = "IDLE" -> "none"
    [] state = "REQUEST" -> "asked"
    [] state = "SUCCESS" -> "granted"
    [] OTHER -> "over"
Pending == {p \in Proxy : pc[p] \in {"request_sent", "wait_verdict"}}

Turns == INSTANCE ActivationTurns
           WITH talk <- Talk, asking <- requester, pending <- Pending, active <- Active,
                patient <- Patient
TurnsKept == Turns!Spec

\* Every activation comes to an end while nobody keeps the lock: no signal is
\* needed for it, those a proxy loses to others are made up by its time-outs.
ActivationEnds ==
  [](lock = "free") => \A p \in Proxy : <>(pc[p] \in Ended)

\* A proxy that turns away leaves the lock to the others, with which it races
\* (proxyactivator.c:129).
BusyLeavesTheLock == (\E p \in Proxy : pc[p] = "busy") => lock = "free"
=============================================================================
