-------------------------- MODULE Activation_proofs --------------------------
(***************************************************************************)
(* However impatient gonggo is, the proxies are served one at a time, and  *)
(* a grant is taken up once, by one that has asked.  It is the one it was  *)
(* meant for while gonggo is patient, for every number of proxies,         *)
(* whatever wake-ups they lose to one another and whoever is killed.  Two  *)
(* proxies are both served while gonggo is prompt.                         *)
(***************************************************************************)
EXTENDS Activation, TLAPS

Talks(p) == pc[p] \in {"request_sent", "wait_verdict"}

\* gonggo does not change its manners.
LEMMA PatienceStays ==
  ASSUME [Next]_vars
  PROVE  UNCHANGED <<delay, patience>>
<1>1. ASSUME NEW p \in Proxy, ProxyNext(p) \/ Kill(p) PROVE UNCHANGED <<delay, patience>>
  BY <1>1
     DEF ProxyNext, Kill, gonggoVars, proxy_activation_get_map, WakeForIdle, LastTimeout, OutOfService,
         proxy_activate, WakeForVerdict, TimeOut, IdleTest, WaitForIdle, SendRequest, Busy, ReadVerdict
<1>2. CASE GonggoNext \/ Tick \/ UNCHANGED vars
  BY <1>2 DEF GonggoNext, GonggoAnswers, GonggoIdles, Tick, vars, gonggoVars
<1> QED
  BY <1>1, <1>2 DEF Next

LEMMA PatientStays ==
  ASSUME UNCHANGED patience
  PROVE  Patient' = Patient
BY DEF Patient

(***************************************************************************)
(* The argument is about time.  A conversation belongs to one proxy, whose *)
(* name is in the memory; a patient gonggo ends it only when the proxy,    *)
(* woken or not, is gone.                                                  *)
(***************************************************************************)
OneConversation ==
  \A p \in Proxy : Talks(p) => requester = p /\ state \in {"REQUEST"} \cup Verdicts
EndsInTime ==
  \A p \in Proxy : Talks(p) => /\ timer[p] <= ACTIVATION_REQUEST_RESPOND_TIMEOUT
                               /\ state \in Verdicts => timer[p] < gonggo_timer
GrantIsKept == \A p \in Proxy : Talks(p) /\ state = "SUCCESS" => p \in granted
RequesterIsInactive ==
  state \in {"REQUEST"} \cup Verdicts => requester \in Proxy /\ pc[requester] # "active"

OwnInv == OneConversation /\ EndsInTime /\ GrantIsKept /\ SuccessIsForReader
VerdictInv == TypeOK /\ RequesterIsInactive /\ (Patient => OwnInv)

LEMMA InitVerdictInv == Init => VerdictInv
BY ActivationAssumption
   DEF Init, VerdictInv, OwnInv, TypeOK, OneConversation, EndsInTime, GrantIsKept,
       RequesterIsInactive, SuccessIsForReader, Active, Talks, Ended, Verdicts, Waiting,
       ACTIVATION_IDLE_TTL

\* A proxy that leaves, or sleeps again for its turn, disturbs nothing.
LEMMA StepsAside ==
  ASSUME VerdictInv, NEW p \in Proxy, pc[p] # "active",
         NEW place \in (Ended \ {"active"}) \cup {"wait_idle"},
         NEW waits \in 0..ACTIVATION_IDLE_TTL, NEW units \in Nat,
         Sleep(p, place, waits, units), lock' \in {"free", "orphaned", "kept"},
         UNCHANGED <<state, requester, gonggoVars>>
  PROVE  VerdictInv'
<1> USE DEF VerdictInv, gonggoVars, Talks
<1>1. TypeOK'
  BY DEF TypeOK, Sleep, Ended, Waiting, Verdicts
<1>2. ASSUME Patient PROVE OneConversation' /\ EndsInTime' /\ GrantIsKept'
  BY <1>2 DEF TypeOK, OwnInv, OneConversation, EndsInTime, GrantIsKept, Sleep, Ended, Verdicts
<1>3. RequesterIsInactive' /\ (Patient => SuccessIsForReader')
  BY DEF TypeOK, OwnInv, RequesterIsInactive, SuccessIsForReader, Active, Sleep, Ended, Verdicts
<1> QED
  BY <1>1, <1>2, <1>3 DEF OwnInv, Patient

\* The turn of a proxy: no conversation is going on when it sends its request.
LEMMA SendsRequest ==
  ASSUME VerdictInv, NEW p \in Proxy, pc[p] \in {"get_map", "wait_idle"}, SendRequest(p)
  PROVE  VerdictInv'
<1> USE DEF VerdictInv, SendRequest, Talks
<1>1. TypeOK'
  BY ActivationAssumption DEF TypeOK, Goto, Sleep, Ended, Waiting, Verdicts, ACTIVATION_IDLE_TTL
<1>2. ASSUME Patient PROVE \A q \in Proxy : ~Talks(q)
  BY <1>2 DEF OwnInv, OneConversation, Verdicts
<1>3. ASSUME Patient PROVE \A q \in Proxy : Talks(q)' => q = p
  BY <1>2, <1>3 DEF TypeOK, Goto, Sleep
<1>4. ASSUME Patient PROVE OneConversation' /\ EndsInTime' /\ GrantIsKept'
  BY <1>3, <1>4 DEF TypeOK, OneConversation, EndsInTime, GrantIsKept, Goto, Sleep, Verdicts,
                    ACTIVATION_REQUEST_RESPOND_TIMEOUT
<1>5. RequesterIsInactive' /\ (Patient => SuccessIsForReader')
  BY DEF TypeOK, OwnInv, RequesterIsInactive, SuccessIsForReader, Active, Goto, Sleep
<1> QED
  BY <1>1, <1>4, <1>5 DEF OwnInv, Patient

LEMMA TestsForIdle ==
  ASSUME VerdictInv, NEW p \in Proxy, pc[p] \in {"get_map", "wait_idle"},
         NEW n \in 0..ACTIVATION_IDLE_TTL, lock = "free", IdleTest(p, n)
  PROVE  VerdictInv'
<1>1. CASE WaitForIdle(p, n)
  <2>1. n - 1 \in 0..ACTIVATION_IDLE_TTL /\ ACTIVATION_IDLE_TIMEOUT \in Nat
    BY <1>1 DEF WaitForIdle, IdleAwaited, ACTIVATION_IDLE_TTL, ACTIVATION_IDLE_TIMEOUT
  <2> QED
    BY <1>1, <2>1, StepsAside DEF WaitForIdle
<1>2. CASE SendRequest(p)
  BY <1>2, SendsRequest
<1>3. CASE Busy(p, n)
  BY <1>3, StepsAside DEF Busy, Goto, Ended, ACTIVATION_IDLE_TTL
<1> QED
  BY <1>1, <1>2, <1>3 DEF IdleTest

\* The verdict in the memory is that of the proxy that reads it, if gonggo is
\* patient.
LEMMA ReadsVerdict ==
  ASSUME VerdictInv, NEW p \in Proxy, Talks(p), ReadVerdict(p)
  PROVE  VerdictInv'
<1>1. CASE state = "SUCCESS"
  <2> USE <1>1 DEF VerdictInv, ReadVerdict, Talks
  <2>1. TypeOK'
    BY DEF TypeOK, Goto, Sleep, Ended, Verdicts, ACTIVATION_IDLE_TTL
  <2>2. ASSUME Patient PROVE p \in granted /\ \A q \in Proxy : Talks(q) => q = p
    BY <2>2 DEF OwnInv, GrantIsKept, OneConversation
  <2>3. ASSUME Patient PROVE \A q \in Proxy : ~Talks(q)'
    BY <2>2, <2>3 DEF TypeOK, Goto, Sleep
  <2>4. ASSUME Patient PROVE OneConversation' /\ EndsInTime' /\ GrantIsKept'
    BY <2>3, <2>4 DEF OneConversation, EndsInTime, GrantIsKept
  <2>5. RequesterIsInactive'
    BY DEF RequesterIsInactive, Verdicts
  <2>6. ASSUME Patient PROVE SuccessIsForReader'
    BY <2>2, <2>6 DEF TypeOK, OwnInv, SuccessIsForReader, Active, Goto, Sleep
  <2> QED
    BY <2>1, <2>4, <2>5, <2>6 DEF OwnInv, Patient
<1>2. CASE state # "SUCCESS"
  BY <1>2, StepsAside
     DEF ReadVerdict, Goto, Ended, Talks, VerdictInv, TypeOK, gonggoVars, ACTIVATION_IDLE_TTL
<1> QED
  BY <1>1, <1>2

\* When a patient gonggo ends a conversation, the proxy has left it.
LEMMA NobodyTalks ==
  ASSUME VerdictInv, Patient, GonggoIdles, NEW p \in Proxy
  PROVE  ~Talks(p)
BY DEF VerdictInv, OwnInv, GonggoIdles, TypeOK, OneConversation, EndsInTime, Verdicts

LEMMA NextVerdictInv == VerdictInv /\ [Next]_vars => VerdictInv'
<1> SUFFICES ASSUME VerdictInv, [Next]_vars PROVE VerdictInv'
  OBVIOUS
<1> USE DEF VerdictInv
<1>1. ASSUME NEW p \in Proxy, proxy_activation_get_map(p) PROVE VerdictInv'
  BY <1>1, TestsForIdle DEF proxy_activation_get_map, ACTIVATION_IDLE_TTL
<1>2. ASSUME NEW p \in Proxy, WakeForIdle(p) PROVE VerdictInv'
  BY <1>2, TestsForIdle DEF WakeForIdle, Woken, TypeOK
<1>3. ASSUME NEW p \in Proxy, LastTimeout(p) PROVE VerdictInv'
  BY <1>3, StepsAside DEF LastTimeout, Woken, Goto, Ended, ACTIVATION_IDLE_TTL
<1>4. ASSUME NEW p \in Proxy, OutOfService(p) PROVE VerdictInv'
  BY <1>4, StepsAside DEF OutOfService, Goto, Ended, Waiting, ACTIVATION_IDLE_TTL
<1>5. ASSUME NEW p \in Proxy, Kill(p) PROVE VerdictInv'
  BY <1>5, StepsAside DEF Kill, Goto, Ended, TypeOK, ACTIVATION_IDLE_TTL
<1>6. ASSUME NEW p \in Proxy, proxy_activate(p) PROVE VerdictInv'
  <2>1. CASE state = "REQUEST"
    <3> USE <1>6, <2>1 DEF proxy_activate, Sleep, gonggoVars, Talks, Verdicts, Waiting,
              ACTIVATION_REQUEST_RESPOND_TIMEOUT, ACTIVATION_IDLE_TTL
    <3>1. TypeOK'
      BY DEF TypeOK
    <3>2. ASSUME Patient PROVE OwnInv'
      BY <3>2 DEF TypeOK, OwnInv, OneConversation, EndsInTime, GrantIsKept, SuccessIsForReader, Active
    <3>3. RequesterIsInactive'
      BY DEF TypeOK, RequesterIsInactive
    <3> QED
      BY <3>1, <3>2, <3>3 DEF Patient
  <2>2. CASE state # "REQUEST"
    BY <1>6, <2>2, ReadsVerdict DEF proxy_activate, Talks
  <2> QED
    BY <2>1, <2>2
<1>7. ASSUME NEW p \in Proxy, WakeForVerdict(p) PROVE VerdictInv'
  BY <1>7, ReadsVerdict DEF WakeForVerdict, Woken, Talks
<1>8. ASSUME NEW p \in Proxy, TimeOut(p) PROVE VerdictInv'
  <2>1. TypeOK' /\ RequesterIsInactive'
    BY <1>8 DEF TimeOut, TypeOK, RequesterIsInactive, gonggoVars
  <2>2. ASSUME Patient PROVE OwnInv'
    BY <1>8, <2>2 DEF TimeOut, OwnInv, OneConversation, EndsInTime, GrantIsKept, SuccessIsForReader,
                      Active, Talks, gonggoVars
  <2> QED
    BY <1>8, <2>1, <2>2 DEF TimeOut, gonggoVars, Patient
<1>9. CASE GonggoAnswers
  <2> USE <1>9 DEF GonggoAnswers, Talks
  <2>1. TypeOK'
    BY ActivationAssumption DEF TypeOK, Signal_proxy_wakeup, RequesterIsInactive
  <2>2. RequesterIsInactive'
    BY DEF RequesterIsInactive
  <2>3. ASSUME Patient PROVE OneConversation' /\ GrantIsKept'
    BY <2>3 DEF TypeOK, OwnInv, OneConversation, GrantIsKept
  <2>4. ASSUME Patient PROVE EndsInTime'
    <3>1. gonggo_timer' \in Nat /\ gonggo_timer' > ACTIVATION_REQUEST_RESPOND_TIMEOUT
      BY <2>4, ActivationAssumption DEF Patient, TypeOK
    <3>2. \A p \in Proxy : Talks(p) => timer[p] <= ACTIVATION_REQUEST_RESPOND_TIMEOUT
      BY <2>4 DEF OwnInv, EndsInTime
    <3> QED
      BY <3>1, <3>2 DEF EndsInTime, TypeOK, ACTIVATION_REQUEST_RESPOND_TIMEOUT
  <2>5. ASSUME Patient PROVE SuccessIsForReader'
    BY <2>5 DEF OwnInv, SuccessIsForReader, Active, RequesterIsInactive
  <2> QED
    BY <2>1, <2>2, <2>3, <2>4, <2>5 DEF OwnInv, Patient
<1>10. CASE GonggoIdles
  <2> USE <1>10 DEF GonggoIdles, Talks
  <2>1. TypeOK'
    BY DEF TypeOK, Signal_proxy_wakeup, RequesterIsInactive
  <2>2. RequesterIsInactive'
    BY DEF RequesterIsInactive, Verdicts
  <2>3. ASSUME Patient PROVE OneConversation' /\ EndsInTime' /\ GrantIsKept'
    BY <2>3, NobodyTalks DEF OneConversation, EndsInTime, GrantIsKept
  <2>4. ASSUME Patient PROVE SuccessIsForReader'
    BY <2>4 DEF OwnInv, SuccessIsForReader, Active, RequesterIsInactive, Verdicts
  <2> QED
    BY <2>1, <2>2, <2>3, <2>4 DEF OwnInv, Patient
<1>11. CASE Tick
  <2> USE <1>11 DEF Tick
  <2>1. TypeOK'
    BY DEF TypeOK, Urgent
  <2>2. \A p \in Proxy : Talks(p) => Asleep(p) /\ timer[p] > 0
    BY DEF Urgent, Talks, TimesOut, Asleep, Waiting, TypeOK
  <2>3. ASSUME Patient PROVE EndsInTime'
    BY <2>2, <2>3 DEF OwnInv, EndsInTime, Talks, TypeOK, Verdicts, ACTIVATION_REQUEST_RESPOND_TIMEOUT
  <2>4. RequesterIsInactive'
    BY DEF RequesterIsInactive
  <2>5. ASSUME Patient PROVE OneConversation' /\ GrantIsKept' /\ SuccessIsForReader'
    BY <2>5 DEF OwnInv, OneConversation, GrantIsKept, SuccessIsForReader, Active, Talks
  <2> QED
    BY <2>1, <2>3, <2>4, <2>5 DEF OwnInv, Patient
<1>12. CASE UNCHANGED vars
  BY <1>12 DEF vars, proxyVars, gonggoVars, TypeOK, OwnInv, OneConversation, EndsInTime, GrantIsKept,
               RequesterIsInactive, SuccessIsForReader, Active, Patient, Talks
<1> QED
  BY <1>1, <1>2, <1>3, <1>4, <1>5, <1>6, <1>7, <1>8, <1>9, <1>10, <1>11, <1>12
     DEF Next, ProxyNext, GonggoNext

LEMMA AlwaysVerdictInv == Spec => []VerdictInv
BY InitVerdictInv, NextVerdictInv, PTL DEF Spec

\* Every variable of the activation keeps its type: the waits a proxy has left
\* never become negative (proxyactivator.c:128).
THEOREM ActivationTypeCorrect == Spec => []TypeOK
<1>1. VerdictInv => TypeOK
  BY DEF VerdictInv
<1> QED
  BY <1>1, AlwaysVerdictInv, PTL

\* While gonggo keeps a verdict longer than a proxy waits for it, a proxy that
\* takes itself for activated has been accepted by gonggo, which has not given it
\* up since (proxyactivator.c:63-86).
THEOREM VerdictsAreOwn == Spec => []VerdictIsOwn
<1>1. VerdictInv => VerdictIsOwn
  BY DEF VerdictInv, OwnInv, VerdictIsOwn
<1> QED
  BY <1>1, AlwaysVerdictInv, PTL

\* Whoever disappears is not active, and whom gonggo counts besides is the one
\* whose verdict is pending.
LEMMA GrantsKept ==
  ASSUME VerdictInv, GrantsAreTaken, [Next]_vars
  PROVE  GrantsAreTaken'
<1> SUFFICES ASSUME Patient PROVE GrantsAreTaken'
  BY PatienceStays, PatientStays DEF GrantsAreTaken
<1> USE DEF VerdictInv, OwnInv, GrantsAreTaken, Active, gonggoVars
<1>1. ASSUME NEW p \in Proxy, Talks(p), ReadVerdict(p) PROVE GrantsAreTaken'
  BY <1>1 DEF ReadVerdict, Goto, Sleep, TypeOK, OneConversation, Talks
<1>2. ASSUME NEW p \in Proxy, NEW n, pc[p] \in {"get_map", "wait_idle"}, IdleTest(p, n)
      PROVE  GrantsAreTaken'
  BY <1>2 DEF IdleTest, WaitForIdle, SendRequest, Busy, Goto, Sleep, TypeOK
<1>3. ASSUME NEW p \in Proxy, ProxyNext(p) PROVE GrantsAreTaken'
  <2>1. CASE proxy_activation_get_map(p) \/ WakeForIdle(p)
    BY <1>2, <2>1 DEF proxy_activation_get_map, WakeForIdle, Woken
  <2>2. CASE proxy_activate(p) \/ WakeForVerdict(p)
    BY <1>1, <2>2 DEF proxy_activate, WakeForVerdict, Woken, Talks, Sleep, TypeOK
  <2>3. CASE LastTimeout(p) \/ OutOfService(p) \/ TimeOut(p)
    BY <2>3 DEF LastTimeout, OutOfService, TimeOut, Woken, Waiting, Goto, Sleep, TypeOK
  <2> QED
    BY <1>3, <2>1, <2>2, <2>3 DEF ProxyNext
<1>4. ASSUME NEW p \in Proxy, Kill(p) PROVE GrantsAreTaken'
  BY <1>4 DEF Kill, Goto, Sleep, Ended, TypeOK
<1>5. CASE GonggoNext
  BY <1>5 DEF GonggoNext, GonggoAnswers, GonggoIdles, RequesterIsInactive, Verdicts
<1>6. CASE Tick \/ UNCHANGED vars
  BY <1>6 DEF Tick, vars, proxyVars
<1> QED
  BY <1>3, <1>4, <1>5, <1>6 DEF Next

\* While gonggo keeps a verdict longer than a proxy waits for it, gonggo counts as
\* active the proxies that are, and at most the one whose SUCCESS is still to be
\* read: every grant is taken up or withdrawn (proxyactivator.c:83).
THEOREM NoGrantIsLeft == Spec => []GrantsAreTaken
<1>1. Init => GrantsAreTaken
  BY DEF Init, GrantsAreTaken
<1>2. VerdictInv /\ GrantsAreTaken /\ [Next]_vars => GrantsAreTaken'
  BY GrantsKept
<1> QED
  BY <1>1, <1>2, AlwaysVerdictInv, PTL DEF Spec
-----------------------------------------------------------------------------
(***************************************************************************)
(* Activation implements ActivationTurns: the critical sections that write *)
(* the state word are its steps, and those in which a proxy leaves without *)
(* a grant; all else is stuttering.                                        *)
(***************************************************************************)

\* Each proxy asks once, and only who has asked is granted anything.
GrantsAreAsked ==
  /\ \A p \in granted : pc[p] \notin {"absent", "get_map", "wait_idle"}
  /\ state # "IDLE" =>
       requester \in Proxy /\ pc[requester] \notin {"absent", "get_map", "wait_idle"}
  /\ state \in {"REQUEST", "FAILED", "PROXY_DYING"} => requester \notin granted

LEMMA GrantsStayAsked ==
  ASSUME TypeOK, GrantsAreAsked, [Next]_vars
  PROVE  GrantsAreAsked'
<1> USE DEF TypeOK, GrantsAreAsked, gonggoVars
<1>1. ASSUME NEW p \in Proxy, pc[p] # "absent", NEW place, place \notin {"absent", "get_map", "wait_idle"},
             NEW waits, NEW units, Sleep(p, place, waits, units),
             \/ UNCHANGED <<state, requester, granted>>
             \/ state' = "DONE" /\ UNCHANGED <<requester, granted>> /\ state = "SUCCESS"
      PROVE  GrantsAreAsked'
  BY <1>1 DEF Sleep
<1>2. ASSUME NEW p \in Proxy, NEW n, pc[p] \in {"get_map", "wait_idle"}, IdleTest(p, n)
      PROVE  GrantsAreAsked'
  <2>1. CASE WaitForIdle(p, n)
    BY <1>2, <2>1 DEF WaitForIdle, Sleep
  <2>2. CASE SendRequest(p)
    BY <1>2, <2>2 DEF SendRequest, Goto, Sleep
  <2>3. CASE Busy(p, n)
    BY <1>1, <1>2, <2>3 DEF Busy, Goto
  <2> QED
    BY <1>2, <2>1, <2>2, <2>3 DEF IdleTest
<1>3. ASSUME NEW p \in Proxy, Talks(p), ReadVerdict(p) PROVE GrantsAreAsked'
  BY <1>1, <1>3 DEF ReadVerdict, Goto, Talks
<1>4. ASSUME NEW p \in Proxy, ProxyNext(p) PROVE GrantsAreAsked'
  <2>1. CASE proxy_activation_get_map(p) \/ WakeForIdle(p)
    BY <1>2, <2>1 DEF proxy_activation_get_map, WakeForIdle, Woken
  <2>2. CASE LastTimeout(p) \/ OutOfService(p)
    BY <1>1, <2>2 DEF LastTimeout, OutOfService, Woken, Waiting, Goto
  <2>3. CASE proxy_activate(p) \/ WakeForVerdict(p)
    BY <1>1, <1>3, <2>3 DEF proxy_activate, WakeForVerdict, Woken, Talks
  <2>4. CASE TimeOut(p)
    BY <2>4 DEF TimeOut
  <2> QED
    BY <1>4, <2>1, <2>2, <2>3, <2>4 DEF ProxyNext
<1>5. ASSUME NEW p \in Proxy, Kill(p) PROVE GrantsAreAsked'
  BY <1>1, <1>5 DEF Kill, Goto, Ended
<1>6. CASE GonggoAnswers
  BY <1>6 DEF GonggoAnswers, Verdicts
<1>7. CASE GonggoIdles
  BY <1>7 DEF GonggoIdles
<1>8. CASE Tick \/ UNCHANGED vars
  BY <1>8 DEF Tick, vars, proxyVars
<1> QED
  BY <1>4, <1>5, <1>6, <1>7, <1>8 DEF Next, GonggoNext

AskedInv == VerdictInv /\ GrantsAreTaken /\ GrantsAreAsked

LEMMA AlwaysAskedInv == Spec => []AskedInv
<1>1. Init => GrantsAreAsked
  BY DEF Init, GrantsAreAsked
<1>2. VerdictInv /\ GrantsAreAsked /\ [Next]_vars => GrantsAreAsked'
  BY GrantsStayAsked DEF VerdictInv
<1> QED
  BY <1>1, <1>2, AlwaysVerdictInv, NoGrantIsLeft, PTL DEF Spec, AskedInv

\* Who does not become active, and neither asks nor leaves, changes nothing.
LEMMA ActiveStay ==
  ASSUME TypeOK, NEW p \in Proxy, pc[p] # "active", NEW place, place # "active",
         NEW waits, NEW units, Sleep(p, place, waits, units)
  PROVE  /\ Active' = Active
         /\ place \in {"request_sent", "wait_verdict"} => Pending' = Pending \cup {p}
         /\ place \notin {"request_sent", "wait_verdict"} => Pending' = Pending \ {p}
<1>1. Active' = Active
  BY DEF TypeOK, Sleep, Active
<1>2. CASE place \in {"request_sent", "wait_verdict"}
  BY <1>1, <1>2 DEF TypeOK, Sleep, Pending
<1>3. CASE place \notin {"request_sent", "wait_verdict"}
  BY <1>1, <1>3 DEF TypeOK, Sleep, Pending
<1> QED
  BY <1>1, <1>2, <1>3

\* A proxy that ends leaves, if it had asked.
LEMMA EndIsLeave ==
  ASSUME TypeOK, NEW p \in Proxy, pc[p] # "active", NEW place,
         place \notin {"active", "request_sent", "wait_verdict"},
         NEW waits, NEW units, Sleep(p, place, waits, units),
         UNCHANGED <<state, requester, granted, patience>>
  PROVE  Turns!Leave(p) \/ UNCHANGED Turns!turns
<1>1. Active' = Active /\ Pending' = Pending \ {p} /\ Talk' = Talk /\ Patient' = Patient
  BY ActiveStay, PatientStays DEF Talk
<1>2. CASE p \in Pending
  BY <1>1, <1>2 DEF Turns!Leave
<1>3. CASE p \notin Pending
  <2>1. Pending' = Pending
    BY <1>1, <1>3
  <2> QED
    BY <1>1, <2>1 DEF Turns!turns
<1> QED
  BY <1>2, <1>3

LEMMA RequestIsAsked ==
  ASSUME AskedInv, NEW p \in Proxy, pc[p] \in {"get_map", "wait_idle"}, SendRequest(p)
  PROVE  Turns!Ask(p)
<1>1. Active' = Active /\ Pending' = Pending \cup {p}
  BY ActiveStay DEF AskedInv, VerdictInv, SendRequest, Goto
<1>2. p \notin Pending \cup granted \cup Active
  BY DEF AskedInv, GrantsAreAsked, Pending, Active
<1>3. Talk = "none" /\ Talk' = "asked" /\ Patient' = Patient
  BY PatientStays DEF SendRequest, Talk
<1> QED
  BY <1>1, <1>2, <1>3 DEF Turns!Ask, SendRequest

LEMMA VerdictIsTakenUp ==
  ASSUME AskedInv, NEW p \in Proxy, Talks(p), ReadVerdict(p)
  PROVE  Turns!TakeUp(p) \/ Turns!Leave(p) \/ UNCHANGED Turns!turns
<1> USE DEF AskedInv, VerdictInv, ReadVerdict
<1>1. CASE state = "SUCCESS"
  <2>1. Patient => p = requester
    BY DEF OwnInv, OneConversation
  <2>2. Active' = Active \cup {p} /\ Pending' = Pending \ {p} /\ p \in Pending
    BY <1>1 DEF TypeOK, Goto, Sleep, Active, Pending, Talks
  <2>3. Talk = "granted" /\ Talk' = "over" /\ Patient' = Patient
    BY <1>1, PatientStays DEF Talk
  <2> QED
    BY <2>1, <2>2, <2>3 DEF Turns!TakeUp
<1>2. CASE state # "SUCCESS"
  BY <1>2, EndIsLeave DEF Goto, Talks, gonggoVars
<1> QED
  BY <1>1, <1>2

LEMMA AnswerIsVerdict ==
  ASSUME AskedInv, GonggoAnswers
  PROVE  Turns!Grant \/ Turns!Refuse
<1> USE DEF GonggoAnswers
<1>1. requester \notin granted
  BY DEF AskedInv, GrantsAreAsked
<1>2. Active' = Active /\ Pending' = Pending /\ Talk = "asked" /\ Patient' = Patient
  BY PatientStays DEF Active, Pending, Talk
<1>3. CASE state' = "SUCCESS"
  BY <1>2, <1>3 DEF Turns!Grant, Talk
<1>4. CASE state' # "SUCCESS"
  <2>1. granted' = granted /\ Talk' = "over"
    BY <1>1, <1>4 DEF Talk, Verdicts
  <2> QED
    BY <1>2, <2>1 DEF Turns!Refuse
<1> QED
  BY <1>3, <1>4

LEMMA IdleIsClose ==
  ASSUME AskedInv, GonggoIdles
  PROVE  Turns!Withdraw \/ Turns!Close
<1> USE DEF GonggoIdles
<1>1. Active' = Active /\ Pending' = Pending /\ Talk' = "none" /\ Patient' = Patient
  BY PatientStays DEF Active, Pending, Talk
<1>2. Patient => Pending = {}
  BY NobodyTalks DEF AskedInv, Pending, Talks
<1>3. CASE state = "SUCCESS"
  <2>1. Talk = "granted"
    BY <1>3 DEF Talk
  <2> QED
    BY <1>1, <1>2, <1>3, <2>1 DEF Turns!Withdraw
<1>4. CASE state # "SUCCESS"
  <2>1. Patient => granted = Active
    BY <1>4 DEF AskedInv, VerdictInv, OwnInv, TypeOK, SuccessIsForReader, GrantsAreTaken
  <2>2. granted' = granted
    BY <1>4 DEF AskedInv, GrantsAreAsked, Verdicts
  <2>3. Talk = "over"
    BY <1>4 DEF Talk, Verdicts
  <2> QED
    BY <1>1, <1>2, <2>1, <2>2, <2>3 DEF Turns!Close
<1> QED
  BY <1>3, <1>4

LEMMA StepIsTurnsStep ==
  ASSUME AskedInv, [Next]_vars
  PROVE  [Turns!Next]_(Turns!turns)
<1> USE DEF gonggoVars
<1>0. TypeOK
  BY DEF AskedInv, VerdictInv
<1>1. ASSUME NEW p \in Proxy, NEW n, pc[p] \in {"get_map", "wait_idle"}, IdleTest(p, n)
      PROVE  Turns!Next \/ UNCHANGED Turns!turns
  <2>1. CASE SendRequest(p)
    BY <1>1, <2>1, RequestIsAsked DEF Turns!Next
  <2>2. CASE WaitForIdle(p, n)
    BY <1>0, <1>1, <2>2, EndIsLeave DEF WaitForIdle, Turns!Next
  <2>3. CASE Busy(p, n)
    BY <1>0, <1>1, <2>3, EndIsLeave DEF Busy, Goto, Turns!Next
  <2> QED
    BY <1>1, <2>1, <2>2, <2>3 DEF IdleTest
<1>2. ASSUME NEW p \in Proxy, ProxyNext(p) PROVE Turns!Next \/ UNCHANGED Turns!turns
  <2>1. CASE proxy_activation_get_map(p) \/ WakeForIdle(p)
    BY <1>1, <2>1 DEF proxy_activation_get_map, WakeForIdle, Woken
  <2>2. CASE LastTimeout(p) \/ OutOfService(p)
    BY <1>0, <2>2, EndIsLeave DEF LastTimeout, OutOfService, Woken, Waiting, Goto, Turns!Next
  <2>3. CASE proxy_activate(p) /\ state = "REQUEST"
    <3>1. Active' = Active /\ Pending' = Pending /\ Talk' = Talk /\ Patient' = Patient
      BY <1>0, <2>3, PatientStays DEF proxy_activate, TypeOK, Sleep, Active, Pending, Talk
    <3> QED
      BY <2>3, <3>1 DEF proxy_activate, Turns!turns
  <2>4. CASE (proxy_activate(p) /\ state # "REQUEST") \/ WakeForVerdict(p)
    BY <2>4, VerdictIsTakenUp DEF proxy_activate, WakeForVerdict, Woken, Talks, Turns!Next
  <2>5. CASE TimeOut(p)
    BY <2>5, PatientStays DEF TimeOut, Talk, Active, Pending, Turns!turns
  <2> QED
    BY <1>2, <2>1, <2>2, <2>3, <2>4, <2>5 DEF ProxyNext
<1>3. ASSUME NEW p \in Proxy, Kill(p) PROVE Turns!Next \/ UNCHANGED Turns!turns
  BY <1>0, <1>3, EndIsLeave DEF Kill, Ended, Goto, Turns!Next
<1>4. CASE GonggoNext
  BY <1>4, AnswerIsVerdict, IdleIsClose DEF GonggoNext, Turns!Next
<1>5. CASE Tick \/ UNCHANGED vars
  BY <1>5, PatientStays DEF Tick, vars, proxyVars, Talk, Active, Pending, Turns!turns
<1> QED
  BY <1>2, <1>3, <1>4, <1>5 DEF Next

\* However impatient gonggo is, the proxies are served one at a time, and a grant
\* is taken up once, by one that has asked and waits.  It is the one it was meant
\* for, and gonggo and the proxies agree on who is active whenever a conversation
\* ends, while gonggo keeps a verdict longer than a proxy waits for it.
THEOREM ActivationImplementsTurns == Spec => TurnsKept
<1>1. Init => Turns!Init
  <2>1. Patient \in BOOLEAN
    BY DEF Patient
  <2> QED
    BY <2>1 DEF Init, Turns!Init, Talk, Active, Pending
<1>2. AskedInv /\ [Next]_vars => [Turns!Next]_(Turns!turns)
  BY StepIsTurnsStep
<1> QED
  BY <1>1, <1>2, AlwaysAskedInv, PTL DEF Spec, TurnsKept, Turns!Spec
-----------------------------------------------------------------------------
(***************************************************************************)
(* That two proxies are served in turn is an argument about time as well:  *)
(* the first conversation is over before the waits of the second proxy     *)
(* are.  A signal meant for the first costs the second one wait, and it    *)
(* has one to spare.  If it is the first that takes the signal for the     *)
(* second, which it can only while it still waits for its verdict, the     *)
(* second has a wait left and finds the idle memory after it.              *)
(***************************************************************************)

\* Units until the proxy has used up its waits.
Left(p) == ttl[p] + (IF wakeup[p] = "none" THEN timer[p] ELSE 0)

\* A proxy that waits for its turn: the other one has had its own.
WaitsInTime(p) ==
  /\ \A q \in Proxy \ {p} : pc[q] \notin {"get_map", "wait_idle"}
  /\ timer[p] <= 1
  /\ state = "REQUEST" => wakeup[p] = "none" /\ ttl[p] = 4 /\ timer[p] = 1
  /\ state \in Verdicts \cup {"DONE"} =>
       Left(p) > gonggo_timer /\ \A q \in Proxy : Talks(q) => Left(p) >= timer[q] + 2
  /\ state = "IDLE" /\ wakeup[p] = "none" => ttl[p] > 0
  /\ wakeup[p] = "timedout" => ttl[p] > 0

VerdictsAreAwaited ==
  \A p \in Proxy : Talks(p) => timer[p] <= ACTIVATION_REQUEST_RESPOND_TIMEOUT
GonggoIsPrompt ==
  /\ state \in {"REQUEST", "DONE"} => gonggo_timer = 0
  /\ gonggo_timer < 4
RequesterHasAsked ==
  state # "IDLE" => requester \in Proxy /\ pc[requester] \notin {"absent", "get_map", "wait_idle"}

EverybodyWaitsInTime == \A p \in Proxy : pc[p] = "wait_idle" => WaitsInTime(p)
NobodyIsTurnedAway == \A p \in Proxy : pc[p] \notin {"busy", "crashed"}

InTurn ==
  /\ VerdictsAreAwaited /\ GonggoIsPrompt /\ RequesterHasAsked
  /\ EverybodyWaitsInTime /\ NobodyIsTurnedAway
TurnInv == TwoAtOnce => InTurn

LEMMA InitInTurn == Init => InTurn
BY DEF Init, InTurn, VerdictsAreAwaited, Talks, GonggoIsPrompt, RequesterHasAsked, EverybodyWaitsInTime, NobodyIsTurnedAway

\* Nobody joins late, and gonggo keeps its pace.
LEMMA TwoRemain ==
  ASSUME TypeOK, [Next]_vars
  PROVE  TwoAtOnce' <=> TwoAtOnce
<1>1. \A p \in Proxy : pc'[p] = "absent" <=> pc[p] = "absent"
  <2>1. ASSUME NEW p \in Proxy, ProxyNext(p) \/ Kill(p)
        PROVE  \A q \in Proxy : pc'[q] = "absent" <=> pc[q] = "absent"
    BY <2>1
       DEF TypeOK, ProxyNext, Kill, Ended, Waiting, Woken, Asleep, Goto, Sleep, TimesOut,
           proxy_activation_get_map, WakeForIdle, LastTimeout, OutOfService, proxy_activate,
           WakeForVerdict, TimeOut, IdleTest, WaitForIdle, SendRequest, Busy, ReadVerdict
  <2>2. CASE GonggoNext \/ Tick \/ UNCHANGED vars
    BY <2>2 DEF GonggoNext, GonggoAnswers, GonggoIdles, Tick, vars, proxyVars
  <2> QED
    BY <2>1, <2>2 DEF Next
<1>2. Participants' = Participants
  BY <1>1 DEF Participants
<1> QED
  BY <1>2, PatienceStays DEF TwoAtOnce

\* The two of them: one waits, the other has asked, and there is nobody else.
LEMMA TheOtherHasAsked ==
  ASSUME TwoAtOnce, RequesterHasAsked, state # "IDLE",
         NEW p \in Proxy, pc[p] \in {"get_map", "wait_idle"}, NEW q \in Proxy, q # p
  PROVE  pc[q] \notin {"get_map", "wait_idle"}
<1>1. PICK r, s \in Proxy : Participants \subseteq {r, s}
  BY DEF TwoAtOnce
<1>2. p \in Participants /\ requester \in Participants /\ requester # p
  BY DEF Participants, RequesterHasAsked
<1> QED
  BY <1>1, <1>2 DEF Participants, RequesterHasAsked

\* A proxy that ends without being turned away, or waits for its verdict.
LEMMA LeavesTheOther ==
  ASSUME TypeOK, TwoAtOnce, InTurn, NEW p \in Proxy, pc[p] # "absent",
         NEW place \in {"active", "refused", "out_of_service", "killed", "wait_verdict"},
         NEW waits, NEW units, Sleep(p, place, waits, units),
         place = "wait_verdict" =>
           state = "REQUEST" /\ units = ACTIVATION_REQUEST_RESPOND_TIMEOUT,
         UNCHANGED <<state, requester, gonggo_timer>>
  PROVE  InTurn'
<1> USE DEF TypeOK, InTurn, Sleep, Talks
<1>1. GonggoIsPrompt' /\ RequesterHasAsked' /\ NobodyIsTurnedAway'
  BY DEF GonggoIsPrompt, RequesterHasAsked, NobodyIsTurnedAway
<1>0. VerdictsAreAwaited'
  BY DEF VerdictsAreAwaited, ACTIVATION_REQUEST_RESPOND_TIMEOUT
<1>2. EverybodyWaitsInTime'
  BY DEF EverybodyWaitsInTime, WaitsInTime, Left, Verdicts
<1> QED
  BY <1>0, <1>1, <1>2

LEMMA TestsInTurn ==
  ASSUME TypeOK, TwoAtOnce, InTurn, NEW p \in Proxy, pc[p] \in {"get_map", "wait_idle"},
         NEW n \in 0..ACTIVATION_IDLE_TTL, IdleTest(p, n),
         state # "IDLE" => /\ state = "REQUEST" => n = ACTIVATION_IDLE_TTL
                           /\ n > gonggo_timer
                           /\ \A q \in Proxy : Talks(q) => n >= timer[q] + 2
  PROVE  InTurn'
<1> USE DEF TypeOK, InTurn, Talks
<1>1. CASE WaitForIdle(p, n)
  <2> USE <1>1 DEF WaitForIdle, IdleAwaited, Sleep, gonggoVars
  <2>1. GonggoIsPrompt' /\ NobodyIsTurnedAway' /\ VerdictsAreAwaited'
    BY DEF GonggoIsPrompt, NobodyIsTurnedAway, VerdictsAreAwaited
  <2>2. RequesterHasAsked'
    BY DEF RequesterHasAsked
  <2>3. \A q \in Proxy \ {p} : pc[q] \notin {"get_map", "wait_idle"}
    BY TheOtherHasAsked
  <2>4. WaitsInTime(p)'
    BY <2>3 DEF WaitsInTime, Left, ACTIVATION_IDLE_TTL, ACTIVATION_IDLE_TIMEOUT
  <2>5. EverybodyWaitsInTime'
    BY <2>3, <2>4 DEF EverybodyWaitsInTime
  <2> QED
    BY <2>1, <2>2, <2>5
<1>2. CASE SendRequest(p)
  <2> USE <1>2 DEF SendRequest, Goto, Sleep
  <2>1. GonggoIsPrompt' /\ NobodyIsTurnedAway' /\ RequesterHasAsked'
    BY DEF GonggoIsPrompt, NobodyIsTurnedAway, RequesterHasAsked, TwoAtOnce
  <2>3. VerdictsAreAwaited'
    BY DEF VerdictsAreAwaited, ACTIVATION_REQUEST_RESPOND_TIMEOUT
  <2>2. \A q \in Proxy : pc'[q] # "wait_idle"
    BY DEF EverybodyWaitsInTime, WaitsInTime
  <2> QED
    BY <2>1, <2>2, <2>3 DEF EverybodyWaitsInTime
<1>3. CASE Busy(p, n)
  BY <1>3 DEF Busy
<1> QED
  BY <1>1, <1>2, <1>3 DEF IdleTest

LEMMA NextInTurn ==
  ASSUME TypeOK, TwoAtOnce, InTurn, [Next]_vars
  PROVE  InTurn'
<1> USE DEF InTurn
<1>0. \A units \in patience : units \in Nat /\ units < 4
  BY ActivationAssumption DEF TypeOK, TwoAtOnce, ACTIVATION_IDLE_TTL, ACTIVATION_IDLE_TIMEOUT
<1>1. ASSUME NEW p \in Proxy, proxy_activation_get_map(p) PROVE InTurn'
  BY <1>1, TestsInTurn
     DEF proxy_activation_get_map, ACTIVATION_IDLE_TTL, GonggoIsPrompt, TypeOK, VerdictsAreAwaited,
         ACTIVATION_REQUEST_RESPOND_TIMEOUT
<1>2. ASSUME NEW p \in Proxy, WakeForIdle(p) PROVE InTurn'
  <2>1. WaitsInTime(p) /\ wakeup[p] # "none"
    BY <1>2 DEF EverybodyWaitsInTime, WakeForIdle, Woken
  <2>2. state # "IDLE" => /\ state # "REQUEST" /\ ttl[p] > gonggo_timer
                          /\ \A q \in Proxy : Talks(q) => ttl[p] >= timer[q] + 2
    BY <2>1 DEF WaitsInTime, Left, TypeOK
  <2> QED
    BY <1>2, <2>2, TestsInTurn DEF WakeForIdle, Woken, TypeOK
<1>3. ASSUME NEW p \in Proxy, LastTimeout(p) PROVE InTurn'
  BY <1>3 DEF LastTimeout, Woken, EverybodyWaitsInTime, WaitsInTime
<1>4. ASSUME NEW p \in Proxy, OutOfService(p) PROVE InTurn'
  BY <1>4, LeavesTheOther DEF OutOfService, Goto, gonggoVars, Waiting
<1>5. ASSUME NEW p \in Proxy, Kill(p) PROVE InTurn'
  BY <1>5, LeavesTheOther DEF Kill, Goto, gonggoVars, Ended
<1>6. ASSUME NEW p \in Proxy, Talks(p), ReadVerdict(p) PROVE InTurn'
  <2>1. CASE state = "SUCCESS"
    <3> USE <1>6, <2>1 DEF ReadVerdict, Goto, Sleep, TypeOK, Talks, Verdicts
    <3>1. GonggoIsPrompt' /\ RequesterHasAsked' /\ NobodyIsTurnedAway' /\ VerdictsAreAwaited'
      BY DEF GonggoIsPrompt, RequesterHasAsked, NobodyIsTurnedAway, VerdictsAreAwaited
    <3>2. EverybodyWaitsInTime'
      BY DEF EverybodyWaitsInTime, WaitsInTime, Left
    <3> QED
      BY <3>1, <3>2
  <2>2. CASE state # "SUCCESS"
    BY <1>6, <2>2, LeavesTheOther DEF ReadVerdict, Goto, Talks
  <2> QED
    BY <2>1, <2>2
<1>7. ASSUME NEW p \in Proxy, proxy_activate(p) PROVE InTurn'
  BY <1>6, <1>7, LeavesTheOther DEF proxy_activate, gonggoVars, Talks
<1>8. ASSUME NEW p \in Proxy, WakeForVerdict(p) PROVE InTurn'
  BY <1>6, <1>8 DEF WakeForVerdict, Woken, Talks
<1>9. ASSUME NEW p \in Proxy, TimeOut(p) PROVE InTurn'
  <2> USE <1>9 DEF TimeOut, TimesOut, Asleep, gonggoVars, TypeOK
  <2>1. GonggoIsPrompt' /\ RequesterHasAsked' /\ NobodyIsTurnedAway' /\ VerdictsAreAwaited'
    BY DEF GonggoIsPrompt, RequesterHasAsked, NobodyIsTurnedAway, VerdictsAreAwaited, Talks
  <2>2. ASSUME NEW q \in Proxy, pc[q] = "wait_idle" PROVE WaitsInTime(q)'
    BY <2>2 DEF EverybodyWaitsInTime, WaitsInTime, Left, Verdicts, Talks
  <2> QED
    BY <2>1, <2>2 DEF EverybodyWaitsInTime
<1>10. CASE GonggoAnswers
  <2> USE <1>10 DEF GonggoAnswers, TypeOK
  <2>1. GonggoIsPrompt' /\ RequesterHasAsked' /\ NobodyIsTurnedAway' /\ VerdictsAreAwaited'
    BY <1>0 DEF GonggoIsPrompt, RequesterHasAsked, NobodyIsTurnedAway, Verdicts, VerdictsAreAwaited,
                Talks
  <2>2. ASSUME NEW q \in Proxy, pc[q] = "wait_idle" PROVE WaitsInTime(q)'
    <3>1. WaitsInTime(q)
      BY <2>2 DEF EverybodyWaitsInTime
    <3>2. wakeup'[q] \in {"none", "signalled"}
      BY <3>1 DEF WaitsInTime, Signal_proxy_wakeup
    <3>3. Left(q)' > gonggo_timer'
      BY <1>0, <3>1, <3>2 DEF WaitsInTime, Left
    <3>4. ASSUME NEW p \in Proxy, Talks(p)' PROVE Left(q)' >= timer'[p] + 2
      BY <3>1, <3>2, <3>4
         DEF WaitsInTime, Left, VerdictsAreAwaited, Talks, ACTIVATION_REQUEST_RESPOND_TIMEOUT
    <3> QED
      BY <3>1, <3>2, <3>3, <3>4 DEF WaitsInTime, Verdicts
  <2> QED
    BY <2>1, <2>2 DEF EverybodyWaitsInTime
<1>11. CASE GonggoIdles
  <2> USE <1>11 DEF GonggoIdles, TypeOK
  <2>1. GonggoIsPrompt' /\ RequesterHasAsked' /\ NobodyIsTurnedAway' /\ VerdictsAreAwaited'
    BY DEF GonggoIsPrompt, RequesterHasAsked, NobodyIsTurnedAway, VerdictsAreAwaited, Talks
  <2>2. ASSUME NEW q \in Proxy, pc[q] = "wait_idle" PROVE WaitsInTime(q)'
    <3>1. WaitsInTime(q)
      BY <2>2 DEF EverybodyWaitsInTime
    <3>2. wakeup'[q] = "timedout" => wakeup[q] = "timedout"
      BY DEF Signal_proxy_wakeup
    <3>3. ASSUME wakeup'[q] = "none" PROVE ttl[q] > 0
      <4>1. wakeup[q] = "none" /\ Asleep(q)
        BY <2>2, <3>3 DEF Signal_proxy_wakeup, Asleep, Waiting
      <4>2. PICK p \in Proxy : Asleep(p) /\ wakeup' = [wakeup EXCEPT ![p] = "signalled"]
        BY <4>1 DEF Signal_proxy_wakeup
      <4>3. p # q
        BY <3>3, <4>2
      <4>4. Talks(p)
        BY <3>1, <4>2, <4>3 DEF WaitsInTime, Asleep, Waiting, Talks
      <4>5. Left(q) >= timer[p] + 2
        BY <3>1, <4>4 DEF WaitsInTime
      <4> QED
        BY <3>1, <4>1, <4>5 DEF WaitsInTime, Left
    <3> QED
      BY <3>1, <3>2, <3>3 DEF WaitsInTime, Verdicts
  <2> QED
    BY <2>1, <2>2 DEF EverybodyWaitsInTime
<1>12. CASE Tick
  <2> USE <1>12 DEF Tick, TypeOK
  <2>1. state # "REQUEST" /\ state # "DONE"
    BY DEF Urgent, GonggoIsPrompt
  <2>2. GonggoIsPrompt' /\ RequesterHasAsked' /\ NobodyIsTurnedAway'
    BY <2>1 DEF GonggoIsPrompt, RequesterHasAsked, NobodyIsTurnedAway
  <2>4. \A p \in Proxy : Talks(p) => timer'[p] = timer[p] - 1
    BY DEF Urgent, Talks, TimesOut, Asleep, Waiting
  <2>5. VerdictsAreAwaited'
    BY <2>4 DEF VerdictsAreAwaited, Talks, ACTIVATION_REQUEST_RESPOND_TIMEOUT
  <2>3. ASSUME NEW q \in Proxy, pc[q] = "wait_idle" PROVE WaitsInTime(q)'
    <3>1. WaitsInTime(q) /\ Asleep(q) /\ timer[q] > 0
      BY <2>3 DEF EverybodyWaitsInTime, Urgent, TimesOut, Asleep, Waiting
    <3>2. Left(q)' = Left(q) - 1 /\ timer'[q] = timer[q] - 1
      BY <3>1 DEF Left, Asleep
    <3>3. ASSUME state \in Verdicts PROVE Left(q)' > gonggo_timer'
      BY <3>1, <3>2, <3>3 DEF WaitsInTime, Left, Verdicts
    <3>4. ASSUME state \in Verdicts, NEW p \in Proxy, Talks(p)' PROVE Left(q)' >= timer'[p] + 2
      BY <2>4, <3>1, <3>2, <3>4 DEF WaitsInTime, Left, Talks
    <3> QED
      BY <2>1, <3>1, <3>2, <3>3, <3>4 DEF WaitsInTime
  <2> QED
    BY <2>2, <2>3, <2>5 DEF EverybodyWaitsInTime
<1>13. CASE UNCHANGED vars
  BY <1>13 DEF vars, proxyVars, gonggoVars, VerdictsAreAwaited, Talks, GonggoIsPrompt, RequesterHasAsked, NobodyIsTurnedAway,
               EverybodyWaitsInTime, WaitsInTime, Left
<1> QED
  BY <1>1, <1>2, <1>3, <1>4, <1>5, <1>7, <1>8, <1>9, <1>10, <1>11, <1>12, <1>13
     DEF Next, ProxyNext, GonggoNext

\* Of two proxies none is turned away as busy while gonggo answers at once and
\* waits for an acknowledgement, if at all, less than a proxy waits for its turn
\* (delay 0, every unit of patience below 4), whichever of them loses a signal to
\* the other or is killed (proxyactivator.c:128).
THEOREM TwoAreServed == Spec => []ServedInTurn
<1>1. Init => TurnInv
  BY InitInTurn DEF TurnInv
<1>2. TypeOK /\ TurnInv /\ [Next]_vars => TurnInv'
  BY NextInTurn, TwoRemain DEF TurnInv
<1>3. TurnInv => ServedInTurn
  BY DEF TurnInv, InTurn, NobodyIsTurnedAway, ServedInTurn
<1> QED
  BY <1>1, <1>2, <1>3, ActivationTypeCorrect, PTL DEF Spec
=============================================================================
