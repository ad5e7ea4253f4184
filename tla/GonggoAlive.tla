----------------------------- MODULE GonggoAlive -----------------------------
(***************************************************************************)
(* How the proxies of one gonggo learn that it has gone (gonggoalive.c).   *)
(* gonggo keeps a robust mutex of a shared memory locked while it lives;   *)
(* the gonggo_alive thread of every proxy waits for that mutex.  Each      *)
(* proxy is a process, so one mutex serves them all.                       *)
(*                                                                         *)
(* A robust mutex whose owner dies is given to the next process that locks *)
(* it with EOWNERDEAD; unlocked without pthread_mutex_consistent, it is    *)
(* ENOTRECOVERABLE for good.                                               *)
(***************************************************************************)
EXTENDS FiniteSets, Naturals

CONSTANTS
  Proxies,  \* the proxy processes that watch gonggo
  Gonggo,   \* gonggo, as an owner of the mutex
  Nobody,   \* the owner of a free mutex
  Faults    \* what may happen besides a crash of gonggo, a subset of FaultKinds

\* "late": a proxy is started on the mutex a dead owner left; "kill": a proxy is
\* killed.
FaultKinds == {"late", "kill"}

ASSUME AliveAssumption ==
  /\ Gonggo \notin Proxies /\ Nobody \notin Proxies /\ Gonggo # Nobody
  /\ Faults \subseteq FaultKinds

VARIABLES
  gonggo,          \* "starting": about to lock; "running"; "left": ended; "crashed"
  owner, mutex,    \* who holds the mutex; its robustness state
  alive,           \* the flag beside the mutex
  pc,              \* of the gonggo_alive thread of each proxy
  cancelled,       \* main has called pthread_cancel
  gonggo_dead,     \* its verdict, after which the proxy stops
  unlink           \* how many of its shared memories it marks to be unlinked

gonggoVars == <<gonggo, alive>>
proxyVars  == <<pc, cancelled, gonggo_dead, unlink>>
vars == <<gonggoVars, owner, mutex, proxyVars>>

Init ==
  /\ gonggo = "starting" /\ alive = TRUE
  /\ owner = Nobody /\ mutex = "consistent"
  /\ pc = [p \in Proxies |-> "init"] /\ cancelled = [p \in Proxies |-> FALSE]
  /\ gonggo_dead = [p \in Proxies |-> FALSE]
  /\ unlink = [p \in Proxies |-> 0]

\* pthread_mutex_lock returns, with EOWNERDEAD on an inconsistent mutex.  On
\* ENOTRECOVERABLE the thread spins without a change.
Lockable == owner = Nobody /\ mutex # "unrecoverable"
-----------------------------------------------------------------------------
(* gonggo, from how gonggoalive.c uses what it leaves in the shared memory.*)

\* gonggo restores a mutex that comes from a dead proxy.
GonggoLocks ==
  /\ gonggo = "starting" /\ Lockable
  /\ gonggo' = "running" /\ owner' = Gonggo /\ mutex' = "consistent"
  /\ UNCHANGED <<alive, proxyVars>>

\* A graceful end clears the flag under the mutex.
GonggoLeaves ==
  /\ gonggo = "running"
  /\ gonggo' = "left" /\ alive' = FALSE /\ owner' = Nobody
  /\ UNCHANGED <<mutex, proxyVars>>

GonggoCrashes ==
  /\ gonggo = "running"
  /\ gonggo' = "crashed" /\ owner' = Nobody /\ mutex' = "inconsistent"
  /\ UNCHANGED <<alive, proxyVars>>
-----------------------------------------------------------------------------
(* A proxy.                                                                *)

\* gonggo_alive_create_shm tries the mutex once and keeps to a gonggo that has
\* it, or that left it free.  EOWNERDEAD is refused, but the mutex was taken
\* with it and its memory is unmapped.
gonggo_alive_create_shm(p) ==
  /\ pc[p] = "init" /\ (Lockable /\ mutex = "inconsistent" => "late" \in Faults)
  /\ LET accepted == IF owner = Nobody THEN mutex = "consistent" ELSE alive
     IN  pc' = [pc EXCEPT ![p] = IF accepted THEN "watch" ELSE "ended"]
  /\ owner' = IF Lockable /\ mutex = "inconsistent" THEN p ELSE owner
  /\ UNCHANGED <<gonggoVars, mutex, cancelled, gonggo_dead, unlink>>

AliveLocks(p) ==
  /\ pc[p] = "watch" /\ Lockable
  /\ owner' = p /\ pc' = [pc EXCEPT ![p] = "locked"]
  /\ UNCHANGED <<gonggoVars, mutex, cancelled, gonggo_dead, unlink>>

AliveConcludes_IgnoresAlive(p) ==
  /\ pc[p] = "locked"
  /\ gonggo_dead' = [gonggo_dead EXCEPT ![p] = mutex = "inconsistent"]
  /\ pc' = [pc EXCEPT ![p] = CASE gonggo_dead'[p] /\ alive -> "unlinks"
                               [] mutex = "inconsistent" /\ ~alive -> "cleanup"
                               [] OTHER -> "holding"]
  /\ UNCHANGED <<gonggoVars, owner, mutex, cancelled, unlink>>

AliveConcludes_IgnoresOwnerDead(p) ==
  /\ pc[p] = "locked"
  /\ gonggo_dead' = [gonggo_dead EXCEPT ![p] = ~alive]
  /\ pc' = [pc EXCEPT ![p] = IF mutex = "inconsistent" THEN "watch" ELSE "holding"]
  /\ UNCHANGED <<gonggoVars, owner, mutex, cancelled, unlink>>

AliveConcludes_AlwaysUnlinks(p) ==
  /\ pc[p] = "locked"
  /\ gonggo_dead' = [gonggo_dead EXCEPT ![p] = mutex = "inconsistent" \/ ~alive]
  /\ pc' = [pc EXCEPT ![p] = IF gonggo_dead'[p] THEN "unlinks" ELSE "holding"]
  /\ UNCHANGED <<gonggoVars, owner, mutex, cancelled, unlink>>

\* EOWNERDEAD or the flag tells that gonggo is dead; the flag still set, that it
\* did not die gracefully.  Only after status 0 the loop unlocks.
AliveConcludes(p) ==
  /\ pc[p] = "locked"
  /\ gonggo_dead' = [gonggo_dead EXCEPT ![p] = mutex = "inconsistent" \/ ~alive]
  /\ pc' = [pc EXCEPT ![p] = CASE gonggo_dead'[p] /\ alive -> "unlinks"
                               [] mutex = "inconsistent" /\ ~alive -> "cleanup"
                               [] OTHER -> "holding"]
  /\ UNCHANGED <<gonggoVars, owner, mutex, cancelled, unlink>>

\* The memories of the channel, the subscription and the proxy, in this order.
AliveUnlinks(p) ==
  /\ pc[p] = "unlinks" /\ unlink' = [unlink EXCEPT ![p] = @ + 1]
  /\ pc' = [pc EXCEPT ![p] = IF unlink[p] = 2 THEN "cleanup" ELSE @]
  /\ UNCHANGED <<gonggoVars, owner, mutex, cancelled, gonggo_dead>>

AliveUnlocks_Forgets(p) ==
  /\ pc[p] = "holding" /\ pc' = [pc EXCEPT ![p] = IF gonggo_dead[p] THEN "cleanup" ELSE "watch"]
  /\ UNCHANGED <<gonggoVars, owner, mutex, cancelled, gonggo_dead, unlink>>

\* After status 0: the mutex is released, and the thread sleeps.
AliveUnlocks(p) ==
  /\ pc[p] = "holding" /\ owner' = Nobody
  /\ pc' = [pc EXCEPT ![p] = IF gonggo_dead[p] THEN "cleanup" ELSE "watch"]
  /\ UNCHANGED <<gonggoVars, mutex, cancelled, gonggo_dead, unlink>>

\* main stops the proxy for a reason of its own.
gonggo_alive_stop(p) ==
  /\ pc[p] \notin {"init", "ended", "killed"} /\ ~gonggo_dead[p]
  /\ cancelled' = [cancelled EXCEPT ![p] = TRUE]
  /\ UNCHANGED <<gonggoVars, owner, mutex, pc, gonggo_dead, unlink>>

\* The cancellation is asynchronous: it hits the thread wherever it is.
AliveCancelled(p) ==
  /\ cancelled[p] /\ pc[p] \in {"watch", "locked", "unlinks", "holding"}
  /\ pc' = [pc EXCEPT ![p] = "cleanup"]
  /\ UNCHANGED <<gonggoVars, owner, mutex, cancelled, gonggo_dead, unlink>>

gonggo_alive_cleanup_NoUnlock(p) ==
  /\ pc[p] = "cleanup" /\ pc' = [pc EXCEPT ![p] = "ended"]
  /\ UNCHANGED <<gonggoVars, owner, mutex, cancelled, gonggo_dead, unlink>>

\* The cleanup handler unlocks; EPERM if another process has the mutex.
gonggo_alive_cleanup(p) ==
  /\ pc[p] = "cleanup" /\ pc' = [pc EXCEPT ![p] = "ended"]
  /\ IF owner = p
     THEN owner' = Nobody
            /\ mutex' = IF mutex = "inconsistent" THEN "unrecoverable" ELSE mutex
     ELSE UNCHANGED <<owner, mutex>>
  /\ UNCHANGED <<gonggoVars, cancelled, gonggo_dead, unlink>>

\* The process dies, perhaps with the mutex; what it knew is gone.
Kill(p) ==
  /\ "kill" \in Faults /\ pc[p] \notin {"init", "ended", "killed"}
  /\ pc' = [pc EXCEPT ![p] = "killed"] /\ cancelled' = [cancelled EXCEPT ![p] = FALSE]
  /\ gonggo_dead' = [gonggo_dead EXCEPT ![p] = FALSE] /\ unlink' = [unlink EXCEPT ![p] = 0]
  /\ IF owner = p THEN owner' = Nobody /\ mutex' = "inconsistent" ELSE UNCHANGED <<owner, mutex>>
  /\ UNCHANGED gonggoVars

ThreadNext(p) ==
  AliveLocks(p) \/ AliveConcludes(p) \/ AliveUnlinks(p) \/ AliveUnlocks(p) \/ AliveCancelled(p)
    \/ gonggo_alive_cleanup(p)
Next ==
  \/ GonggoLocks \/ GonggoLeaves \/ GonggoCrashes
  \/ \E p \in Proxies :
       gonggo_alive_create_shm(p) \/ ThreadNext(p) \/ gonggo_alive_stop(p) \/ Kill(p)

Spec == Init /\ [][Next]_vars

\* A thread is scheduled, and gets a mutex that stays free.  gonggo, which
\* competes with threads that sleep after each release, gets it in the end.
FairSpec ==
  /\ Spec
  /\ \A p \in Proxies : WF_vars(ThreadNext(p))
  /\ SF_vars(GonggoLocks)
-----------------------------------------------------------------------------
Watching(p) == pc[p] \in {"watch", "locked", "unlinks", "holding"}

\* Every variable keeps its type, and a proxy owns the mutex only where its
\* thread is bound to release it, unless it was started late.
TypeOK ==
  /\ gonggo \in {"starting", "running", "left", "crashed"} /\ alive \in BOOLEAN
  /\ owner \in Proxies \cup {Gonggo, Nobody}
  /\ mutex \in {"consistent", "inconsistent", "unrecoverable"}
  /\ pc \in [Proxies -> {"init", "watch", "locked", "unlinks", "holding", "cleanup", "ended", "killed"}]
  /\ cancelled \in [Proxies -> BOOLEAN]
  /\ gonggo_dead \in [Proxies -> BOOLEAN] /\ unlink \in [Proxies -> 0..3]
  /\ owner \in Proxies =>
       pc[owner] \in {"locked", "unlinks", "holding", "cleanup"} \/ "late" \in Faults

\* No proxy finds a gonggo dead that runs, nor one that is about to, unless
\* another proxy was killed; no memory is unlinked that a gonggo that left its
\* flag cleared would find again; and who finds a crash unlinks all three
\* memories, unless main cancels it before (gonggoalive.c:56-63, 92).
VerdictIsRight ==
  \A p \in Proxies :
    /\ gonggo_dead[p] => \/ gonggo \in {"left", "crashed"}
                         \/ gonggo = "starting" /\ \E q \in Proxies : pc[q] = "killed"
    /\ unlink[p] > 0 => gonggo_dead[p] /\ gonggo # "left"
    /\ (gonggo_dead[p] /\ gonggo = "crashed" /\ ~cancelled[p] /\ ~Watching(p)) => unlink[p] = 3

\* The threads that poll a free mutex never keep gonggo from it
\* (gonggoalive.c:70, "let gonggo regain the lock"), unless one of them died
\* with it and another has made it unrecoverable.
GonggoRegains == gonggo = "starting" ~> (gonggo # "starting" \/ mutex = "unrecoverable")

\* Every proxy that watches a gonggo that leaves stops, unless main has
\* stopped it before, or the mutex of a killed proxy was made unrecoverable.
LeavingNoticed ==
  \A p \in Proxies :
    (gonggo = "left" /\ Watching(p))
      ~> (gonggo_dead[p] \/ pc[p] \in {"ended", "killed"} \/ mutex = "unrecoverable")

\* Of the proxies that watch a gonggo that crashes, one finds out.  But one that
\* has the mutex may be cancelled before it draws its conclusion, between the
\* lines 56 and 57: then the mutex is spoilt, and nobody does.
FindingLost ==
  mutex = "unrecoverable" /\ \E p \in Proxies : pc[p] = "ended" /\ cancelled[p] /\ ~gonggo_dead[p]
CrashFound ==
  (gonggo = "crashed" /\ \E p \in Proxies : Watching(p))
    ~> ((\E p \in Proxies : gonggo_dead[p]) \/ (\A p \in Proxies : ~Watching(p)) \/ FindingLost)

\* What the comment of gonggoalive.c:59 makes of a crash, for each proxy that
\* watches: it is found, as a death that was not graceful.
CrashNoticed ==
  \A p \in Proxies : (gonggo = "crashed" /\ Watching(p)) ~> (gonggo_dead[p] \/ pc[p] = "ended")
=============================================================================
