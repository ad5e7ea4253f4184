-------------------------- MODULE Lifecycle_proofs --------------------------
(***************************************************************************)
(* What holds over all lives of a proxy, whatever fails and whenever it is *)
(* killed.  The strengthening says, for every place of main, what has been *)
(* acquired so far, which threads exist, what they were told, what is left *)
(* in the memories, and what gonggo was told.                              *)
(***************************************************************************)
EXTENDS Lifecycle, TLAPS

\* The first n threads, or contexts, in the order of work.c.
First(n) == {ThreadOrder[i] : i \in 1..n}

Starting == {"work", "sigaction", "alive_mutex", "context"}
Serving == {"create", "wait", "lock", "activate", "pause", "die", "stop", "join"}
Emptied == {"destroy", "clean_up", "stopped"}

TurnInv ==
  main_pc \in {"work", "sigaction", "alive_mutex", "lock", "activate", "pause", "die"} => turn = 1

HeldInv ==
  /\ main_pc \in {"work", "failed", "stopped", "killed"} => held = {}
  /\ main_pc \in {"sigaction", "refused"} => held = {"uuid", "log"}
  /\ main_pc = "alive_mutex" => held = Resources \ {"alive_mutex"}
  /\ main_pc = "context" => held = Resources \cup First(turn - 1)
  /\ main_pc \in Serving => held = Resources \cup Threads
  /\ main_pc = "destroy" => held = Resources \cup (Threads \ First(turn - 1))
  /\ main_pc = "clean_up" => held = Resources

\* Which threads exist, are past their start, or are over.
ThreadInv ==
  /\ main_pc \in Starting \cup {"refused", "failed", "killed"}
       => \A t \in Threads : thread[t] = "none"
  /\ main_pc \in {"create", "wait"} => \A t \in First(turn - 1) : IsStarted(t)
  /\ main_pc = "create" => \A t \in Threads \ First(turn - 1) : thread[t] = "none"
  /\ main_pc = "wait" => \A t \in Threads \ First(turn) : thread[t] = "none"
  /\ main_pc \in {"lock", "activate", "pause"} => \A t \in Threads : IsStarted(t)
  /\ main_pc \in {"die", "stop", "join"} => \A t \in Threads : thread[t] # "created"
  /\ main_pc = "join" => \A t \in First(turn - 1) : ~Live(t)
  /\ main_pc \in Emptied => \A t \in Threads : ~Live(t)

\* The channel thread is told to end before the comm thread, at a moment when it
\* runs no callback, and takes no request afterwards.
ToldInv ==
  /\ \A t \in {"subscribe", "alive"} : thread[t] # "callback"
  /\ thread["comm"] \in {"f_stop", "ended"} => "comm" \in ended
  /\ "channel" \in ended => thread["channel"] # "callback"
  /\ main_pc \in Starting \cup (Serving \ {"stop", "join"}) => ended = {}
  /\ "comm" \in ended => main_pc # "stop"
  /\ main_pc = "stop" /\ turn = 1 => ended = {}
  /\ main_pc \in {"stop", "join"} \cup Emptied =>
       (main_pc = "stop" /\ turn = 1) \/ thread["channel"] = "none" \/ "channel" \in ended

\* How the death of gonggo is found, and how far the flags are set.
DeathInv ==
  /\ gonggo_dead => gonggo # "alive"
  /\ unlink # {} => gonggo = "crashed"
  /\ unlink \in {{}, {"channel"}, {"channel", "subscribe"}, Files}
  /\ thread["alive"] \in {"unlinks", "kills"} => gonggo_dead
  /\ thread["alive"] = "unlinks" => gonggo = "crashed"
  /\ main_pc \in Starting \cup Serving /\ thread["alive"] \in {"none", "created", "running"} =>
       ~gonggo_dead /\ unlink = {}
  /\ gonggo = "crashed" /\ gonggo_dead /\ ~cancelled /\ thread["alive"] \in {"kills", "ended"} =>
       unlink = Files
  /\ main_pc \in Emptied /\ gonggo_dead => thread["alive"] = "ended"

MutexInv ==
  /\ granted => main_pc \in {"pause", "die", "stop", "join", "killed"} \cup Emptied
  /\ main_pc \in {"context", "create", "wait", "lock"} => alive
  /\ main_pc \in {"activate", "pause"} \/ (main_pc = "die" /\ granted) => mutex = "held" /\ alive
  /\ main_pc \in {"stop", "join"} \cup Emptied => ~alive
  /\ main_pc = "killed" /\ granted => mutex = "orphaned" \/ ~alive

FilesInv ==
  /\ main_pc = "context" => ({"alive_mutex"} \cup First(turn - 1)) \cap Files \subseteq files
  /\ main_pc \in Serving => files = Files
  /\ main_pc = "destroy" => files = Files \ (unlink \cap First(turn - 1))
  /\ main_pc = "clean_up" => files = Files \ (unlink \cap Threads)
  /\ main_pc = "stopped" => files = Files \ unlink

\* Memories are missing from the end of the order in which they are opened, so
\* that all are missing behind the one that leaves an ENOENT.
OpenedInOrder ==
  /\ "subscribe" \in files => "channel" \in files
  /\ "channel" \in files => "alive_mutex" \in files

Orderly ==
  /\ leaked = {} /\ main_pc # "killed"
  /\ main_pc \in {"work", "sigaction", "alive_mutex"} => ~noent
  /\ main_pc \in Starting \cup Gone => OpenedInOrder
  /\ main_pc = "context" /\ noent => files \cap (Threads \ First(turn - 1)) = {}

ErrnoInv == faultless => Orderly

UnlinkInv == faultless /\ thread["alive"] # "unlinks" => unlink \in {{}, Files}

LifeInv ==
  /\ TypeOK /\ TurnInv /\ HeldInv /\ ThreadInv /\ ToldInv
  /\ DeathInv /\ MutexInv /\ FilesInv /\ UnlinkInv /\ ErrnoInv
-----------------------------------------------------------------------------
LEMMA Order ==
  /\ ThreadOrder[1] = "channel" /\ ThreadOrder[2] = "subscribe"
  /\ ThreadOrder[3] = "alive" /\ ThreadOrder[4] = "comm"
BY DEF ThreadOrder

LEMMA FirstThreads ==
  /\ Threads = {"channel", "subscribe", "alive", "comm"}
  /\ First(0) = {} /\ First(1) = {"channel"} /\ First(2) = {"channel", "subscribe"}
  /\ First(3) = {"channel", "subscribe", "alive"} /\ First(4) = Threads
<1>1. Threads = {"channel", "subscribe", "alive", "comm"}
  BY Order DEF Threads
<1>2. First(0) = {} /\ First(1) = {"channel"} /\ First(2) = {"channel", "subscribe"}
  BY Order DEF First
<1>3. First(3) = {"channel", "subscribe", "alive"}
  BY Order DEF First
<1>4. First(4) = Threads
  BY DEF First, Threads
<1> QED BY <1>1, <1>2, <1>3, <1>4

LEMMA ContextIsThread == PlacesOK => Context \in Threads
BY DEF PlacesOK, Context, Threads

LEMMA Turns == TypeOK => turn = 1 \/ turn = 2 \/ turn = 3 \/ turn = 4
BY DEF TypeOK, PlacesOK

LEMMA InitLifeInv == Init => LifeInv
<1> SUFFICES ASSUME Init PROVE LifeInv
  OBVIOUS
<1> USE FirstThreads DEF Init
<1>1. TypeOK
  <2>1. PlacesOK
    BY DEF PlacesOK
  <2>2. SetsOK
    BY DEF SetsOK
  <2>3. FlagsOK
    BY DEF FlagsOK
  <2> QED BY <2>1, <2>2, <2>3 DEF TypeOK
<1>2. TurnInv /\ HeldInv
  BY DEF TurnInv, HeldInv, Serving
<1>3. ThreadInv /\ ToldInv
  BY DEF ThreadInv, ToldInv, Emptied
<1>4. DeathInv /\ MutexInv
  BY DEF DeathInv, MutexInv
<1>5. FilesInv /\ UnlinkInv /\ ErrnoInv
  BY DEF FilesInv, UnlinkInv, ErrnoInv, Orderly, OpenedInOrder, Serving
<1> QED BY <1>1, <1>2, <1>3, <1>4, <1>5 DEF LifeInv
-----------------------------------------------------------------------------
(***************************************************************************)
(* One lemma for each part of the invariant, with the parts it needs.      *)
(***************************************************************************)
LEMMA PlacesKept ==
  ASSUME PlacesOK, [Next]_vars
  PROVE  PlacesOK'
<1> USE FirstThreads DEF PlacesOK, Gone
<1>1. CASE work \/ SetsUp \/ alive_mutex_create
  BY <1>1 DEF work, SetsUp, alive_mutex_create, threadVars, mutexVars, gonggoVars
<1>2. CASE proxy_channel_context_init \/ proxy_subscribe_context_init
  BY <1>2 DEF proxy_channel_context_init, proxy_subscribe_context_init, ShmContextInit, ContextMade,
       ContextFails, alive_mutex_destroy, Vanish, threadVars, mutexVars, gonggoVars
<1>3. CASE gonggo_alive_context_init \/ proxy_comm_context_init
  BY <1>3 DEF gonggo_alive_context_init, proxy_comm_context_init, ContextMade, ContextFails,
       alive_mutex_destroy, Vanish,
       threadVars, mutexVars, gonggoVars
<1>4. CASE CreateThread \/ WaitForStarted
  BY <1>4 DEF CreateThread, WaitForStarted, threadVars, mutexVars, gonggoVars
<1>5. CASE alive_mutex_lock \/ proxy_activate \/ MainLeavesPause \/ alive_mutex_die
  BY <1>5 DEF alive_mutex_lock, proxy_activate, MainLeavesPause, alive_mutex_die, threadVars,
       mutexVars, gonggoVars
<1>6. CASE StopThread \/ JoinThread
  BY <1>6 DEF StopThread, JoinThread, NextThread, threadVars, mutexVars, gonggoVars
<1>7. CASE DestroyContext \/ clean_up
  BY <1>7 DEF DestroyContext, clean_up, alive_mutex_destroy, NextThread, threadVars, mutexVars,
       gonggoVars
<1>8. ASSUME NEW t \in Threads, ThreadNext(t)
      PROVE  PlacesOK'
  BY <1>8 DEF ThreadNext, ThreadStarts, Callback, ThreadEnds, AliveFinds, AliveUnlinks, AliveKills,
       AliveCancelled, Runs, mutexVars, gonggoVars
<1>9. CASE SigTerm \/ Kill \/ GonggoDies \/ Restart \/ UNCHANGED vars
  BY <1>9 DEF SigTerm, Kill, Vanish, GonggoDies, Restart, vars, processVars, threadVars, mutexVars,
       gonggoVars
<1> QED BY <1>1, <1>2, <1>3, <1>4, <1>5, <1>6, <1>7, <1>8, <1>9 DEF Next, MainNext

LEMMA SetsKept ==
  ASSUME PlacesOK, SetsOK, [Next]_vars
  PROVE  SetsOK'
<1> USE FirstThreads DEF PlacesOK, SetsOK
<1>1. CASE work \/ SetsUp \/ alive_mutex_create
  BY <1>1 DEF work, SetsUp, alive_mutex_create, Opened, NotOpened, CleanedUp, Resources, Files,
       threadVars, errnoVars
<1>2. CASE proxy_channel_context_init \/ proxy_subscribe_context_init
  BY <1>2 DEF proxy_channel_context_init, proxy_subscribe_context_init, ShmContextInit, ContextMade,
       ContextFails, Vanish, Opened, NotOpened, CleanedUp, Files, threadVars, errnoVars
<1>3. CASE gonggo_alive_context_init \/ proxy_comm_context_init
  BY <1>3, ContextIsThread DEF gonggo_alive_context_init, proxy_comm_context_init, ContextMade,
       ContextFails, Vanish, CleanedUp, threadVars, errnoVars
<1>4. CASE CreateThread \/ WaitForStarted
  BY <1>4 DEF CreateThread, WaitForStarted, threadVars, errnoVars
<1>5. CASE alive_mutex_lock \/ proxy_activate \/ MainLeavesPause \/ alive_mutex_die
  BY <1>5 DEF alive_mutex_lock, proxy_activate, MainLeavesPause, alive_mutex_die, threadVars,
       errnoVars
<1>6. CASE StopThread \/ JoinThread
  BY <1>6, ContextIsThread DEF StopThread, JoinThread, threadVars, errnoVars
<1>7. CASE DestroyContext \/ clean_up
  BY <1>7 DEF DestroyContext, clean_up, Destroyed, CleanedUp, proxy_channel_context_destroy,
       proxy_subscribe_context_destroy, gonggo_alive_context_destroy, proxy_comm_context_destroy,
       threadVars, errnoVars
<1>8. ASSUME NEW t \in Threads, ThreadNext(t)
      PROVE  SetsOK'
  BY <1>8 DEF ThreadNext, ThreadStarts, Callback, ThreadEnds, AliveFinds, AliveUnlinks, AliveKills,
       AliveCancelled, Files, errnoVars
<1>9. CASE SigTerm \/ Kill \/ GonggoDies \/ Restart \/ UNCHANGED vars
  BY <1>9 DEF SigTerm, Kill, Vanish, GonggoDies, Restart, vars, processVars, threadVars, errnoVars
<1> QED BY <1>1, <1>2, <1>3, <1>4, <1>5, <1>6, <1>7, <1>8, <1>9 DEF Next, MainNext

LEMMA FlagsKept ==
  ASSUME FlagsOK, [Next]_vars
  PROVE  FlagsOK'
<1> USE DEF FlagsOK
<1>1. CASE work \/ SetsUp \/ alive_mutex_create
  BY <1>1 DEF work, SetsUp, alive_mutex_create, Opened, NotOpened, Fault, NoFault, threadVars,
       errnoVars, mutexVars, gonggoVars
<1>2. CASE proxy_channel_context_init \/ proxy_subscribe_context_init
  BY <1>2 DEF proxy_channel_context_init, proxy_subscribe_context_init, ShmContextInit,
       ContextFails, alive_mutex_destroy, Vanish,
       Opened, NotOpened, Fault, NoFault, threadVars, errnoVars, mutexVars, gonggoVars
<1>3. CASE gonggo_alive_context_init \/ proxy_comm_context_init
  BY <1>3 DEF gonggo_alive_context_init, proxy_comm_context_init, ContextFails,
       alive_mutex_destroy, Vanish, Fault, NoFault,
       threadVars, errnoVars, mutexVars, gonggoVars
<1>4. CASE CreateThread \/ WaitForStarted
  BY <1>4 DEF CreateThread, WaitForStarted, Fault, NoFault, threadVars, errnoVars, mutexVars,
       gonggoVars
<1>5. CASE alive_mutex_lock \/ proxy_activate \/ MainLeavesPause \/ alive_mutex_die
  BY <1>5 DEF alive_mutex_lock, proxy_activate, MainLeavesPause, alive_mutex_die, threadVars,
       errnoVars, mutexVars, gonggoVars
<1>6. CASE StopThread \/ JoinThread
  BY <1>6 DEF StopThread, JoinThread, threadVars, errnoVars, mutexVars, gonggoVars
<1>7. CASE DestroyContext \/ clean_up
  BY <1>7 DEF DestroyContext, clean_up, alive_mutex_destroy, threadVars, errnoVars, mutexVars,
       gonggoVars
<1>8. ASSUME NEW t \in Threads, ThreadNext(t)
      PROVE  FlagsOK'
  BY <1>8 DEF ThreadNext, ThreadStarts, Callback, ThreadEnds, AliveFinds, AliveUnlinks, AliveKills,
       AliveCancelled, NoFault, errnoVars, mutexVars, gonggoVars
<1>9. CASE SigTerm \/ Kill \/ GonggoDies \/ Restart \/ UNCHANGED vars
  BY <1>9 DEF SigTerm, Kill, Vanish, GonggoDies, Restart, Fault, vars, processVars, threadVars,
       errnoVars, mutexVars, gonggoVars
<1> QED BY <1>1, <1>2, <1>3, <1>4, <1>5, <1>6, <1>7, <1>8, <1>9 DEF Next, MainNext

LEMMA HeldKept ==
  ASSUME TypeOK, TurnInv, HeldInv, [Next]_vars
  PROVE  TurnInv' /\ HeldInv'
<1> USE FirstThreads DEF TurnInv, HeldInv, Serving
<1>1. CASE work \/ SetsUp \/ alive_mutex_create
  BY <1>1 DEF work, SetsUp, alive_mutex_create, CleanedUp, Resources
<1>2. CASE proxy_channel_context_init \/ proxy_subscribe_context_init
  BY <1>2, Order, Turns DEF proxy_channel_context_init, proxy_subscribe_context_init,
       ShmContextInit, Context, ContextMade, ContextFails, Vanish, CleanedUp
<1>3. CASE gonggo_alive_context_init \/ proxy_comm_context_init
  BY <1>3, Order, Turns DEF gonggo_alive_context_init, proxy_comm_context_init, Context,
       ContextMade, ContextFails, Vanish, CleanedUp
<1>4. CASE CreateThread \/ WaitForStarted
  BY <1>4 DEF CreateThread, WaitForStarted
<1>5. CASE alive_mutex_lock \/ proxy_activate \/ MainLeavesPause \/ alive_mutex_die
  BY <1>5 DEF alive_mutex_lock, proxy_activate, MainLeavesPause, alive_mutex_die
<1>6. CASE StopThread \/ JoinThread
  BY <1>6 DEF StopThread, JoinThread, NextThread
<1>7. CASE DestroyContext \/ clean_up
  BY <1>7 DEF DestroyContext, clean_up, NextThread, Destroyed, CleanedUp,
       proxy_channel_context_destroy, proxy_subscribe_context_destroy, gonggo_alive_context_destroy,
       proxy_comm_context_destroy, Resources
<1>8. ASSUME NEW t \in Threads, ThreadNext(t)
      PROVE  TurnInv' /\ HeldInv'
  BY <1>8 DEF ThreadNext
<1>9. CASE SigTerm \/ Kill \/ GonggoDies \/ Restart \/ UNCHANGED vars
  BY <1>9 DEF SigTerm, Kill, Vanish, GonggoDies, Restart, vars, processVars
<1> QED BY <1>1, <1>2, <1>3, <1>4, <1>5, <1>6, <1>7, <1>8, <1>9 DEF Next, MainNext

LEMMA ThreadsKept ==
  ASSUME TypeOK, TurnInv, ThreadInv, [Next]_vars
  PROVE  ThreadInv'
<1> USE FirstThreads DEF TypeOK, PlacesOK, ThreadInv, TurnInv, Starting, Emptied, IsStarted, Live
<1>1. CASE work \/ SetsUp \/ alive_mutex_create
  BY <1>1 DEF work, SetsUp, alive_mutex_create, threadVars
<1>2. CASE proxy_channel_context_init \/ proxy_subscribe_context_init
  BY <1>2 DEF proxy_channel_context_init, proxy_subscribe_context_init, ShmContextInit, ContextMade,
       ContextFails, Vanish, threadVars
<1>3. CASE gonggo_alive_context_init \/ proxy_comm_context_init
  BY <1>3 DEF gonggo_alive_context_init, proxy_comm_context_init, ContextMade, ContextFails, Vanish,
       threadVars
<1>4. CASE CreateThread \/ WaitForStarted
  BY <1>4, Order DEF CreateThread, WaitForStarted, Context, threadVars
<1>5. CASE alive_mutex_lock \/ proxy_activate \/ MainLeavesPause \/ alive_mutex_die
  BY <1>5 DEF alive_mutex_lock, proxy_activate, MainLeavesPause, alive_mutex_die, threadVars
<1>6. CASE StopThread \/ JoinThread
  BY <1>6, Order DEF StopThread, JoinThread, NextThread, Joinable, Context, threadVars
<1>7. CASE DestroyContext \/ clean_up
  BY <1>7 DEF DestroyContext, clean_up, NextThread, threadVars
<1>8. ASSUME NEW t \in Threads, ThreadNext(t)
      PROVE  ThreadInv'
  BY <1>8 DEF ThreadNext, ThreadStarts, Callback, ThreadEnds, AliveFinds, AliveUnlinks, AliveKills,
       AliveCancelled, Runs
<1>9. CASE SigTerm \/ Kill \/ GonggoDies \/ Restart \/ UNCHANGED vars
  BY <1>9 DEF SigTerm, Kill, Vanish, GonggoDies, Restart, vars, processVars, threadVars
<1> QED BY <1>1, <1>2, <1>3, <1>4, <1>5, <1>6, <1>7, <1>8, <1>9 DEF Next, MainNext

LEMMA ToldKept ==
  ASSUME TypeOK, TurnInv, ThreadInv, ToldInv, [Next]_vars
  PROVE  ToldInv'
<1> USE FirstThreads DEF TypeOK, PlacesOK, TurnInv, ThreadInv, ToldInv, Starting, Serving,
       Emptied, IsStarted, Live
<1>1. CASE work \/ SetsUp \/ alive_mutex_create
  BY <1>1 DEF work, SetsUp, alive_mutex_create, threadVars
<1>2. CASE proxy_channel_context_init \/ proxy_subscribe_context_init
  BY <1>2 DEF proxy_channel_context_init, proxy_subscribe_context_init, ShmContextInit, Vanish,
       threadVars
<1>3. CASE gonggo_alive_context_init \/ proxy_comm_context_init
  BY <1>3 DEF gonggo_alive_context_init, proxy_comm_context_init, Vanish, threadVars
<1>4. CASE CreateThread \/ WaitForStarted
  BY <1>4 DEF CreateThread, WaitForStarted, threadVars
<1>5. CASE alive_mutex_lock \/ proxy_activate \/ MainLeavesPause \/ alive_mutex_die
  BY <1>5 DEF alive_mutex_lock, proxy_activate, MainLeavesPause, alive_mutex_die, threadVars
<1>6. CASE StopThread \/ JoinThread
  BY <1>6, Order DEF StopThread, JoinThread, NextThread, Context, threadVars
<1>7. CASE DestroyContext \/ clean_up
  BY <1>7 DEF DestroyContext, clean_up, NextThread, threadVars
<1>8. ASSUME NEW t \in Threads, ThreadNext(t)
      PROVE  ToldInv'
  BY <1>8 DEF ThreadNext, ThreadStarts, Callback, ThreadEnds, AliveFinds, AliveUnlinks, AliveKills,
       AliveCancelled, Runs
<1>9. CASE SigTerm \/ Kill \/ GonggoDies \/ Restart \/ UNCHANGED vars
  BY <1>9 DEF SigTerm, Kill, Vanish, GonggoDies, Restart, vars, processVars, threadVars
<1> QED BY <1>1, <1>2, <1>3, <1>4, <1>5, <1>6, <1>7, <1>8, <1>9 DEF Next, MainNext

LEMMA DeathKept ==
  ASSUME TypeOK, ThreadInv, ToldInv, DeathInv, [Next]_vars
  PROVE  DeathInv'
<1> USE FirstThreads DEF TypeOK, PlacesOK, SetsOK, FlagsOK, ThreadInv, DeathInv, Starting,
       Serving, Emptied, IsStarted, Live
<1>1. CASE work \/ SetsUp \/ alive_mutex_create
  BY <1>1 DEF work, SetsUp, alive_mutex_create, threadVars
<1>2. CASE proxy_channel_context_init \/ proxy_subscribe_context_init
  BY <1>2 DEF proxy_channel_context_init, proxy_subscribe_context_init, ShmContextInit, Vanish,
       threadVars
<1>3. CASE gonggo_alive_context_init \/ proxy_comm_context_init
  BY <1>3 DEF gonggo_alive_context_init, proxy_comm_context_init, Vanish, threadVars
<1>4. CASE CreateThread \/ WaitForStarted
  BY <1>4, Order DEF CreateThread, WaitForStarted, Context, threadVars, gonggoVars
<1>5. CASE alive_mutex_lock \/ proxy_activate \/ MainLeavesPause \/ alive_mutex_die
  BY <1>5 DEF alive_mutex_lock, proxy_activate, MainLeavesPause, alive_mutex_die, threadVars,
       gonggoVars
<1>6. CASE StopThread \/ JoinThread
  BY <1>6 DEF StopThread, JoinThread, NextThread, threadVars, gonggoVars
<1>7. CASE DestroyContext \/ clean_up
  BY <1>7 DEF DestroyContext, clean_up, NextThread, threadVars, gonggoVars
<1>8. ASSUME NEW t \in Threads, ThreadNext(t)
      PROVE  DeathInv'
  <2> USE DEF ThreadNext, Runs, NoFault, errnoVars, mutexVars, gonggoVars
  <2>1. CASE ThreadStarts(t) \/ Callback(t) \/ ThreadEnds(t)
    BY <1>8, <2>1 DEF ToldInv, ThreadStarts, Callback, ThreadEnds
  <2>2. CASE AliveFinds
    BY <1>8, <2>2 DEF AliveFinds
  <2>3. CASE AliveUnlinks
    BY <1>8, <2>3 DEF AliveUnlinks
  <2>4. CASE AliveKills
    BY <1>8, <2>4 DEF AliveKills
  <2>5. CASE AliveCancelled
    BY <1>8, <2>5 DEF AliveCancelled
  <2> QED BY <1>8, <2>1, <2>2, <2>3, <2>4, <2>5
<1>9. CASE SigTerm \/ Kill \/ GonggoDies \/ Restart \/ UNCHANGED vars
  BY <1>9 DEF SigTerm, Kill, Vanish, GonggoDies, Restart, vars, processVars, threadVars, gonggoVars
<1> QED BY <1>1, <1>2, <1>3, <1>4, <1>5, <1>6, <1>7, <1>8, <1>9 DEF Next, MainNext

LEMMA MutexKept ==
  ASSUME TypeOK, MutexInv, [Next]_vars
  PROVE  MutexInv'
<1> USE DEF MutexInv, Emptied
<1>1. CASE work \/ SetsUp \/ alive_mutex_create
  BY <1>1 DEF work, SetsUp, alive_mutex_create, gonggoVars
<1>2. CASE proxy_channel_context_init \/ proxy_subscribe_context_init
  BY <1>2 DEF proxy_channel_context_init, proxy_subscribe_context_init, ShmContextInit, ContextMade,
       ContextFails, alive_mutex_destroy, Vanish, mutexVars, gonggoVars
<1>3. CASE gonggo_alive_context_init \/ proxy_comm_context_init
  BY <1>3 DEF gonggo_alive_context_init, proxy_comm_context_init, ContextMade, ContextFails,
       alive_mutex_destroy, Vanish,
       mutexVars, gonggoVars
<1>4. CASE CreateThread \/ WaitForStarted
  BY <1>4 DEF CreateThread, WaitForStarted, mutexVars, gonggoVars
<1>5. CASE alive_mutex_lock \/ proxy_activate \/ MainLeavesPause \/ alive_mutex_die
  BY <1>5 DEF alive_mutex_lock, proxy_activate, MainLeavesPause, alive_mutex_die, mutexVars,
       gonggoVars
<1>6. CASE StopThread \/ JoinThread
  BY <1>6 DEF StopThread, JoinThread, NextThread, mutexVars
<1>7. CASE DestroyContext \/ clean_up
  BY <1>7 DEF DestroyContext, clean_up, alive_mutex_destroy, NextThread, mutexVars
<1>8. ASSUME NEW t \in Threads, ThreadNext(t)
      PROVE  MutexInv'
  BY <1>8 DEF ThreadNext, mutexVars, gonggoVars
<1>9. CASE SigTerm \/ Kill \/ GonggoDies \/ Restart \/ UNCHANGED vars
  BY <1>9 DEF SigTerm, Kill, Vanish, GonggoDies, Restart, vars, processVars, mutexVars, gonggoVars
<1> QED BY <1>1, <1>2, <1>3, <1>4, <1>5, <1>6, <1>7, <1>8, <1>9 DEF Next, MainNext

LEMMA AllFiles ==
  ASSUME SetsOK, "alive_mutex" \in files, "channel" \in files, "subscribe" \in files
  PROVE  files = Files
BY DEF SetsOK, Files

LEMMA FilesKept ==
  ASSUME TypeOK, TurnInv, ThreadInv, FilesInv, [Next]_vars
  PROVE  FilesInv'
<1> USE FirstThreads DEF TypeOK, PlacesOK, SetsOK, TurnInv, ThreadInv, FilesInv, Starting,
       Serving, Emptied, Live, Files
<1>1. CASE work \/ SetsUp \/ alive_mutex_create
  BY <1>1 DEF work, SetsUp, alive_mutex_create, Opened
<1>2. CASE proxy_channel_context_init \/ proxy_subscribe_context_init
  BY <1>2, Order DEF proxy_channel_context_init, proxy_subscribe_context_init, ShmContextInit,
       Context, ContextMade, ContextFails, Vanish, Opened
<1>3. CASE gonggo_alive_context_init \/ proxy_comm_context_init
  <2>1. CASE gonggo_alive_context_init
    <3>1. turn = 3
      BY <2>1, Order DEF gonggo_alive_context_init, Context
    <3> QED BY <2>1, <3>1 DEF gonggo_alive_context_init, ContextMade, ContextFails, Vanish
  <2>2. CASE proxy_comm_context_init
    <3>1. turn = 4
      BY <2>2, Order DEF proxy_comm_context_init, Context
    <3>2. main_pc' = "create" /\ UNCHANGED files
      BY <2>2, <3>1 DEF proxy_comm_context_init, ContextMade
    <3>3. "alive_mutex" \in files /\ "channel" \in files /\ "subscribe" \in files
      BY <2>2, <3>1 DEF proxy_comm_context_init
    <3>4. files = Files
      BY <3>3, AllFiles
    <3> QED BY <3>2, <3>4
  <2> QED BY <1>3, <2>1, <2>2
<1>4. CASE CreateThread \/ WaitForStarted
  BY <1>4 DEF CreateThread, WaitForStarted
<1>5. CASE alive_mutex_lock \/ proxy_activate \/ MainLeavesPause \/ alive_mutex_die
  BY <1>5 DEF alive_mutex_lock, proxy_activate, MainLeavesPause, alive_mutex_die
<1>6. CASE StopThread \/ JoinThread
  BY <1>6 DEF StopThread, JoinThread, NextThread
<1>7. CASE DestroyContext \/ clean_up
  BY <1>7 DEF DestroyContext, clean_up, NextThread, Destroyed, proxy_channel_context_destroy,
       proxy_subscribe_context_destroy, gonggo_alive_context_destroy, proxy_comm_context_destroy,
       threadVars
<1>8. ASSUME NEW t \in Threads, ThreadNext(t)
      PROVE  FilesInv'
  BY <1>8 DEF ThreadNext, ThreadStarts, Callback, ThreadEnds, AliveFinds, AliveUnlinks, AliveKills,
       AliveCancelled, Runs
<1>9. CASE SigTerm \/ Kill \/ GonggoDies \/ Restart \/ UNCHANGED vars
  BY <1>9 DEF SigTerm, Kill, Vanish, GonggoDies, Restart, vars, processVars, threadVars
<1> QED BY <1>1, <1>2, <1>3, <1>4, <1>5, <1>6, <1>7, <1>8, <1>9 DEF Next, MainNext

LEMMA FaultlessBefore ==
  ASSUME FlagsOK, [Next]_vars, faultless'
  PROVE  faultless
<1> USE DEF FlagsOK
<1>1. CASE work \/ SetsUp \/ alive_mutex_create
  BY <1>1 DEF work, SetsUp, alive_mutex_create, Opened, NotOpened, Fault, NoFault
<1>2. CASE proxy_channel_context_init \/ proxy_subscribe_context_init
  BY <1>2 DEF proxy_channel_context_init, proxy_subscribe_context_init, ShmContextInit, Opened,
       NotOpened, Fault, NoFault
<1>3. CASE gonggo_alive_context_init \/ proxy_comm_context_init
  BY <1>3 DEF gonggo_alive_context_init, proxy_comm_context_init, Fault, NoFault
<1>4. CASE CreateThread \/ WaitForStarted
  BY <1>4 DEF CreateThread, WaitForStarted, Fault, NoFault
<1>5. CASE alive_mutex_lock \/ proxy_activate \/ MainLeavesPause \/ alive_mutex_die
  BY <1>5 DEF alive_mutex_lock, proxy_activate, MainLeavesPause, alive_mutex_die
<1>6. CASE StopThread \/ JoinThread
  BY <1>6 DEF StopThread, JoinThread
<1>7. CASE DestroyContext \/ clean_up
  BY <1>7 DEF DestroyContext, clean_up
<1>8. ASSUME NEW t \in Threads, ThreadNext(t)
      PROVE  faultless
  BY <1>8 DEF ThreadNext, AliveCancelled, NoFault
<1>9. CASE SigTerm \/ Kill \/ GonggoDies \/ Restart \/ UNCHANGED vars
  BY <1>9 DEF SigTerm, Kill, GonggoDies, Restart, Fault, vars
<1> QED BY <1>1, <1>2, <1>3, <1>4, <1>5, <1>6, <1>7, <1>8, <1>9 DEF Next, MainNext

LEMMA UnlinkKept ==
  ASSUME TypeOK, ThreadInv, UnlinkInv, [Next]_vars
  PROVE  UnlinkInv'
<1> USE FirstThreads DEF TypeOK, PlacesOK, FlagsOK, ThreadInv, UnlinkInv, Files
<1>1. CASE work \/ SetsUp \/ alive_mutex_create
  BY <1>1 DEF work, SetsUp, alive_mutex_create, Opened, NotOpened, Fault, NoFault, threadVars
<1>2. CASE proxy_channel_context_init \/ proxy_subscribe_context_init
  BY <1>2 DEF proxy_channel_context_init, proxy_subscribe_context_init, ShmContextInit, Opened,
       NotOpened, Fault, NoFault, threadVars
<1>3. CASE gonggo_alive_context_init \/ proxy_comm_context_init
  BY <1>3 DEF gonggo_alive_context_init, proxy_comm_context_init, Fault, NoFault, threadVars
<1>4. CASE CreateThread \/ WaitForStarted
  <2>1. CASE CreateThread
    <3>1. thread["alive"] = "none" \/ thread'["alive"] = thread["alive"]
      BY <2>1, Order DEF CreateThread, Context
    <3> QED BY <2>1, <3>1 DEF CreateThread, Fault, NoFault
  <2>2. CASE WaitForStarted
    BY <2>2 DEF WaitForStarted, threadVars
  <2> QED BY <1>4, <2>1, <2>2
<1>5. CASE alive_mutex_lock \/ proxy_activate \/ MainLeavesPause \/ alive_mutex_die
  BY <1>5 DEF alive_mutex_lock, proxy_activate, MainLeavesPause, alive_mutex_die, threadVars
<1>6. CASE StopThread \/ JoinThread
  BY <1>6 DEF StopThread, JoinThread, threadVars
<1>7. CASE DestroyContext \/ clean_up
  BY <1>7 DEF DestroyContext, clean_up, threadVars
<1>8. ASSUME NEW t \in Threads, ThreadNext(t)
      PROVE  UnlinkInv'
  <2>1. /\ UNCHANGED <<main_pc, turn, held, errnoVars, cancelled, ended, files>>
        /\ AliveCancelled \/ NoFault
    BY <1>8, Order DEF ThreadNext
  <2>2. CASE t = "alive" /\ (AliveUnlinks \/ AliveKills \/ AliveFinds \/ AliveCancelled)
    BY <2>1, <2>2, Order DEF AliveUnlinks, AliveKills, AliveFinds, AliveCancelled, Runs, NoFault,
         threadVars, errnoVars
  <2>3. CASE ThreadStarts(t) \/ Callback(t) \/ ThreadEnds(t)
    BY <2>1, <2>3, Order DEF ThreadStarts, Callback, ThreadEnds, AliveCancelled, Runs, NoFault,
         threadVars, errnoVars
  <2> QED BY <1>8, <2>2, <2>3 DEF ThreadNext
<1>9. CASE SigTerm \/ Kill \/ GonggoDies \/ Restart \/ UNCHANGED vars
  BY <1>9 DEF SigTerm, Kill, GonggoDies, Restart, Fault, vars, processVars, threadVars
<1> QED BY <1>1, <1>2, <1>3, <1>4, <1>5, <1>6, <1>7, <1>8, <1>9 DEF Next, MainNext

LEMMA ErrnoKept ==
  ASSUME TypeOK, TurnInv, ThreadInv, FilesInv, UnlinkInv, ErrnoInv, [Next]_vars
  PROVE  ErrnoInv'
<1> SUFFICES ASSUME faultless', faultless, Orderly
             PROVE  Orderly'
  BY FaultlessBefore DEF ErrnoInv, TypeOK
<1> USE FirstThreads DEF TypeOK, PlacesOK, SetsOK, FlagsOK, TurnInv, ThreadInv, FilesInv,
       UnlinkInv, Orderly, OpenedInOrder, Starting, Emptied, Live, Files
<1>1. CASE work \/ SetsUp \/ alive_mutex_create
  BY <1>1 DEF work, SetsUp, alive_mutex_create, Opened, NotOpened, errnoVars
<1>2. CASE proxy_channel_context_init \/ proxy_subscribe_context_init
  BY <1>2, Order DEF proxy_channel_context_init, proxy_subscribe_context_init, ShmContextInit,
       Context, ContextMade, Opened, NotOpened, Fault
<1>3. CASE gonggo_alive_context_init \/ proxy_comm_context_init
  BY <1>3 DEF gonggo_alive_context_init, proxy_comm_context_init, ContextMade, ContextFails, Fault,
       errnoVars
<1>4. CASE CreateThread \/ WaitForStarted
  BY <1>4 DEF CreateThread, WaitForStarted, Gone, errnoVars
<1>5. CASE alive_mutex_lock \/ proxy_activate \/ MainLeavesPause \/ alive_mutex_die
  BY <1>5 DEF alive_mutex_lock, proxy_activate, MainLeavesPause, alive_mutex_die, Gone, errnoVars
<1>6. CASE StopThread \/ JoinThread
  BY <1>6 DEF StopThread, JoinThread, NextThread, Gone, errnoVars
<1>7. CASE DestroyContext \/ clean_up
  BY <1>7 DEF DestroyContext, clean_up, NextThread, Gone, errnoVars
<1>8. ASSUME NEW t \in Threads, ThreadNext(t)
      PROVE  Orderly'
  BY <1>8 DEF ThreadNext, errnoVars
<1>9. CASE SigTerm \/ Kill \/ GonggoDies \/ Restart \/ UNCHANGED vars
  BY <1>9 DEF SigTerm, Kill, GonggoDies, Restart, Fault, vars, processVars, errnoVars
<1> QED BY <1>1, <1>2, <1>3, <1>4, <1>5, <1>6, <1>7, <1>8, <1>9 DEF Next, MainNext
-----------------------------------------------------------------------------
LEMMA LifeInvKept == LifeInv /\ [Next]_vars => LifeInv'
<1> SUFFICES ASSUME LifeInv, [Next]_vars PROVE LifeInv'
  OBVIOUS
<1> USE DEF LifeInv
<1>1. TypeOK'
  BY PlacesKept, SetsKept, FlagsKept DEF TypeOK
<1>2. TurnInv' /\ HeldInv' /\ ThreadInv' /\ ToldInv'
  BY HeldKept, ThreadsKept, ToldKept
<1>3. DeathInv' /\ MutexInv' /\ FilesInv'
  BY DeathKept, MutexKept, FilesKept
<1>4. UnlinkInv' /\ ErrnoInv'
  BY UnlinkKept, ErrnoKept
<1> QED BY <1>1, <1>2, <1>3, <1>4

LEMMA AlwaysLifeInv == Spec => []LifeInv
  BY InitLifeInv, LifeInvKept, PTL DEF Spec

\* Every variable keeps its type: main and the threads are at places they have,
\* over any number of lives (work.c).
THEOREM LifecycleTypeCorrect == Spec => []TypeOK
<1>1. LifeInv => TypeOK
  BY DEF LifeInv
<1> QED BY <1>1, AlwaysLifeInv, PTL

\* No thread runs without a resource it uses: threads exist only between the
\* last context that is made and the last thread that is joined, at whichever
\* step the start is given up (work.c:113, work.c:223).
THEOREM ThreadsHaveResources == Spec => []NothingUsedAfterDestroy
<1>1. LifeInv => NothingUsedAfterDestroy
  <2> SUFFICES ASSUME LifeInv, NEW t \in Threads, Live(t) PROVE Uses(t) \subseteq held
    BY DEF NothingUsedAfterDestroy
  <2>1. Uses(t) \subseteq Resources \cup Threads
    BY FirstThreads DEF Uses, Resources
  <2>2. main_pc \in Serving
    BY DEF LifeInv, TypeOK, PlacesOK, ThreadInv, Starting, Serving, Emptied, Gone, Live
  <2> QED BY <2>1, <2>2 DEF LifeInv, HeldInv
<1> QED BY <1>1, AlwaysLifeInv, PTL

\* When work returns, also after a failed start, no thread runs and nothing is
\* held (work.c, clean_up).
THEOREM EverythingIsGivenBack == Spec => []AllGivenBack
<1>1. LifeInv => AllGivenBack
  BY DEF LifeInv, HeldInv, ThreadInv, AllGivenBack, Emptied, Live
<1> QED BY <1>1, AlwaysLifeInv, PTL

\* No callback runs or starts once f_stop has been called: by then the channel
\* thread has been told to end, outside of any callback (callback.h:46).
THEOREM NoCallbackAfterStop == Spec => []StopIsLastCallback
<1>1. LifeInv => StopIsLastCallback
  <2> SUFFICES ASSUME LifeInv, thread["comm"] \in {"f_stop", "ended"}, NEW t \in Threads
               PROVE  thread[t] # "callback"
    BY DEF StopIsLastCallback
  <2>1. "comm" \in ended /\ thread["comm"] # "none"
    BY DEF LifeInv, ToldInv
  <2>2. main_pc \in {"join"} \cup Emptied
    BY <2>1, FirstThreads DEF LifeInv, ToldInv, ThreadInv, TypeOK, PlacesOK, Starting, Serving,
         Emptied, Gone
  <2>3. thread["channel"] # "callback"
    BY <2>2 DEF LifeInv, ToldInv
  <2> QED BY <2>3, FirstThreads DEF LifeInv, ToldInv
<1> QED BY <1>1, AlwaysLifeInv, PTL

\* gonggo is told by the alive mutex whether the proxy it has activated still
\* serves it, whenever the proxy is killed (alivemutex.c).
THEOREM MutexIsRight == Spec => []MutexTellsTheEnd
<1>1. LifeInv => MutexTellsTheEnd
  BY DEF LifeInv, MutexInv, MutexTellsTheEnd, Gone
<1> QED BY <1>1, AlwaysLifeInv, PTL

\* After a stop the memories are there for a gonggo that lives or has left, and
\* are gone after a crash that was found; a cancel between the flags leaves those
\* that are flagged first missing, and no others (gonggoalive.c:59).
THEOREM MemoriesAreRight == Spec => []MemoriesFollowGonggo
<1>1. LifeInv => MemoriesFollowGonggo
  <2> SUFFICES ASSUME LifeInv, main_pc = "stopped" PROVE MemoriesFollowGonggo
    BY DEF MemoriesFollowGonggo
  <2>1. files = Files \ unlink
    BY DEF LifeInv, FilesInv
  <2>2. unlink \in {{}, {"channel"}, {"channel", "subscribe"}, Files}
    BY DEF LifeInv, DeathInv
  <2>3. gonggo # "crashed" => files = Files
    BY <2>1 DEF LifeInv, DeathInv
  <2>4. gonggo = "crashed" /\ gonggo_dead /\ ~cancelled => files = {}
    BY <2>1 DEF LifeInv, DeathInv, Emptied
  <2>5. /\ "channel" \in files => files = Files
        /\ "alive_mutex" \notin files => files = {}
    BY <2>1, <2>2 DEF Files
  <2> QED BY <2>3, <2>4, <2>5 DEF MemoriesFollowGonggo
<1> QED BY <1>1, AlwaysLifeInv, PTL

\* As long as nothing fails, no descriptor is lost to a stale errno, over any
\* number of lives (proxychannel.c:171).
THEOREM DescriptorsAreKept == Spec => []NoDescriptorLost
<1>1. LifeInv => NoDescriptorLost
  BY DEF LifeInv, ErrnoInv, Orderly, NoDescriptorLost
<1> QED BY <1>1, AlwaysLifeInv, PTL
=============================================================================
