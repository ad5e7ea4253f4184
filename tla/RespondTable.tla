---------------------------- MODULE RespondTable ----------------------------
(***************************************************************************)
(* The respond tables of respondtable.c: a hash table from a task key to   *)
(* the array of the request ids waiting for an answer to that task.  The   *)
(* program keeps two of them, one for single-shot tasks and one for        *)
(* multirespond tasks; both are driven by the operators below, each of     *)
(* which is one critical section under respond_table_lock.                 *)
(*                                                                         *)
(* A table is a function whose domain is the set of keys present.  The     *)
(* array of a key is the set of its request ids: respond_table_set never   *)
(* adds an id twice, and the order of an array is seen by nobody but the   *)
(* reader of the JSON array of a reply.                                    *)
(***************************************************************************)
EXTENDS Functions

EmptyTable == [task_key \in {} |-> {}]

\* respond_table_request_dup: the ids under a key, no id for a NULL array.
respond_table_request_dup(table, task_key) ==
  IF task_key \in DOMAIN table THEN table[task_key] ELSE {}

\* The result of respond_table_set: TRUE on a new entry of the array.
IsNewEntry(table, task_key, uuid) ==
  uuid \notin respond_table_request_dup(table, task_key)

\* The table after respond_table_set.
respond_table_set(table, task_key, uuid) ==
  [k \in DOMAIN table \cup {task_key} |->
     IF k = task_key THEN respond_table_request_dup(table, k) \cup {uuid}
                     ELSE table[k]]

respond_table_drop_KeepsKey(table, task_key, uuid) ==
  [k \in DOMAIN table |-> IF k = task_key THEN table[k] \ {uuid} ELSE table[k]]

\* The table after respond_table_drop: the id is removed from the array of
\* the key, and the key with its last id.
respond_table_drop(table, task_key, uuid) ==
  LET rest == respond_table_request_dup(table, task_key) \ {uuid}
  IN  IF rest = {} THEN Restrict(table, DOMAIN table \ {task_key})
                   ELSE [table EXCEPT ![task_key] = rest]

\* The keys respond_table_dup_task_key may return for an id: the first hit of
\* an iteration whose order the hash decides.
respond_table_dup_task_key(table, uuid) ==
  {task_key \in DOMAIN table : uuid \in table[task_key]}

\* The shape every table has between two critical sections.
IsTable(table, Keys, Uuids) ==
  /\ table = [k \in DOMAIN table |-> table[k]]
  /\ DOMAIN table \subseteq Keys
  /\ \A k \in DOMAIN table : table[k] \in (SUBSET Uuids) \ {{}}

\* What a table stands for: the pairs (task, request waiting for it).
Waiting(table) == UNION {{k} \X table[k] : k \in DOMAIN table}
=============================================================================
