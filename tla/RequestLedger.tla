---------------------------- MODULE RequestLedger ----------------------------
(***************************************************************************)
(* What a sawang proxy promises gonggo about replies, with no thread, lock *)
(* or queue in it: a reply is made only for requests gonggo has recorded,  *)
(* answers exactly what they asked, and stays pending, through any number  *)
(* of refusals, until gonggo has taken it once.  RequestFlow implements    *)
(* this.                                                                   *)
(***************************************************************************)
EXTENDS Naturals

CONSTANTS Rids,      \* request ids
          Requests,  \* what a request may ask
          Kept,      \* the requests that stay with gonggo after an answer
          NoKey      \* not asked yet

VARIABLES asked,       \* what each rid has asked
          registered,  \* the rids gonggo has recorded
          pending,     \* the replies gonggo has still to take
          outstanding, \* how many they are: two replies may be equal
          delivered    \* the answers gonggo has taken for each rid

ledger == <<asked, registered, pending, outstanding, delivered>>

Init ==
  /\ asked = [r \in Rids |-> NoKey] /\ registered = {}
  /\ pending = {} /\ outstanding = 0
  /\ delivered = [r \in Rids |-> 0]

Ask(r, q) ==
  /\ asked[r] = NoKey /\ asked' = [asked EXCEPT ![r] = q]
  /\ UNCHANGED <<registered, pending, outstanding, delivered>>

Register(r) ==
  /\ asked[r] # NoKey /\ registered' = registered \cup {r}
  /\ UNCHANGED <<asked, pending, outstanding, delivered>>

\* A reply somebody waits for, and that goes to those who asked for it.
Owing(reply) ==
  /\ reply.rids # {} /\ reply.rids \subseteq registered
  /\ \A r \in reply.rids : asked[r] = reply.key
  /\ reply.multi <=> reply.key \in Kept

Answer(reply) ==
  /\ Owing(reply)
  /\ pending' = pending \cup {reply} /\ outstanding' = outstanding + 1
  /\ UNCHANGED <<asked, registered, delivered>>

\* Equal replies may be left; nothing is when the last one is taken.
Deliver(reply) ==
  /\ pending' \in {pending, pending \ {reply}}
  /\ outstanding > 0 /\ outstanding' = outstanding - 1
  /\ outstanding' = 0 => pending' = {}
  /\ delivered' = [r \in Rids |-> IF r \in reply.rids THEN delivered[r] + 1 ELSE delivered[r]]
  /\ UNCHANGED <<asked, registered>>

Next ==
  \/ \E r \in Rids : Register(r) \/ \E q \in Requests : Ask(r, q)
  \/ \E reply \in pending' : Answer(reply)
  \/ \E reply \in pending : Deliver(reply)

Spec == Init /\ [][Next]_ledger
=============================================================================
