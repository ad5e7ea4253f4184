--------------------------- MODULE ActivationTurns ---------------------------
(***************************************************************************)
(* What an activation comes to for gonggo and its proxies, with no lock,   *)
(* wait or time in it.  They talk one at a time, about the one who asked;  *)
(* a grant is taken up once, by one who waits for an answer, or withdrawn. *)
(* A patient gonggo withdraws a grant only when the one who asked has left,*)
(* nobody else takes it up, and between conversations gonggo and the       *)
(* proxies agree on who is active.  Activation implements this.            *)
(***************************************************************************)
CONSTANTS Proxy, NoProxy

VARIABLES talk,     \* where the conversation is
          asking,   \* the proxy it is about
          pending,  \* those who have asked and wait for an answer
          granted,  \* the proxies gonggo counts as active
          active,   \* the proxies that take themselves for activated
          patient   \* gonggo outwaits the proxies

turns == <<talk, asking, pending, granted, active, patient>>

Init ==
  /\ talk = "none" /\ asking = NoProxy /\ pending = {} /\ granted = {} /\ active = {}
  /\ patient \in BOOLEAN

Ask(p) ==
  /\ talk = "none" /\ p \notin pending \cup granted \cup active
  /\ talk' = "asked" /\ asking' = p /\ pending' = pending \cup {p}
  /\ UNCHANGED <<granted, active, patient>>

Grant ==
  /\ talk = "asked" /\ talk' = "granted" /\ granted' = granted \cup {asking}
  /\ UNCHANGED <<asking, pending, active, patient>>

Refuse ==
  /\ talk = "asked" /\ talk' = "over"
  /\ UNCHANGED <<asking, pending, granted, active, patient>>

\* One of those who wait becomes active.
TakeUp(p) ==
  /\ talk = "granted" /\ p \in pending
  /\ patient => p = asking
  /\ talk' = "over" /\ pending' = pending \ {p} /\ active' = active \cup {p}
  /\ UNCHANGED <<asking, granted, patient>>

\* One gives up, dies, or is refused.
Leave(p) ==
  /\ p \in pending /\ pending' = pending \ {p}
  /\ UNCHANGED <<talk, asking, granted, active, patient>>

Withdraw ==
  /\ talk = "granted" /\ talk' = "none" /\ asking' = NoProxy
  /\ patient => pending = {}
  /\ granted' = granted \ {asking}
  /\ UNCHANGED <<pending, active, patient>>

Close ==
  /\ talk = "over" /\ talk' = "none" /\ asking' = NoProxy
  /\ patient => pending = {} /\ granted = active
  /\ UNCHANGED <<pending, granted, active, patient>>

Next ==
  \/ \E p \in Proxy : Ask(p) \/ TakeUp(p) \/ Leave(p)
  \/ Grant \/ Refuse \/ Withdraw \/ Close

Spec == Init /\ [][Next]_turns
=============================================================================
