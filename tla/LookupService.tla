----------------------------- MODULE LookupService -----------------------------
(***************************************************************************)
(* What the resolver promises the engine, with no thread, lock or queue:   *)
(* every packet it is asked to look up is looked up at most once, one at a *)
(* time, names before addresses and addresses in the order of asking; and  *)
(* none is thrown away before the service is closed.                       *)
(***************************************************************************)
EXTENDS Naturals

CONSTANTS Packet, IPs

VARIABLES pending, current, answered, dropped, closed

svars == <<pending, current, answered, dropped, closed>>

Known == pending \cup current \cup answered \cup dropped

Init ==
  /\ pending = {} /\ current = {} /\ answered = {} /\ dropped = {}
  /\ closed = FALSE

Ask(p) ==
  /\ ~closed
  /\ p \notin Known
  /\ pending' = pending \cup {p}
  /\ UNCHANGED <<current, answered, dropped, closed>>

\* The packets that may be looked up next.
Eligible(p) ==
  /\ p \in pending
  /\ p.host \in IPs => \A q \in pending : q.host \in IPs /\ p.n <= q.n

Begin(p) ==
  /\ current = {}
  /\ Eligible(p)
  /\ current' = {p}
  /\ pending' = pending \ {p}
  /\ UNCHANGED <<answered, dropped, closed>>

Answer ==
  /\ current # {}
  /\ answered' = answered \cup current
  /\ current' = {}
  /\ UNCHANGED <<pending, dropped, closed>>

Close ==
  /\ closed' = TRUE
  /\ UNCHANGED <<pending, current, answered, dropped>>

DropCurrent ==
  /\ closed
  /\ current # {}
  /\ dropped' = dropped \cup current
  /\ current' = {}
  /\ UNCHANGED <<pending, answered, closed>>

DropPending ==
  /\ closed
  /\ current = {}
  /\ dropped' = dropped \cup pending
  /\ pending' = {}
  /\ UNCHANGED <<current, answered, closed>>

Next ==
  \/ \E p \in Packet : Ask(p) \/ Begin(p)
  \/ Answer \/ Close \/ DropCurrent \/ DropPending

\* A lookup that was begun ends.
Spec == Init /\ [][Next]_svars /\ WF_svars(Answer \/ DropCurrent)
=============================================================================
