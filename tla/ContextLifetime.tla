---------------------------- MODULE ContextLifetime ----------------------------
(***************************************************************************)
(* What the server promises about the ServerConnectionContext of each      *)
(* connection, whatever container keeps it and whichever thread frees it:  *)
(* it is built once, serves callbacks until the connection ends, and only  *)
(* then may be reclaimed, once and for good.  ConnectionMap implements     *)
(* this module when one thread delivers every event, until a stream ends.  *)
(***************************************************************************)
CONSTANT Conns

VARIABLE life

Stages == {"absent", "serving", "refused", "ended", "reclaimed"}

Init == life = [c \in Conns |-> "absent"]

Move(c, from, to) ==
    /\ life[c] = from
    /\ life' = [life EXCEPT ![c] = to]

\* The listener callback builds the context ...
Create(c) == Move(c, "absent", "serving")

\* ... and may then refuse the connection, which nothing cleans up after.
Refuse(c) == Move(c, "serving", "refused")

\* msquic has delivered the connection's last event.
End(c) == Move(c, "serving", "ended")

\* A later listener callback frees the context.
Reclaim(c) == Move(c, "ended", "reclaimed")

Next == \E c \in Conns : Create(c) \/ Refuse(c) \/ End(c) \/ Reclaim(c)

Spec == Init /\ [][Next]_life
================================================================================
