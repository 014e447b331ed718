----------------------------- MODULE LeasedPool -----------------------------
(***************************************************************************)
(* What the connection pool promises, without its lists, flags, counters   *)
(* and condition variables: a connection has one owner at a time, only its *)
(* keeper ever closes it, never while it is lent out, and no more than     *)
(* maxConn of them are open.                                               *)
(***************************************************************************)
EXTENDS Integers, FiniteSets

CONSTANTS Clients, Conns, maxConn

VARIABLE owner  \* owner[c]: a client, "pool", "keeper", or "closed"

IsOpen(c) == owner[c] # "closed"
FreeHanded(t) == \A c \in Conns : owner[c] # t

Init == owner = [c \in Conns |-> "closed"]

Open(c, t) ==
  /\ owner[c] = "closed" /\ FreeHanded(t)
  /\ Cardinality({d \in Conns : IsOpen(d)}) < maxConn
  /\ owner' = [owner EXCEPT ![c] = t]

Lend(c, t) ==
  /\ owner[c] = "pool" /\ FreeHanded(t)
  /\ owner' = [owner EXCEPT ![c] = t]

\* Back to the pool, or to the keeper when it is to be closed.
Return(c, t) ==
  /\ owner[c] = t
  /\ \E o \in {"pool", "keeper"} : owner' = [owner EXCEPT ![c] = o]

Keep(c) ==
  /\ owner[c] = "pool"
  /\ owner' = [owner EXCEPT ![c] = "keeper"]

Release(c) ==
  /\ owner[c] = "keeper"
  /\ owner' = [owner EXCEPT ![c] = "pool"]

Close(c) ==
  /\ owner[c] \in {"pool", "keeper"}
  /\ owner' = [owner EXCEPT ![c] = "closed"]

Next ==
  \E c \in Conns :
    \/ \E t \in Clients : Open(c, t) \/ Lend(c, t) \/ Return(c, t)
    \/ Keep(c) \/ Release(c) \/ Close(c)

Spec == Init /\ [][Next]_owner

=============================================================================
