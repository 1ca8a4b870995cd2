----------------------------- MODULE TenantStore -----------------------------
(***************************************************************************)
(* What TieredArenaBridge promises its callers, with the tiers, the slots  *)
(* and the mutex left out: a tenant starts with zeroed memory, keeps what  *)
(* is written through a span until it is destroyed, and is not destroyed   *)
(* while a thread holds a span of it.                                      *)
(***************************************************************************)
EXTENDS Naturals

CONSTANTS Threads, MaxIds

VARIABLES
  payload,  \* what reading each tenant's memory would show
  holds     \* the tenant whose span a thread holds, 0 for none

vars == <<payload, holds>>

Ids == 1 .. MaxIds

Alive(h) == payload[h] \in {"zero", "written"}

Init ==
  /\ payload = [h \in Ids |-> "unborn"]
  /\ holds = [t \in Threads |-> 0]

Create(h) ==
  /\ payload[h] = "unborn"
  /\ payload' = [payload EXCEPT ![h] = "zero"]
  /\ UNCHANGED holds

Destroy(h) ==
  /\ Alive(h)
  /\ \A t \in Threads : holds[t] # h
  /\ payload' = [payload EXCEPT ![h] = "destroyed"]
  /\ UNCHANGED holds

Acquire(t, h) ==
  /\ Alive(h)
  /\ holds[t] = 0
  /\ holds' = [holds EXCEPT ![t] = h]
  /\ UNCHANGED payload

Write(t) ==
  /\ holds[t] # 0
  /\ payload' = [payload EXCEPT ![holds[t]] = "written"]
  /\ UNCHANGED holds

Release(t) ==
  /\ holds' = [holds EXCEPT ![t] = 0]
  /\ UNCHANGED payload

Next ==
  \/ \E h \in Ids : Create(h) \/ Destroy(h)
  \/ \E t \in Threads : Write(t) \/ Release(t) \/ \E h \in Ids : Acquire(t, h)

Spec == Init /\ [][Next]_vars
=============================================================================
