----------------------------- MODULE TenantLookup -----------------------------
(***************************************************************************)
(* The tenant pool of TieredArenaBridge at the grain of single loads and   *)
(* stores.  createTenant and destroyTenant write a record field by field   *)
(* under struct_mutex_, acquireFP32 pins under it, and release() scans the *)
(* pool and decrements the pin without it.  TieredBridge takes the scan as *)
(* one step; this module is about what happens inside that step.           *)
(*                                                                         *)
(* tenant_id is not atomic.  Its store and load are single steps here, so  *)
(* a racing load returns the old or the new id: what a 64-bit build does.  *)
(***************************************************************************)
EXTENDS Integers, FiniteSets

CONSTANTS
  Threads,
  NoThread,
  MaxTenants,
  MaxIds           \* bound: tenants created in a behaviour

ASSUME LookupAssumption ==
  /\ IsFiniteSet(Threads) /\ NoThread \notin Threads
  /\ MaxTenants \in Nat \ {0} /\ MaxIds \in Nat

Recs == 0 .. MaxTenants - 1
Ids  == 1 .. MaxIds

VARIABLES
  tenants,   \* tenants_: in_use, tenant_id, state and pin_count
  mutex,     \* who holds struct_mutex_
  nextId,    \* next_tenant_id_
  call,      \* where each thread is: step, record, tenant id, pin_count read
  holds,     \* the tenant each thread has acquired, 0 for none
  refused    \* the threads one of whose releases returned false

vars == <<tenants, mutex, nextId, call, holds, refused>>

Idle == [at |-> "idle", rec |-> 0, id |-> 0, cur |-> 0]

Init ==
  /\ tenants = [r \in Recs |-> [inUse |-> FALSE, id |-> 0, state |-> "Dead", pins |-> 0]]
  /\ mutex = NoThread
  /\ nextId = 0
  /\ call = [t \in Threads |-> Idle]
  /\ holds = [t \in Threads |-> 0]
  /\ refused = {}

At(t, step) == call[t].at = step
Begin(t, step, rec, id) ==
  call' = [call EXCEPT ![t] = [at |-> step, rec |-> rec, id |-> id, cur |-> 0]]
Move(t, step, rec, cur) ==
  call' = [call EXCEPT ![t] = [at |-> step, rec |-> rec, id |-> call[t].id, cur |-> cur]]
GoOn(t, step) == Move(t, step, call[t].rec, call[t].cur)
Return(t) == call' = [call EXCEPT ![t] = Idle]

(* findTenantLocked *)
Named(h) == {r \in Recs : tenants[r].inUse /\ tenants[r].id = h}

-----------------------------------------------------------------------------
(* createTenant: the record is written before in_use publishes it *)
CreateCall(t) ==
  /\ At(t, "idle") /\ mutex = NoThread /\ nextId < MaxIds
  /\ \E r \in Recs :
       /\ ~tenants[r].inUse /\ \A q \in Recs : q < r => tenants[q].inUse
       /\ Begin(t, "writeId", r, 0)
  /\ mutex' = t
  /\ UNCHANGED <<tenants, nextId, holds, refused>>

WriteId(t) ==
  /\ At(t, "writeId")
  /\ tenants' = [tenants EXCEPT ![call[t].rec].id = nextId + 1]
  /\ nextId' = nextId + 1
  /\ GoOn(t, "writePin")
  /\ UNCHANGED <<mutex, holds, refused>>

WritePin(t) ==
  /\ At(t, "writePin")
  /\ tenants' = [tenants EXCEPT ![call[t].rec].pins = 0]
  /\ GoOn(t, "writeState")
  /\ UNCHANGED <<mutex, nextId, holds, refused>>

WriteState(t) ==
  /\ At(t, "writeState")
  /\ tenants' = [tenants EXCEPT ![call[t].rec].state = "InHot"]
  /\ GoOn(t, "publish")
  /\ UNCHANGED <<mutex, nextId, holds, refused>>

Publish(t) ==
  /\ At(t, "publish")
  /\ tenants' = [tenants EXCEPT ![call[t].rec].inUse = TRUE]
  /\ mutex' = NoThread
  /\ Return(t)
  /\ UNCHANGED <<nextId, holds, refused>>

-----------------------------------------------------------------------------
(* destroyTenant, of a tenant nobody has acquired or is releasing *)
StillUsed(h) == \E u \in Threads : holds[u] = h \/ call[u].id = h

DestroyCall(t, h) ==
  /\ At(t, "idle") /\ mutex = NoThread
  /\ ~StillUsed(h)
  /\ \E r \in Named(h) : Begin(t, "kill", r, 0)
  /\ mutex' = t
  /\ UNCHANGED <<tenants, nextId, holds, refused>>

Kill(t) ==
  /\ At(t, "kill")
  /\ tenants' = [tenants EXCEPT ![call[t].rec].state = "Dead"]
  /\ GoOn(t, "retire")
  /\ UNCHANGED <<mutex, nextId, holds, refused>>

Retire(t) ==
  /\ At(t, "retire")
  /\ tenants' = [tenants EXCEPT ![call[t].rec].inUse = FALSE]
  /\ mutex' = NoThread
  /\ Return(t)
  /\ UNCHANGED <<nextId, holds, refused>>

-----------------------------------------------------------------------------
(* acquireFP32 of a hot tenant: lookup and fetch_add inside the mutex *)
Acquire(t, h) ==
  /\ At(t, "idle") /\ mutex = NoThread /\ holds[t] = 0
  /\ \E r \in Named(h) :
       /\ tenants[r].state # "Dead"
       /\ tenants' = [tenants EXCEPT ![r].pins = @ + 1]
  /\ holds' = [holds EXCEPT ![t] = h]
  /\ UNCHANGED <<mutex, nextId, call, refused>>

-----------------------------------------------------------------------------
(* release(): findTenantLockfree, then the decrement *)
ReleaseCall(t) ==
  /\ At(t, "idle") /\ holds[t] # 0
  /\ Begin(t, "readInUse", 0, holds[t])
  /\ holds' = [holds EXCEPT ![t] = 0]
  /\ UNCHANGED <<tenants, mutex, nextId, refused>>

ReturnFalse(t) == Return(t) /\ refused' = refused \cup {t}

(* A bug: the scan ends at the first record that does not match. *)
GiveUpScan(t) == ReturnFalse(t)

NextRecord(t) ==
  \/ /\ call[t].rec + 1 \in Recs
     /\ Move(t, "readInUse", call[t].rec + 1, call[t].cur)
     /\ UNCHANGED refused
  \/ call[t].rec + 1 \notin Recs /\ ReturnFalse(t)

(* One test of the scan: on to the next test, or to the next record *)
Test(t, here, passes, there) ==
  /\ At(t, here)
  /\ \/ passes /\ GoOn(t, there) /\ UNCHANGED refused
     \/ ~passes /\ NextRecord(t)
  /\ UNCHANGED <<tenants, mutex, nextId, holds>>

(* A bug: the scan takes the first record in use. *)
ReadAnyId(t) == Test(t, "readId", TRUE, "readState")

ReadInUse(t) == Test(t, "readInUse", tenants[call[t].rec].inUse, "readId")
ReadId(t)    == Test(t, "readId", tenants[call[t].rec].id = call[t].id, "readState")
ReadState(t) == Test(t, "readState", tenants[call[t].rec].state # "Dead", "loadPin")

(* cur is loaded, or reloaded by a failed exchange: zero ends the loop *)
Reload(t) ==
  LET pins == tenants[call[t].rec].pins
  IN  \/ /\ pins > 0
         /\ Move(t, "exchange", call[t].rec, pins)
         /\ UNCHANGED refused
      \/ pins = 0 /\ ReturnFalse(t)

LoadPin(t) ==
  /\ At(t, "loadPin")
  /\ Reload(t)
  /\ UNCHANGED <<tenants, mutex, nextId, holds>>

(* A bug: the decremented count is stored, not exchanged. *)
StorePin(t) ==
  /\ At(t, "exchange")
  /\ tenants' = [tenants EXCEPT ![call[t].rec].pins = call[t].cur - 1]
  /\ Return(t)
  /\ UNCHANGED <<mutex, nextId, holds, refused>>

ExchangePin(t) ==
  /\ At(t, "exchange")
  /\ \/ /\ tenants[call[t].rec].pins = call[t].cur
        /\ tenants' = [tenants EXCEPT ![call[t].rec].pins = call[t].cur - 1]
        /\ Return(t)
        /\ UNCHANGED refused
     \/ /\ tenants[call[t].rec].pins # call[t].cur
        /\ Reload(t)
        /\ UNCHANGED tenants
  /\ UNCHANGED <<mutex, nextId, holds>>

Step(t) ==
  \/ CreateCall(t) \/ WriteId(t) \/ WritePin(t) \/ WriteState(t) \/ Publish(t)
  \/ Kill(t) \/ Retire(t)
  \/ ReleaseCall(t) \/ ReadInUse(t) \/ ReadId(t) \/ ReadState(t) \/ LoadPin(t) \/ ExchangePin(t)
  \/ \E h \in Ids : DestroyCall(t, h) \/ Acquire(t, h)

Next == \E t \in Threads : Step(t)

Spec == Init /\ [][Next]_vars

-----------------------------------------------------------------------------
(* EC1, EC2: every published tenant's pin_count is the number of threads   *)
(* that hold it, those inside release() included, although release() finds *)
(* the record by a scan that runs concurrently with creation and           *)
(* destruction of other tenants.                                           *)
PinsCountHolders ==
  \A r \in Recs : tenants[r].inUse /\ tenants[r].state # "Dead" =>
    tenants[r].pins = Cardinality({t \in Threads : holds[t] = tenants[r].id})
                      + Cardinality({t \in Threads : call[t].id = tenants[r].id})

(* The scan never overlooks the caller's own tenant: a release() that      *)
(* matches an acquire returns true.                                        *)
ReleaseNeverRefused == refused = {}

(* The decrement hits the record of the tenant that was acquired.          *)
DecrementHitsOwnTenant ==
  \A t \in Threads : call[t].at \in {"loadPin", "exchange"} =>
    tenants[call[t].rec].inUse /\ tenants[call[t].rec].id = call[t].id

(* What the comments on findTenantLockfree say: while release() scans,     *)
(* only the state transitions race, so the plain field tenant_id is never  *)
(* written and read by two threads at once.                                *)
OnlyStateRaces ==
  \A t, u \in Threads :
    call[t].at = "writeId" /\ call[u].at = "readId" => call[t].rec # call[u].rec
=============================================================================
