-------------------------- MODULE TenantLookupProofs --------------------------
(***************************************************************************)
(* TenantLookup for any finite number of threads, any pool and any number  *)
(* of tenants: release() scans the pool without the mutex and still finds  *)
(* the record it pinned, decrements that one, and the count stays the      *)
(* number of holders.                                                      *)
(***************************************************************************)
EXTENDS TenantLookup, FiniteSetTheorems, TLAPS

Creating == {"writeId", "writePin", "writeState", "publish"}
Destroying == {"kill", "retire"}
Matched == {"readState", "loadPin", "exchange"}
Scanning == {"readInUse", "readId"} \cup Matched

LookupTypeOK ==
  /\ tenants \in [Recs -> [inUse : BOOLEAN, id : Nat, state : {"InHot", "Dead"}, pins : Nat]]
  /\ nextId \in Nat
  /\ call \in [Threads -> [at : {"idle"} \cup Creating \cup Destroying \cup Scanning,
                           rec : Recs, id : Nat, cur : Nat]]
  /\ holds \in [Threads -> Nat]

(* struct_mutex_: whoever is inside createTenant or destroyTenant has it. *)
WritersLock == \A t \in Threads : call[t].at \in Creating \cup Destroying <=> mutex = t

(***************************************************************************)
(* An id is written once and never again: two records never share one, not *)
(* even a record in use and one retired long ago.  The scan needs that,    *)
(* since it reads in_use and tenant_id at two moments.                     *)
(***************************************************************************)
IdsUnique ==
  /\ \A r \in Recs : tenants[r].id <= nextId /\ (tenants[r].inUse => tenants[r].id # 0)
  /\ \A r, q \in Recs : tenants[r].id = tenants[q].id => r = q \/ tenants[r].id = 0

CreatorsRecord ==
  \A t \in Threads :
    /\ call[t].at \in Creating => ~tenants[call[t].rec].inUse
    /\ call[t].at \in Creating \ {"writeId"} => tenants[call[t].rec].id # 0
    /\ call[t].at \in {"writeState", "publish"} => tenants[call[t].rec].pins = 0

DestroyersRecord ==
  \A t \in Threads : call[t].at \in Destroying =>
    /\ tenants[call[t].rec].inUse
    /\ ~StillUsed(tenants[call[t].rec].id)

(* A tenant somebody holds, or is releasing, is there and not dead; a scan *)
(* for it has not passed its record yet.                                   *)
There(h, from) ==
  \E r \in Recs : from <= r /\ tenants[r].inUse /\ tenants[r].id = h /\ tenants[r].state # "Dead"

UsersTenant ==
  \A t \in Threads :
    /\ holds[t] # 0 => There(holds[t], 0)
    /\ call[t].at \in Scanning => call[t].id # 0 /\ There(call[t].id, call[t].rec)
    /\ call[t].at \notin Scanning => call[t].id = 0
    /\ call[t].at \in Matched => tenants[call[t].rec].id = call[t].id

(* How many threads hold a tenant, or are releasing it. *)
Users(h) == Cardinality({u \in Threads : holds[u] = h})
            + Cardinality({u \in Threads : call[u].id = h})

(* PinsCountHolders, tenant by tenant. *)
PinsCounted ==
  \A r \in Recs, h \in Nat :
    tenants[r].inUse /\ tenants[r].id = h /\ tenants[r].state # "Dead" => tenants[r].pins = Users(h)

LookupInv ==
  /\ LookupTypeOK
  /\ WritersLock /\ IdsUnique
  /\ CreatorsRecord /\ DestroyersRecord /\ UsersTenant
  /\ PinsCounted
  /\ ReleaseNeverRefused

-----------------------------------------------------------------------------
(* The counts. *)

(* Sets of threads are finite, and have a size. *)
LEMMA UsersCounted ==
  ASSUME NEW P \in SUBSET Threads
  PROVE  IsFiniteSet(P) /\ Cardinality(P) \in Nat /\ (Cardinality(P) = 0 <=> P = {})
BY LookupAssumption, FS_Subset, FS_CardinalityType, FS_EmptySet

(* One thread more. *)
LEMMA OneMore ==
  ASSUME NEW P \in SUBSET Threads, NEW t \in Threads \ P
  PROVE  Cardinality(P \cup {t}) = Cardinality(P) + 1
BY UsersCounted, FS_AddElement

(* One thread less. *)
LEMMA OneLess ==
  ASSUME NEW P \in SUBSET Threads, NEW t \in P
  PROVE  Cardinality(P \ {t}) = Cardinality(P) - 1
BY UsersCounted, FS_RemoveElement

(* A step that leaves everybody's tenant alone leaves the counts alone. *)
LEMMA UsersKept ==
  ASSUME NEW h, \A u \in Threads : (holds'[u] = h <=> holds[u] = h) /\ (call'[u].id = h <=> call[u].id = h)
  PROVE  Users(h)' = Users(h)
<1>1. {u \in Threads : holds'[u] = h} = {u \in Threads : holds[u] = h}
  OBVIOUS
<1>2. {u \in Threads : call'[u].id = h} = {u \in Threads : call[u].id = h}
  OBVIOUS
<1> QED
  BY <1>1, <1>2 DEF Users

(* A tenant no thread uses. *)
LEMMA NoUsers ==
  ASSUME NEW h, \A u \in Threads : holds[u] # h /\ call[u].id # h
  PROVE  Users(h) = 0
<1> DEFINE P == {u \in Threads : holds[u] = h}
           Q == {u \in Threads : call[u].id = h}
<1>1. P = {} /\ Q = {}
  OBVIOUS
<1>2. Users(h) = Cardinality(P) + Cardinality(Q)
  BY DEF Users
<1> HIDE DEF P, Q
<1> QED
  BY <1>1, <1>2, FS_EmptySet

(* An acquire adds one user, the call of release() moves one, and its      *)
(* exchange takes one away.                                                *)
LEMMA UsersGain ==
  ASSUME NEW h, NEW t \in Threads, holds[t] # h, call' = call,
         holds'[t] = h, \A u \in Threads \ {t} : holds'[u] = holds[u]
  PROVE  Users(h)' = Users(h) + 1
<1> DEFINE P == {u \in Threads : holds[u] = h}
           Q == {u \in Threads : call[u].id = h}
<1>1. {u \in Threads : holds'[u] = h} = P \cup {t} /\ P \in SUBSET Threads /\ t \notin P
  OBVIOUS
<1>2. Q \in SUBSET Threads /\ Users(h)' = Cardinality(P \cup {t}) + Cardinality(Q)
  BY <1>1 DEF Users
<1>3. Users(h) = Cardinality(P) + Cardinality(Q)
  BY DEF Users
<1> HIDE DEF P, Q
<1> QED
  BY <1>1, <1>2, <1>3, OneMore, UsersCounted

(* A thread that goes from holding a tenant to releasing it is counted all along. *)
LEMMA UsersMove ==
  ASSUME NEW h, NEW t \in Threads, holds[t] = h, call[t].id # h,
         holds'[t] # h, call'[t].id = h,
         \A u \in Threads \ {t} : holds'[u] = holds[u] /\ call'[u] = call[u]
  PROVE  Users(h)' = Users(h)
<1> DEFINE P == {u \in Threads : holds[u] = h}
           Q == {u \in Threads : call[u].id = h}
<1>1. {u \in Threads : holds'[u] = h} = P \ {t} /\ P \in SUBSET Threads /\ t \in P
  OBVIOUS
<1>2. {u \in Threads : call'[u].id = h} = Q \cup {t} /\ Q \in SUBSET Threads /\ t \notin Q
  OBVIOUS
<1>3. Users(h)' = Cardinality(P \ {t}) + Cardinality(Q \cup {t})
  BY <1>1, <1>2 DEF Users
<1>4. Users(h) = Cardinality(P) + Cardinality(Q)
  BY DEF Users
<1> HIDE DEF P, Q
<1> QED
  BY <1>1, <1>2, <1>3, <1>4, OneMore, OneLess, UsersCounted, Z3

(* A thread that has released is counted no more. *)
LEMMA UsersLose ==
  ASSUME NEW h, NEW t \in Threads, holds' = holds, call[t].id = h, call'[t].id # h,
         \A u \in Threads \ {t} : call'[u] = call[u]
  PROVE  Users(h)' = Users(h) - 1
<1> DEFINE P == {u \in Threads : holds[u] = h}
           Q == {u \in Threads : call[u].id = h}
<1>1. {u \in Threads : call'[u].id = h} = Q \ {t} /\ Q \in SUBSET Threads /\ t \in Q
  OBVIOUS
<1>2. P \in SUBSET Threads /\ Users(h)' = Cardinality(P) + Cardinality(Q \ {t})
  BY <1>1 DEF Users
<1>3. Users(h) = Cardinality(P) + Cardinality(Q)
  BY DEF Users
<1> HIDE DEF P, Q
<1> QED
  BY <1>1, <1>2, <1>3, OneLess, UsersCounted

(* PinsCountHolders follows from the counts of the invariant. *)
LEMMA CountedIsHolders == LookupTypeOK /\ PinsCounted => PinsCountHolders
BY DEF LookupTypeOK, PinsCounted, PinsCountHolders, Users

-----------------------------------------------------------------------------
(* The empty pool satisfies the invariant. *)
LEMMA InitLookup == Init => LookupInv
<1> SUFFICES ASSUME Init PROVE LookupInv
  OBVIOUS
<1> USE DEF Init, Idle
<1>1. 0 \in Recs
  BY LookupAssumption DEF Recs
<1>2. LookupTypeOK
  BY <1>1 DEF LookupTypeOK
<1>3. WritersLock
  BY LookupAssumption DEF WritersLock, Creating, Destroying
<1>4. IdsUnique /\ CreatorsRecord /\ DestroyersRecord /\ UsersTenant
  BY DEF IdsUnique, CreatorsRecord, DestroyersRecord, UsersTenant, Creating, Destroying, Scanning, Matched
<1>5. PinsCounted /\ ReleaseNeverRefused
  BY DEF PinsCounted, ReleaseNeverRefused
<1> QED
  BY <1>2, <1>3, <1>4, <1>5 DEF LookupInv

(* What a step of the scan owes: the thread is still on its way to the     *)
(* record it pinned.                                                       *)
LEMMA ScanGoesOn ==
  ASSUME LookupInv, NEW t \in Threads, call[t].at \in Scanning,
         NEW at \in Scanning, NEW rec \in Recs, NEW cur \in Nat,
         Move(t, at, rec, cur),
         There(call[t].id, rec),
         at \in Matched => tenants[rec].id = call[t].id,
         UNCHANGED <<tenants, mutex, nextId, holds, refused>>
  PROVE  LookupInv'
<1> USE DEF LookupInv
<1>1. LookupTypeOK'
  BY DEF LookupTypeOK, Move
<1>2. /\ call'[t].at = at /\ call'[t].rec = rec /\ call'[t].id = call[t].id
      /\ \A u \in Threads \ {t} : call'[u] = call[u]
  BY DEF LookupTypeOK, Move
<1>3. at \notin Creating \cup Destroying /\ call[t].at \notin Creating \cup Destroying
  BY DEF Scanning, Matched, Creating, Destroying
<1>4. WritersLock'
  BY <1>2, <1>3 DEF WritersLock
<1>5. IdsUnique' /\ ReleaseNeverRefused'
  BY DEF IdsUnique, ReleaseNeverRefused
<1>6. CreatorsRecord'
  BY <1>2, <1>3 DEF CreatorsRecord, Creating
<1>7. DestroyersRecord'
  BY <1>2, <1>3 DEF DestroyersRecord, StillUsed
<1>8. UsersTenant'
  BY <1>2 DEF UsersTenant, There
<1>9. PinsCounted'
  <2>1. \A h : Users(h)' = Users(h)
    BY <1>2, UsersKept
  <2> QED
    BY <2>1 DEF PinsCounted
<1> QED
  BY <1>1, <1>4, <1>5, <1>6, <1>7, <1>8, <1>9

(* The record a scan is looking for, and that no other record can match. *)
LEMMA OwnRecord ==
  ASSUME LookupInv, NEW t \in Threads, call[t].at \in Scanning
  PROVE  /\ call[t].rec \in Recs /\ call[t].cur \in Nat
         /\ \E r \in Recs : /\ call[t].rec <= r
                            /\ tenants[r].inUse /\ tenants[r].id = call[t].id /\ tenants[r].state # "Dead"
                            /\ \A q \in Recs : tenants[q].id = call[t].id => q = r
BY DEF LookupInv, LookupTypeOK, UsersTenant, There, IdsUnique

(* A test of the scan: the thread's own record passes, and another one is  *)
(* followed by the next.                                                   *)
LEMMA TestStep ==
  ASSUME LookupInv, NEW t \in Threads, NEW here \in Scanning, NEW there \in Scanning,
         NEW passes \in BOOLEAN, Test(t, here, passes, there),
         \A r \in Recs : (r = call[t].rec /\ tenants[r].inUse /\ tenants[r].id = call[t].id
                            /\ tenants[r].state # "Dead") => passes,
         passes /\ there \in Matched => tenants[call[t].rec].id = call[t].id
  PROVE  LookupInv'
<1>1. /\ call[t].at = here /\ UNCHANGED <<tenants, mutex, nextId, holds>>
      /\ \/ passes /\ GoOn(t, there) /\ UNCHANGED refused
         \/ ~passes /\ NextRecord(t)
  BY DEF Test, At
<1>2. PICK r \in Recs : /\ call[t].rec <= r
                        /\ tenants[r].inUse /\ tenants[r].id = call[t].id /\ tenants[r].state # "Dead"
  BY <1>1, OwnRecord
<1>3. call[t].rec \in Recs /\ call[t].cur \in Nat
  BY <1>1, OwnRecord
<1>4. CASE passes /\ GoOn(t, there) /\ UNCHANGED refused
  <2>1. Move(t, there, call[t].rec, call[t].cur)
    BY <1>4 DEF GoOn
  <2>2. There(call[t].id, call[t].rec)
    BY <1>2 DEF There
  <2> QED
    BY <1>1, <1>3, <1>4, <2>1, <2>2, ScanGoesOn
<1>5. CASE ~passes /\ NextRecord(t)
  <2>1. call[t].rec # r
    BY <1>2, <1>5
  <2>2. call[t].rec + 1 \in Recs /\ call[t].rec + 1 <= r
    BY <1>2, <1>3, <2>1, LookupAssumption DEF Recs
  <2>3. Move(t, "readInUse", call[t].rec + 1, call[t].cur) /\ UNCHANGED refused
    BY <1>5, <2>2 DEF NextRecord
  <2>5. There(call[t].id, call[t].rec + 1)
    BY <1>2, <2>2 DEF There
  <2>6. "readInUse" \in Scanning /\ "readInUse" \notin Matched
    BY DEF Scanning, Matched
  <2> QED
    BY <1>1, <1>3, <2>2, <2>3, <2>5, <2>6, ScanGoesOn
<1> QED
  BY <1>1, <1>4, <1>5

(* findTenantLockfree reads a field of a record. *)
LEMMA ReadStep ==
  ASSUME LookupInv, NEW t \in Threads, ReadInUse(t) \/ ReadId(t) \/ ReadState(t)
  PROVE  LookupInv'
<1> USE DEF Scanning, Matched
<1>1. CASE ReadInUse(t)
  <2>1. tenants[call[t].rec].inUse \in BOOLEAN
    BY DEF LookupInv, LookupTypeOK
  <2> QED
    BY <1>1, <2>1, TestStep DEF ReadInUse
<1>2. CASE ReadId(t)
  BY <1>2, TestStep DEF ReadId
<1>3. CASE ReadState(t)
  <2>1. tenants[call[t].rec].id = call[t].id
    BY <1>3 DEF ReadState, Test, At, LookupInv, UsersTenant
  <2> QED
    BY <1>3, <2>1, TestStep DEF ReadState
<1> QED
  BY <1>1, <1>2, <1>3, SMTT(60)

(* Past the scan a thread is at its own record, and its pin is counted. *)
LEMMA MatchedIsPinned ==
  ASSUME LookupInv, NEW t \in Threads, call[t].at \in Matched
  PROVE  LET r == call[t].rec
         IN  /\ r \in Recs /\ tenants[r].inUse /\ tenants[r].id = call[t].id
             /\ tenants[r].state # "Dead" /\ tenants[r].pins = Users(call[t].id) /\ tenants[r].pins > 0
<1> DEFINE r == call[t].rec
<1>1. r \in Recs /\ tenants[r].id = call[t].id
  BY DEF LookupInv, LookupTypeOK, UsersTenant
<1>2. tenants[r].inUse /\ tenants[r].state # "Dead"
  BY <1>1, OwnRecord DEF Scanning
<1>3. tenants[r].pins = Users(call[t].id)
  BY <1>1, <1>2 DEF LookupInv, LookupTypeOK, PinsCounted
<1>4. Users(call[t].id) > 0
  <2> DEFINE P == {u \in Threads : call[u].id = call[t].id}
             Q == {u \in Threads : holds[u] = call[t].id}
  <2>1. P \in SUBSET Threads /\ Q \in SUBSET Threads /\ P # {}
    OBVIOUS
  <2> HIDE DEF P, Q
  <2>2. Cardinality(P) \in Nat \ {0} /\ Cardinality(Q) \in Nat
    BY <2>1, UsersCounted
  <2> QED
    BY <2>2 DEF Users, P, Q
<1> QED
  BY <1>1, <1>2, <1>3, <1>4

(* cur is reloaded: the pin is never found zero. *)
LEMMA ReloadStep ==
  ASSUME LookupInv, NEW t \in Threads, call[t].at \in Matched, Reload(t),
         UNCHANGED <<tenants, mutex, nextId, holds>>
  PROVE  LookupInv'
<1> DEFINE pins == tenants[call[t].rec].pins
<1>1. /\ call[t].rec \in Recs /\ pins > 0 /\ tenants[call[t].rec].id = call[t].id
      /\ There(call[t].id, call[t].rec)
  BY MatchedIsPinned DEF There, Recs
<1>2. pins \in Nat
  BY <1>1 DEF LookupInv, LookupTypeOK
<1>3. Move(t, "exchange", call[t].rec, pins) /\ UNCHANGED refused
  BY <1>1 DEF Reload
<1> HIDE DEF pins
<1>5. "exchange" \in Scanning /\ call[t].at \in Scanning
  BY DEF Scanning, Matched
<1> QED
  BY <1>1, <1>2, <1>3, <1>5, ScanGoesOn

(* release() loads pin_count. *)
LEMMA LoadPinStep ==
  ASSUME LookupInv, NEW t \in Threads, LoadPin(t)
  PROVE  LookupInv'
BY ReloadStep DEF LoadPin, At, Matched

-----------------------------------------------------------------------------
(* createTenant *)

(* createTenant starts, with the mutex. *)
LEMMA CreateCallStep ==
  ASSUME LookupInv, NEW t \in Threads, CreateCall(t)
  PROVE  LookupInv'
<1> USE DEF LookupInv
<1>1. PICK r \in Recs :
        /\ ~tenants[r].inUse
        /\ call' = [call EXCEPT ![t] = [at |-> "writeId", rec |-> r, id |-> 0, cur |-> 0]]
  BY DEF CreateCall, Begin
<1>2. /\ call[t].at = "idle" /\ mutex = NoThread /\ mutex' = t
      /\ UNCHANGED <<tenants, nextId, holds, refused>>
  BY DEF CreateCall, At
<1>3. LookupTypeOK'
  BY <1>1, <1>2 DEF LookupTypeOK, Creating
<1>4. /\ call'[t].at = "writeId" /\ call'[t].rec = r /\ call'[t].id = 0
      /\ \A u \in Threads \ {t} : call'[u] = call[u]
  BY <1>1 DEF LookupTypeOK
<1>5. call[t].id = 0
  BY <1>2 DEF UsersTenant, Scanning, Matched
<1>6. WritersLock'
  BY <1>2, <1>4, LookupAssumption DEF WritersLock, Creating, Destroying
<1>7. IdsUnique' /\ ReleaseNeverRefused'
  BY <1>2 DEF IdsUnique, ReleaseNeverRefused
<1>8. CreatorsRecord'
  BY <1>1, <1>2, <1>4 DEF CreatorsRecord, Creating
<1>9. DestroyersRecord'
  BY <1>2, <1>4, LookupAssumption DEF DestroyersRecord, WritersLock, Creating, Destroying
<1>10. UsersTenant'
  BY <1>2, <1>4 DEF UsersTenant, There, Scanning, Matched
<1>11. PinsCounted'
  <2>1. \A h : Users(h)' = Users(h)
    BY <1>2, <1>4, <1>5, UsersKept
  <2> QED
    BY <1>2, <2>1 DEF PinsCounted
<1> QED
  BY <1>3, <1>6, <1>7, <1>8, <1>9, <1>10, <1>11

(***************************************************************************)
(* The stores of createTenant go to a record that is not in use, so they   *)
(* touch nobody's tenant.                                                  *)
(***************************************************************************)
LEMMA CreateWrites ==
  ASSUME LookupInv, NEW t \in Threads, call[t].at \in Creating,
         NEW there \in Creating \ {"writeId"}, GoOn(t, there), LookupTypeOK',
         \A q \in Recs \ {call[t].rec} : tenants'[q] = tenants[q] /\ tenants[q].id # tenants'[call[t].rec].id,
         ~tenants'[call[t].rec].inUse,
         tenants'[call[t].rec].id # 0 /\ tenants'[call[t].rec].id <= nextId' /\ nextId <= nextId',
         there \in {"writeState", "publish"} => tenants'[call[t].rec].pins = 0,
         UNCHANGED <<mutex, holds, refused>>
  PROVE  LookupInv'
<1> USE DEF LookupInv
<1> DEFINE r == call[t].rec
<1>1. r \in Recs /\ ~tenants[r].inUse
  BY DEF LookupTypeOK, CreatorsRecord
<1>3. /\ call'[t].at = there /\ call'[t].rec = r /\ call'[t].id = call[t].id
      /\ \A u \in Threads \ {t} : call'[u] = call[u]
  BY DEF LookupTypeOK, GoOn, Move
<1>5. \A q \in Recs : tenants[q].id \in Nat /\ tenants'[q].id \in Nat
  BY DEF LookupTypeOK
<1>6. \A u \in Threads : call[u].at \in Creating \cup Destroying => u = t
  BY LookupAssumption DEF WritersLock
<1> HIDE DEF r
<1>7. WritersLock'
  BY <1>3 DEF WritersLock
<1>8. IdsUnique' /\ ReleaseNeverRefused'
  <2>1. \A q \in Recs : tenants'[q].id <= nextId' /\ (tenants'[q].inUse => tenants'[q].id # 0)
    BY <1>5 DEF IdsUnique, LookupTypeOK, r
  <2>2. \A p, q \in Recs : tenants'[p].id = tenants'[q].id => p = q \/ tenants'[p].id = 0
    BY <1>1, <1>5 DEF IdsUnique, r
  <2> QED
    BY <2>1, <2>2 DEF IdsUnique, ReleaseNeverRefused
<1>9. CreatorsRecord'
  <2>1. \A u \in Threads : call'[u].at \in Creating => u = t
    BY <1>3, <1>6
  <2> QED
    BY <1>3, <2>1 DEF CreatorsRecord, Creating, r
<1>10. DestroyersRecord'
  BY <1>3, <1>6 DEF DestroyersRecord, Creating, Destroying
<1>11. \A h, from : There(h, from) => There(h, from)'
  BY <1>1 DEF There, r
<1>12. UsersTenant'
  <2>1. \A u \in Threads : call[u].at \in Matched => call[u].rec # r
    BY <1>1, MatchedIsPinned
  <2>2. \A u \in Threads : call[u].rec \in Recs
    BY DEF LookupTypeOK
  <2>3. call[t].at \notin Scanning /\ there \notin Scanning
    BY DEF Creating, Scanning, Matched
  <2> QED
    BY <1>3, <1>11, <2>1, <2>2, <2>3 DEF UsersTenant, Scanning, r
<1>13. PinsCounted'
  <2>1. \A h : Users(h)' = Users(h)
    BY <1>3, UsersKept
  <2> QED
    BY <2>1 DEF PinsCounted, r
<1> QED
  BY <1>7, <1>8, <1>9, <1>10, <1>12, <1>13

(* createTenant fills the fields of a free record. *)
LEMMA CreateStep ==
  ASSUME LookupInv, NEW t \in Threads, WriteId(t) \/ WritePin(t) \/ WriteState(t)
  PROVE  LookupInv'
<1> USE DEF LookupInv
<1> DEFINE r == call[t].rec
<1>1. /\ call[t].at \in Creating /\ r \in Recs /\ ~tenants[r].inUse /\ nextId \in Nat
  BY DEF WriteId, WritePin, WriteState, At, Creating, LookupTypeOK, CreatorsRecord
<1>2. UNCHANGED <<mutex, holds, refused>>
  BY DEF WriteId, WritePin, WriteState
<1>3. CASE WriteId(t)
  <2>1. /\ tenants' = [tenants EXCEPT ![r].id = nextId + 1] /\ nextId' = nextId + 1
        /\ GoOn(t, "writePin")
    BY <1>3 DEF WriteId
  <2>2. LookupTypeOK'
    <3>1. tenants' \in [Recs -> [inUse : BOOLEAN, id : Nat, state : {"InHot", "Dead"}, pins : Nat]]
      BY <1>1, <2>1, Z3T(60) DEF LookupTypeOK
    <3>2. call' \in [Threads -> [at : {"idle"} \cup Creating \cup Destroying \cup Scanning,
                                 rec : Recs, id : Nat, cur : Nat]]
      BY <1>1, <2>1 DEF LookupTypeOK, GoOn, Move, Creating
    <3> QED
      BY <1>1, <1>2, <2>1, <3>1, <3>2 DEF LookupTypeOK
  <2>3. /\ tenants'[r].id = nextId + 1 /\ tenants'[r].inUse = FALSE
        /\ \A q \in Recs \ {r} : tenants'[q] = tenants[q] /\ tenants[q].id # nextId + 1
    BY <1>1, <2>1 DEF IdsUnique, LookupTypeOK
  <2> QED
    BY <1>1, <1>2, <2>1, <2>2, <2>3, CreateWrites DEF Creating
<1>4. CASE WritePin(t) \/ WriteState(t)
  <2>1. /\ call[t].at \in {"writePin", "writeState"} /\ nextId' = nextId
        /\ \/ GoOn(t, "writeState") /\ tenants' = [tenants EXCEPT ![r].pins = 0]
           \/ GoOn(t, "publish") /\ tenants' = [tenants EXCEPT ![r].state = "InHot"] /\ call[t].at = "writeState"
    BY <1>4 DEF WritePin, WriteState, At
  <2>2. LookupTypeOK'
    <3>1. tenants' \in [Recs -> [inUse : BOOLEAN, id : Nat, state : {"InHot", "Dead"}, pins : Nat]]
      BY <1>1, <2>1 DEF LookupTypeOK
    <3>2. call' \in [Threads -> [at : {"idle"} \cup Creating \cup Destroying \cup Scanning,
                                 rec : Recs, id : Nat, cur : Nat]]
      BY <1>1, <2>1 DEF LookupTypeOK, GoOn, Move, Creating
    <3> QED
      BY <1>1, <1>2, <2>1, <3>1, <3>2 DEF LookupTypeOK
  <2>3. tenants[r].id # 0 /\ (call[t].at = "writeState" => tenants[r].pins = 0)
    BY <2>1 DEF CreatorsRecord, Creating
  <2>4. /\ tenants'[r].id = tenants[r].id /\ tenants'[r].inUse = FALSE /\ tenants'[r].pins = 0
        /\ \A q \in Recs \ {r} : tenants'[q] = tenants[q]
    BY <1>1, <2>1, <2>3 DEF LookupTypeOK
  <2>5. tenants[r].id <= nextId /\ \A q \in Recs \ {r} : tenants[q].id # tenants[r].id
    BY <1>1, <2>3 DEF IdsUnique
  <2> QED
    BY <1>1, <1>2, <2>1, <2>2, <2>3, <2>4, <2>5, CreateWrites DEF Creating
<1> QED
  BY <1>3, <1>4

(* createTenant sets in_use: the tenant can be found. *)
LEMMA PublishStep ==
  ASSUME LookupInv, NEW t \in Threads, Publish(t)
  PROVE  LookupInv'
<1> USE DEF LookupInv
<1> DEFINE r == call[t].rec
<1>1. /\ call[t].at = "publish" /\ r \in Recs /\ ~tenants[r].inUse
      /\ tenants[r].id # 0 /\ tenants[r].id \in Nat /\ tenants[r].pins = 0
  BY DEF Publish, At, Creating, LookupTypeOK, CreatorsRecord
<1>2. /\ tenants' = [tenants EXCEPT ![r].inUse = TRUE] /\ mutex' = NoThread
      /\ call' = [call EXCEPT ![t] = [at |-> "idle", rec |-> 0, id |-> 0, cur |-> 0]]
      /\ UNCHANGED <<nextId, holds, refused>>
  BY DEF Publish, Return, Idle
<1>3. LookupTypeOK'
  <2>1. 0 \in Recs
    BY <1>1, LookupAssumption DEF Recs
  <2>2. tenants' \in [Recs -> [inUse : BOOLEAN, id : Nat, state : {"InHot", "Dead"}, pins : Nat]]
    <3> DEFINE R == [inUse : BOOLEAN, id : Nat, state : {"InHot", "Dead"}, pins : Nat]
               s == [tenants[r] EXCEPT !.inUse = TRUE]
    <3>1. tenants \in [Recs -> R] /\ tenants' = [tenants EXCEPT ![r] = s]
      BY <1>2 DEF LookupTypeOK
    <3>2. s \in R
      BY <1>1, <3>1, ZenonT(60)
    <3> HIDE DEF R, s
    <3>3. tenants' \in [Recs -> R]
      BY <3>1, <3>2, Zenon
    <3> QED
      BY <3>3 DEF R
  <2>3. call' \in [Threads -> [at : {"idle"} \cup Creating \cup Destroying \cup Scanning,
                               rec : Recs, id : Nat, cur : Nat]]
    BY <1>2, <2>1 DEF LookupTypeOK
  <2> QED
    BY <1>2, <2>2, <2>3 DEF LookupTypeOK
<1>4. /\ tenants'[r].id = tenants[r].id /\ tenants'[r].inUse = TRUE /\ tenants'[r].pins = 0
      /\ \A q \in Recs \ {r} : tenants'[q] = tenants[q]
      /\ call'[t].at = "idle" /\ call'[t].id = 0
      /\ \A u \in Threads \ {t} : call'[u] = call[u]
  BY <1>1, <1>2 DEF LookupTypeOK
<1>5. call[t].id = 0
  BY <1>1 DEF UsersTenant, Scanning, Matched
<1>6. \A u \in Threads : call[u].at \in Creating \cup Destroying => u = t
  BY <1>1, LookupAssumption DEF WritersLock, Creating
<1>14. \A u \in Threads : call'[u].at \notin Creating \cup Destroying
  BY <1>4, <1>6 DEF Creating, Destroying
<1> HIDE DEF r
<1>7. WritersLock'
  BY <1>2, <1>14, LookupAssumption DEF WritersLock
<1>8. IdsUnique' /\ ReleaseNeverRefused'
  BY <1>1, <1>2, <1>4 DEF IdsUnique, ReleaseNeverRefused
<1>9. CreatorsRecord' /\ DestroyersRecord'
  BY <1>14 DEF CreatorsRecord, DestroyersRecord, Creating
<1>11. \A h, from : There(h, from) => There(h, from)'
  BY <1>1, <1>4 DEF There
<1>12. UsersTenant'
  <2>1. \A u \in Threads : call[u].rec \in Recs /\ (call[u].at \in Matched => call[u].rec # r)
    BY <1>1, MatchedIsPinned DEF LookupTypeOK
  <2> QED
    BY <1>2, <1>4, <1>11, <2>1 DEF UsersTenant, Scanning, Matched
<1>13. PinsCounted'
  <2>1. \A h : Users(h)' = Users(h)
    BY <1>2, <1>4, <1>5, UsersKept
  <2>2. Users(tenants[r].id) = 0
    <3>1. \A from : ~There(tenants[r].id, from)
      BY <1>1 DEF There, IdsUnique
    <3>2. \A u \in Threads : holds[u] # tenants[r].id /\ call[u].id # tenants[r].id
      BY <1>1, <3>1 DEF UsersTenant
    <3> QED
      BY <3>2, NoUsers
  <2>3. \A q \in Recs \ {r} : tenants[q].id # tenants[r].id
    BY <1>1 DEF IdsUnique
  <2> QED
    BY <1>1, <1>4, <2>1, <2>2, <2>3 DEF PinsCounted
<1> QED
  BY <1>3, <1>7, <1>8, <1>9, <1>12, <1>13

-----------------------------------------------------------------------------
(* destroyTenant *)

(* destroyTenant retires a record nobody has pinned. *)
LEMMA DestroyCallStep ==
  ASSUME LookupInv, NEW t \in Threads, NEW h \in Ids, DestroyCall(t, h)
  PROVE  LookupInv'
<1> USE DEF LookupInv
<1>1. PICK r \in Recs :
        /\ tenants[r].inUse /\ tenants[r].id = h
        /\ call' = [call EXCEPT ![t] = [at |-> "kill", rec |-> r, id |-> 0, cur |-> 0]]
  BY DEF DestroyCall, Begin, Named
<1>2. /\ call[t].at = "idle" /\ mutex = NoThread /\ mutex' = t /\ ~StillUsed(h)
      /\ UNCHANGED <<tenants, nextId, holds, refused>>
  BY DEF DestroyCall, At
<1>3. LookupTypeOK'
  BY <1>1, <1>2 DEF LookupTypeOK, Destroying
<1>4. /\ call'[t].at = "kill" /\ call'[t].rec = r /\ call'[t].id = 0
      /\ \A u \in Threads \ {t} : call'[u] = call[u]
  BY <1>1 DEF LookupTypeOK
<1>5. call[t].id = 0
  BY <1>2 DEF UsersTenant, Scanning, Matched
<1>6. WritersLock'
  BY <1>2, <1>4, LookupAssumption DEF WritersLock, Creating, Destroying
<1>7. IdsUnique' /\ ReleaseNeverRefused'
  BY <1>2 DEF IdsUnique, ReleaseNeverRefused
<1>8. \A u \in Threads : call'[u].at \in Creating \cup Destroying => u = t
  BY <1>2, <1>4, LookupAssumption DEF WritersLock
<1>9. CreatorsRecord' /\ DestroyersRecord'
  <2>1. ~StillUsed(h)'
    BY <1>2, <1>4 DEF StillUsed, Ids
  <2> QED
    BY <1>1, <1>2, <1>4, <1>8, <2>1 DEF CreatorsRecord, DestroyersRecord, Creating, Destroying, StillUsed
<1>10. UsersTenant'
  BY <1>2, <1>4 DEF UsersTenant, There, Scanning, Matched
<1>11. PinsCounted'
  <2>1. \A g : Users(g)' = Users(g)
    BY <1>2, <1>4, <1>5, UsersKept
  <2> QED
    BY <1>2, <2>1 DEF PinsCounted
<1> QED
  BY <1>3, <1>6, <1>7, <1>9, <1>10, <1>11

(***************************************************************************)
(* The stores of destroyTenant go to a record nobody holds or releases.    *)
(***************************************************************************)
LEMMA DestroyWrites ==
  ASSUME LookupInv, NEW t \in Threads, Kill(t) \/ Retire(t)
  PROVE  LookupInv'
<1> USE DEF LookupInv
<1> PICK r \in Recs : r = call[t].rec
  BY DEF LookupTypeOK
<1>1. /\ call[t].at \in Destroying /\ tenants[r].inUse /\ tenants[r].id \in Nat
      /\ ~StillUsed(tenants[r].id) /\ tenants[r].id # 0
  BY DEF Kill, Retire, At, Destroying, LookupTypeOK, DestroyersRecord, IdsUnique
<1>2. /\ UNCHANGED <<nextId, holds, refused>>
      /\ \/ /\ tenants' = [tenants EXCEPT ![r].state = "Dead"] /\ mutex' = mutex
            /\ GoOn(t, "retire")
         \/ /\ tenants' = [tenants EXCEPT ![r].inUse = FALSE] /\ mutex' = NoThread
            /\ call' = [call EXCEPT ![t] = Idle]
  BY DEF Kill, Retire, Return
<1>3. LookupTypeOK'
  <2>1. 0 \in Recs
    BY <1>1, LookupAssumption DEF Recs
  <2>2. tenants' \in [Recs -> [inUse : BOOLEAN, id : Nat, state : {"InHot", "Dead"}, pins : Nat]]
    <3>1. CASE tenants' = [tenants EXCEPT ![r].state = "Dead"]
      BY <3>1 DEF LookupTypeOK
    <3>2. CASE tenants' = [tenants EXCEPT ![r].inUse = FALSE]
      <4> DEFINE R == [inUse : BOOLEAN, id : Nat, state : {"InHot", "Dead"}, pins : Nat]
                 s == [tenants[r] EXCEPT !.inUse = FALSE]
      <4>1. tenants \in [Recs -> R] /\ tenants' = [tenants EXCEPT ![r] = s]
        BY <3>2 DEF LookupTypeOK
      <4>2. s \in R
        BY <4>1, Zenon
      <4> HIDE DEF R, s
      <4>3. tenants' \in [Recs -> R]
        BY <4>1, <4>2, Zenon
      <4> QED
        BY <4>3 DEF R
    <3> QED
      BY <1>2, <3>1, <3>2
  <2>3. call' \in [Threads -> [at : {"idle"} \cup Creating \cup Destroying \cup Scanning,
                               rec : Recs, id : Nat, cur : Nat]]
    <3>1. CASE GoOn(t, "retire")
      BY <3>1 DEF LookupTypeOK, GoOn, Move, Destroying
    <3>2. CASE call' = [call EXCEPT ![t] = Idle]
      BY <2>1, <3>2 DEF LookupTypeOK, Idle
    <3> QED
      BY <1>2, <3>1, <3>2
  <2> QED
    BY <1>2, <2>2, <2>3 DEF LookupTypeOK
<1>4. /\ tenants'[r].id = tenants[r].id /\ tenants'[r].pins = tenants[r].pins
      /\ (tenants'[r].inUse => tenants'[r].state = "Dead")
      /\ \A q \in Recs \ {r} : tenants'[q] = tenants[q]
  BY <1>1, <1>2 DEF LookupTypeOK
<1>5. /\ call'[t].id = 0 /\ call[t].id = 0
      /\ \/ call'[t].at = "retire" /\ call'[t].rec = r /\ mutex' = mutex /\ tenants'[r].inUse
         \/ call'[t].at = "idle" /\ mutex' = NoThread
      /\ \A u \in Threads \ {t} : call'[u] = call[u]
  <2>1. call[t].id = 0
    BY <1>1 DEF UsersTenant, Destroying, Scanning, Matched
  <2> QED
    BY <1>1, <1>2, <2>1 DEF LookupTypeOK, GoOn, Move, Idle
<1>6. \A u \in Threads : call[u].at \in Creating \cup Destroying => u = t
  BY <1>1, LookupAssumption DEF WritersLock
<1>7. WritersLock'
  BY <1>1, <1>5, <1>6, LookupAssumption DEF WritersLock, Creating, Destroying
<1>8. IdsUnique' /\ ReleaseNeverRefused'
  BY <1>1, <1>2, <1>4 DEF IdsUnique, ReleaseNeverRefused
<1>9. CreatorsRecord'
  BY <1>5, <1>6 DEF CreatorsRecord, Creating
<1>10. DestroyersRecord'
  <2>2. \A u \in Threads : call'[u].at \in Destroying => u = t /\ call'[u].rec = r /\ tenants'[r].inUse
    BY <1>5, <1>6 DEF Destroying
  <2>3. \A u \in Threads : holds'[u] # tenants'[r].id /\ call'[u].id # tenants'[r].id
    BY <1>1, <1>2, <1>4, <1>5 DEF StillUsed
  <2> QED
    BY <2>2, <2>3 DEF DestroyersRecord, StillUsed
<1>11. \A h, from : h # tenants[r].id /\ There(h, from) => There(h, from)'
  BY <1>1, <1>4 DEF There
<1>12. UsersTenant'
  <2>1. \A u \in Threads : holds[u] # tenants[r].id /\ call[u].id # tenants[r].id
    BY <1>1 DEF StillUsed
  <2>2. \A u \in Threads : call[u].rec \in Recs
    BY DEF LookupTypeOK
  <2> QED
    BY <1>2, <1>4, <1>5, <1>11, <2>1, <2>2 DEF UsersTenant, Scanning, Matched
<1>13. PinsCounted'
  <2>1. \A h : Users(h)' = Users(h)
    BY <1>2, <1>5, UsersKept
  <2> QED
    BY <1>4, <2>1 DEF PinsCounted
<1> QED
  BY <1>3, <1>7, <1>8, <1>9, <1>10, <1>12, <1>13

-----------------------------------------------------------------------------
(* acquireFP32 and the two ends of release() *)

(* acquireFP32 pins a tenant inside the mutex. *)
LEMMA AcquireStep ==
  ASSUME LookupInv, NEW t \in Threads, NEW h \in Ids, Acquire(t, h)
  PROVE  LookupInv'
<1> USE DEF LookupInv
<1>1. PICK r \in Recs :
        /\ tenants[r].inUse /\ tenants[r].id = h /\ tenants[r].state # "Dead"
        /\ tenants' = [tenants EXCEPT ![r].pins = @ + 1]
  BY DEF Acquire, Named
<1>2. /\ call[t].at = "idle" /\ mutex = NoThread /\ holds[t] = 0
      /\ holds' = [holds EXCEPT ![t] = h]
      /\ UNCHANGED <<mutex, nextId, call, refused>>
  BY DEF Acquire, At
<1>3. h \in Nat /\ h # 0
  BY DEF Ids
<1>4. LookupTypeOK'
  <2>1. tenants' \in [Recs -> [inUse : BOOLEAN, id : Nat, state : {"InHot", "Dead"}, pins : Nat]]
    BY <1>1 DEF LookupTypeOK
  <2> QED
    BY <1>2, <1>3, <2>1 DEF LookupTypeOK
<1>5. /\ tenants'[r].id = h /\ tenants'[r].inUse /\ tenants'[r].state = tenants[r].state
      /\ tenants'[r].pins = tenants[r].pins + 1
      /\ \A q \in Recs \ {r} : tenants'[q] = tenants[q]
      /\ holds'[t] = h /\ \A u \in Threads \ {t} : holds'[u] = holds[u]
  BY <1>1, <1>2 DEF LookupTypeOK
<1>6. \A u \in Threads : call[u].at \notin Creating \cup Destroying
  BY <1>2, LookupAssumption DEF WritersLock
<1>7. WritersLock'
  BY <1>2 DEF WritersLock
<1>8. IdsUnique' /\ ReleaseNeverRefused'
  BY <1>1, <1>2, <1>5 DEF IdsUnique, ReleaseNeverRefused
<1>9. CreatorsRecord' /\ DestroyersRecord'
  BY <1>2, <1>6 DEF CreatorsRecord, DestroyersRecord, Creating
<1>10. \A g, from : There(g, from) => There(g, from)'
  BY <1>1, <1>5 DEF There
<1>11. UsersTenant'
  <2>1. There(h, 0)'
    BY <1>1, <1>5 DEF There, Recs
  <2>2. \A u \in Threads : call[u].rec \in Recs
    BY DEF LookupTypeOK
  <2> QED
    BY <1>1, <1>2, <1>5, <1>10, <2>1, <2>2 DEF UsersTenant
<1>12. PinsCounted'
  <2>1. \A g \in Nat \ {0, h} : Users(g)' = Users(g)
    <3>1. \A g \in Nat \ {0, h}, u \in Threads : holds'[u] = g <=> holds[u] = g
      <4> SUFFICES ASSUME NEW g \in Nat \ {0, h}, NEW u \in Threads PROVE holds'[u] = g <=> holds[u] = g
        OBVIOUS
      <4> QED
        BY <1>2, <1>5
    <3> QED
      BY <1>2, <3>1, UsersKept
  <2>2. Users(h)' = Users(h) + 1
    BY <1>2, <1>3, <1>5, UsersGain
  <2>3. \A q \in Recs \ {r} : tenants[q].id # h
    BY <1>1, <1>3 DEF IdsUnique
  <2> QED
    BY <1>1, <1>3, <1>5, <1>8, <2>1, <2>2, <2>3 DEF PinsCounted, IdsUnique
<1> QED
  BY <1>4, <1>7, <1>8, <1>9, <1>11, <1>12

(* release() starts its scan. *)
LEMMA ReleaseCallStep ==
  ASSUME LookupInv, NEW t \in Threads, ReleaseCall(t)
  PROVE  LookupInv'
<1> USE DEF LookupInv
<1> PICK h \in Nat : h = holds[t]
  BY DEF LookupTypeOK
<1>1. /\ call[t].at = "idle" /\ h # 0
      /\ call' = [call EXCEPT ![t] = [at |-> "readInUse", rec |-> 0, id |-> h, cur |-> 0]]
      /\ holds' = [holds EXCEPT ![t] = 0]
      /\ UNCHANGED <<tenants, mutex, nextId, refused>>
  BY DEF ReleaseCall, At, Begin, LookupTypeOK
<1>2. There(h, 0) /\ call[t].id = 0
  BY <1>1 DEF UsersTenant, Scanning, Matched
<1>3. LookupTypeOK'
  <2>1. 0 \in Recs
    BY LookupAssumption DEF Recs
  <2> QED
    BY <1>1, <2>1 DEF LookupTypeOK, Scanning
<1>4. /\ call'[t].at = "readInUse" /\ call'[t].id = h /\ call'[t].rec = 0 /\ holds'[t] = 0
      /\ \A u \in Threads \ {t} : call'[u] = call[u] /\ holds'[u] = holds[u]
  BY <1>1 DEF LookupTypeOK
<1>5. WritersLock'
  BY <1>1, <1>4 DEF WritersLock, Creating, Destroying
<1>6. IdsUnique' /\ ReleaseNeverRefused'
  BY <1>1 DEF IdsUnique, ReleaseNeverRefused
<1>7. CreatorsRecord'
  BY <1>1, <1>4 DEF CreatorsRecord, Creating
<1>8. DestroyersRecord'
  <2>1. \A g : ~StillUsed(g) /\ g # 0 => ~StillUsed(g)'
    BY <1>4 DEF StillUsed
  <2>2. \A u \in Threads : call[u].rec \in Recs
    BY DEF LookupTypeOK
  <2> QED
    BY <1>1, <1>4, <2>1, <2>2 DEF DestroyersRecord, Destroying, IdsUnique
<1>9. UsersTenant'
  BY <1>1, <1>2, <1>4 DEF UsersTenant, There, Scanning, Matched
<1>10. PinsCounted'
  <2>1. \A g \in Nat \ {0, h} : Users(g)' = Users(g)
    <3>1. \A g \in Nat \ {0, h}, u \in Threads :
            (holds'[u] = g <=> holds[u] = g) /\ (call'[u].id = g <=> call[u].id = g)
      <4> SUFFICES ASSUME NEW g \in Nat \ {0, h}, NEW u \in Threads
                   PROVE  (holds'[u] = g <=> holds[u] = g) /\ (call'[u].id = g <=> call[u].id = g)
        OBVIOUS
      <4> QED
        BY <1>2, <1>4
    <3> QED
      BY <3>1, UsersKept
  <2>2. Users(h)' = Users(h)
    BY <1>1, <1>2, <1>4, UsersMove
  <2> QED
    BY <1>1, <1>6, <2>1, <2>2 DEF PinsCounted, IdsUnique
<1> QED
  BY <1>3, <1>5, <1>6, <1>7, <1>8, <1>9, <1>10

(* release() decrements pin_count, if it is still what it loaded. *)
LEMMA ExchangePinStep ==
  ASSUME LookupInv, NEW t \in Threads, ExchangePin(t)
  PROVE  LookupInv'
<1> USE DEF LookupInv
<1> PICK r \in Recs, h \in Nat : r = call[t].rec /\ h = call[t].id
  BY DEF LookupTypeOK
<1>1. /\ call[t].at = "exchange"
      /\ tenants[r].inUse /\ tenants[r].id = h
      /\ tenants[r].state # "Dead" /\ tenants[r].pins = Users(h) /\ tenants[r].pins > 0
      /\ h # 0 /\ tenants[r].pins \in Nat
  <2>1. call[t].at = "exchange" /\ call[t].at \in Matched
    BY DEF ExchangePin, At, Matched
  <2>2. h # 0
    BY <2>1 DEF UsersTenant, Scanning
  <2>3. tenants[r].pins \in Nat
    BY <2>1, MatchedIsPinned DEF LookupTypeOK
  <2> QED
    BY <2>1, <2>2, <2>3, MatchedIsPinned
<1>2. CASE Reload(t) /\ UNCHANGED tenants
  BY <1>1, <1>2, ReloadStep DEF ExchangePin, Matched
<1>3. CASE tenants[r].pins = call[t].cur /\ ~(Reload(t) /\ UNCHANGED tenants)
  <2>1. /\ tenants' = [tenants EXCEPT ![r].pins = tenants[r].pins - 1]
        /\ call' = [call EXCEPT ![t] = [at |-> "idle", rec |-> 0, id |-> 0, cur |-> 0]]
        /\ UNCHANGED <<mutex, nextId, holds, refused>>
    BY <1>3 DEF ExchangePin, Return, Idle
  <2>2. LookupTypeOK'
    <3>1. 0 \in Recs
      BY LookupAssumption DEF Recs
    <3>2. tenants[r].pins - 1 \in Nat
      BY <1>1
    <3>3. tenants' \in [Recs -> [inUse : BOOLEAN, id : Nat, state : {"InHot", "Dead"}, pins : Nat]]
      BY <2>1, <3>2, Z3T(60) DEF LookupTypeOK
    <3>4. call' \in [Threads -> [at : {"idle"} \cup Creating \cup Destroying \cup Scanning,
                                 rec : Recs, id : Nat, cur : Nat]]
      BY <2>1, <3>1 DEF LookupTypeOK
    <3> QED
      BY <2>1, <3>3, <3>4 DEF LookupTypeOK
  <2>3. /\ tenants'[r].id = h /\ tenants'[r].inUse /\ tenants'[r].state = tenants[r].state
        /\ tenants'[r].pins = tenants[r].pins - 1
        /\ \A q \in Recs \ {r} : tenants'[q] = tenants[q]
        /\ call'[t].at = "idle" /\ call'[t].id = 0
        /\ \A u \in Threads \ {t} : call'[u] = call[u]
    BY <1>1, <2>1 DEF LookupTypeOK
  <2>5. WritersLock'
    BY <1>1, <2>1, <2>3 DEF WritersLock, Creating, Destroying
  <2>6. IdsUnique' /\ ReleaseNeverRefused'
    BY <1>1, <2>1, <2>3 DEF IdsUnique, ReleaseNeverRefused
  <2>7. \A u \in Threads : call[u].at \in Creating => call[u].rec # r
    BY <1>1 DEF CreatorsRecord
  <2>8. CreatorsRecord'
    BY <2>3, <2>7 DEF CreatorsRecord, Creating, LookupTypeOK
  <2>9. DestroyersRecord'
    <3>1. \A u \in Threads : call[u].rec \in Recs
      BY DEF LookupTypeOK
    <3>2. \A q \in Recs : tenants'[q].id = tenants[q].id /\ tenants'[q].inUse = tenants[q].inUse
      BY <1>1, <2>1 DEF LookupTypeOK
    <3>3. \A g : g # 0 /\ ~StillUsed(g) => ~StillUsed(g)'
      BY <2>1, <2>3 DEF StillUsed
    <3> QED
      BY <2>3, <3>1, <3>2, <3>3 DEF DestroyersRecord, Destroying, IdsUnique
  <2>10. \A g, from : There(g, from) => There(g, from)'
    BY <1>1, <2>3 DEF There
  <2>11. UsersTenant'
    <3>1. \A u \in Threads : call[u].rec \in Recs
      BY DEF LookupTypeOK
    <3> QED
      BY <1>1, <2>1, <2>3, <2>10, <3>1 DEF UsersTenant, Scanning, Matched
  <2>12. PinsCounted'
    <3>1. \A g \in Nat \ {0, h} : Users(g)' = Users(g)
      <4>1. \A g \in Nat \ {0, h}, u \in Threads :
              (holds'[u] = g <=> holds[u] = g) /\ (call'[u].id = g <=> call[u].id = g)
        <5> SUFFICES ASSUME NEW g \in Nat \ {0, h}, NEW u \in Threads
                     PROVE  (holds'[u] = g <=> holds[u] = g) /\ (call'[u].id = g <=> call[u].id = g)
          OBVIOUS
        <5> QED
          BY <2>1, <2>3
      <4> QED
        BY <4>1, UsersKept
    <3>2. Users(h)' = Users(h) - 1
      BY <1>1, <2>1, <2>3, UsersLose
    <3>3. \A q \in Recs \ {r} : tenants[q].id # h
      BY <1>1 DEF IdsUnique
    <3> QED
      BY <1>1, <2>3, <2>6, <3>1, <3>2, <3>3 DEF PinsCounted, IdsUnique
  <2> QED
    BY <2>2, <2>5, <2>6, <2>8, <2>9, <2>11, <2>12
<1> QED
  BY <1>2, <1>3 DEF ExchangePin

-----------------------------------------------------------------------------
(* The inductive invariant. *)
THEOREM LookupInvariant == Spec => []LookupInv
<1>1. LookupInv /\ [Next]_vars => LookupInv'
  <2> SUFFICES ASSUME LookupInv, [Next]_vars PROVE LookupInv'
    OBVIOUS
  <2>1. CASE UNCHANGED vars
    BY <2>1 DEF vars, LookupInv, LookupTypeOK, WritersLock, IdsUnique, CreatorsRecord,
                DestroyersRecord, StillUsed, UsersTenant, There, PinsCounted, Users, ReleaseNeverRefused
  <2>2. CASE Next
    <3>1. PICK t \in Threads : Step(t)
      BY <2>2 DEF Next
    <3> QED
      BY <3>1, CreateCallStep, CreateStep, PublishStep, DestroyCallStep, DestroyWrites,
         AcquireStep, ReleaseCallStep, ReadStep, LoadPinStep, ExchangePinStep DEF Step
  <2> QED
    BY <2>1, <2>2
<1> QED
  BY InitLookup, <1>1, PTL DEF Spec

(* EC1, EC2: the pin count of a tenant in the pool is the number of        *)
(* threads that hold it or are releasing it, however the lock-free scan of *)
(* release() falls among the creations and destructions of other tenants.  *)
THEOREM PinsAreCounted == Spec => []PinsCountHolders
<1>1. LookupInv => PinsCountHolders
  BY CountedIsHolders DEF LookupInv
<1> QED
  BY <1>1, LookupInvariant, PTL

(* A release() that matches an acquire always finds the tenant's record.   *)
THEOREM ScanFindsTenant == Spec => []ReleaseNeverRefused
<1>1. LookupInv => ReleaseNeverRefused
  BY DEF LookupInv
<1> QED
  BY <1>1, LookupInvariant, PTL

(* The record it decrements is that tenant's and no other.                 *)
THEOREM DecrementHitsIt == Spec => []DecrementHitsOwnTenant
<1>1. LookupInv => DecrementHitsOwnTenant
  BY MatchedIsPinned DEF DecrementHitsOwnTenant, Matched
<1> QED
  BY <1>1, LookupInvariant, PTL
=============================================================================
