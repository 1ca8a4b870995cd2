------------------------- MODULE TieredBridgeProofs -------------------------
(***************************************************************************)
(* Proofs about TieredBridge for every number of records, slots, sub-cells *)
(* and threads: first for every set of caller mistakes, then for callers   *)
(* that make none.                                                         *)
(***************************************************************************)
EXTENDS TieredBridge, FiniteSetTheorems, TLAPS

(* The ranges the constants give: none is empty, and the scan stays in     *)
(* range.                                                                  *)
LEMMA SizeFacts ==
  /\ kMaxSharedSlots \in Nat \ {0}
  /\ 0 \in Shared /\ 0 \in Cells /\ 0 \in Recs
  /\ NoRec \notin Recs
  /\ \A k \in Shared : (k + 1) % kMaxSharedSlots \in Shared
<1>1. kMaxSharedSlots \in Nat \ {0}
  BY SizesAssumption DEF kMaxSharedSlots
<1>2. \A n \in Nat \ {0}, k \in Nat : k % n \in 0 .. n - 1
  OBVIOUS
<1> QED
  BY <1>1, <1>2, SizesAssumption DEF Shared, Cells, Recs, NoRec

(* The empty bridge satisfies the invariant. *)
LEMMA InitBridgeInv == Init => BridgeInv
<1> SUFFICES ASSUME Init PROVE BridgeInv
  OBVIOUS
<1> USE SizeFacts, SizesAssumption, NamesAssumption DEF Init
<1>1. TypeOK
  BY DEF TypeOK, TenantRecord, Op, Span, Idle, NoView, Zeroes, NoRec
<1>2. HolderKnows
  BY DEF HolderKnows, Idle
<1>3. OneTier
  BY DEF OneTier, InCold
<1>4. HotSlotsOwnedOnce
  BY DEF HotSlotsOwnedOnce, FullInHot
<1>5. ColdSlotsOwnedOnce
  BY DEF ColdSlotsOwnedOnce, InCold
<1>6. BitmapMatchesTenants
  BY DEF BitmapMatchesTenants, LiveMicro, Live
<1> QED
  BY <1>1, <1>2, <1>3, <1>4, <1>5, <1>6 DEF BridgeInv

(* A full-slot tenant that leaves the hot tier gives its slot back. *)
LEMMA HotOwnerLeaves ==
  ASSUME HotSlotsOwnedOnce, NEW r \in Recs, FullInHot(r), ~FullInHot(r)',
         \A q \in Recs \ {r} : tenants'[q] = tenants[q],
         hotUsed' = hotUsed \ {tenants[r].hot}, UNCHANGED <<sharedHot, ext>>
  PROVE  HotSlotsOwnedOnce'
<1>1. \A q \in Recs : FullInHot(q)' <=> FullInHot(q) /\ q # r
  BY DEF FullInHot
<1>2. /\ tenants[r].hot \notin ext
      /\ \A q \in Recs \ {r} : FullInHot(q) => tenants[q].hot # tenants[r].hot
      /\ \A i \in Shared : sharedHot[i] # tenants[r].hot
  BY DEF HotSlotsOwnedOnce
<1> QED
  BY <1>1, <1>2 DEF HotSlotsOwnedOnce

(* A full-slot tenant that enters the hot tier takes a slot that was free. *)
LEMMA HotOwnerEnters ==
  ASSUME HotSlotsOwnedOnce, NEW r \in Recs, ~FullInHot(r), FullInHot(r)',
         \A q \in Recs \ {r} : tenants'[q] = tenants[q],
         NEW s \in HotFree, tenants'[r].hot = s, hotUsed' = hotUsed \cup {s},
         UNCHANGED <<sharedHot, ext>>
  PROVE  HotSlotsOwnedOnce'
<1>1. \A q \in Recs : FullInHot(q)' <=> FullInHot(q) \/ q = r
  BY DEF FullInHot
<1>2. /\ s \in HotSlots /\ s # NoSlot /\ s \notin ext
      /\ \A q \in Recs : FullInHot(q) => tenants[q].hot # s
      /\ \A i \in Shared : sharedHot[i] # s
  BY NamesAssumption DEF HotSlotsOwnedOnce, HotFree
<1> QED
  BY <1>1, <1>2 DEF HotSlotsOwnedOnce

(* Steps that bind and free no hot slot leave its ownership as it was. *)
LEMMA HotOwnersStay ==
  ASSUME HotSlotsOwnedOnce, UNCHANGED <<hotUsed, sharedHot, ext>>,
         \A q \in Recs : /\ FullInHot(q)' <=> FullInHot(q)
                         /\ FullInHot(q) => tenants'[q].hot = tenants[q].hot
  PROVE  HotSlotsOwnedOnce'
  BY DEF HotSlotsOwnedOnce

(* CreateTenant keeps the invariant. *)
LEMMA CreateTenantStep == BridgeInv /\ CreateTenant => BridgeInv'
<1> SUFFICES ASSUME BridgeInv, CreateTenant PROVE BridgeInv'
  OBVIOUS
<1> USE SizeFacts, SizesAssumption, NamesAssumption DEF BridgeInv, bridgeVars, arenaVars, callerVars, CreateTenant, Enter, FirstFreeRecord
<1>1. TypeOK'
  BY DEF TypeOK, TenantRecord, Op, Span, Idle, NoView, Zeroes, NoRec, OneTier, InCold, HolderKnows
<1>2. HolderKnows'
  BY DEF HolderKnows, TypeOK, Idle, Roomy, Live, InCold, Op, TenantRecord
<1>3. OneTier'
  BY DEF OneTier, InCold, TypeOK, TenantRecord, HolderKnows, Live
<1>4. HotSlotsOwnedOnce'
  BY HotOwnersStay DEF FullInHot
<1>5. ColdSlotsOwnedOnce'
  BY DEF ColdSlotsOwnedOnce, InCold, TypeOK, TenantRecord, OneTier, HolderKnows, Live
<1>6. BitmapMatchesTenants'
  BY DEF BitmapMatchesTenants, LiveMicro, Live, InCold, TypeOK, TenantRecord, OneTier, HolderKnows
<1> QED
  BY <1>1, <1>2, <1>3, <1>4, <1>5, <1>6

(* CreateBind keeps the invariant. *)
LEMMA CreateBindStep == BridgeInv /\ CreateBind => BridgeInv'
<1> SUFFICES ASSUME BridgeInv, CreateBind PROVE BridgeInv'
  OBVIOUS
<1> USE SizeFacts, SizesAssumption, NamesAssumption DEF BridgeInv, bridgeVars, arenaVars, callerVars, CreateBind, NewTenant, Touch, HotFree
<1>1. TypeOK'
  BY DEF TypeOK, TenantRecord, Op, Span, Idle, NoView, Zeroes, NoRec, OneTier, InCold, HolderKnows
<1>2. HolderKnows'
  BY DEF HolderKnows, TypeOK, Idle, Roomy, Live, InCold, Op, TenantRecord
<1>3. OneTier'
  BY DEF OneTier, InCold, TypeOK, TenantRecord, HolderKnows, Live
<1>4. HotSlotsOwnedOnce'
  <2>1. PICK s \in HotFree, r \in Recs :
            /\ hotUsed' = hotUsed \cup {s}
            /\ ~Live(r)
            /\ tenants' = [tenants EXCEPT ![r] = NewTenant("Full", s, 0, 0)]
    BY DEF HolderKnows
  <2>2. ~FullInHot(r)
    BY <2>1 DEF FullInHot, Live
  <2>3. FullInHot(r)' /\ tenants'[r].hot = s
    BY <2>1, <2>2 DEF FullInHot, TypeOK
  <2>4. \A q \in Recs \ {r} : tenants'[q] = tenants[q]
    BY <2>1, <2>2 DEF TypeOK
  <2> QED
    BY <2>1, <2>2, <2>3, <2>4, HotOwnerEnters
<1>5. ColdSlotsOwnedOnce'
  BY DEF ColdSlotsOwnedOnce, InCold, TypeOK, TenantRecord, OneTier, HolderKnows, Live
<1>6. BitmapMatchesTenants'
  BY DEF BitmapMatchesTenants, LiveMicro, Live, InCold, TypeOK, TenantRecord, OneTier, HolderKnows
<1> QED
  BY <1>1, <1>2, <1>3, <1>4, <1>5, <1>6

(* CreateMicroInShared keeps the invariant. *)
LEMMA CreateMicroInSharedStep == BridgeInv /\ CreateMicroInShared => BridgeInv'
<1> SUFFICES ASSUME BridgeInv, CreateMicroInShared PROVE BridgeInv'
  OBVIOUS
<1> USE SizeFacts, SizesAssumption, NamesAssumption DEF BridgeInv, bridgeVars, arenaVars, callerVars, CreateMicroInShared, NewTenant, Touch, FirstFreeRecord, FirstRoomy, Roomy, LowestFreeCell, AdvanceScan
<1>1. TypeOK'
  BY DEF TypeOK, TenantRecord, Op, Span, Idle, NoView, Zeroes, NoRec, OneTier, InCold, HolderKnows
<1>2. HolderKnows'
  BY DEF HolderKnows, TypeOK, Idle, Roomy, Live, InCold, Op, TenantRecord
<1>3. OneTier'
  BY DEF OneTier, InCold, TypeOK, TenantRecord, HolderKnows, Live
<1>4. HotSlotsOwnedOnce'
  <2>1. PICK r \in Recs, i \in Shared, b \in Cells :
            /\ ~Live(r)
            /\ tenants' = [tenants EXCEPT ![r] = NewTenant("Micro", sharedHot[i], b, i)]
    BY ZenonT(60)
  <2>2. ~FullInHot(r) /\ ~FullInHot(r)'
    BY <2>1 DEF FullInHot, Live, TypeOK
  <2>3. \A q \in Recs \ {r} : tenants'[q] = tenants[q]
    BY <2>1 DEF TypeOK
  <2> QED
    BY <2>1, <2>2, <2>3 DEF HotSlotsOwnedOnce, FullInHot
<1>5. ColdSlotsOwnedOnce'
  BY DEF ColdSlotsOwnedOnce, InCold, TypeOK, TenantRecord, OneTier, HolderKnows, Live
<1>6. BitmapMatchesTenants'
  BY DEF BitmapMatchesTenants, LiveMicro, Live, InCold, TypeOK, TenantRecord, OneTier, HolderKnows
<1> QED
  BY <1>1, <1>2, <1>3, <1>4, <1>5, <1>6

(* CreateMicroTenant keeps the invariant. *)
LEMMA CreateMicroTenantStep == BridgeInv /\ CreateMicroTenant => BridgeInv'
<1> SUFFICES ASSUME BridgeInv, CreateMicroTenant PROVE BridgeInv'
  OBVIOUS
<1> USE SizeFacts, SizesAssumption, NamesAssumption DEF BridgeInv, bridgeVars, arenaVars, callerVars, CreateMicroTenant, Enter, FirstFreeRecord, AdvanceScan
<1>1. TypeOK'
  BY DEF TypeOK, TenantRecord, Op, Span, Idle, NoView, Zeroes, NoRec, OneTier, InCold, HolderKnows
<1>2. HolderKnows'
  BY DEF HolderKnows, TypeOK, Idle, Roomy, Live, InCold, Op, TenantRecord
<1>3. OneTier'
  BY DEF OneTier, InCold, TypeOK, TenantRecord, HolderKnows, Live
<1>4. HotSlotsOwnedOnce'
  BY HotOwnersStay DEF FullInHot
<1>5. ColdSlotsOwnedOnce'
  BY DEF ColdSlotsOwnedOnce, InCold, TypeOK, TenantRecord, OneTier, HolderKnows, Live
<1>6. BitmapMatchesTenants'
  BY DEF BitmapMatchesTenants, LiveMicro, Live, InCold, TypeOK, TenantRecord, OneTier, HolderKnows
<1> QED
  BY <1>1, <1>2, <1>3, <1>4, <1>5, <1>6

(* CreateMicroBind keeps the invariant. *)
LEMMA CreateMicroBindStep == BridgeInv /\ CreateMicroBind => BridgeInv'
<1> SUFFICES ASSUME BridgeInv, CreateMicroBind PROVE BridgeInv'
  OBVIOUS
<1> USE SizeFacts, SizesAssumption, NamesAssumption DEF BridgeInv, bridgeVars, arenaVars, callerVars, CreateMicroBind, NewTenant, Touch, HotFree, Unbound
<1>1. TypeOK'
  BY DEF TypeOK, TenantRecord, Op, Span, Idle, NoView, Zeroes, NoRec, OneTier, InCold, HolderKnows
<1>2. HolderKnows'
  BY DEF HolderKnows, TypeOK, Idle, Roomy, Live, InCold, Op, TenantRecord
<1>3. OneTier'
  BY DEF OneTier, InCold, TypeOK, TenantRecord, HolderKnows, Live
<1>4. HotSlotsOwnedOnce'
  <2>1. PICK s \in HotFree, i \in Unbound, r \in Recs :
            /\ ~Live(r)
            /\ hotUsed' = hotUsed \cup {s}
            /\ sharedHot' = [sharedHot EXCEPT ![i] = s]
            /\ bitmap' = [bitmap EXCEPT ![i] = {0}]
            /\ tenants' = [tenants EXCEPT ![r] = NewTenant("Micro", s, 0, i)]
    BY DEF HolderKnows
  <2>2. ~FullInHot(r) /\ ~FullInHot(r)'
    BY <2>1 DEF FullInHot, Live, TypeOK
  <2>3. \A q \in Recs \ {r} : tenants'[q] = tenants[q]
    BY <2>1, <2>2 DEF TypeOK
  <2>4. s \in HotSlots /\ s \notin hotUsed /\ s # NoSlot
    BY <2>1
  <2>5. i \in Shared /\ sharedHot[i] = NoSlot /\ sharedHot'[i] = s
    BY <2>1 DEF TypeOK
  <2>6. \A j \in Shared \ {i} : sharedHot'[j] = sharedHot[j]
    BY <2>1, <2>5 DEF TypeOK
  <2>7. \A q \in Recs : FullInHot(q)' => FullInHot(q) /\ tenants'[q].hot = tenants[q].hot
    BY <2>2, <2>3 DEF FullInHot
  <2>8. \A q \in Recs : FullInHot(q) => FullInHot(q)' /\ tenants'[q].hot # s
    BY <2>2, <2>3, <2>4 DEF HotSlotsOwnedOnce, FullInHot
  <2>9. s \notin ext /\ \A j \in Shared : sharedHot[j] # s
    BY <2>4 DEF HotSlotsOwnedOnce
  <2>10. ASSUME NEW z \in HotSlots
         PROVE  z \in hotUsed' <=> \/ z \in ext
                                   \/ \E q \in Recs : FullInHot(q)' /\ tenants'[q].hot = z
                                   \/ \E j \in Shared : sharedHot'[j] = z
    <3>1. CASE z = s
      BY <3>1, <2>1, <2>5
    <3>2. CASE z # s
      BY <3>2, <2>1, <2>5, <2>6, <2>7, <2>8 DEF HotSlotsOwnedOnce
    <3> QED
      BY <3>1, <3>2
  <2>11. \A q \in Recs : FullInHot(q)' =>
           /\ tenants'[q].hot \notin ext
           /\ \A p \in Recs \ {q} : FullInHot(p)' => tenants'[p].hot # tenants'[q].hot
           /\ \A j \in Shared : sharedHot'[j] # tenants'[q].hot
    BY <2>5, <2>6, <2>7, <2>8 DEF HotSlotsOwnedOnce
  <2>12. \A j \in Shared : sharedHot'[j] # NoSlot =>
           /\ sharedHot'[j] \notin ext
           /\ \A k \in Shared \ {j} : sharedHot'[k] # sharedHot'[j]
    BY <2>5, <2>6, <2>9 DEF HotSlotsOwnedOnce
  <2> QED
    BY <2>10, <2>11, <2>12 DEF HotSlotsOwnedOnce
<1>5. ColdSlotsOwnedOnce'
  BY DEF ColdSlotsOwnedOnce, InCold, TypeOK, TenantRecord, OneTier, HolderKnows, Live
<1>6. BitmapMatchesTenants'
  <2>1. PICK s \in HotFree, i \in Unbound, r \in Recs :
            /\ ~Live(r)
            /\ hotUsed' = hotUsed \cup {s}
            /\ sharedHot' = [sharedHot EXCEPT ![i] = s]
            /\ bitmap' = [bitmap EXCEPT ![i] = {0}]
            /\ tenants' = [tenants EXCEPT ![r] = NewTenant("Micro", s, 0, i)]
    BY DEF HolderKnows
  <2>2. ~LiveMicro(r)
    BY <2>1 DEF LiveMicro
  <2>3. /\ LiveMicro(r)'
        /\ tenants'[r].shared = i /\ tenants'[r].sub = 0 /\ tenants'[r].hot = s
    BY <2>1, <2>2 DEF LiveMicro, Live, TypeOK
  <2>4. \A q \in Recs \ {r} : tenants'[q] = tenants[q]
    BY <2>1, <2>2 DEF TypeOK
  <2>5. i \in Shared /\ bitmap[i] = {} /\ sharedHot'[i] = s /\ bitmap'[i] = {0} /\ s # NoSlot
    BY <2>1 DEF TypeOK
  <2>6. \A j \in Shared \ {i} : sharedHot'[j] = sharedHot[j] /\ bitmap'[j] = bitmap[j]
    BY <2>1, <2>5 DEF TypeOK
  <2>7. \A q \in Recs : LiveMicro(q) => tenants[q].shared \in Shared \ {i}
    BY <2>5 DEF BitmapMatchesTenants, TypeOK, TenantRecord
  <2>8. \A q \in Recs \ {r} : LiveMicro(q)' <=> LiveMicro(q)
    BY <2>4 DEF LiveMicro, Live
  <2>9. \A j \in Shared : sharedHot'[j] = NoSlot <=> bitmap'[j] = {}
    <3>1. bitmap'[i] # {} /\ sharedHot'[i] # NoSlot
      BY <2>5
    <3>2. \A j \in Shared : sharedHot[j] = NoSlot <=> bitmap[j] = {}
      BY DEF BitmapMatchesTenants
    <3> HIDE DEF BridgeInv, CreateMicroBind
    <3>3. ASSUME NEW j \in Shared \ {i} PROVE sharedHot'[j] = NoSlot <=> bitmap'[j] = {}
      BY <2>6, <3>2
    <3> QED
      BY <3>1, <3>3
  <2>10. \A j \in Shared : \A c \in bitmap'[j] :
           \E q \in Recs : LiveMicro(q)' /\ tenants'[q].shared = j /\ tenants'[q].sub = c
    <3>1. ASSUME NEW j \in Shared \ {i}, NEW c \in bitmap'[j]
          PROVE  \E q \in Recs : LiveMicro(q)' /\ tenants'[q].shared = j /\ tenants'[q].sub = c
      BY <3>1, <2>2, <2>4, <2>6, <2>8, SMTT(60) DEF BitmapMatchesTenants
    <3> QED
      BY <3>1, <2>3, <2>5
  <2>11. \A q \in Recs : LiveMicro(q)' =>
           /\ tenants'[q].sub \in bitmap'[tenants'[q].shared]
           /\ tenants'[q].hot = sharedHot'[tenants'[q].shared]
           /\ \A p \in Recs \ {q} : LiveMicro(p)' /\ tenants'[p].shared = tenants'[q].shared
                => tenants'[p].sub # tenants'[q].sub
    BY <2>3, <2>4, <2>5, <2>6, <2>7, <2>8 DEF BitmapMatchesTenants
  <2> QED
    BY <2>9, <2>10, <2>11 DEF BitmapMatchesTenants
<1> QED
  BY <1>1, <1>2, <1>3, <1>4, <1>5, <1>6

(* EvictOldest keeps the invariant. *)
LEMMA EvictOldestStep == BridgeInv /\ EvictOldest => BridgeInv'
<1> SUFFICES ASSUME BridgeInv, EvictOldest PROVE BridgeInv'
  OBVIOUS
<1> USE SizeFacts, SizesAssumption, NamesAssumption DEF BridgeInv, bridgeVars, arenaVars, callerVars, EvictOldest, Evictable, Oldest, ReleaseHot
<1>1. TypeOK'
  <2>1. PICK v \in Evictable, c \in ColdSlots \ coldUsed :
            /\ coldUsed' = coldUsed \cup {c}
            /\ coldMem' = [coldMem EXCEPT ![c] = hotMem[tenants[v].hot]]
            /\ hotUsed' = hotUsed \ {tenants[v].hot}
            /\ hotMem' = [s \in HotSlots |-> IF s = tenants[v].hot THEN Zeroes ELSE hotMem[s]]
            /\ tenants' = [tenants EXCEPT ![v] = [@ EXCEPT !.hot = NoSlot, !.cold = c, !.state = "InCold"]]
    OBVIOUS
  <2>2. v \in Recs /\ tenants[v] \in TenantRecord /\ tenants[v].hot \in HotSlots
    BY DEF TypeOK, OneTier, TenantRecord
  <2>3. tenants' \in [Recs -> TenantRecord]
    BY <2>1, <2>2 DEF TypeOK, TenantRecord
  <2>4. /\ hotMem' \in [HotSlots -> [Cells -> 0 .. MaxIds]]
        /\ coldMem' \in [ColdSlots -> [Cells -> 0 .. MaxIds]]
    <3>1. Zeroes \in [Cells -> 0 .. MaxIds]
      BY DEF Zeroes
    <3> QED
      BY <2>1, <2>2, <3>1 DEF TypeOK
  <2>5. cs \in Op /\ cs.tries + 1 \in 0 .. EvictRetries /\ cs' = [cs EXCEPT !.tries = @ + 1]
    BY DEF TypeOK, Op
  <2>6. cs' \in Op
    BY <2>5 DEF Op
  <2> QED
    BY <2>1, <2>3, <2>4, <2>6 DEF TypeOK
<1>2. HolderKnows'
  BY DEF HolderKnows, TypeOK, Idle, Roomy, Live, InCold, Op, TenantRecord
<1>3. OneTier'
  BY DEF OneTier, InCold, TypeOK, TenantRecord, HolderKnows, Live
<1>4. HotSlotsOwnedOnce'
  <2>1. PICK v \in Recs : /\ tenants[v].state = "InHot" /\ tenants[v].kind = "Full"
                          /\ hotUsed' = hotUsed \ {tenants[v].hot}
                          /\ tenants'[v].state = "InCold"
                          /\ \A q \in Recs \ {v} : tenants'[q] = tenants[q]
    BY DEF TypeOK
  <2> QED
    BY <2>1, HotOwnerLeaves DEF FullInHot
<1>5. ColdSlotsOwnedOnce'
  BY DEF ColdSlotsOwnedOnce, InCold, TypeOK, TenantRecord, OneTier, HolderKnows, Live
<1>6. BitmapMatchesTenants'
  BY DEF BitmapMatchesTenants, LiveMicro, Live, InCold, TypeOK, TenantRecord, OneTier, HolderKnows
<1> QED
  BY <1>1, <1>2, <1>3, <1>4, <1>5, <1>6

(* GiveUp keeps the invariant. *)
LEMMA GiveUpStep == BridgeInv /\ GiveUp => BridgeInv'
<1> SUFFICES ASSUME BridgeInv, GiveUp PROVE BridgeInv'
  OBVIOUS
<1> USE SizeFacts, SizesAssumption, NamesAssumption DEF BridgeInv, bridgeVars, arenaVars, callerVars, GiveUp
<1>1. TypeOK'
  BY DEF TypeOK, TenantRecord, Op, Span, Idle, NoView, Zeroes, NoRec, OneTier, InCold, HolderKnows
<1>2. HolderKnows'
  BY DEF HolderKnows, TypeOK, Idle, Roomy, Live, InCold, Op, TenantRecord
<1>3. OneTier'
  BY DEF OneTier, InCold, TypeOK, TenantRecord, HolderKnows, Live
<1>4. HotSlotsOwnedOnce'
  BY HotOwnersStay DEF FullInHot
<1>5. ColdSlotsOwnedOnce'
  BY DEF ColdSlotsOwnedOnce, InCold, TypeOK, TenantRecord, OneTier, HolderKnows, Live
<1>6. BitmapMatchesTenants'
  BY DEF BitmapMatchesTenants, LiveMicro, Live, InCold, TypeOK, TenantRecord, OneTier, HolderKnows
<1> QED
  BY <1>1, <1>2, <1>3, <1>4, <1>5, <1>6

(* Promote keeps the invariant. *)
LEMMA PromoteStep == BridgeInv /\ Promote => BridgeInv'
<1> SUFFICES ASSUME BridgeInv, Promote PROVE BridgeInv'
  OBVIOUS
<1> USE SizeFacts, SizesAssumption, NamesAssumption DEF BridgeInv, bridgeVars, arenaVars, callerVars, Promote, Touch, HotFree, ReleaseCold
<1>1. TypeOK'
  <2>1. PICK s \in HotFree :
            /\ hotUsed' = hotUsed \cup {s}
            /\ hotMem' = [hotMem EXCEPT ![s] = coldMem[tenants[cs.rec].cold]]
            /\ tenants' = [tenants EXCEPT ![cs.rec] =
                             [@ EXCEPT !.hot = s, !.cold = NoSlot, !.state = "InHot",
                                !.pins = tenants[cs.rec].pins + 1]]
            /\ view' = [view EXCEPT ![cs.who] = [id |-> tenants[cs.rec].id, slot |-> s, cells |-> Cells]]
    OBVIOUS
  <2>2. /\ cs.rec \in Recs /\ cs.who \in Threads
        /\ tenants[cs.rec] \in TenantRecord /\ tenants[cs.rec].cold \in ColdSlots
    BY DEF HolderKnows, TypeOK, OneTier, TenantRecord
  <2>3. tenants[cs.rec].pins + 1 \in 0 .. PinSoftMax
    BY <2>2 DEF TenantRecord
  <2>4. tenants' \in [Recs -> TenantRecord]
    <3> DEFINE new == [tenants[cs.rec] EXCEPT !.hot = s, !.cold = NoSlot, !.state = "InHot",
                                !.pins = tenants[cs.rec].pins + 1]
    <3>1. new \in TenantRecord
      BY <2>2, <2>3 DEF TenantRecord
    <3>2. tenants' = [tenants EXCEPT ![cs.rec] = new]
      BY <2>1
    <3> HIDE DEF new
    <3> QED
      BY <2>2, <3>1, <3>2 DEF TypeOK
  <2>5. hotMem' \in [HotSlots -> [Cells -> 0 .. MaxIds]] /\ coldMem' \in [ColdSlots -> [Cells -> 0 .. MaxIds]]
    BY <2>1, <2>2 DEF TypeOK, Zeroes
  <2>6. view' \in [Threads -> Span]
    BY <2>1, <2>2 DEF TypeOK, Span, TenantRecord
  <2>7. before' \in [Recs -> SUBSET Recs] /\ cs' \in Op
    BY DEF TypeOK, Op, Idle, NoRec
  <2> QED
    BY <2>1, <2>4, <2>5, <2>6, <2>7 DEF TypeOK
<1>2. HolderKnows'
  BY DEF HolderKnows, TypeOK, Idle, Roomy, Live, InCold, Op, TenantRecord
<1>3. OneTier'
  BY DEF OneTier, InCold, TypeOK, TenantRecord, HolderKnows, Live
<1>4. HotSlotsOwnedOnce'
  <2>1. PICK s \in HotFree : /\ hotUsed' = hotUsed \cup {s}
                             /\ tenants'[cs.rec].hot = s /\ tenants'[cs.rec].state = "InHot"
                             /\ tenants'[cs.rec].kind = tenants[cs.rec].kind
    BY DEF TypeOK, HolderKnows
  <2>2. /\ cs.rec \in Recs /\ InCold(cs.rec) /\ tenants[cs.rec].kind = "Full"
        /\ \A q \in Recs \ {cs.rec} : tenants'[q] = tenants[q]
    BY DEF TypeOK, HolderKnows, OneTier
  <2> QED
    BY <2>1, <2>2, HotOwnerEnters DEF FullInHot, InCold
<1>5. ColdSlotsOwnedOnce'
  BY DEF ColdSlotsOwnedOnce, InCold, TypeOK, TenantRecord, OneTier, HolderKnows, Live
<1>6. BitmapMatchesTenants'
  BY DEF BitmapMatchesTenants, LiveMicro, Live, InCold, TypeOK, TenantRecord, OneTier, HolderKnows
<1> QED
  BY <1>1, <1>2, <1>3, <1>4, <1>5, <1>6

(* PromoteDecodeFails keeps the invariant. *)
LEMMA PromoteDecodeFailsStep == BridgeInv /\ PromoteDecodeFails => BridgeInv'
<1> SUFFICES ASSUME BridgeInv, PromoteDecodeFails PROVE BridgeInv'
  OBVIOUS
<1> USE SizeFacts, SizesAssumption, NamesAssumption DEF BridgeInv, bridgeVars, arenaVars, callerVars, PromoteDecodeFails, HotFree, ReleaseHot
<1>1. TypeOK'
  BY DEF TypeOK, TenantRecord, Op, Span, Idle, NoView, Zeroes, NoRec, OneTier, InCold, HolderKnows
<1>2. HolderKnows'
  BY DEF HolderKnows, TypeOK, Idle, Roomy, Live, InCold, Op, TenantRecord
<1>3. OneTier'
  BY DEF OneTier, InCold, TypeOK, TenantRecord, HolderKnows, Live
<1>4. HotSlotsOwnedOnce'
  BY HotOwnersStay DEF FullInHot
<1>5. ColdSlotsOwnedOnce'
  BY DEF ColdSlotsOwnedOnce, InCold, TypeOK, TenantRecord, OneTier, HolderKnows, Live
<1>6. BitmapMatchesTenants'
  BY DEF BitmapMatchesTenants, LiveMicro, Live, InCold, TypeOK, TenantRecord, OneTier, HolderKnows
<1> QED
  BY <1>1, <1>2, <1>3, <1>4, <1>5, <1>6

-----------------------------------------------------------------------------
(* A step that only pins, unpins or seals leaves the structure alone. *)

SameStructure ==
  /\ \A r \in Recs : /\ tenants'[r].state = tenants[r].state
                     /\ tenants'[r].kind = tenants[r].kind
                     /\ tenants'[r].hot = tenants[r].hot
                     /\ tenants'[r].sub = tenants[r].sub
                     /\ tenants'[r].cold = tenants[r].cold
                     /\ tenants'[r].shared = tenants[r].shared
  /\ UNCHANGED <<sharedHot, bitmap, nextId, cs, hotUsed, coldUsed, ext>>

(* A step that leaves the structural state alone keeps the structural      *)
(* invariants.                                                             *)
LEMMA SameStructureKeeps ==
  ASSUME BridgeInv, SameStructure
  PROVE  HolderKnows' /\ OneTier' /\ HotSlotsOwnedOnce' /\ ColdSlotsOwnedOnce' /\ BitmapMatchesTenants'
<1>1. \A r \in Recs : /\ Live(r)' <=> Live(r)
                      /\ InCold(r)' <=> InCold(r)
                      /\ FullInHot(r)' <=> FullInHot(r)
                      /\ LiveMicro(r)' <=> LiveMicro(r)
  BY DEF SameStructure, Live, InCold, FullInHot, LiveMicro
<1>2. HolderKnows'
  BY <1>1 DEF BridgeInv, SameStructure, HolderKnows, Idle, Roomy, Live, InCold
<1>3. OneTier'
  BY <1>1 DEF BridgeInv, SameStructure, OneTier, InCold
<1>4. HotSlotsOwnedOnce'
  BY <1>1 DEF BridgeInv, SameStructure, HotSlotsOwnedOnce
<1>5. ColdSlotsOwnedOnce'
  BY <1>1 DEF BridgeInv, SameStructure, ColdSlotsOwnedOnce
<1>6. BitmapMatchesTenants'
  BY <1>1 DEF BridgeInv, SameStructure, BitmapMatchesTenants
<1> QED
  BY <1>2, <1>3, <1>4, <1>5, <1>6

(* Changing only a pin count keeps a record a record. *)
LEMMA NewPins ==
  ASSUME BridgeInv, NEW r \in Recs, NEW n \in 0 .. PinSoftMax,
         tenants' = [tenants EXCEPT ![r].pins = n]
  PROVE  /\ tenants' \in [Recs -> TenantRecord]
         /\ UNCHANGED <<sharedHot, bitmap, nextId, cs, hotUsed, coldUsed, ext>> => SameStructure
<1>1. [tenants[r] EXCEPT !.pins = n] \in TenantRecord
  <2>1. tenants[r] \in TenantRecord
    BY DEF BridgeInv, TypeOK
  <2> QED
    BY <2>1 DEF TenantRecord
<1>2. \A q \in Recs : tenants'[q] = IF q = r THEN [tenants[r] EXCEPT !.pins = n] ELSE tenants[q]
  BY DEF BridgeInv, TypeOK
<1>3. tenants' \in [Recs -> TenantRecord]
  BY <1>1, <1>2 DEF BridgeInv, TypeOK
<1> QED
  BY <1>1, <1>2, <1>3 DEF SameStructure, BridgeInv, TypeOK, TenantRecord

(* Pinning a tenant in an acquire keeps the invariant. *)
LEMMA PinStep ==
  ASSUME NEW t \in Threads, NEW r \in Recs, NEW c \in SUBSET Cells,
         BridgeInv, Pin(r), Touch(r), GiveView(t, r, c),
         UNCHANGED <<sharedHot, bitmap, scanStart, nextId, cs, arenaVars, found>>
  PROVE  BridgeInv'
<1>1. tenants[r].pins + 1 \in 0 .. PinSoftMax
  BY SizesAssumption DEF Pin, BridgeInv, TypeOK, TenantRecord
<1>2. tenants' = [tenants EXCEPT ![r].pins = tenants[r].pins + 1]
  BY DEF Pin
<1>3. tenants' \in [Recs -> TenantRecord] /\ SameStructure
  BY <1>1, <1>2, NewPins DEF arenaVars
<1>4. view' \in [Threads -> Span]
  BY DEF GiveView, BridgeInv, TypeOK, TenantRecord, Span
<1>5. before' \in [Recs -> SUBSET Recs]
  BY DEF Touch, BridgeInv, TypeOK
<1>6. TypeOK'
  BY <1>3, <1>4, <1>5 DEF BridgeInv, TypeOK, arenaVars
<1> QED
  BY <1>3, <1>6, SameStructureKeeps DEF BridgeInv

(* AcquireFP32 keeps the invariant. *)
LEMMA AcquireFP32Step ==
  ASSUME NEW t \in Threads, NEW h \in Ids, BridgeInv, AcquireFP32(t, h)
  PROVE  BridgeInv'
<1>1. PICK r \in Recs : Pin(r) /\ Touch(r) /\ GiveView(t, r, Cells)
  BY DEF AcquireFP32, FindTenant
<1> QED
  BY <1>1, PinStep DEF AcquireFP32

(* AcquireMicroFP32 keeps the invariant. *)
LEMMA AcquireMicroFP32Step ==
  ASSUME NEW t \in Threads, NEW h \in Ids, BridgeInv, AcquireMicroFP32(t, h)
  PROVE  BridgeInv'
<1>1. PICK r \in Recs : Pin(r) /\ Touch(r) /\ GiveView(t, r, {tenants[r].sub})
  BY DEF AcquireMicroFP32, FindTenant
<1>2. {tenants[r].sub} \in SUBSET Cells
  BY DEF BridgeInv, TypeOK, TenantRecord
<1> QED
  BY <1>1, <1>2, PinStep DEF AcquireMicroFP32

(* AcquireFP32Cold keeps the invariant. *)
LEMMA AcquireFP32ColdStep ==
  ASSUME NEW t \in Threads, NEW h \in Ids, BridgeInv, AcquireFP32Cold(t, h)
  PROVE  BridgeInv'
<1> USE DEF BridgeInv, AcquireFP32Cold, arenaVars, callerVars, FindTenant, Enter
<1>1. TypeOK'
  BY SizesAssumption DEF TypeOK, Op
<1>2. HolderKnows'
  BY DEF HolderKnows, Idle, InCold
<1>3. OneTier' /\ HotSlotsOwnedOnce' /\ ColdSlotsOwnedOnce' /\ BitmapMatchesTenants'
  BY DEF OneTier, HotSlotsOwnedOnce, ColdSlotsOwnedOnce, BitmapMatchesTenants,
         InCold, FullInHot, LiveMicro, Live
<1> QED
  BY <1>1, <1>2, <1>3

(* Write keeps the invariant. *)
LEMMA WriteStep ==
  ASSUME NEW t \in Threads, BridgeInv, Write(t)
  PROVE  BridgeInv'
<1>1. SameStructure
  BY DEF Write, bridgeVars, SameStructure
<1>2. hotMem' \in [HotSlots -> [Cells -> 0 .. MaxIds]]
  <2> DEFINE new == [c \in Cells |-> IF c \in view[t].cells THEN view[t].id
                                     ELSE hotMem[view[t].slot][c]]
  <2>1. hotMem' = [hotMem EXCEPT ![view[t].slot] = new]
    BY DEF Write
  <2>2. view[t].slot \in HotSlots => new \in [Cells -> 0 .. MaxIds]
    BY DEF BridgeInv, TypeOK, Span
  <2> HIDE DEF new
  <2> QED
    BY <2>1, <2>2 DEF BridgeInv, TypeOK
<1>3. TypeOK'
  BY <1>2 DEF Write, BridgeInv, TypeOK, bridgeVars, callerVars
<1> QED
  BY <1>1, <1>3, SameStructureKeeps DEF BridgeInv

(* A leaked span changes nothing but what its thread holds. *)
LEMMA LeakStep ==
  ASSUME NEW t \in Threads, BridgeInv, Leak(t)
  PROVE  BridgeInv'
<1>1. SameStructure
  BY DEF Leak, bridgeVars, arenaVars, SameStructure
<1>2. view' \in [Threads -> Span]
  <2>1. NoView \in Span
    BY SizesAssumption DEF NoView, Span
  <2> QED
    BY <2>1 DEF Leak, BridgeInv, TypeOK
<1>3. TypeOK'
  BY <1>2 DEF Leak, BridgeInv, TypeOK, bridgeVars, arenaVars
<1> QED
  BY <1>1, <1>3, SameStructureKeeps DEF BridgeInv

(* ReleaseFind keeps the invariant. *)
LEMMA ReleaseFindStep ==
  ASSUME NEW t \in Threads, NEW h \in Ids, BridgeInv, ReleaseFind(t, h)
  PROVE  BridgeInv'
<1>1. SameStructure
  BY DEF ReleaseFind, bridgeVars, arenaVars, SameStructure
<1>2. PICK r \in Recs \cup {NoRec} : found' = [found EXCEPT ![t] = r]
  <2>1. FindTenant(h) # {} => (CHOOSE r \in FindTenant(h) : TRUE) \in Recs
    BY DEF FindTenant
  <2> QED
    BY <2>1 DEF ReleaseFind
<1>3. NoView \in Span
  BY SizesAssumption DEF NoView, Span
<1>4. view' \in [Threads -> Span] /\ found' \in [Threads -> Recs \cup {NoRec}]
  BY <1>2, <1>3, ZenonT(60) DEF ReleaseFind, BridgeInv, TypeOK
<1>5. TypeOK'
  BY <1>4 DEF ReleaseFind, BridgeInv, TypeOK, bridgeVars, arenaVars
<1> QED
  BY <1>1, <1>5, SameStructureKeeps DEF BridgeInv

(* ReleaseDecrement keeps the invariant. *)
LEMMA ReleaseDecrementStep ==
  ASSUME NEW t \in Threads, BridgeInv, ReleaseDecrement(t)
  PROVE  BridgeInv'
<1> DEFINE r == found[t]
           n == IF tenants[r].pins > 0 THEN tenants[r].pins - 1 ELSE 0
<1>1. r \in Recs
  BY DEF ReleaseDecrement, BridgeInv, TypeOK
<1>2. n \in 0 .. PinSoftMax
  BY <1>1, SizesAssumption DEF BridgeInv, TypeOK, TenantRecord
<1>3. tenants' = [tenants EXCEPT ![r].pins = n]
  BY DEF ReleaseDecrement
<1>4. tenants' \in [Recs -> TenantRecord] /\ SameStructure
  <2> HIDE DEF n, r
  <2> QED
    BY <1>1, <1>2, <1>3, NewPins DEF ReleaseDecrement, arenaVars
<1>5. TypeOK'
  BY <1>4 DEF ReleaseDecrement, BridgeInv, TypeOK, arenaVars
<1> QED
  BY <1>4, <1>5, SameStructureKeeps DEF BridgeInv

(* SealTenant keeps the invariant. *)
LEMMA SealTenantStep ==
  ASSUME NEW h \in Ids, BridgeInv, SealTenant(h)
  PROVE  BridgeInv'
<1>1. PICK r \in Recs : tenants' = [tenants EXCEPT ![r].sealed = TRUE]
  BY DEF SealTenant, FindTenant
<1>2. [tenants[r] EXCEPT !.sealed = TRUE] \in TenantRecord
  <2>1. tenants[r] \in TenantRecord
    BY DEF BridgeInv, TypeOK
  <2> QED
    BY <2>1 DEF TenantRecord
<1>3. \A q \in Recs : tenants'[q] = IF q = r THEN [tenants[r] EXCEPT !.sealed = TRUE] ELSE tenants[q]
  BY <1>1 DEF BridgeInv, TypeOK
<1>4. tenants' \in [Recs -> TenantRecord]
  BY <1>1, <1>2, <1>3 DEF BridgeInv, TypeOK
<1>5. SameStructure
  BY <1>2, <1>3 DEF SealTenant, arenaVars, SameStructure, BridgeInv, TypeOK, TenantRecord
<1>6. TypeOK'
  BY <1>4 DEF SealTenant, BridgeInv, TypeOK, arenaVars, callerVars
<1> QED
  BY <1>5, <1>6, SameStructureKeeps DEF BridgeInv

(* Destroying a tenant. *)

(* What destroying a tenant does to the records. *)
LEMMA KillRecord ==
  ASSUME BridgeInv, NEW r \in Recs, Kill(r)
  PROVE  /\ tenants' \in [Recs -> TenantRecord]
         /\ ~Live(r)' /\ tenants'[r].hot = NoSlot /\ tenants'[r].cold = NoSlot
         /\ \A q \in Recs \ {r} : tenants'[q] = tenants[q]
<1> DEFINE new == [tenants[r] EXCEPT !.state = "Dead", !.hot = NoSlot, !.sub = 0, !.cold = NoSlot]
<1>1. tenants[r] \in TenantRecord
  BY DEF BridgeInv, TypeOK
<1>2. new \in TenantRecord /\ new.state = "Dead" /\ new.hot = NoSlot /\ new.cold = NoSlot
  BY <1>1, SizeFacts DEF TenantRecord
<1>3. tenants' = [tenants EXCEPT ![r] = new]
  BY DEF Kill
<1> HIDE DEF new
<1> QED
  BY <1>2, <1>3 DEF BridgeInv, TypeOK, Live

(* DestroyFull keeps the invariant. *)
LEMMA DestroyFullStep ==
  ASSUME NEW h \in Ids, BridgeInv, DestroyFull(h)
  PROVE  BridgeInv'
<1>1. PICK r \in Recs :
        /\ Live(r) /\ tenants[r].kind = "Full"
        /\ hotUsed' = hotUsed \ {tenants[r].hot}
        /\ hotMem' = [s \in HotSlots |-> IF s = tenants[r].hot THEN Zeroes ELSE hotMem[s]]
        /\ coldUsed' = coldUsed \ {tenants[r].cold}
        /\ coldMem' = [c \in ColdSlots |-> IF c = tenants[r].cold THEN Zeroes ELSE coldMem[c]]
        /\ Kill(r)
  BY DEF DestroyFull, FindTenant, ReleaseHot, ReleaseCold
<1>2. /\ tenants' \in [Recs -> TenantRecord]
      /\ ~Live(r)' /\ tenants'[r].hot = NoSlot /\ tenants'[r].cold = NoSlot
      /\ \A q \in Recs \ {r} : tenants'[q] = tenants[q]
  BY <1>1, KillRecord
<1> USE DEF DestroyFull, BridgeInv, callerVars, ReleaseHot, ReleaseCold
<1>3. TypeOK'
  <2>1. Zeroes \in [Cells -> 0 .. MaxIds]
    BY SizesAssumption DEF Zeroes
  <2> QED
    BY <1>1, <1>2, <2>1 DEF TypeOK
<1>4. HolderKnows'
  BY DEF HolderKnows, Idle, Roomy
<1>5. \A q \in Recs \ {r} : /\ InCold(q)' <=> InCold(q)
                            /\ FullInHot(q)' <=> FullInHot(q)
                            /\ LiveMicro(q)' <=> LiveMicro(q)
  BY <1>2 DEF InCold, FullInHot, LiveMicro, Live
<1>6. ~InCold(r)' /\ ~FullInHot(r)' /\ ~LiveMicro(r)' /\ ~LiveMicro(r)
  BY <1>1, <1>2 DEF InCold, FullInHot, LiveMicro, Live
<1>7. OneTier'
  BY <1>2 DEF OneTier, InCold, Live
<1>8. HotSlotsOwnedOnce'
  <2>1. FullInHot(r) \/ tenants[r].hot = NoSlot
    BY <1>1 DEF OneTier, FullInHot
  <2>2. CASE FullInHot(r)
    BY <1>1, <1>2, <1>6, <2>2, HotOwnerLeaves
  <2>3. CASE tenants[r].hot = NoSlot
    <3>1. ~FullInHot(r) /\ hotUsed' = hotUsed
      BY <1>1, <2>3, NamesAssumption DEF FullInHot, OneTier, TypeOK
    <3> QED
      BY <1>2, <1>5, <1>6, <3>1 DEF HotSlotsOwnedOnce
  <2> QED
    BY <2>1, <2>2, <2>3
<1>9. ColdSlotsOwnedOnce'
  <2>1. \A q \in Recs \ {r} : InCold(q) => tenants[q].cold # tenants[r].cold
    BY NamesAssumption DEF ColdSlotsOwnedOnce, OneTier, InCold
  <2>2. InCold(r) \/ tenants[r].cold = NoSlot
    BY DEF OneTier
  <2> QED
    BY <1>1, <1>2, <1>5, <1>6, <2>1, <2>2, NamesAssumption DEF ColdSlotsOwnedOnce
<1>10. BitmapMatchesTenants'
  BY <1>2, <1>5, <1>6 DEF BitmapMatchesTenants
<1> QED
  BY <1>3, <1>4, <1>7, <1>8, <1>9, <1>10

(* Zeroing one sub-cell keeps a slot a slot. *)
LEMMA WipeCell ==
  ASSUME NEW m \in [Cells -> 0 .. MaxIds], NEW b \in Cells
  PROVE  [m EXCEPT ![b] = 0] \in [Cells -> 0 .. MaxIds]
<1>1. 0 \in 0 .. MaxIds
  BY SizesAssumption
<1> QED
  BY <1>1

(* DestroyMicro keeps the invariant. *)
LEMMA DestroyMicroStep ==
  ASSUME NEW h \in Ids, BridgeInv, DestroyMicro(h)
  PROVE  BridgeInv'
<1>1. PICK r \in Recs, last \in BOOLEAN :
        /\ LiveMicro(r)
        /\ last <=> bitmap[tenants[r].shared] \ {tenants[r].sub} = {}
        /\ bitmap' = [bitmap EXCEPT ![tenants[r].shared] = @ \ {tenants[r].sub}]
        /\ sharedHot' = [sharedHot EXCEPT ![tenants[r].shared] = IF last THEN NoSlot ELSE @]
        /\ \/ last /\ ReleaseHot(sharedHot[tenants[r].shared])
           \/ /\ ~last
              /\ hotMem' = [hotMem EXCEPT ![tenants[r].hot][tenants[r].sub] = 0]
              /\ UNCHANGED hotUsed
        /\ Kill(r)
  BY DEF DestroyMicro, FindTenant, LiveMicro
<1>2. UNCHANGED <<scanStart, nextId, before, cs, coldUsed, ext, coldMem, callerVars>>
  BY DEF DestroyMicro
<1>3. /\ tenants' \in [Recs -> TenantRecord]
      /\ ~Live(r)' /\ tenants'[r].hot = NoSlot /\ tenants'[r].cold = NoSlot
      /\ \A q \in Recs \ {r} : tenants'[q] = tenants[q]
  BY <1>1, KillRecord
<1> DEFINE i == tenants[r].shared
           b == tenants[r].sub
<1>4. /\ i \in Shared /\ b \in Cells /\ tenants[r].hot = sharedHot[i]
      /\ sharedHot[i] \in HotSlots /\ b \in bitmap[i]
  BY <1>1, NamesAssumption DEF BridgeInv, BitmapMatchesTenants, TypeOK, TenantRecord
<1>5. /\ \A j \in Shared \ {i} : bitmap'[j] = bitmap[j] /\ sharedHot'[j] = sharedHot[j]
      /\ bitmap'[i] = bitmap[i] \ {b}
      /\ sharedHot'[i] = IF last THEN NoSlot ELSE sharedHot[i]
  BY <1>1, <1>4 DEF BridgeInv, TypeOK
<1>6. \A q \in Recs : /\ FullInHot(q)' <=> FullInHot(q)
                      /\ InCold(q)' <=> InCold(q)
                      /\ LiveMicro(q)' <=> LiveMicro(q) /\ q # r
                      /\ FullInHot(q) \/ InCold(q) => q # r
  BY <1>1, <1>3 DEF FullInHot, InCold, LiveMicro, Live, BridgeInv, OneTier
<1> HIDE DEF i, b
<1>7. TypeOK'
  <2>1. hotMem' \in [HotSlots -> [Cells -> 0 .. MaxIds]]
    <3>1. CASE last
      <4>1. Zeroes \in [Cells -> 0 .. MaxIds]
        BY SizesAssumption DEF Zeroes
      <4>2. hotMem' = [s \in HotSlots |-> IF s = sharedHot[i] THEN Zeroes ELSE hotMem[s]]
        BY <1>1, <3>1 DEF ReleaseHot, i
      <4> QED
        BY <4>1, <4>2 DEF BridgeInv, TypeOK
    <3>2. CASE ~last
      <4>1. [hotMem[sharedHot[i]] EXCEPT ![b] = 0] \in [Cells -> 0 .. MaxIds]
        BY <1>4, WipeCell DEF BridgeInv, TypeOK
      <4>2. hotMem' = [hotMem EXCEPT ![sharedHot[i]] = [hotMem[sharedHot[i]] EXCEPT ![b] = 0]]
        BY <1>1, <1>4, <3>2 DEF b
      <4> QED
        BY <4>1, <4>2 DEF BridgeInv, TypeOK
    <3> QED
      BY <3>1, <3>2
  <2>2. bitmap' \in [Shared -> SUBSET Cells] /\ sharedHot' \in [Shared -> HotSlots \cup {NoSlot}]
    BY <1>1 DEF BridgeInv, TypeOK
  <2>3. hotUsed' \subseteq HotSlots
    BY <1>1 DEF BridgeInv, TypeOK, ReleaseHot
  <2> QED
    BY <1>2, <1>3, <2>1, <2>2, <2>3 DEF BridgeInv, TypeOK, callerVars
<1>8. HolderKnows'
  BY <1>2 DEF BridgeInv, HolderKnows, DestroyMicro, Idle
<1>9. OneTier'
  BY <1>1, <1>3, <1>6 DEF BridgeInv, OneTier, InCold, Live
<1>10. HotSlotsOwnedOnce'
  <2>1. CASE ~last
    <3>1. UNCHANGED <<hotUsed, sharedHot, ext>>
      BY <1>1, <1>2, <1>4, <2>1 DEF BridgeInv, TypeOK
    <3> QED
      BY <1>3, <1>6, <3>1, HotOwnersStay DEF BridgeInv
  <2>2. CASE last
    <3>1. hotUsed' = hotUsed \ {sharedHot[i]}
      BY <1>1, <2>2 DEF ReleaseHot, i
    <3>2. /\ sharedHot[i] \notin ext
          /\ \A q \in Recs : FullInHot(q) => tenants[q].hot # sharedHot[i]
          /\ \A j \in Shared \ {i} : sharedHot[j] # sharedHot[i]
      BY <1>4, NamesAssumption DEF BridgeInv, HotSlotsOwnedOnce
    <3>3. HotSlotsOwnedOnce
      BY DEF BridgeInv
    <3>4. UNCHANGED ext /\ sharedHot'[i] = NoSlot /\ NoSlot \notin HotSlots
      BY <1>2, <1>5, <2>2, NamesAssumption
    <3>5. ASSUME NEW q \in Recs, FullInHot(q)'
          PROVE  FullInHot(q) /\ tenants'[q].hot = tenants[q].hot /\ tenants[q].hot \in HotSlots
      BY <1>3, <1>6, <3>5, NamesAssumption DEF BridgeInv, TypeOK, TenantRecord, OneTier, FullInHot
    <3>6. \A q \in Recs : FullInHot(q) => FullInHot(q)' /\ tenants'[q].hot = tenants[q].hot
      BY <1>3, <1>6
    <3>7. ASSUME NEW s \in HotSlots
          PROVE  s \in hotUsed' <=> \/ s \in ext'
                                    \/ \E q \in Recs : FullInHot(q)' /\ tenants'[q].hot = s
                                    \/ \E j \in Shared : sharedHot'[j] = s
      <4>1. CASE s = sharedHot[i]
        BY <1>5, <3>1, <3>2, <3>4, <3>5, <4>1
      <4>2. CASE s # sharedHot[i]
        BY <1>4, <1>5, <3>1, <3>3, <3>4, <3>5, <3>6, <4>2 DEF HotSlotsOwnedOnce
      <4> QED
        BY <4>1, <4>2
    <3>8. \A j \in Shared : sharedHot'[j] # NoSlot => j # i /\ sharedHot'[j] = sharedHot[j]
      BY <1>5, <3>4
    <3>9. ASSUME NEW q \in Recs, FullInHot(q)'
          PROVE  /\ tenants'[q].hot \notin ext'
                 /\ \A p \in Recs \ {q} : FullInHot(p)' => tenants'[p].hot # tenants'[q].hot
                 /\ \A j \in Shared : sharedHot'[j] # tenants'[q].hot
      BY <3>3, <3>4, <3>5, <3>8, <3>9 DEF HotSlotsOwnedOnce
    <3>10. \A j \in Shared : sharedHot'[j] # NoSlot =>
             /\ sharedHot'[j] \notin ext'
             /\ \A k \in Shared \ {j} : sharedHot'[k] # sharedHot'[j]
      BY <1>5, <3>3, <3>4, <3>8 DEF HotSlotsOwnedOnce
    <3> QED
      BY <3>7, <3>9, <3>10 DEF HotSlotsOwnedOnce
  <2> QED
    BY <2>1, <2>2
<1>11. ColdSlotsOwnedOnce'
  BY <1>2, <1>3, <1>6 DEF BridgeInv, ColdSlotsOwnedOnce
<1>12. BitmapMatchesTenants'
  <2>1. BitmapMatchesTenants
    BY DEF BridgeInv
  <2>2. \A q \in Recs : LiveMicro(q) /\ q # r /\ tenants[q].shared = i => tenants[q].sub # b
    BY <1>1, <2>1 DEF BitmapMatchesTenants, i, b
  <2>3. last <=> bitmap'[i] = {}
    BY <1>1, <1>5 DEF i, b
  <2>4. \A j \in Shared : sharedHot'[j] = NoSlot <=> bitmap'[j] = {}
    BY <1>4, <1>5, <2>1, <2>3, NamesAssumption DEF BitmapMatchesTenants
  <2>5. \A j \in Shared : \A c \in bitmap'[j] :
          \E q \in Recs : LiveMicro(q)' /\ tenants'[q].shared = j /\ tenants'[q].sub = c
    BY <1>3, <1>5, <1>6, <2>1 DEF BitmapMatchesTenants, i, b
  <2>6. \A q \in Recs : LiveMicro(q)' =>
          /\ tenants'[q].sub \in bitmap'[tenants'[q].shared]
          /\ tenants'[q].hot = sharedHot'[tenants'[q].shared]
          /\ \A p \in Recs \ {q} : LiveMicro(p)' /\ tenants'[p].shared = tenants'[q].shared
               => tenants'[p].sub # tenants'[q].sub
    <3>1. ASSUME NEW q \in Recs, LiveMicro(q)'
          PROVE  /\ LiveMicro(q) /\ q # r /\ tenants'[q] = tenants[q] /\ tenants[q].shared \in Shared
                 /\ tenants[q].sub \in bitmap[tenants[q].shared]
                 /\ tenants[q].hot = sharedHot[tenants[q].shared]
      BY <1>3, <1>6, <2>1, <3>1 DEF BitmapMatchesTenants, BridgeInv, TypeOK, TenantRecord
    <3>2. ASSUME NEW q \in Recs, LiveMicro(q)'
          PROVE  /\ tenants'[q].sub \in bitmap'[tenants'[q].shared]
                 /\ tenants'[q].hot = sharedHot'[tenants'[q].shared]
      <4>1. CASE tenants[q].shared = i
        BY <1>5, <2>2, <2>3, <3>1, <3>2, <4>1
      <4>2. CASE tenants[q].shared # i
        BY <1>5, <3>1, <3>2, <4>2
      <4> QED
        BY <4>1, <4>2
    <3> QED
      BY <2>1, <3>1, <3>2 DEF BitmapMatchesTenants
  <2> QED
    BY <2>4, <2>5, <2>6 DEF BitmapMatchesTenants
<1> QED
  BY <1>7, <1>8, <1>9, <1>10, <1>11, <1>12 DEF BridgeInv

(* ExternalAllocate keeps the invariant. *)
LEMMA ExternalAllocateStep ==
  ASSUME NEW s \in HotSlots, BridgeInv, ExternalAllocate(s)
  PROVE  BridgeInv'
<1> USE SizeFacts, SizesAssumption, NamesAssumption DEF BridgeInv, bridgeVars, arenaVars, callerVars, ExternalAllocate, HotFree
<1>1. TypeOK'
  BY DEF TypeOK, TenantRecord, Op, Span, Idle, NoView, Zeroes, NoRec, OneTier, InCold, HolderKnows
<1>2. HolderKnows'
  BY DEF HolderKnows, TypeOK, Idle, Roomy, Live, InCold, Op, TenantRecord
<1>3. OneTier'
  BY DEF OneTier, InCold, TypeOK, TenantRecord, HolderKnows, Live
<1>4. HotSlotsOwnedOnce'
  BY DEF HotSlotsOwnedOnce, FullInHot, TypeOK, TenantRecord, OneTier, InCold, HolderKnows, Live, BitmapMatchesTenants, LiveMicro
<1>5. ColdSlotsOwnedOnce'
  BY DEF ColdSlotsOwnedOnce, InCold, TypeOK, TenantRecord, OneTier, HolderKnows, Live
<1>6. BitmapMatchesTenants'
  BY DEF BitmapMatchesTenants, LiveMicro, Live, InCold, TypeOK, TenantRecord, OneTier, HolderKnows
<1> QED
  BY <1>1, <1>2, <1>3, <1>4, <1>5, <1>6

(* ExternalRelease keeps the invariant. *)
LEMMA ExternalReleaseStep ==
  ASSUME NEW s \in HotSlots, BridgeInv, ExternalRelease(s)
  PROVE  BridgeInv'
<1> USE SizeFacts, SizesAssumption, NamesAssumption DEF BridgeInv, bridgeVars, arenaVars, callerVars, ExternalRelease, ReleaseHot
<1>1. TypeOK'
  BY DEF TypeOK, TenantRecord, Op, Span, Idle, NoView, Zeroes, NoRec, OneTier, InCold, HolderKnows
<1>2. HolderKnows'
  BY DEF HolderKnows, TypeOK, Idle, Roomy, Live, InCold, Op, TenantRecord
<1>3. OneTier'
  BY DEF OneTier, InCold, TypeOK, TenantRecord, HolderKnows, Live
<1>4. HotSlotsOwnedOnce'
  <2>1. /\ \A r \in Recs : FullInHot(r) => tenants[r].hot # s
        /\ \A i \in Shared : sharedHot[i] # s
    BY DEF HotSlotsOwnedOnce
  <2>2. \A r \in Recs : FullInHot(r)' <=> FullInHot(r)
    BY DEF FullInHot
  <2> QED
    BY <2>1, <2>2 DEF HotSlotsOwnedOnce
<1>5. ColdSlotsOwnedOnce'
  BY DEF ColdSlotsOwnedOnce, InCold, TypeOK, TenantRecord, OneTier, HolderKnows, Live
<1>6. BitmapMatchesTenants'
  BY DEF BitmapMatchesTenants, LiveMicro, Live, InCold, TypeOK, TenantRecord, OneTier, HolderKnows
<1> QED
  BY <1>1, <1>2, <1>3, <1>4, <1>5, <1>6

-----------------------------------------------------------------------------
(* Every step keeps the invariant. *)
LEMMA NextBridgeInv == BridgeInv /\ [Next]_vars => BridgeInv'
<1> SUFFICES ASSUME BridgeInv, [Next]_vars PROVE BridgeInv'
  OBVIOUS
<1>1. CASE Structural
  <2>1. ASSUME NEW h \in Ids, SealTenant(h) \/ DestroyFull(h) \/ DestroyMicro(h)
        PROVE  BridgeInv'
    BY <2>1, SealTenantStep, DestroyFullStep, DestroyMicroStep
  <2> QED
    BY <1>1, <2>1, CreateTenantStep, CreateBindStep, CreateMicroInSharedStep,
       CreateMicroTenantStep, CreateMicroBindStep, EvictOldestStep, GiveUpStep,
       PromoteStep, PromoteDecodeFailsStep DEF Structural
<1>2. CASE External
  BY <1>2, ExternalAllocateStep, ExternalReleaseStep DEF External
<1>3. ASSUME NEW t \in Threads, Caller(t)
      PROVE  BridgeInv'
  BY <1>3, AcquireFP32Step, AcquireMicroFP32Step, AcquireFP32ColdStep, WriteStep,
     LeakStep, ReleaseFindStep, ReleaseDecrementStep DEF Caller
<1>4. CASE UNCHANGED vars
  <2>1. SameStructure
    BY <1>4 DEF vars, bridgeVars, arenaVars, callerVars, SameStructure
  <2>2. TypeOK'
    BY <1>4 DEF vars, bridgeVars, arenaVars, callerVars, BridgeInv, TypeOK
  <2> QED
    BY <2>1, <2>2, SameStructureKeeps DEF BridgeInv
<1> QED
  BY <1>1, <1>2, <1>3, <1>4 DEF Next

(* The structural invariant holds in every state the bridge can reach, for *)
(* every sizing of the bridge and whatever the callers do wrong.           *)
THEOREM BridgeInvariant == Spec => []BridgeInv
<1>1. Init => BridgeInv
  BY InitBridgeInv
<1>2. BridgeInv /\ [Next]_vars => BridgeInv'
  BY NextBridgeInv
<1> QED
  BY <1>1, <1>2, PTL DEF Spec

(* Every field keeps to its type; pin_count never passes the soft maximum  *)
(* and never goes below zero.                                              *)
THEOREM TypeCorrect == Spec => []TypeOK
<1>1. BridgeInv => TypeOK
  BY DEF BridgeInv
<1> QED
  BY <1>1, BridgeInvariant, PTL

(* No hot slot leaks or is owned twice: full-slot tenants, shared slots    *)
(* and the other users of the arena partition the occupied slots.          *)
THEOREM HotSlotsNeverShared == Spec => []HotSlotsOwnedOnce
<1>1. BridgeInv => HotSlotsOwnedOnce
  BY DEF BridgeInv
<1> QED
  BY <1>1, BridgeInvariant, PTL

(* No cold slot leaks or is owned twice. *)
THEOREM ColdSlotsNeverShared == Spec => []ColdSlotsOwnedOnce
<1>1. BridgeInv => ColdSlotsOwnedOnce
  BY DEF BridgeInv
<1> QED
  BY <1>1, BridgeInvariant, PTL

(* The occupancy bitmaps and the live micro-tenants always agree. *)
THEOREM BitmapsExact == Spec => []BitmapMatchesTenants
<1>1. BridgeInv => BitmapMatchesTenants
  BY DEF BridgeInv
<1> QED
  BY <1>1, BridgeInvariant, PTL
-----------------------------------------------------------------------------
(* The records, taken in order, fill the sub-cells of the shared slots: a  *)
(* record number determines a shared slot and a sub-cell, and back.        *)
LEMMA CellOfRecord ==
  ASSUME NEW n \in Recs,
         NEW d, d = n \div SubSlots, NEW m, m = n % SubSlots
  PROVE  d \in Shared /\ m \in Cells /\ n = SubSlots * d + m
<1>1. /\ n \in Nat /\ n < MaxTenants
      /\ SubSlots \in Nat \ {0} /\ MaxTenants \in Nat
      /\ MaxTenants + SubSlots - 1 \in Nat
  BY SizesAssumption DEF Recs
<1>2. d \in Nat /\ m \in 0 .. SubSlots - 1
  BY <1>1
<1>3. n = SubSlots * d + m
  BY <1>1, Z3
<1>4. PICK e, k, rest : /\ e = MaxTenants + SubSlots - 1 /\ k = e \div SubSlots
                        /\ rest = e % SubSlots
  OBVIOUS
<1>5. k = kMaxSharedSlots
  BY <1>4 DEF kMaxSharedSlots
<1>6. k \in Nat /\ rest \in 0 .. SubSlots - 1
  BY <1>1, <1>4
<1>7. e = SubSlots * k + rest
  BY <1>1, <1>4, Z3
<1>8. d < k
  <2> SUFFICES ASSUME d >= k PROVE FALSE
    BY <1>2, <1>6
  <2>1. SubSlots * d >= SubSlots * k
    BY <1>1, <1>2, <1>6, Z3
  <2>2. n < e - rest
    BY <1>1, <1>4, <1>6
  <2> QED
    BY <1>1, <1>2, <1>3, <1>4, <1>6, <1>7, <2>1
<1> QED
  BY <1>2, <1>3, <1>5, <1>6, <1>8 DEF Shared, Cells

(* Were every shared slot full, there would be as many live micro-tenants  *)
(* as records, and the record createMicroTenant has found free would not   *)
(* be among them.                                                          *)
LEMMA SharedEntryLeft == BridgeInv => SharedEntryAvailable
<1> SUFFICES ASSUME BridgeInv, cs.op = "micro", Unbound = {} PROVE FALSE
  BY DEF SharedEntryAvailable
<1>1. cs.rec \in Recs /\ ~Live(cs.rec) /\ Roomy = {}
  BY DEF BridgeInv, HolderKnows
<1>2. \A i \in Shared : bitmap[i] = Cells
  BY <1>1 DEF BridgeInv, BitmapMatchesTenants, Unbound, Roomy
<1> DEFINE LivesAt(r, n) == /\ LiveMicro(r)
                            /\ tenants[r].shared = n \div SubSlots
                            /\ tenants[r].sub = n % SubSlots
           g == [n \in Recs |-> CHOOSE r \in Recs : LivesAt(r, n)]
<1>3. \A n \in Recs : g[n] \in Recs \ {cs.rec} /\ LivesAt(g[n], n)
  <2> TAKE n \in Recs
  <2>1. n % SubSlots \in bitmap[n \div SubSlots] /\ n \div SubSlots \in Shared
    BY <1>2, CellOfRecord
  <2>2. \E r \in Recs : LivesAt(r, n)
    BY <2>1 DEF BridgeInv, BitmapMatchesTenants
  <2>3. g[n] \in Recs /\ LivesAt(g[n], n)
    BY <2>2
  <2> QED
    BY <1>1, <2>3 DEF LiveMicro
<1> HIDE DEF g
<1>4. g \in [Recs -> Recs \ {cs.rec}]
  BY <1>3 DEF g
<1>5. /\ IsFiniteSet(Recs) /\ IsFiniteSet(Recs \ {cs.rec})
      /\ Cardinality(Recs \ {cs.rec}) < Cardinality(Recs)
  <2>1. IsFiniteSet(Recs) /\ Cardinality(Recs) = MaxTenants
    BY FS_Interval, SizesAssumption DEF Recs
  <2> QED
    BY <2>1, <1>1, FS_RemoveElement, SizesAssumption
<1>6. PICK x, y \in Recs : x # y /\ g[x] = g[y]
  BY <1>4, <1>5, FS_PigeonHole
<1>7. x \div SubSlots = y \div SubSlots /\ x % SubSlots = y % SubSlots
  BY <1>3, <1>6
<1>8. PICK d, m : d = x \div SubSlots /\ m = x % SubSlots
  OBVIOUS
<1>9. x = SubSlots * d + m /\ y = SubSlots * d + m
  BY <1>7, <1>8, CellOfRecord
<1> QED
  BY <1>6, <1>9

(* kMaxSharedSlots is large enough for every MaxTenants and every number   *)
(* of sub-cells: createMicroTenant's fail-safe branch is never taken.      *)
THEOREM SharedEntryNeverMissing == Spec => []SharedEntryAvailable
<1> QED
  BY SharedEntryLeft, BridgeInvariant, PTL

-----------------------------------------------------------------------------
(***************************************************************************)
(* What TieredBridge owes callers that make no mistake (Misuse = {}): the  *)
(* span a thread holds stays its tenant's memory, a pin is neither lost    *)
(* nor left behind, no byte of one tenant reaches another, a sealed tenant *)
(* stays where it is, and the tiers are invisible: TieredBridge implements *)
(* TenantStore.  For every number of records, slots, sub-cells and threads.*)
(***************************************************************************)

CallersBehave == Misuse = {}

(* Tenant ids are handed out once. *)
IdsUnique ==
  /\ \A r \in Recs : Live(r) => tenants[r].id \in 1 .. nextId
  /\ \A r, q \in Recs : Live(r) /\ Live(q) /\ tenants[r].id = tenants[q].id => r = q

(* A tenant's memory, in whichever tier it is. *)
MemOf(r) == IF InCold(r) THEN coldMem[tenants[r].cold] ELSE hotMem[tenants[r].hot]

(* Its cells are all zeroes or all the tenant's payload. *)
PayloadIsWhole ==
  \A r \in Recs : Live(r) => \E v \in {0, tenants[r].id} : \A c \in CellsOf(r) : MemOf(r)[c] = v

FreeIsZeroed ==
  /\ \A s \in HotFree : hotMem[s] = Zeroes
  /\ \A c \in ColdSlots \ coldUsed : coldMem[c] = Zeroes

(* A thread holds a tenant, is releasing one, or is inside an operation;   *)
(* a tenant that is being released is still pinned in the hot tier.        *)
HoldersWait ==
  \A t \in Threads :
    /\ view[t] # NoView => found[t] = NoRec
    /\ found[t] # NoRec => tenants[found[t]].state = "InHot"
    /\ cs.who = t => view[t] = NoView /\ found[t] = NoRec

(* The threads that hold tenant h, or are releasing its record r. *)
Users(r, h) == Cardinality({t \in Threads : found[t] = r}) + Cardinality({t \in Threads : view[t].id = h})

PinsCounted == \A r \in Recs, h \in Ids : Live(r) /\ tenants[r].id = h => tenants[r].pins = Users(r, h)

(***************************************************************************)
(* What is inductive beyond BridgeInv.  Eviction looks at pins only, so    *)
(* that a span stays valid needs the pins counted, and counting needs to   *)
(* know whom a thread in the middle of release() is about to decrement.    *)
(***************************************************************************)
CallerInv ==
  /\ BridgeInv /\ CallersBehave
  /\ IdsUnique
  /\ PayloadIsWhole /\ FreeIsZeroed
  /\ ViewsStayValid /\ HoldersWait /\ PinsCounted

-----------------------------------------------------------------------------
(* Who owns which cell. *)

(* A live tenant and the memory it has. *)
LEMMA LiveFacts ==
  ASSUME BridgeInv, NEW r \in Recs, Live(r)
  PROVE  /\ tenants[r].state \in {"InHot", "InCold"} /\ tenants[r].kind \in {"Full", "Micro"}
         /\ tenants[r].id \in 0 .. MaxIds
         /\ CellsOf(r) \subseteq Cells
         /\ tenants[r].state = "InHot" =>
              /\ tenants[r].hot \in HotSlots /\ tenants[r].hot \in hotUsed
              /\ tenants[r].hot \notin ext
         /\ InCold(r) => /\ tenants[r].kind = "Full"
                         /\ tenants[r].cold \in ColdSlots /\ tenants[r].cold \in coldUsed
         /\ tenants[r].kind = "Micro" =>
              /\ tenants[r].state = "InHot" /\ tenants[r].shared \in Shared
              /\ tenants[r].hot = sharedHot[tenants[r].shared]
              /\ tenants[r].sub \in Cells /\ tenants[r].sub \in bitmap[tenants[r].shared]
<1> USE DEF BridgeInv
<1>1. tenants[r] \in TenantRecord
  BY DEF TypeOK
<1>2. tenants[r].state \in {"InHot", "InCold"} /\ tenants[r].kind \in {"Full", "Micro"}
  BY <1>1 DEF TenantRecord, Live
<1>3. tenants[r].sub \in Cells /\ CellsOf(r) \subseteq Cells /\ tenants[r].shared \in Shared
      /\ tenants[r].id \in 0 .. MaxIds
  BY <1>1 DEF TenantRecord, CellsOf
<1>4. tenants[r].kind = "Micro" =>
        /\ tenants[r].state = "InHot"
        /\ tenants[r].hot = sharedHot[tenants[r].shared]
        /\ tenants[r].sub \in bitmap[tenants[r].shared]
  BY <1>2 DEF OneTier, InCold, BitmapMatchesTenants, LiveMicro
<1>5. tenants[r].state = "InHot" => tenants[r].hot \in HotSlots
  BY <1>1 DEF TenantRecord, OneTier
<1>6. InCold(r) => tenants[r].kind = "Full" /\ tenants[r].cold \in ColdSlots /\ tenants[r].cold \in coldUsed
  BY <1>1 DEF TenantRecord, OneTier, ColdSlotsOwnedOnce
<1>7. tenants[r].state = "InHot" => tenants[r].hot \in hotUsed /\ tenants[r].hot \notin ext
  <2>1. CASE FullInHot(r)
    BY <1>5, <2>1 DEF HotSlotsOwnedOnce, FullInHot
  <2>2. CASE tenants[r].kind = "Micro"
    BY <1>3, <1>4, <1>5, <2>2, NamesAssumption DEF HotSlotsOwnedOnce
  <2> QED
    BY <1>2, <2>1, <2>2 DEF FullInHot
<1> QED
  BY <1>2, <1>3, <1>4, <1>5, <1>6, <1>7

(* Two tenants share no cell of the hot arena. *)
LEMMA CellsApart ==
  ASSUME BridgeInv, NEW r \in Recs, NEW q \in Recs, r # q,
         tenants[r].state = "InHot", tenants[q].state = "InHot", tenants[r].hot = tenants[q].hot
  PROVE  /\ tenants[r].kind = "Micro" /\ tenants[q].kind = "Micro"
         /\ tenants[r].shared = tenants[q].shared
         /\ tenants[r].sub # tenants[q].sub
<1> USE DEF BridgeInv
<1>1. Live(r) /\ Live(q)
  BY DEF Live
<1>2. ~FullInHot(r) /\ ~FullInHot(q)
  <2>1. FullInHot(r) => ~FullInHot(q)
    BY DEF HotSlotsOwnedOnce
  <2>2. \A x, y \in Recs : FullInHot(x) /\ Live(y) /\ tenants[y].kind = "Micro" => tenants[x].hot # tenants[y].hot
    BY LiveFacts DEF HotSlotsOwnedOnce
  <2> QED
    BY <1>1, <2>1, <2>2, LiveFacts DEF FullInHot
<1>3. tenants[r].kind = "Micro" /\ tenants[q].kind = "Micro"
  BY <1>1, <1>2, LiveFacts DEF FullInHot
<1>4. tenants[r].shared = tenants[q].shared
  BY <1>1, <1>3, LiveFacts, NamesAssumption DEF HotSlotsOwnedOnce
<1> QED
  BY <1>1, <1>3, <1>4 DEF BitmapMatchesTenants, LiveMicro

-----------------------------------------------------------------------------
(* Four kinds of step, told by what they do to the tenants' payloads. *)

(* r keeps its id and its bytes, in whichever slot they are. *)
Stays(r) ==
  /\ Live(r)' <=> Live(r)
  /\ Live(r) => /\ tenants'[r].id = tenants[r].id
                /\ CellsOf(r)' = CellsOf(r)
                /\ \A c \in CellsOf(r) : MemOf(r)'[c] = MemOf(r)[c]

Quiet == nextId' = nextId /\ \A r \in Recs : Stays(r)

Born(r) ==
  /\ nextId < MaxIds /\ nextId' = nextId + 1
  /\ ~Live(r) /\ Live(r)' /\ tenants'[r].id = nextId + 1
  /\ \A c \in CellsOf(r)' : MemOf(r)'[c] = 0
  /\ \A q \in Recs \ {r} : Stays(q)

Died(r) ==
  /\ nextId' = nextId
  /\ Live(r) /\ ~Live(r)'
  /\ \A q \in Recs \ {r} : Stays(q)

Written(r) ==
  /\ nextId' = nextId
  /\ Live(r) /\ Live(r)' /\ tenants'[r].id = tenants[r].id
  /\ CellsOf(r)' = CellsOf(r)
  /\ \A c \in CellsOf(r) : MemOf(r)'[c] = tenants[r].id
  /\ \A q \in Recs \ {r} : Stays(q)

(* Each of them keeps the ids unique and the payloads whole. *)
LEMMA KindKeeps ==
  ASSUME CallerInv, Quiet \/ \E r \in Recs : Born(r) \/ Died(r) \/ Written(r)
  PROVE  IdsUnique' /\ PayloadIsWhole'
<1> USE DEF CallerInv
<1>1. nextId \in Nat
  BY DEF BridgeInv, TypeOK
<1>2. CASE Quiet
  BY <1>2 DEF Quiet, Stays, IdsUnique, PayloadIsWhole
<1>3. ASSUME NEW r \in Recs, Born(r) PROVE IdsUnique' /\ PayloadIsWhole'
  <2>1. \A q \in Recs \ {r} : Live(q)' => Live(q) /\ tenants'[q].id = tenants[q].id /\ tenants[q].id \in 1 .. nextId
    BY <1>3 DEF Born, Stays, IdsUnique
  <2>2. IdsUnique'
    BY <1>1, <1>3, <2>1 DEF Born, IdsUnique
  <2>3. PayloadIsWhole'
    BY <1>3 DEF Born, Stays, PayloadIsWhole
  <2> QED
    BY <2>2, <2>3
<1>4. ASSUME NEW r \in Recs, Died(r) PROVE IdsUnique' /\ PayloadIsWhole'
  BY <1>4 DEF Died, Stays, IdsUnique, PayloadIsWhole
<1>5. ASSUME NEW r \in Recs, Written(r) PROVE IdsUnique' /\ PayloadIsWhole'
  <2>1. IdsUnique'
    BY <1>5 DEF Written, Stays, IdsUnique
  <2>2. PayloadIsWhole'
    BY <1>5 DEF Written, Stays, PayloadIsWhole
  <2> QED
    BY <2>1, <2>2
<1> QED
  BY <1>2, <1>3, <1>4, <1>5

-----------------------------------------------------------------------------
(* Which kind each action is. *)

(* Where a tenant's bytes are, for a step that moves only some of them. *)
LEMMA SamePlace ==
  ASSUME NEW q \in Recs, tenants'[q] = tenants[q],
         tenants[q].state = "InHot" =>
           \A c \in CellsOf(q) : hotMem'[tenants[q].hot][c] = hotMem[tenants[q].hot][c],
         InCold(q) => coldMem'[tenants[q].cold] = coldMem[tenants[q].cold],
         Live(q) => tenants[q].state \in {"InHot", "InCold"}
  PROVE  Stays(q)
BY DEF Stays, Live, CellsOf, MemOf, InCold

(* Steps that leave the memory, and where everybody is, alone. *)
SamePlaces ==
  /\ UNCHANGED <<nextId, hotMem, coldMem>>
  /\ \A r \in Recs :
       /\ tenants'[r].id = tenants[r].id /\ tenants'[r].state = tenants[r].state
       /\ tenants'[r].kind = tenants[r].kind /\ tenants'[r].sub = tenants[r].sub
       /\ tenants'[r].hot = tenants[r].hot /\ tenants'[r].cold = tenants[r].cold

(* A step that moves no tenant and no byte is quiet. *)
LEMMA SamePlacesIsQuiet == SamePlaces => Quiet
BY DEF SamePlaces, Quiet, Stays, Live, CellsOf, MemOf, InCold

(* createTenant makes one tenant. *)
LEMMA CreateBindKind ==
  ASSUME CallerInv, CreateBind
  PROVE  (\E r \in Recs : Born(r)) /\ FreeIsZeroed'
<1> USE DEF CallerInv, BridgeInv
<1>1. PICK s \in HotFree :
        /\ hotUsed' = hotUsed \cup {s}
        /\ tenants' = [tenants EXCEPT ![cs.rec] = NewTenant("Full", s, 0, 0)]
  BY DEF CreateBind
<1>2. /\ cs.rec \in Recs /\ ~Live(cs.rec) /\ nextId < MaxIds
      /\ nextId' = nextId + 1 /\ UNCHANGED <<hotMem, coldMem, coldUsed>>
  BY DEF CreateBind, HolderKnows
<1>3. tenants'[cs.rec] = NewTenant("Full", s, 0, 0) /\ \A q \in Recs \ {cs.rec} : tenants'[q] = tenants[q]
  BY <1>1, <1>2 DEF TypeOK
<1>4. hotMem[s] = Zeroes
  BY DEF FreeIsZeroed
<1> PICK r \in Recs : r = cs.rec
  BY <1>2
<1>5. /\ Live(r)' /\ tenants'[r].id = nextId + 1 /\ MemOf(r)' = Zeroes /\ CellsOf(r)' = Cells
  BY <1>2, <1>3, <1>4 DEF NewTenant, Live, MemOf, InCold, CellsOf
<1>6. \A q \in Recs \ {r} : Stays(q)
  BY <1>2, <1>3, SamePlace, LiveFacts
<1>7. FreeIsZeroed'
  BY <1>1, <1>2 DEF FreeIsZeroed, HotFree
<1> QED
  BY <1>2, <1>5, <1>6, <1>7 DEF Born, Zeroes

(* createMicroTenant makes one tenant, in a slot it shares. *)
LEMMA CreateMicroInSharedKind ==
  ASSUME CallerInv, CreateMicroInShared
  PROVE  (\E r \in Recs : Born(r)) /\ FreeIsZeroed'
<1> USE DEF CallerInv, BridgeInv
<1>1. PICK r \in Recs, i \in Shared, b \in Cells :
        /\ ~Live(r) /\ sharedHot[i] # NoSlot /\ b \notin bitmap[i]
        /\ tenants' = [tenants EXCEPT ![r] = NewTenant("Micro", sharedHot[i], b, i)]
        /\ hotMem' = [hotMem EXCEPT ![sharedHot[i]][b] = 0]
  BY DEF CreateMicroInShared, FirstFreeRecord, FirstRoomy, Roomy, LowestFreeCell
<1>2. /\ nextId < MaxIds /\ nextId' = nextId + 1 /\ UNCHANGED <<hotUsed, coldUsed, coldMem>>
  BY DEF CreateMicroInShared
<1>3. /\ tenants'[r] = NewTenant("Micro", sharedHot[i], b, i)
      /\ \A q \in Recs \ {r} : tenants'[q] = tenants[q]
  BY <1>1 DEF TypeOK
<1>4. sharedHot[i] \in HotSlots /\ sharedHot[i] \in hotUsed
  BY <1>1 DEF TypeOK, HotSlotsOwnedOnce
<1>5. /\ hotMem'[sharedHot[i]][b] = 0
      /\ \A s \in HotSlots, c \in Cells :
           s # sharedHot[i] \/ c # b => hotMem'[s][c] = hotMem[s][c]
      /\ \A s \in HotSlots \ {sharedHot[i]} : hotMem'[s] = hotMem[s]
  BY <1>1, <1>4 DEF TypeOK
<1>6. Live(r)' /\ tenants'[r].id = nextId + 1 /\ \A c \in CellsOf(r)' : MemOf(r)'[c] = 0
  BY <1>2, <1>3, <1>5 DEF NewTenant, Live, MemOf, InCold, CellsOf
<1>7. ASSUME NEW q \in Recs \ {r} PROVE Stays(q)
  <2>1. ASSUME tenants[q].state = "InHot", NEW c \in CellsOf(q)
        PROVE  hotMem'[tenants[q].hot][c] = hotMem[tenants[q].hot][c]
    <3>1. Live(q) /\ tenants[q].hot \in HotSlots /\ c \in Cells
      BY <2>1, LiveFacts DEF Live
    <3>2. CASE tenants[q].hot = sharedHot[i]
      <4>1. tenants[q].kind = "Micro"
        BY <2>1, <3>1, <3>2, LiveFacts DEF HotSlotsOwnedOnce, FullInHot
      <4>2. tenants[q].shared = i /\ c = tenants[q].sub /\ tenants[q].sub \in bitmap[i]
        BY <1>1, <2>1, <3>1, <3>2, <4>1, LiveFacts DEF HotSlotsOwnedOnce, CellsOf
      <4> QED
        BY <1>1, <1>5, <3>1, <4>2
    <3> QED
      BY <1>5, <3>1, <3>2
  <2>2. Live(q) => tenants[q].state \in {"InHot", "InCold"}
    BY LiveFacts
  <2> QED
    BY <1>2, <1>3, <2>1, <2>2, SamePlace
<1>8. FreeIsZeroed'
  BY <1>2, <1>4, <1>5 DEF FreeIsZeroed, HotFree
<1> QED
  BY <1>1, <1>2, <1>6, <1>7, <1>8 DEF Born

(* createMicroTenant makes one tenant, the first in its slot. *)
LEMMA CreateMicroBindKind ==
  ASSUME CallerInv, CreateMicroBind
  PROVE  (\E r \in Recs : Born(r)) /\ FreeIsZeroed'
<1> USE DEF CallerInv, BridgeInv
<1>1. PICK s \in HotFree, i \in Shared :
        /\ hotUsed' = hotUsed \cup {s}
        /\ tenants' = [tenants EXCEPT ![cs.rec] = NewTenant("Micro", s, 0, i)]
        /\ hotMem' = [hotMem EXCEPT ![s][0] = 0]
  BY DEF CreateMicroBind, Unbound
<1>2. /\ cs.rec \in Recs /\ ~Live(cs.rec) /\ nextId < MaxIds
      /\ nextId' = nextId + 1 /\ UNCHANGED <<coldMem, coldUsed>>
  BY DEF CreateMicroBind, HolderKnows
<1>3. tenants'[cs.rec] = NewTenant("Micro", s, 0, i) /\ \A q \in Recs \ {cs.rec} : tenants'[q] = tenants[q]
  BY <1>1, <1>2 DEF TypeOK
<1>4. s \in HotSlots /\ hotMem[s] = Zeroes
  BY DEF FreeIsZeroed, HotFree
<1>5. hotMem' = hotMem
  BY <1>1, <1>4, SizeFacts DEF TypeOK, Zeroes
<1> PICK r \in Recs : r = cs.rec
  BY <1>2
<1>6. /\ Live(r)' /\ tenants'[r].id = nextId + 1 /\ MemOf(r)' = Zeroes /\ CellsOf(r)' = {0}
  BY <1>2, <1>3, <1>4, <1>5 DEF NewTenant, Live, MemOf, InCold, CellsOf
<1>7. \A q \in Recs \ {r} : Stays(q)
  BY <1>2, <1>3, <1>5, SamePlace, LiveFacts
<1>8. FreeIsZeroed'
  BY <1>1, <1>2, <1>5 DEF FreeIsZeroed, HotFree
<1>9. \A c \in CellsOf(r)' : MemOf(r)'[c] = 0
  BY <1>6, SizeFacts DEF Zeroes
<1> QED
  BY <1>2, <1>6, <1>7, <1>8, <1>9 DEF Born

(* The victim's bytes travel to the cold slot. *)
LEMMA EvictOldestKind ==
  ASSUME CallerInv, EvictOldest
  PROVE  Quiet /\ FreeIsZeroed'
<1> USE DEF CallerInv, BridgeInv
<1>1. PICK v \in Recs, k \in ColdSlots \ coldUsed :
        /\ FullInHot(v)
        /\ coldUsed' = coldUsed \cup {k}
        /\ coldMem' = [coldMem EXCEPT ![k] = hotMem[tenants[v].hot]]
        /\ ReleaseHot(tenants[v].hot)
        /\ tenants' = [tenants EXCEPT ![v] = [@ EXCEPT !.hot = NoSlot, !.cold = k, !.state = "InCold"]]
  BY DEF EvictOldest, Oldest, Evictable, FullInHot
<1>2. nextId' = nextId
  BY DEF EvictOldest
<1>3. /\ tenants'[v].id = tenants[v].id /\ tenants'[v].state = "InCold" /\ tenants'[v].cold = k
      /\ tenants'[v].kind = tenants[v].kind
      /\ \A q \in Recs \ {v} : tenants'[q] = tenants[q]
  BY <1>1 DEF TypeOK, TenantRecord
<1>4. /\ coldMem'[k] = hotMem[tenants[v].hot]
      /\ \A c \in ColdSlots \ {k} : coldMem'[c] = coldMem[c]
      /\ \A s \in HotSlots : hotMem'[s] = IF s = tenants[v].hot THEN Zeroes ELSE hotMem[s]
      /\ hotUsed' = hotUsed \ {tenants[v].hot}
  BY <1>1 DEF TypeOK, ReleaseHot
<1>5. Stays(v)
  BY <1>1, <1>3, <1>4 DEF Stays, Live, CellsOf, MemOf, InCold, FullInHot
<1>6. ASSUME NEW q \in Recs \ {v} PROVE Stays(q)
  <2>1. tenants[q].state = "InHot" => tenants[q].hot \in HotSlots /\ tenants[q].hot # tenants[v].hot
    BY <1>1, CellsApart, LiveFacts DEF FullInHot, Live
  <2>2. InCold(q) => tenants[q].cold \in ColdSlots \ {k}
    BY <1>1, LiveFacts DEF InCold, Live
  <2>3. Live(q) => tenants[q].state \in {"InHot", "InCold"}
    BY LiveFacts
  <2> QED
    BY <1>3, <1>4, <2>1, <2>2, <2>3, SamePlace
<1>7. FreeIsZeroed'
  BY <1>1, <1>4 DEF FreeIsZeroed, HotFree
<1> QED
  BY <1>2, <1>5, <1>6, <1>7 DEF Quiet

(* A promoted tenant finds its bytes again. *)
LEMMA PromoteKind ==
  ASSUME CallerInv, Promote
  PROVE  Quiet /\ FreeIsZeroed'
<1> USE DEF CallerInv, BridgeInv
<1>1. PICK r \in Recs : r = cs.rec /\ InCold(r) /\ Live(r)
  BY DEF Promote, HolderKnows, InCold, Live
<1>2. PICK s \in HotFree :
        /\ hotUsed' = hotUsed \cup {s}
        /\ hotMem' = [hotMem EXCEPT ![s] = coldMem[tenants[r].cold]]
        /\ tenants' = [tenants EXCEPT ![r] = [@ EXCEPT !.hot = s, !.cold = NoSlot, !.state = "InHot",
                                                        !.pins = tenants[r].pins + 1]]
  BY <1>1 DEF Promote
<1>3. ReleaseCold(tenants[r].cold) /\ nextId' = nextId
  BY <1>1 DEF Promote
<1>4. /\ tenants'[r].id = tenants[r].id /\ tenants'[r].state = "InHot" /\ tenants'[r].hot = s
      /\ tenants'[r].kind = tenants[r].kind /\ tenants'[r].sub = tenants[r].sub
      /\ \A q \in Recs \ {r} : tenants'[q] = tenants[q]
  BY <1>1, <1>2 DEF TypeOK, TenantRecord
<1>5. /\ hotMem'[s] = coldMem[tenants[r].cold]
      /\ \A h \in HotSlots \ {s} : hotMem'[h] = hotMem[h]
      /\ \A c \in ColdSlots : coldMem'[c] = IF c = tenants[r].cold THEN Zeroes ELSE coldMem[c]
      /\ coldUsed' = coldUsed \ {tenants[r].cold} /\ s \in HotSlots /\ s \notin hotUsed
  BY <1>2, <1>3 DEF TypeOK, ReleaseCold, HotFree
<1>6. Stays(r)
  BY <1>1, <1>4, <1>5 DEF Stays, Live, CellsOf, MemOf, InCold
<1>7. ASSUME NEW q \in Recs \ {r} PROVE Stays(q)
  <2>1. tenants[q].state = "InHot" => tenants[q].hot \in HotSlots \ {s}
    BY <1>5, LiveFacts DEF Live
  <2>2. InCold(q) => tenants[q].cold \in ColdSlots /\ tenants[q].cold # tenants[r].cold
    BY <1>1, LiveFacts DEF InCold, Live, ColdSlotsOwnedOnce
  <2>3. Live(q) => tenants[q].state \in {"InHot", "InCold"}
    BY LiveFacts
  <2> QED
    BY <1>4, <1>5, <2>1, <2>2, <2>3, SamePlace
<1>8. FreeIsZeroed'
  BY <1>2, <1>5 DEF FreeIsZeroed, HotFree
<1> QED
  BY <1>3, <1>6, <1>7, <1>8 DEF Quiet

(* Wiping a slot no tenant is in. *)
LEMMA WipeUnowned ==
  ASSUME CallerInv, NEW s \in HotSlots, ReleaseHot(s), s \notin hotUsed \/ s \in ext,
         UNCHANGED <<tenants, nextId, coldMem, coldUsed>>
  PROVE  Quiet /\ FreeIsZeroed'
<1> USE DEF CallerInv, BridgeInv
<1>1. /\ hotUsed' = hotUsed \ {s}
      /\ \A h \in HotSlots : hotMem'[h] = IF h = s THEN Zeroes ELSE hotMem[h]
  BY DEF ReleaseHot
<1>2. ASSUME NEW q \in Recs PROVE Stays(q)
  <2>1. tenants[q].state = "InHot" => tenants[q].hot \in HotSlots \ {s}
    BY LiveFacts DEF Live
  <2>2. Live(q) => tenants[q].state \in {"InHot", "InCold"}
    BY LiveFacts
  <2> QED
    BY <1>1, <2>1, <2>2, SamePlace
<1>3. FreeIsZeroed'
  BY <1>1 DEF FreeIsZeroed, HotFree
<1> QED
  BY <1>2, <1>3 DEF Quiet

(* A write through a span writes the tenant it was acquired for. *)
LEMMA WriteKind ==
  ASSUME CallerInv, NEW t \in Threads, Write(t)
  PROVE  (\E r \in Recs : Written(r) /\ tenants[r].id = view[t].id) /\ FreeIsZeroed'
<1> USE DEF CallerInv, BridgeInv
<1>1. /\ view[t] # NoView
      /\ hotMem' = [hotMem EXCEPT ![view[t].slot] =
                      [c \in Cells |-> IF c \in view[t].cells THEN view[t].id ELSE @[c]]]
      /\ UNCHANGED <<tenants, nextId, coldMem, hotUsed, coldUsed>>
  BY DEF Write, bridgeVars
<1>2. PICK r \in Recs : /\ Live(r) /\ tenants[r].id = view[t].id /\ tenants[r].state = "InHot"
                        /\ tenants[r].hot = view[t].slot /\ view[t].cells = CellsOf(r)
  BY <1>1 DEF ViewsStayValid, FindTenant, CellsOf
<1>3. tenants[r].hot \in HotSlots /\ tenants[r].hot \in hotUsed /\ CellsOf(r) \subseteq Cells
  BY <1>2, LiveFacts
<1>4. /\ \A c \in Cells : hotMem'[tenants[r].hot][c]
                            = IF c \in CellsOf(r) THEN tenants[r].id ELSE hotMem[tenants[r].hot][c]
      /\ \A s \in HotSlots \ {tenants[r].hot} : hotMem'[s] = hotMem[s]
  BY <1>1, <1>2, <1>3 DEF TypeOK
<1>5. /\ Live(r)' /\ tenants'[r].id = tenants[r].id /\ CellsOf(r)' = CellsOf(r)
      /\ \A c \in CellsOf(r) : MemOf(r)'[c] = tenants[r].id
  BY <1>1, <1>2, <1>3, <1>4 DEF Live, CellsOf, MemOf, InCold
<1>6. ASSUME NEW q \in Recs \ {r} PROVE Stays(q)
  <2>1. ASSUME tenants[q].state = "InHot", NEW c \in CellsOf(q)
        PROVE  hotMem'[tenants[q].hot][c] = hotMem[tenants[q].hot][c]
    <3>1. Live(q) /\ tenants[q].hot \in HotSlots /\ c \in Cells
      BY <2>1, LiveFacts DEF Live
    <3>2. tenants[q].hot = tenants[r].hot => c \notin CellsOf(r)
      BY <1>2, <2>1, CellsApart DEF CellsOf
    <3> QED
      BY <1>4, <3>1, <3>2
  <2>2. Live(q) => tenants[q].state \in {"InHot", "InCold"}
    BY LiveFacts
  <2> QED
    BY <1>1, <2>1, <2>2, SamePlace
<1>7. FreeIsZeroed'
  BY <1>1, <1>3, <1>4 DEF FreeIsZeroed, HotFree
<1> QED
  BY <1>1, <1>2, <1>5, <1>6, <1>7 DEF Written

(* destroyTenant ends one full-slot tenant that nobody holds. *)
LEMMA DestroyFullKind ==
  ASSUME CallerInv, NEW h \in Ids, DestroyFull(h)
  PROVE  /\ \E r \in Recs : Died(r) /\ tenants[r].id = h /\ ~InUseByCaller(r)
         /\ FreeIsZeroed'
<1> USE DEF CallerInv, BridgeInv
<1>1. PICK r \in Recs :
        /\ Live(r) /\ tenants[r].id = h /\ tenants[r].kind = "Full" /\ MayDestroy(r)
        /\ ReleaseHot(tenants[r].hot) /\ ReleaseCold(tenants[r].cold) /\ Kill(r)
  BY DEF DestroyFull, FindTenant
<1>2. nextId' = nextId
  BY DEF DestroyFull
<1>3. tenants'[r].state = "Dead" /\ \A q \in Recs \ {r} : tenants'[q] = tenants[q]
  BY <1>1 DEF Kill, TypeOK
<1>4. /\ hotUsed' = hotUsed \ {tenants[r].hot} /\ coldUsed' = coldUsed \ {tenants[r].cold}
      /\ \A s \in HotSlots : hotMem'[s] = IF s = tenants[r].hot THEN Zeroes ELSE hotMem[s]
      /\ \A c \in ColdSlots : coldMem'[c] = IF c = tenants[r].cold THEN Zeroes ELSE coldMem[c]
  BY <1>1 DEF ReleaseHot, ReleaseCold
<1>5. ASSUME NEW q \in Recs \ {r} PROVE Stays(q)
  <2>1. tenants[q].state = "InHot" => tenants[q].hot \in HotSlots /\ tenants[q].hot # tenants[r].hot
    <3>1. CASE tenants[r].state = "InHot"
      BY <1>1, <3>1, CellsApart, LiveFacts DEF Live
    <3>2. CASE tenants[r].state # "InHot"
      BY <3>2, LiveFacts, NamesAssumption DEF Live, OneTier
    <3> QED
      BY <3>1, <3>2
  <2>2. InCold(q) => tenants[q].cold \in ColdSlots /\ tenants[q].cold # tenants[r].cold
    BY LiveFacts, NamesAssumption DEF InCold, Live, OneTier, ColdSlotsOwnedOnce
  <2>3. Live(q) => tenants[q].state \in {"InHot", "InCold"}
    BY LiveFacts
  <2> QED
    BY <1>3, <1>4, <2>1, <2>2, <2>3, SamePlace
<1>6. FreeIsZeroed'
  BY <1>4 DEF FreeIsZeroed, HotFree
<1>7. Died(r)
  BY <1>1, <1>2, <1>3, <1>5 DEF Died, Live
<1> QED
  BY <1>1, <1>6, <1>7 DEF MayDestroy, CallersBehave

(* destroyTenant ends one micro-tenant that nobody holds. *)
LEMMA DestroyMicroKind ==
  ASSUME CallerInv, NEW h \in Ids, DestroyMicro(h)
  PROVE  /\ \E r \in Recs : Died(r) /\ tenants[r].id = h /\ ~InUseByCaller(r)
         /\ FreeIsZeroed'
<1> USE DEF CallerInv, BridgeInv
<1>1. PICK r \in Recs :
        LET i == tenants[r].shared
            b == tenants[r].sub
            last == bitmap[i] \ {b} = {}
        IN  /\ Live(r) /\ tenants[r].id = h /\ tenants[r].kind = "Micro" /\ MayDestroy(r) /\ Kill(r)
            /\ \/ last /\ ReleaseHot(sharedHot[i])
               \/ /\ ~last
                  /\ hotMem' = [hotMem EXCEPT ![tenants[r].hot][b] = 0]
                  /\ UNCHANGED hotUsed
  BY DEF DestroyMicro, FindTenant
<1> DEFINE i == tenants[r].shared
           b == tenants[r].sub
<1>2. nextId' = nextId /\ UNCHANGED <<coldUsed, coldMem>>
  BY DEF DestroyMicro
<1>3. tenants'[r].state = "Dead" /\ \A q \in Recs \ {r} : tenants'[q] = tenants[q]
  BY <1>1 DEF Kill, TypeOK
<1>4. /\ tenants[r].state = "InHot" /\ i \in Shared /\ tenants[r].hot = sharedHot[i]
      /\ tenants[r].hot \in HotSlots /\ tenants[r].hot \in hotUsed /\ b \in Cells
  BY <1>1, LiveFacts
<1>5. ASSUME NEW q \in Recs \ {r}, tenants[q].state = "InHot", tenants[q].hot = tenants[r].hot
      PROVE  CellsOf(q) = {tenants[q].sub} /\ tenants[q].sub \in bitmap[i] \ {b}
  <2>1. tenants[q].kind = "Micro" /\ tenants[q].shared = i /\ tenants[q].sub # b
    BY <1>4, <1>5, CellsApart
  <2> QED
    BY <1>5, <2>1, LiveFacts DEF CellsOf, Live
<1> HIDE DEF i, b
<1>6. \/ /\ bitmap[i] \ {b} = {} /\ hotUsed' = hotUsed \ {tenants[r].hot}
         /\ \A s \in HotSlots : hotMem'[s] = IF s = tenants[r].hot THEN Zeroes ELSE hotMem[s]
      \/ /\ hotUsed' = hotUsed
         /\ \A s \in HotSlots \ {tenants[r].hot} : hotMem'[s] = hotMem[s]
         /\ \A c \in Cells \ {b} : hotMem'[tenants[r].hot][c] = hotMem[tenants[r].hot][c]
  <2>1. CASE bitmap[i] \ {b} = {} /\ ReleaseHot(sharedHot[i])
    BY <1>4, <2>1 DEF ReleaseHot
  <2>2. CASE hotMem' = [hotMem EXCEPT ![tenants[r].hot][b] = 0] /\ UNCHANGED hotUsed
    BY <1>4, <2>2 DEF TypeOK
  <2> QED
    BY <1>1, <2>1, <2>2 DEF i, b
<1>7. ASSUME NEW q \in Recs \ {r} PROVE Stays(q)
  <2>1. ASSUME tenants[q].state = "InHot", NEW c \in CellsOf(q)
        PROVE  hotMem'[tenants[q].hot][c] = hotMem[tenants[q].hot][c]
    <3>1. tenants[q].hot \in HotSlots /\ c \in Cells
      BY <2>1, LiveFacts DEF Live
    <3>2. CASE tenants[q].hot = tenants[r].hot
      BY <1>5, <1>6, <2>1, <3>1, <3>2
    <3>3. CASE tenants[q].hot # tenants[r].hot
      BY <1>6, <3>1, <3>3
    <3> QED
      BY <3>2, <3>3
  <2>2. Live(q) => tenants[q].state \in {"InHot", "InCold"}
    BY LiveFacts
  <2> QED
    BY <1>2, <1>3, <2>1, <2>2, SamePlace
<1>8. FreeIsZeroed'
  BY <1>2, <1>4, <1>6 DEF FreeIsZeroed, HotFree
<1>9. Died(r)
  BY <1>1, <1>2, <1>3, <1>7 DEF Died, Live
<1> QED
  BY <1>1, <1>8, <1>9 DEF MayDestroy, CallersBehave

(* The steps that move nothing. *)
LEMMA SamePlaceSteps ==
  ASSUME BridgeInv,
         \/ CreateTenant \/ CreateMicroTenant \/ GiveUp \/ UNCHANGED vars
         \/ \E h \in Ids : SealTenant(h)
         \/ \E s \in HotSlots : ExternalAllocate(s)
         \/ \E t \in Threads :
              \/ ReleaseDecrement(t)
              \/ \E h \in Ids : \/ AcquireFP32(t, h) \/ AcquireMicroFP32(t, h)
                                \/ AcquireFP32Cold(t, h) \/ ReleaseFind(t, h)
  PROVE  SamePlaces /\ (FreeIsZeroed => FreeIsZeroed')
<1> USE DEF BridgeInv, arenaVars, callerVars, bridgeVars
<1>1. UNCHANGED <<nextId, hotMem, coldMem, coldUsed>> /\ hotUsed \subseteq hotUsed'
  BY DEF CreateTenant, CreateMicroTenant, GiveUp, vars, SealTenant, ExternalAllocate, ReleaseDecrement,
         AcquireFP32, AcquireMicroFP32, AcquireFP32Cold, ReleaseFind
<1>2. FreeIsZeroed => FreeIsZeroed'
  BY <1>1 DEF FreeIsZeroed, HotFree
<1>3. \/ tenants' = tenants
      \/ \E r \in Recs : \/ tenants' = [tenants EXCEPT ![r].sealed = TRUE]
                         \/ \E n : tenants' = [tenants EXCEPT ![r].pins = n]
  <2>1. CASE \E h \in Ids : SealTenant(h)
    BY <2>1 DEF SealTenant, FindTenant
  <2>2. CASE \E t \in Threads : ReleaseDecrement(t)
    <3>1. PICK t \in Threads : ReleaseDecrement(t)
      BY <2>2
    <3>2. found[t] \in Recs
      BY <3>1, SizeFacts DEF ReleaseDecrement, TypeOK
    <3> QED
      BY <3>1, <3>2 DEF ReleaseDecrement
  <2>3. CASE \E t \in Threads, h \in Ids : AcquireFP32(t, h) \/ AcquireMicroFP32(t, h)
    BY <2>3 DEF AcquireFP32, AcquireMicroFP32, Pin, FindTenant
  <2> QED
    BY <2>1, <2>2, <2>3
       DEF CreateTenant, CreateMicroTenant, GiveUp, vars, ExternalAllocate, AcquireFP32Cold, ReleaseFind
<1> DEFINE Same ==
      \A r \in Recs :
        /\ tenants'[r].id = tenants[r].id /\ tenants'[r].state = tenants[r].state
        /\ tenants'[r].kind = tenants[r].kind /\ tenants'[r].sub = tenants[r].sub
        /\ tenants'[r].hot = tenants[r].hot /\ tenants'[r].cold = tenants[r].cold
<1>4. Same
  <2>1. CASE tenants' = tenants
    BY <2>1
  <2>2. ASSUME NEW r \in Recs, tenants' = [tenants EXCEPT ![r].sealed = TRUE] PROVE Same
    BY <2>2 DEF TypeOK, TenantRecord
  <2>3. ASSUME NEW r \in Recs, NEW n, tenants' = [tenants EXCEPT ![r].pins = n] PROVE Same
    BY <2>3 DEF TypeOK, TenantRecord
  <2> QED
    BY <1>3, <2>1, <2>2, <2>3
<1> QED
  BY <1>1, <1>2, <1>4 DEF SamePlaces

-----------------------------------------------------------------------------
(* Counting the users of a tenant. *)

(* Sets of threads are finite, and have a size. *)
LEMMA ThreadsCounted ==
  ASSUME NEW P \in SUBSET Threads
  PROVE  IsFiniteSet(P) /\ Cardinality(P) \in Nat /\ (Cardinality(P) = 0 <=> P = {})
BY NamesAssumption, FS_Subset, FS_CardinalityType, FS_EmptySet

(* One thread more. *)
LEMMA OneMore ==
  ASSUME NEW P \in SUBSET Threads, NEW t \in Threads \ P
  PROVE  Cardinality(P \cup {t}) = Cardinality(P) + 1
BY ThreadsCounted, FS_AddElement

(* One thread less. *)
LEMMA OneLess ==
  ASSUME NEW P \in SUBSET Threads, NEW t \in P
  PROVE  Cardinality(P \ {t}) = Cardinality(P) - 1
BY ThreadsCounted, FS_RemoveElement

(* A step no user of a tenant takes part in keeps their number. *)
LEMMA UsersKept ==
  ASSUME NEW r, NEW h,
         \A u \in Threads : (found'[u] = r <=> found[u] = r) /\ (view'[u].id = h <=> view[u].id = h)
  PROVE  Users(r, h)' = Users(r, h)
<1>1. {u \in Threads : found'[u] = r} = {u \in Threads : found[u] = r}
  OBVIOUS
<1>2. {u \in Threads : view'[u].id = h} = {u \in Threads : view[u].id = h}
  OBVIOUS
<1> QED
  BY <1>1, <1>2 DEF Users

(* A tenant has no users exactly when no thread holds or releases it. *)
LEMMA UsersNone ==
  ASSUME NEW r, NEW h
  PROVE  /\ Users(r, h) \in Nat
         /\ Users(r, h) = 0 <=> \A u \in Threads : found[u] # r /\ view[u].id # h
<1> DEFINE P == {u \in Threads : found[u] = r}
           Q == {u \in Threads : view[u].id = h}
<1>1. /\ P = {} /\ Q = {} <=> \A u \in Threads : found[u] # r /\ view[u].id # h
      /\ P \in SUBSET Threads /\ Q \in SUBSET Threads
  OBVIOUS
<1>2. Users(r, h) = Cardinality(P) + Cardinality(Q)
  BY DEF Users
<1> HIDE DEF P, Q
<1>3. Cardinality(P) \in Nat /\ Cardinality(Q) \in Nat /\ (Cardinality(P) = 0 <=> P = {})
      /\ (Cardinality(Q) = 0 <=> Q = {})
  BY <1>1, ThreadsCounted
<1>4. Users(r, h) \in Nat /\ (Users(r, h) = 0 <=> P = {} /\ Q = {})
  BY <1>2, <1>3
<1> QED
  BY <1>1, <1>4

(* acquireFP32 adds a user, release() first moves it, then takes it away. *)
LEMMA UsersGain ==
  ASSUME NEW r, NEW h, NEW t \in Threads, found' = found, view[t].id # h, view'[t].id = h,
         \A u \in Threads \ {t} : view'[u] = view[u]
  PROVE  Users(r, h)' = Users(r, h) + 1
<1> DEFINE P == {u \in Threads : found[u] = r}
           Q == {u \in Threads : view[u].id = h}
<1>1. {u \in Threads : view'[u].id = h} = Q \cup {t} /\ Q \in SUBSET Threads /\ t \notin Q
  OBVIOUS
<1>2. P \in SUBSET Threads /\ Users(r, h)' = Cardinality(P) + Cardinality(Q \cup {t})
  BY <1>1 DEF Users
<1>3. Users(r, h) = Cardinality(P) + Cardinality(Q)
  BY DEF Users
<1> HIDE DEF P, Q
<1> QED
  BY <1>1, <1>2, <1>3, OneMore, ThreadsCounted

(* A thread that goes from holding a tenant to releasing it is counted all along. *)
LEMMA UsersMove ==
  ASSUME NEW r, NEW h, NEW t \in Threads, found[t] # r, found'[t] = r, view[t].id = h, view'[t].id # h,
         \A u \in Threads \ {t} : view'[u] = view[u] /\ found'[u] = found[u]
  PROVE  Users(r, h)' = Users(r, h)
<1> DEFINE P == {u \in Threads : found[u] = r}
           Q == {u \in Threads : view[u].id = h}
<1>1. {u \in Threads : found'[u] = r} = P \cup {t} /\ P \in SUBSET Threads /\ t \notin P
  OBVIOUS
<1>2. {u \in Threads : view'[u].id = h} = Q \ {t} /\ Q \in SUBSET Threads /\ t \in Q
  OBVIOUS
<1>3. Users(r, h)' = Cardinality(P \cup {t}) + Cardinality(Q \ {t})
  BY <1>1, <1>2 DEF Users
<1>4. Users(r, h) = Cardinality(P) + Cardinality(Q)
  BY DEF Users
<1> HIDE DEF P, Q
<1> QED
  BY <1>1, <1>2, <1>3, <1>4, OneMore, OneLess, ThreadsCounted

(* A thread that has released is counted no more. *)
LEMMA UsersLose ==
  ASSUME NEW r, NEW h, NEW t \in Threads, view' = view, found[t] = r, found'[t] # r,
         \A u \in Threads \ {t} : found'[u] = found[u]
  PROVE  Users(r, h)' = Users(r, h) - 1
<1> DEFINE P == {u \in Threads : found[u] = r}
           Q == {u \in Threads : view[u].id = h}
<1>1. {u \in Threads : found'[u] = r} = P \ {t} /\ P \in SUBSET Threads /\ t \in P
  OBVIOUS
<1>2. Q \in SUBSET Threads /\ Users(r, h)' = Cardinality(P \ {t}) + Cardinality(Q)
  BY <1>1 DEF Users
<1>3. Users(r, h) = Cardinality(P) + Cardinality(Q)
  BY DEF Users
<1> HIDE DEF P, Q
<1> QED
  BY <1>1, <1>2, <1>3, OneLess, ThreadsCounted

(* The id of a live tenant was handed out. *)
LEMMA LiveId ==
  ASSUME BridgeInv, IdsUnique, NEW r \in Recs, Live(r)
  PROVE  tenants[r].id \in 1 .. nextId /\ tenants[r].id \in Ids /\ nextId \in Nat
<1>1. nextId \in 0 .. MaxIds /\ MaxIds \in Nat
  BY SizesAssumption DEF BridgeInv, TypeOK
<1>2. tenants[r].id \in 1 .. nextId
  BY DEF IdsUnique
<1> QED
  BY <1>1, <1>2 DEF Ids

(* PinsCountHolders follows from the counts of the invariant. *)
LEMMA CountedIsHolders == BridgeInv /\ IdsUnique /\ PinsCounted => PinsCountHolders
<1> SUFFICES ASSUME BridgeInv, IdsUnique, PinsCounted, NEW r \in Recs, Live(r)
             PROVE  tenants[r].pins = Users(r, tenants[r].id)
  BY DEF PinsCountHolders, Users
<1>1. tenants[r].id \in Ids
  BY LiveId
<1> QED
  BY <1>1 DEF PinsCounted

(* What the holder of a span, or of a pin it is about to drop, knows. *)
LEMMA HeldIsPinned ==
  ASSUME CallerInv, NEW r \in Recs, Live(r), InUseByCaller(r)
  PROVE  tenants[r].state = "InHot" /\ tenants[r].pins > 0
<1> USE DEF CallerInv
<1>1. tenants[r].state = "InHot"
  <2>1. CASE \E t \in Threads : found[t] = r
    BY <2>1, SizeFacts DEF HoldersWait
  <2>2. CASE \E t \in Threads : view[t] # NoView /\ view[t].id = tenants[r].id
    BY <2>2, ZenonT(60) DEF ViewsStayValid, FindTenant, IdsUnique
  <2> QED
    BY <2>1, <2>2 DEF InUseByCaller
<1>2. tenants[r].id \in Ids
  BY LiveId
<1>3. tenants[r].pins = Users(r, tenants[r].id)
  BY <1>2 DEF PinsCounted
<1>4. Users(r, tenants[r].id) \in Nat \ {0}
  BY UsersNone DEF InUseByCaller
<1> QED
  BY <1>1, <1>3, <1>4

(* Steps that leave the callers' spans and finds alone: tenants in use     *)
(* stay where they are, new ones are unpinned.                             *)
LEMMA CallersKept ==
  ASSUME CallerInv, UNCHANGED <<view, found>>,
         \A t \in Threads : cs'.who = t => cs.who = t \/ (view[t] = NoView /\ found[t] = NoRec),
         \A r \in Recs : Live(r) /\ InUseByCaller(r) =>
           /\ tenants'[r].state = tenants[r].state /\ tenants'[r].hot = tenants[r].hot
           /\ tenants'[r].kind = tenants[r].kind /\ tenants'[r].sub = tenants[r].sub,
         \A r \in Recs : Live(r) /\ Live(r)' =>
           tenants'[r].id = tenants[r].id /\ tenants'[r].pins = tenants[r].pins,
         \A r \in Recs : ~Live(r) /\ Live(r)' => tenants'[r].id = nextId + 1 /\ tenants'[r].pins = 0
  PROVE  ViewsStayValid' /\ HoldersWait' /\ PinsCounted'
<1> USE DEF CallerInv
<1>1. \A t \in Threads : found[t] # NoRec => found[t] \in Recs /\ Live(found[t]) /\ InUseByCaller(found[t])
  BY DEF HoldersWait, BridgeInv, TypeOK, Live, InUseByCaller
<1>2. ViewsStayValid'
  <2> SUFFICES ASSUME NEW t \in Threads, view[t] # NoView
               PROVE  \E r \in Recs :
                        /\ Live(r)' /\ tenants'[r].id = view[t].id
                        /\ tenants'[r].state = "InHot" /\ tenants'[r].hot = view[t].slot
                        /\ view[t].cells = IF tenants'[r].kind = "Full" THEN Cells ELSE {tenants'[r].sub}
    BY DEF ViewsStayValid, FindTenant
  <2>1. PICK r \in Recs :
          /\ Live(r) /\ tenants[r].id = view[t].id
          /\ tenants[r].state = "InHot" /\ tenants[r].hot = view[t].slot
          /\ view[t].cells = IF tenants[r].kind = "Full" THEN Cells ELSE {tenants[r].sub}
    BY DEF ViewsStayValid, FindTenant
  <2>2. InUseByCaller(r)
    BY <2>1 DEF InUseByCaller
  <2>3. Live(r)'
    BY <2>1, <2>2 DEF Live
  <2> QED
    BY <2>1, <2>2, <2>3
<1>3. HoldersWait'
  BY <1>1 DEF HoldersWait
<1>4. PinsCounted'
  <2> SUFFICES ASSUME NEW r \in Recs, NEW h \in Ids, Live(r)', tenants'[r].id = h
               PROVE  tenants'[r].pins = Users(r, h)'
    BY DEF PinsCounted
  <2>1. Users(r, h)' = Users(r, h)
    BY UsersKept
  <2>2. CASE Live(r)
    BY <2>1, <2>2 DEF PinsCounted
  <2>3. CASE ~Live(r)
    <3>1. \A u \in Threads : found[u] # r
      BY <1>1, <2>3, SizeFacts
    <3>2. \A u \in Threads : view[u].id # h
      <4> SUFFICES ASSUME NEW u \in Threads, view[u].id = h PROVE FALSE
        OBVIOUS
      <4>1. view[u] # NoView
        BY DEF NoView, Ids
      <4>2. PICK q \in Recs : Live(q) /\ tenants[q].id = view[u].id
        BY <4>1 DEF ViewsStayValid, FindTenant
      <4>3. h \in 1 .. nextId /\ nextId \in Nat
        BY <4>2, LiveId
      <4> QED
        BY <2>3, <4>3
    <3> QED
      BY <2>1, <2>3, <3>1, <3>2, UsersNone
  <2> QED
    BY <2>2, <2>3
<1> QED
  BY <1>2, <1>3, <1>4

(* A thread is given a span of tenant r, and pins it. *)
LEMMA CallerGains ==
  ASSUME CallerInv, NEW t \in Threads, NEW r \in Recs, NEW s, NEW cells,
         Live(r), view[t] = NoView, found[t] = NoRec, found' = found, cs' = Idle,
         view' = [view EXCEPT ![t] = [id |-> tenants[r].id, slot |-> s, cells |-> cells]],
         \A q \in Recs \ {r} : tenants'[q] = tenants[q],
         /\ tenants'[r].id = tenants[r].id /\ tenants'[r].pins = tenants[r].pins + 1
         /\ tenants'[r].state = "InHot" /\ tenants'[r].hot = s
         /\ tenants'[r].kind = tenants[r].kind /\ tenants'[r].sub = tenants[r].sub,
         cells = CellsOf(r), tenants[r].state = "InHot" => tenants[r].hot = s
  PROVE  ViewsStayValid' /\ HoldersWait' /\ PinsCounted'
<1> USE DEF CallerInv
<1> PICK h \in Ids : h = tenants[r].id
  BY LiveId
<1>1. /\ view'[t] = [id |-> h, slot |-> s, cells |-> cells]
      /\ \A u \in Threads \ {t} : view'[u] = view[u]
  BY DEF BridgeInv, TypeOK
<1>2. Live(r)' /\ \A q \in Recs : Live(q) => Live(q)'
  BY DEF Live
<1>3. ViewsStayValid'
  <2> SUFFICES ASSUME NEW u \in Threads, view'[u] # NoView
               PROVE  \E q \in Recs :
                        /\ Live(q)' /\ tenants'[q].id = view'[u].id
                        /\ tenants'[q].state = "InHot" /\ tenants'[q].hot = view'[u].slot
                        /\ view'[u].cells = IF tenants'[q].kind = "Full" THEN Cells ELSE {tenants'[q].sub}
    BY ZenonT(60) DEF ViewsStayValid, FindTenant, NoView
  <2>1. CASE u = t
    <3>1. view'[t].id = h /\ view'[t].slot = s /\ view'[t].cells = cells
      BY <1>1
    <3> QED
      BY <1>2, <2>1, <3>1, ZenonT(60) DEF CellsOf
  <2>2. CASE u # t
    <3>1. PICK q \in Recs :
          /\ Live(q) /\ tenants[q].id = view[u].id
          /\ tenants[q].state = "InHot" /\ tenants[q].hot = view[u].slot
          /\ view[u].cells = IF tenants[q].kind = "Full" THEN Cells ELSE {tenants[q].sub}
      BY <1>1, <2>2, ZenonT(60) DEF ViewsStayValid, FindTenant
    <3>2. CASE q = r
      <4>1. /\ Live(q)' /\ view'[u] = view[u] /\ tenants'[q].id = tenants[q].id
            /\ tenants'[q].state = tenants[q].state /\ tenants'[q].hot = tenants[q].hot
            /\ tenants'[q].kind = tenants[q].kind /\ tenants'[q].sub = tenants[q].sub
        BY <1>1, <1>2, <2>2, <3>1, <3>2
      <4> QED
        BY <3>1, <4>1, ZenonT(60)
    <3>3. CASE q # r
      <4>1. tenants'[q] = tenants[q] /\ view'[u] = view[u] /\ Live(q)'
        BY <1>1, <1>2, <2>2, <3>1, <3>3
      <4> QED
        BY <3>1, <4>1, ZenonT(60)
    <3> QED
      BY <3>2, <3>3
  <2> QED
    BY <2>1, <2>2
<1>4. HoldersWait'
  <2>1. \A u \in Threads : found[u] # NoRec => tenants'[found[u]].state = "InHot"
    BY DEF HoldersWait, BridgeInv, TypeOK
  <2> QED
    BY <1>1, <2>1, NamesAssumption DEF HoldersWait, Idle
<1>5. PinsCounted'
  <2> SUFFICES ASSUME NEW q \in Recs, NEW g \in Ids, Live(q)', tenants'[q].id = g
               PROVE  tenants'[q].pins = Users(q, g)'
    BY DEF PinsCounted
  <2>1. view[t].id # g /\ view[t].id # h
    BY DEF NoView, Ids
  <2>2. CASE q = r
    <3>1. Users(r, h)' = Users(r, h) + 1
      BY <1>1, <2>1, UsersGain
    <3> QED
      BY <2>2, <3>1 DEF PinsCounted
  <2>3. CASE q # r
    <3>1. Live(q) /\ tenants[q].id = g /\ g # h
      BY <2>3 DEF Live, IdsUnique
    <3>2. \A u \in Threads : view'[u].id = g <=> view[u].id = g
      BY <1>1, <2>1, <3>1
    <3>3. Users(q, g)' = Users(q, g)
      BY <3>2, UsersKept
    <3> QED
      BY <2>3, <3>1, <3>3 DEF PinsCounted
  <2> QED
    BY <2>2, <2>3
<1> QED
  BY <1>3, <1>4, <1>5

-----------------------------------------------------------------------------
(* What each action owes the callers. *)

Callers == ViewsStayValid /\ HoldersWait /\ PinsCounted

(* Steps that leave every record, every span and every find alone. *)
LEMMA RecordsKept ==
  ASSUME CallerInv,
         \/ CreateTenant \/ CreateMicroTenant \/ GiveUp \/ PromoteDecodeFails \/ UNCHANGED vars
         \/ \E s \in HotSlots : ExternalAllocate(s) \/ ExternalRelease(s)
         \/ \E t \in Threads : Write(t) \/ \E h \in Ids : AcquireFP32Cold(t, h)
  PROVE  Callers'
<1>1. UNCHANGED <<tenants, view, found>>
  BY DEF CreateTenant, CreateMicroTenant, GiveUp, PromoteDecodeFails, vars, ExternalAllocate,
         ExternalRelease, Write, AcquireFP32Cold, bridgeVars, callerVars
<1>2. \/ cs' \in {cs, Idle} \/ cs'.who = NoThread
      \/ \E t \in Threads : cs'.who = t /\ view[t] = NoView /\ found[t] = NoRec
  <2>1. CASE CreateTenant \/ CreateMicroTenant
    BY <2>1 DEF CreateTenant, CreateMicroTenant, Enter
  <2>2. CASE GiveUp \/ PromoteDecodeFails
    BY <2>2 DEF GiveUp, PromoteDecodeFails
  <2>3. CASE \E t \in Threads, h \in Ids : AcquireFP32Cold(t, h)
    BY <2>3 DEF AcquireFP32Cold, Enter, CanCall
  <2> QED
    BY <2>1, <2>2, <2>3 DEF vars, ExternalAllocate, ExternalRelease, Write, bridgeVars
<1>3. \A t \in Threads : cs'.who = t => cs.who = t \/ (view[t] = NoView /\ found[t] = NoRec)
  BY <1>2, NamesAssumption DEF Idle
<1> QED
  BY <1>1, <1>3, CallersKept DEF Callers, Live

(* A new tenant has no users yet. *)
LEMMA CreateCallers ==
  ASSUME CallerInv, CreateBind \/ CreateMicroInShared \/ CreateMicroBind
  PROVE  Callers'
<1> USE DEF CallerInv, BridgeInv
<1>1. PICK r \in Recs :
        /\ tenants'[r].id = nextId + 1 /\ tenants'[r].pins = 0 /\ ~Live(r)
        /\ \A q \in Recs \ {r} : tenants'[q] = tenants[q]
  <2>1. CASE CreateBind
    <3>1. PICK s \in HotFree : tenants' = [tenants EXCEPT ![cs.rec] = NewTenant("Full", s, 0, 0)]
      BY <2>1 DEF CreateBind
    <3>2. PICK r \in Recs : r = cs.rec /\ ~Live(r)
      BY <2>1 DEF CreateBind, HolderKnows
    <3> QED
      BY <3>1, <3>2 DEF TypeOK, NewTenant
  <2>2. CASE CreateMicroInShared
    <3>1. PICK r \in Recs, i \in Shared, b \in Cells :
            ~Live(r) /\ tenants' = [tenants EXCEPT ![r] = NewTenant("Micro", sharedHot[i], b, i)]
      BY <2>2 DEF CreateMicroInShared, FirstFreeRecord
    <3> QED
      BY <3>1 DEF TypeOK, NewTenant
  <2>3. CASE CreateMicroBind
    <3>1. PICK s \in HotFree, i \in Unbound :
            tenants' = [tenants EXCEPT ![cs.rec] = NewTenant("Micro", s, 0, i)]
      BY <2>3 DEF CreateMicroBind
    <3>2. PICK r \in Recs : r = cs.rec /\ ~Live(r)
      BY <2>3 DEF CreateMicroBind, HolderKnows
    <3> QED
      BY <3>1, <3>2 DEF TypeOK, NewTenant
  <2> QED
    BY <2>1, <2>2, <2>3
<1>2. UNCHANGED <<view, found>> /\ cs' \in {cs, Idle}
  BY DEF CreateBind, CreateMicroInShared, CreateMicroBind, callerVars
<1>4. \A t \in Threads : cs'.who = t => cs.who = t
  BY <1>2, NamesAssumption DEF Idle
<1>5. \A q \in Recs : Live(q) => tenants'[q] = tenants[q]
  BY <1>1
<1>6. \A q \in Recs : ~Live(q) /\ Live(q)' => q = r
  BY <1>1 DEF Live
<1> QED
  BY <1>1, <1>2, <1>4, <1>5, <1>6, CallersKept DEF Callers

(* The victim of an eviction has no pins, so nobody holds it. *)
LEMMA EvictOldestCallers ==
  ASSUME CallerInv, EvictOldest
  PROVE  Callers'
<1> USE DEF CallerInv, BridgeInv
<1>1. PICK v \in Recs, k \in ColdSlots :
        /\ Live(v) /\ tenants[v].pins = 0
        /\ tenants' = [tenants EXCEPT ![v] = [@ EXCEPT !.hot = NoSlot, !.cold = k, !.state = "InCold"]]
  BY DEF EvictOldest, Oldest, Evictable, Live
<1>2. /\ UNCHANGED <<view, found>> /\ cs' = [cs EXCEPT !.tries = @ + 1]
  BY DEF EvictOldest, callerVars
<1>3. /\ tenants'[v].id = tenants[v].id /\ tenants'[v].pins = tenants[v].pins
      /\ \A q \in Recs \ {v} : tenants'[q] = tenants[q]
  BY <1>1 DEF TypeOK, TenantRecord
<1>4. cs'.who = cs.who
  BY <1>2 DEF TypeOK, Op
<1>5. ~InUseByCaller(v)
  BY <1>1, HeldIsPinned
<1>6. \A q \in Recs : Live(q)' => Live(q)
  BY <1>1, <1>3 DEF Live
<1> QED
  BY <1>2, <1>3, <1>4, <1>5, <1>6, CallersKept DEF Callers

(* A seal moves nothing. *)
LEMMA SealTenantCallers ==
  ASSUME CallerInv, NEW h \in Ids, SealTenant(h)
  PROVE  Callers'
<1> USE DEF CallerInv, BridgeInv
<1>1. PICK r \in Recs : tenants' = [tenants EXCEPT ![r].sealed = TRUE]
  BY DEF SealTenant, FindTenant
<1>2. UNCHANGED <<view, found, cs>>
  BY DEF SealTenant, callerVars
<1>3. \A q \in Recs :
        /\ tenants'[q].id = tenants[q].id /\ tenants'[q].pins = tenants[q].pins
        /\ tenants'[q].state = tenants[q].state /\ tenants'[q].hot = tenants[q].hot
        /\ tenants'[q].kind = tenants[q].kind /\ tenants'[q].sub = tenants[q].sub
  BY <1>1 DEF TypeOK, TenantRecord
<1> QED
  BY <1>2, <1>3, CallersKept DEF Callers, Live

(* A tenant somebody holds is not destroyed. *)
LEMMA DestroyCallers ==
  ASSUME CallerInv, NEW h \in Ids, DestroyFull(h) \/ DestroyMicro(h)
  PROVE  Callers'
<1> USE DEF CallerInv, BridgeInv
<1>1. PICK r \in Recs : MayDestroy(r) /\ Kill(r)
  BY DEF DestroyFull, DestroyMicro, FindTenant
<1>2. UNCHANGED <<view, found, cs>>
  BY DEF DestroyFull, DestroyMicro, callerVars
<1>3. tenants'[r].state = "Dead" /\ \A q \in Recs \ {r} : tenants'[q] = tenants[q]
  BY <1>1 DEF Kill, TypeOK, TenantRecord
<1>4. ~InUseByCaller(r)
  BY <1>1 DEF MayDestroy, CallersBehave
<1>5. ~Live(r)' /\ \A q \in Recs : Live(q)' => Live(q) /\ q # r
  BY <1>3 DEF Live
<1> QED
  BY <1>2, <1>3, <1>4, <1>5, CallersKept DEF Callers

(* An acquire of a tenant in hot memory adds one user and one pin. *)
LEMMA AcquireCallers ==
  ASSUME CallerInv, NEW t \in Threads, NEW h \in Ids, AcquireFP32(t, h) \/ AcquireMicroFP32(t, h)
  PROVE  Callers'
<1> USE DEF CallerInv, BridgeInv
<1>1. /\ cs = Idle /\ view[t] = NoView /\ found[t] = NoRec
      /\ found' = found /\ cs' = cs
  BY DEF AcquireFP32, AcquireMicroFP32, CanCall
<1>2. PICK r \in Recs :
        /\ Live(r) /\ tenants[r].state = "InHot"
        /\ Pin(r) /\ GiveView(t, r, CellsOf(r))
  <2>1. CASE AcquireFP32(t, h)
    BY <2>1 DEF AcquireFP32, FindTenant, CellsOf, CallersBehave
  <2>2. CASE AcquireMicroFP32(t, h)
    <3>1. PICK r \in Recs :
            Live(r) /\ tenants[r].kind = "Micro" /\ Pin(r) /\ GiveView(t, r, {tenants[r].sub})
      BY <2>2 DEF AcquireMicroFP32, FindTenant
    <3>2. tenants[r].state = "InHot" /\ CellsOf(r) = {tenants[r].sub}
      BY <3>1, LiveFacts DEF CellsOf
    <3> QED
      BY <3>1, <3>2
  <2> QED
    BY <2>1, <2>2
<1>3. tenants' = [tenants EXCEPT ![r].pins = @ + 1]
  BY <1>2 DEF Pin
<1>4. /\ tenants'[r].id = tenants[r].id /\ tenants'[r].pins = tenants[r].pins + 1
      /\ tenants'[r].state = "InHot" /\ tenants'[r].hot = tenants[r].hot
      /\ tenants'[r].kind = tenants[r].kind /\ tenants'[r].sub = tenants[r].sub
      /\ \A q \in Recs \ {r} : tenants'[q] = tenants[q]
  BY <1>2, <1>3 DEF TypeOK, TenantRecord
<1>5. view' = [view EXCEPT ![t] = [id |-> tenants[r].id, slot |-> tenants[r].hot, cells |-> CellsOf(r)]]
  BY <1>2 DEF GiveView
<1> QED
  BY <1>1, <1>2, <1>4, <1>5, CallerGains DEF Callers

(* An acquire that promotes its tenant adds one user and one pin. *)
LEMMA PromoteCallers ==
  ASSUME CallerInv, Promote
  PROVE  Callers'
<1> USE DEF CallerInv, BridgeInv
<1>1. PICK r \in Recs, t \in Threads : r = cs.rec /\ t = cs.who /\ InCold(r) /\ Live(r)
  BY DEF Promote, HolderKnows, InCold, Live
<1>2. view[t] = NoView /\ found[t] = NoRec /\ cs' = Idle /\ found' = found
  BY <1>1 DEF Promote, HoldersWait
<1>3. PICK s \in HotFree :
        /\ tenants' = [tenants EXCEPT ![r] = [@ EXCEPT !.hot = s, !.cold = NoSlot, !.state = "InHot",
                                                        !.pins = tenants[r].pins + 1]]
        /\ view' = [view EXCEPT ![t] = [id |-> tenants[r].id, slot |-> s, cells |-> Cells]]
  BY <1>1 DEF Promote
<1>4. /\ tenants'[r].id = tenants[r].id /\ tenants'[r].pins = tenants[r].pins + 1
      /\ tenants'[r].state = "InHot" /\ tenants'[r].hot = s
      /\ tenants'[r].kind = tenants[r].kind /\ tenants'[r].sub = tenants[r].sub
      /\ \A q \in Recs \ {r} : tenants'[q] = tenants[q]
  BY <1>3 DEF TypeOK, TenantRecord
<1>5. Cells = CellsOf(r) /\ tenants[r].state # "InHot"
  BY <1>1, LiveFacts DEF CellsOf, InCold
<1> QED
  BY <1>1, <1>2, <1>3, <1>4, <1>5, CallerGains DEF Callers

(* A release that has found its record still counts as a user. *)
LEMMA ReleaseFindCallers ==
  ASSUME CallerInv, NEW t \in Threads, NEW h \in Ids, ReleaseFind(t, h)
  PROVE  Callers'
<1> USE DEF CallerInv, BridgeInv
<1>1. /\ found[t] = NoRec /\ cs.who # t /\ view[t] # NoView /\ view[t].id = h
      /\ view' = [view EXCEPT ![t] = NoView]
      /\ UNCHANGED <<tenants, cs>>
  BY DEF ReleaseFind, CallersBehave, bridgeVars
<1>2. PICK r \in Recs : Live(r) /\ tenants[r].id = h /\ tenants[r].state = "InHot"
  BY <1>1 DEF ViewsStayValid, FindTenant
<1>3. FindTenant(h) = {r}
  BY <1>2 DEF FindTenant, IdsUnique
<1>4. found' = [found EXCEPT ![t] = r]
  BY <1>3 DEF ReleaseFind
<1>5. /\ view'[t] = NoView /\ found'[t] = r
      /\ \A u \in Threads \ {t} : view'[u] = view[u] /\ found'[u] = found[u]
  BY <1>1, <1>4 DEF TypeOK
<1>6. \A q \in Recs : Live(q)' <=> Live(q)
  BY <1>1 DEF Live
<1>7. ViewsStayValid'
  <2> SUFFICES ASSUME NEW u \in Threads, view'[u] # NoView
               PROVE  \E q \in Recs :
                        /\ Live(q)' /\ tenants'[q].id = view'[u].id
                        /\ tenants'[q].state = "InHot" /\ tenants'[q].hot = view'[u].slot
                        /\ view'[u].cells = IF tenants'[q].kind = "Full" THEN Cells ELSE {tenants'[q].sub}
    BY DEF ViewsStayValid, FindTenant, NoView
  <2>1. view'[u] = view[u] /\ view[u] # NoView
    BY <1>5
  <2>2. PICK q \in Recs :
          /\ Live(q) /\ tenants[q].id = view[u].id
          /\ tenants[q].state = "InHot" /\ tenants[q].hot = view[u].slot
          /\ view[u].cells = IF tenants[q].kind = "Full" THEN Cells ELSE {tenants[q].sub}
    BY <2>1 DEF ViewsStayValid, FindTenant
  <2> QED
    BY <1>1, <1>6, <2>1, <2>2
<1>8. HoldersWait'
  BY <1>1, <1>2, <1>5 DEF HoldersWait
<1>9. PinsCounted'
  <2> SUFFICES ASSUME NEW q \in Recs, NEW g \in Ids, Live(q), tenants[q].id = g
               PROVE  tenants[q].pins = Users(q, g)'
    BY <1>1, <1>6 DEF PinsCounted
  <2>1. NoView.id # g /\ NoView.id # h /\ found[t] # q
    BY <1>1, SizeFacts DEF NoView, Ids
  <2>2. CASE q = r
    <3>1. g = h
      BY <1>2, <2>2
    <3>2. Users(q, g)' = Users(q, g)
      BY <1>1, <1>5, <2>1, <2>2, <3>1, UsersMove
    <3> QED
      BY <3>2 DEF PinsCounted
  <2>3. CASE q # r
    <3>1. g # h
      BY <1>2, <2>3 DEF IdsUnique
    <3>2. \A u \in Threads : (found'[u] = q <=> found[u] = q) /\ (view'[u].id = g <=> view[u].id = g)
      BY <1>1, <1>5, <2>1, <2>3, <3>1
    <3>3. Users(q, g)' = Users(q, g)
      BY <3>2, UsersKept
    <3> QED
      BY <3>3 DEF PinsCounted
  <2> QED
    BY <2>2, <2>3
<1> QED
  BY <1>7, <1>8, <1>9 DEF Callers

(* A decrement takes one pin and one user away. *)
LEMMA ReleaseDecrementCallers ==
  ASSUME CallerInv, NEW t \in Threads, ReleaseDecrement(t)
  PROVE  Callers'
<1> USE DEF CallerInv, BridgeInv
<1>1. PICK r \in Recs : r = found[t]
  BY SizeFacts DEF ReleaseDecrement, TypeOK
<1>2. Live(r) /\ InUseByCaller(r) /\ tenants[r].state = "InHot"
  BY <1>1, SizeFacts DEF HoldersWait, Live, InUseByCaller
<1>3. tenants[r].pins > 0
  BY <1>2, HeldIsPinned
<1>4. /\ tenants' = [tenants EXCEPT ![r].pins = IF @ > 0 THEN @ - 1 ELSE 0]
      /\ found' = [found EXCEPT ![t] = NoRec]
      /\ UNCHANGED <<view, cs>>
  BY <1>1 DEF ReleaseDecrement
<1>5. /\ tenants'[r].pins = tenants[r].pins - 1
      /\ \A q \in Recs \ {r} : tenants'[q] = tenants[q]
      /\ found'[t] = NoRec /\ \A u \in Threads \ {t} : found'[u] = found[u]
  BY <1>3, <1>4 DEF TypeOK, TenantRecord
<1>6. \A q \in Recs :
        /\ tenants'[q].id = tenants[q].id /\ tenants'[q].state = tenants[q].state
        /\ tenants'[q].hot = tenants[q].hot /\ tenants'[q].kind = tenants[q].kind
        /\ tenants'[q].sub = tenants[q].sub
  BY <1>4 DEF TypeOK, TenantRecord
<1>7. ViewsStayValid'
  <2> SUFFICES ASSUME NEW u \in Threads, view[u] # NoView
               PROVE  \E q \in Recs :
                        /\ Live(q)' /\ tenants'[q].id = view[u].id
                        /\ tenants'[q].state = "InHot" /\ tenants'[q].hot = view[u].slot
                        /\ view[u].cells = IF tenants'[q].kind = "Full" THEN Cells ELSE {tenants'[q].sub}
    <3>1. view' = view
      BY <1>4
    <3> QED
      BY <3>1 DEF ViewsStayValid, FindTenant
  <2>1. PICK q \in Recs :
          /\ Live(q) /\ tenants[q].id = view[u].id
          /\ tenants[q].state = "InHot" /\ tenants[q].hot = view[u].slot
          /\ view[u].cells = IF tenants[q].kind = "Full" THEN Cells ELSE {tenants[q].sub}
    BY DEF ViewsStayValid, FindTenant
  <2> QED
    BY <1>6, <2>1 DEF Live
<1>8. HoldersWait'
  <2>1. \A u \in Threads : found'[u] # NoRec => found'[u] = found[u] /\ found[u] \in Recs
    BY <1>5 DEF TypeOK
  <2> QED
    BY <1>4, <1>5, <1>6, <2>1 DEF HoldersWait
<1>9. PinsCounted'
  <2> SUFFICES ASSUME NEW q \in Recs, NEW g \in Ids, Live(q), tenants[q].id = g
               PROVE  tenants'[q].pins = Users(q, g)'
    BY <1>6 DEF PinsCounted, Live
  <2>1. CASE q = r
    <3>1. Users(q, g)' = Users(q, g) - 1
      BY <1>1, <1>4, <1>5, <2>1, UsersLose, SizeFacts
    <3> QED
      BY <1>5, <2>1, <3>1 DEF PinsCounted
  <2>2. CASE q # r
    <3>1. \A u \in Threads : found'[u] = q <=> found[u] = q
      BY <1>1, <1>5, <2>2, SizeFacts
    <3>2. Users(q, g)' = Users(q, g)
      BY <1>4, <3>1, UsersKept
    <3> QED
      BY <1>5, <2>2, <3>2 DEF PinsCounted
  <2> QED
    BY <2>1, <2>2
<1> QED
  BY <1>7, <1>8, <1>9 DEF Callers

-----------------------------------------------------------------------------
(* The empty bridge, and every step. *)
LEMMA InitCallerInv == CallersBehave /\ Init => CallerInv
<1> SUFFICES ASSUME CallersBehave, Init PROVE CallerInv
  OBVIOUS
<1>1. BridgeInv
  BY InitBridgeInv
<1>2. \A r \in Recs : ~Live(r)
  BY DEF Init, Live
<1>3. IdsUnique /\ PayloadIsWhole /\ PinsCounted
  BY <1>2 DEF IdsUnique, PayloadIsWhole, PinsCounted
<1>4. FreeIsZeroed
  BY DEF Init, FreeIsZeroed, HotFree
<1>5. ViewsStayValid /\ HoldersWait
  BY NamesAssumption DEF Init, ViewsStayValid, HoldersWait, Idle
<1> QED
  BY <1>1, <1>3, <1>4, <1>5 DEF CallerInv

(* The kind of every step. *)
StepKind ==
  \/ SamePlaces
  \/ Quiet
  \/ \E r \in Recs : Born(r) \/ Written(r) \/ (Died(r) /\ ~InUseByCaller(r))

(* Callers that make no mistake release what they acquire. *)
LEMMA NothingLeaks ==
  ASSUME CallersBehave, NEW t \in Threads
  PROVE  ~Leak(t)
BY DEF CallersBehave, Leak

(* Every step is of one of the kinds, and keeps free slots wiped. *)
LEMMA NextKind ==
  ASSUME CallerInv, [Next]_vars
  PROVE  StepKind /\ FreeIsZeroed'
<1> USE DEF CallerInv
<1>1. CASE \/ CreateTenant \/ CreateMicroTenant \/ GiveUp \/ UNCHANGED vars
           \/ \E h \in Ids : SealTenant(h)
           \/ \E s \in HotSlots : ExternalAllocate(s)
           \/ \E t \in Threads :
                \/ ReleaseDecrement(t)
                \/ \E h \in Ids : \/ AcquireFP32(t, h) \/ AcquireMicroFP32(t, h)
                                  \/ AcquireFP32Cold(t, h) \/ ReleaseFind(t, h)
  BY <1>1, SamePlaceSteps DEF StepKind
<1>2. CASE CreateBind \/ CreateMicroInShared \/ CreateMicroBind
  BY <1>2, CreateBindKind, CreateMicroInSharedKind, CreateMicroBindKind DEF StepKind
<1>3. CASE EvictOldest \/ Promote
  BY <1>3, EvictOldestKind, PromoteKind DEF StepKind
<1>4. CASE PromoteDecodeFails
  <2>1. PICK s \in HotFree : ReleaseHot(s)
    BY <1>4 DEF PromoteDecodeFails
  <2>2. UNCHANGED <<tenants, nextId, coldMem, coldUsed>>
    BY <1>4 DEF PromoteDecodeFails
  <2> QED
    BY <2>1, <2>2, WipeUnowned DEF StepKind, HotFree
<1>5. ASSUME NEW s \in HotSlots, ExternalRelease(s) PROVE StepKind /\ FreeIsZeroed'
  BY <1>5, WipeUnowned DEF ExternalRelease, bridgeVars, StepKind
<1>6. ASSUME NEW t \in Threads, Write(t) PROVE StepKind /\ FreeIsZeroed'
  BY <1>6, WriteKind DEF StepKind
<1>7. ASSUME NEW h \in Ids, DestroyFull(h) \/ DestroyMicro(h) PROVE StepKind /\ FreeIsZeroed'
  BY <1>7, DestroyFullKind, DestroyMicroKind DEF StepKind
<1> QED
  BY <1>1, <1>2, <1>3, <1>4, <1>5, <1>6, <1>7, NothingLeaks DEF Next, Structural, External, Caller

(* Every step keeps what callers rely on. *)
LEMMA NextCallers ==
  ASSUME CallerInv, [Next]_vars
  PROVE  Callers'
<1>1. CASE \/ CreateTenant \/ CreateMicroTenant \/ GiveUp \/ PromoteDecodeFails \/ UNCHANGED vars
           \/ \E s \in HotSlots : ExternalAllocate(s) \/ ExternalRelease(s)
           \/ \E t \in Threads : Write(t) \/ \E h \in Ids : AcquireFP32Cold(t, h)
  BY <1>1, RecordsKept
<1>2. CASE CreateBind \/ CreateMicroInShared \/ CreateMicroBind
  BY <1>2, CreateCallers
<1>3. CASE EvictOldest \/ Promote
  BY <1>3, EvictOldestCallers, PromoteCallers
<1>4. ASSUME NEW h \in Ids, SealTenant(h) \/ DestroyFull(h) \/ DestroyMicro(h) PROVE Callers'
  BY <1>4, SealTenantCallers, DestroyCallers
<1>5. ASSUME NEW t \in Threads, ReleaseDecrement(t) PROVE Callers'
  BY <1>5, ReleaseDecrementCallers
<1>6. ASSUME NEW t \in Threads, NEW h \in Ids, AcquireFP32(t, h) \/ AcquireMicroFP32(t, h) \/ ReleaseFind(t, h)
      PROVE  Callers'
  BY <1>6, AcquireCallers, ReleaseFindCallers
<1> QED
  BY <1>1, <1>2, <1>3, <1>4, <1>5, <1>6, NothingLeaks
     DEF Next, Structural, External, Caller, CallerInv

(* What callers rely on (tiered_bridge.hpp) as an inductive invariant: pins are counted, a
   span names a live tenant in hot memory, and its bytes are the tenant's own. *)
THEOREM CallerInvariant == CallersBehave /\ Spec => []CallerInv
<1>1. CallerInv /\ [Next]_vars => CallerInv'
  <2> SUFFICES ASSUME CallerInv, [Next]_vars PROVE CallerInv'
    OBVIOUS
  <2>1. BridgeInv'
    BY NextBridgeInv DEF CallerInv
  <2>2. IdsUnique' /\ PayloadIsWhole'
    BY NextKind, KindKeeps, SamePlacesIsQuiet DEF StepKind
  <2>3. FreeIsZeroed' /\ Callers'
    BY NextKind, NextCallers
  <2> QED
    BY <2>1, <2>2, <2>3 DEF CallerInv, Callers, CallersBehave
<1> QED
  BY InitCallerInv, <1>1, PTL DEF Spec

(* Evict respects pins: as long as a thread holds a span its tenant is     *)
(* alive, in the hot tier, and the span is the tenant's own memory.        *)
THEOREM SpansStayValid == CallersBehave /\ Spec => []ViewsStayValid
<1>1. CallerInv => ViewsStayValid
  BY DEF CallerInv
<1> QED
  BY <1>1, CallerInvariant, PTL

(* No pin is lost and none is left behind: pin_count is the number of      *)
(* threads that hold the tenant or are half-way through release().         *)
THEOREM PinsAreCounted == CallersBehave /\ Spec => []PinsCountHolders
<1>1. CallerInv => PinsCountHolders
  BY CountedIsHolders DEF CallerInv
<1> QED
  BY <1>1, CallerInvariant, PTL

(* A tenant's memory holds zeroes or its own payload in either tier, and   *)
(* memory nobody owns is zeroed.                                           *)
THEOREM PayloadNeverMixes == CallersBehave /\ Spec => []PayloadIsPrivate
<1>1. CallerInv => PayloadIsPrivate
  <2> SUFFICES ASSUME CallerInv PROVE PayloadIsPrivate
    OBVIOUS
  <2>1. ASSUME NEW r \in Recs, Live(r), NEW c \in CellsOf(r) PROVE MemOf(r)[c] \in {0, tenants[r].id}
    BY <2>1 DEF CallerInv, PayloadIsWhole
  <2>2. \A r \in Recs : InCold(r) => CellsOf(r) = Cells
    BY LiveFacts DEF CellsOf, InCold, Live, CallerInv
  <2> QED
    BY <2>1, <2>2 DEF PayloadIsPrivate, MemOf, InCold, Live, CallerInv, FreeIsZeroed
<1> QED
  BY <1>1, CallerInvariant, PTL

(* A hot tenant that is sealed is not evicted, and it is in no cold slot   *)
(* to be promoted from.                                                    *)
LEMMA SealedHotKept ==
  ASSUME BridgeInv, [Next]_vars, NEW r \in Recs,
         tenants[r].sealed, tenants[r].state = "InHot", tenants'[r].state # "Dead"
  PROVE  tenants'[r].state = "InHot" /\ tenants'[r].hot = tenants[r].hot
<1> USE DEF BridgeInv
<1>1. Live(r)
  BY DEF Live
<1>2. CASE \/ CreateTenant \/ CreateMicroTenant \/ GiveUp \/ UNCHANGED vars
           \/ \E h \in Ids : SealTenant(h)
           \/ \E s \in HotSlots : ExternalAllocate(s)
           \/ \E t \in Threads :
                \/ ReleaseDecrement(t)
                \/ \E h \in Ids : \/ AcquireFP32(t, h) \/ AcquireMicroFP32(t, h)
                                  \/ AcquireFP32Cold(t, h) \/ ReleaseFind(t, h)
  BY <1>2, SamePlaceSteps DEF SamePlaces
<1>3. CASE CreateBind \/ CreateMicroBind
  <2>1. /\ cs.rec \in Recs /\ ~Live(cs.rec)
        /\ \E new : tenants' = [tenants EXCEPT ![cs.rec] = new]
    BY <1>3 DEF CreateBind, CreateMicroBind, HolderKnows
  <2> QED
    BY <1>1, <2>1 DEF TypeOK
<1>4. CASE CreateMicroInShared
  <2>1. PICK q \in Recs : ~Live(q) /\ \E new : tenants' = [tenants EXCEPT ![q] = new]
    BY <1>4 DEF CreateMicroInShared, FirstFreeRecord
  <2> QED
    BY <1>1, <2>1 DEF TypeOK
<1>5. CASE EvictOldest
  <2>1. PICK v \in Recs : ~tenants[v].sealed /\ \E new : tenants' = [tenants EXCEPT ![v] = new]
    BY <1>5 DEF EvictOldest, Oldest, Evictable
  <2> QED
    BY <2>1 DEF TypeOK
<1>6. CASE Promote
  <2>1. /\ cs.rec \in Recs /\ InCold(cs.rec)
        /\ \E new : tenants' = [tenants EXCEPT ![cs.rec] = new]
    BY <1>6 DEF Promote, HolderKnows
  <2> QED
    BY <2>1 DEF TypeOK, InCold
<1>7. CASE \/ PromoteDecodeFails \/ \E s \in HotSlots : ExternalRelease(s)
           \/ \E t \in Threads : Write(t) \/ Leak(t)
  BY <1>7 DEF PromoteDecodeFails, ExternalRelease, Write, Leak, bridgeVars
<1>8. ASSUME NEW h \in Ids, DestroyFull(h) \/ DestroyMicro(h)
      PROVE  tenants'[r].state = "InHot" /\ tenants'[r].hot = tenants[r].hot
  <2>1. PICK q \in Recs : Kill(q)
    BY <1>8 DEF DestroyFull, DestroyMicro, FindTenant
  <2>2. tenants'[q].state = "Dead" /\ \A p \in Recs \ {q} : tenants'[p] = tenants[p]
    BY <2>1 DEF Kill, TypeOK, TenantRecord
  <2> QED
    BY <2>2
<1> QED
  BY <1>2, <1>3, <1>4, <1>5, <1>6, <1>7, <1>8 DEF Next, Structural, External, Caller

(* EC136: the payload of a sealed hot tenant is moved by no eviction and   *)
(* no promotion, whatever the callers do wrong.                            *)
THEOREM SealedNeverMoves == Spec => SealedStaysHot
<1>1. BridgeInv /\ [Next]_vars =>
        [\A r \in Recs :
           /\ tenants[r].sealed /\ tenants[r].state = "InHot"
           /\ tenants'[r].id = tenants[r].id /\ tenants'[r].state # "Dead"
           => tenants'[r].state = "InHot" /\ tenants'[r].hot = tenants[r].hot]_vars
  BY SealedHotKept
<1> QED
  BY BridgeInvariant, <1>1, PTL DEF Spec, SealedStaysHot

-----------------------------------------------------------------------------
(***************************************************************************)
(* TenantStore.  What its callers see of tenant h, told by the one record  *)
(* that has h, wherever its bytes are.                                     *)
(***************************************************************************)
Unborn(h) == h > nextId
Gone(h)   == h <= nextId /\ \A r \in Recs : Live(r) => tenants[r].id # h
Zeroed(h) == \E r \in Recs : Live(r) /\ tenants[r].id = h /\ \A c \in CellsOf(r) : MemOf(r)[c] = 0
Filled(h) == \E r \in Recs : Live(r) /\ tenants[r].id = h /\ \A c \in CellsOf(r) : MemOf(r)[c] = h

Shown ==
  \A h \in Ids :
    /\ Unborn(h) => PayloadOf(h) = "unborn"
    /\ Gone(h)   => PayloadOf(h) = "destroyed"
    /\ Zeroed(h) => PayloadOf(h) = "zero"
    /\ Filled(h) => PayloadOf(h) = "written"

(* What a live tenant's payload reads as. *)
LEMMA PayloadOfLive ==
  ASSUME CallerInv, NEW r \in Recs, NEW h \in Ids, Live(r), tenants[r].id = h
  PROVE  /\ BytesOf(r) = {0} => PayloadOf(h) = "zero"
         /\ BytesOf(r) = {h} => PayloadOf(h) = "written"
<1>1. FindTenant(h) = {r}
  BY DEF FindTenant, CallerInv, IdsUnique
<1>2. (CHOOSE q \in FindTenant(h) : TRUE) = r /\ FindTenant(h) # {}
  BY <1>1
<1>3. ~(h > nextId)
  BY LiveId DEF CallerInv
<1>4. {0} # {h}
  BY DEF Ids
<1> QED
  BY <1>2, <1>3, <1>4 DEF PayloadOf, Reading

(* The payload of every live tenant is one of those the store knows. *)
LEMMA AlwaysShown == CallerInv => Shown
<1> SUFFICES ASSUME CallerInv, NEW h \in Ids
             PROVE  /\ Unborn(h) => PayloadOf(h) = "unborn"
                    /\ Gone(h)   => PayloadOf(h) = "destroyed"
                    /\ Zeroed(h) => PayloadOf(h) = "zero"
                    /\ Filled(h) => PayloadOf(h) = "written"
  BY DEF Shown
<1>1. ASSUME NEW r \in Recs, Live(r), NEW v, \A c \in CellsOf(r) : MemOf(r)[c] = v PROVE BytesOf(r) = {v}
  <2>1. CellsOf(r) # {}
    BY SizeFacts DEF CellsOf, Cells
  <2>2. InCold(r) => CellsOf(r) = Cells
    BY <1>1, LiveFacts DEF CellsOf, CallerInv
  <2> QED
    BY <1>1, <2>1, <2>2 DEF BytesOf, MemOf
<1>2. h \in Nat /\ nextId \in Nat
  BY SizesAssumption DEF Ids, CallerInv, BridgeInv, TypeOK
<1>3. Unborn(h) => PayloadOf(h) = "unborn"
  BY DEF Unborn, PayloadOf
<1>4. Gone(h) => PayloadOf(h) = "destroyed"
  BY <1>2 DEF Gone, PayloadOf, FindTenant
<1>5. Zeroed(h) => PayloadOf(h) = "zero"
  BY <1>1, PayloadOfLive DEF Zeroed
<1>6. Filled(h) => PayloadOf(h) = "written"
  BY <1>1, PayloadOfLive DEF Filled
<1> QED
  BY <1>3, <1>4, <1>5, <1>6

(* Every id is in one of the four. *)
LEMMA OneOfFour ==
  ASSUME CallerInv, NEW h \in Ids
  PROVE  Unborn(h) \/ Gone(h) \/ Zeroed(h) \/ Filled(h)
<1>1. h \in Nat /\ nextId \in Nat
  BY SizesAssumption DEF Ids, CallerInv, BridgeInv, TypeOK
<1>2. ASSUME NEW r \in Recs, Live(r), tenants[r].id = h PROVE Zeroed(h) \/ Filled(h)
  BY <1>2 DEF CallerInv, PayloadIsWhole, Zeroed, Filled
<1> QED
  BY <1>1, <1>2 DEF Unborn, Gone

(* A step that leaves an id where it is among the four leaves what is seen *)
(* of it.                                                                  *)
SameFate(h) ==
  /\ Unborn(h) => Unborn(h)'
  /\ Gone(h) => Gone(h)'
  /\ Zeroed(h) => Zeroed(h)'
  /\ Filled(h) => Filled(h)'

(* A tenant whose bytes stay reads the same. *)
LEMMA SameFateSeen ==
  ASSUME CallerInv, Shown, Shown', NEW h \in Ids, SameFate(h)
  PROVE  PayloadOf(h)' = PayloadOf(h)
BY OneOfFour DEF SameFate, Shown

(* A quiet step leaves every tenant its bytes. *)
LEMMA QuietFate ==
  ASSUME CallerInv, Quiet, NEW h \in Ids
  PROVE  SameFate(h)
<1>1. nextId' = nextId /\ \A r \in Recs : Stays(r)
  BY DEF Quiet
<1>2. (Unborn(h) => Unborn(h)') /\ (Gone(h) => Gone(h)')
  BY <1>1 DEF Unborn, Gone, Stays
<1>3. ASSUME NEW v, NEW r \in Recs, Live(r), tenants[r].id = h, \A c \in CellsOf(r) : MemOf(r)[c] = v
      PROVE  Live(r)' /\ tenants'[r].id = h /\ \A c \in CellsOf(r)' : MemOf(r)'[c] = v
  BY <1>1, <1>3 DEF Stays
<1> QED
  BY <1>2, <1>3 DEF SameFate, Zeroed, Filled

(* Whatever happens to tenant k, the others do not notice. *)
LEMMA OthersFate ==
  ASSUME CallerInv, NEW r \in Recs, NEW k \in Ids, \A q \in Recs \ {r} : Stays(q),
         Live(r) => tenants[r].id = k, Live(r)' => tenants'[r].id = k,
         nextId' = nextId \/ (k = nextId + 1 /\ nextId' = k),
         NEW h \in Ids \ {k}
  PROVE  SameFate(h)
<1>1. h \in Nat /\ k \in Nat /\ nextId \in Nat
  BY SizesAssumption DEF Ids, CallerInv, BridgeInv, TypeOK
<1>2. Unborn(h) => Unborn(h)'
  BY <1>1 DEF Unborn
<1>3. Gone(h) => Gone(h)'
  BY <1>1 DEF Gone, Stays
<1>4. ASSUME NEW v, NEW q \in Recs, Live(q), tenants[q].id = h, \A c \in CellsOf(q) : MemOf(q)[c] = v
      PROVE  Live(q)' /\ tenants'[q].id = h /\ \A c \in CellsOf(q)' : MemOf(q)'[c] = v
  BY <1>4 DEF Stays
<1> QED
  BY <1>2, <1>3, <1>4 DEF SameFate, Zeroed, Filled

(* A step that changes what one tenant reads as. *)
LEMMA OneChanges ==
  ASSUME NEW k \in Ids, NEW seen, PayloadOf(k)' = seen,
         \A h \in Ids \ {k} : PayloadOf(h)' = PayloadOf(h)
  PROVE  [h \in Ids |-> PayloadOf(h)]' = [[h \in Ids |-> PayloadOf(h)] EXCEPT ![k] = seen]
OBVIOUS

(* A quiet step changes what no tenant reads as. *)
LEMMA NoneChanges ==
  ASSUME CallerInv, Shown, Shown', Quiet
  PROVE  [h \in Ids |-> PayloadOf(h)]' = [h \in Ids |-> PayloadOf(h)]
<1>1. \A h \in Ids : PayloadOf(h)' = PayloadOf(h)
  BY QuietFate, SameFateSeen
<1> QED
  BY <1>1

(* A creation of the bridge is a creation of the store. *)
LEMMA BornMaps ==
  ASSUME CallerInv, Shown, Shown', NEW r \in Recs, Born(r), view' = view
  PROVE  \E h \in Ids : Store!Create(h)
<1>1. nextId \in Nat /\ nextId < MaxIds /\ MaxIds \in Nat
  BY SizesAssumption DEF Born, CallerInv, BridgeInv, TypeOK
<1> PICK k \in Ids : k = nextId + 1
  BY <1>1 DEF Ids
<1>2. Unborn(k) /\ Zeroed(k)'
  BY <1>1 DEF Born, Unborn, Zeroed
<1>3. \A h \in Ids \ {k} : PayloadOf(h)' = PayloadOf(h)
  <2> TAKE h \in Ids \ {k}
  <2>1. SameFate(h)
    BY OthersFate DEF Born
  <2> QED
    BY <2>1, SameFateSeen
<1>4. PayloadOf(k) = "unborn" /\ PayloadOf(k)' = "zero"
  BY <1>2 DEF Shown
<1>5. [h \in Ids |-> PayloadOf(h)]' = [[h \in Ids |-> PayloadOf(h)] EXCEPT ![k] = "zero"]
  BY <1>3, <1>4, OneChanges
<1> QED
  BY <1>4, <1>5 DEF Store!Create, Store!Ids, Ids

(* A tenant dies when nobody holds a span of it. *)
LEMMA DiedMaps ==
  ASSUME CallerInv, Shown, Shown', NEW r \in Recs, Died(r), ~InUseByCaller(r), view' = view
  PROVE  \E h \in Ids : Store!Destroy(h)
<1> PICK k \in Ids : k = tenants[r].id
  BY LiveId DEF Died, CallerInv
<1>1. Live(r) /\ ~Live(r)' /\ nextId' = nextId /\ \A q \in Recs \ {r} : Stays(q)
  BY DEF Died
<1>2. k <= nextId
  BY <1>1, LiveId DEF CallerInv
<1>3. Gone(k)'
  BY <1>1, <1>2 DEF Gone, Stays, CallerInv, IdsUnique
<1>4. Zeroed(k) \/ Filled(k)
  BY <1>1, <1>2, OneOfFour, LiveId DEF Unborn, Gone, CallerInv
<1>5. PayloadOf(k) \in {"zero", "written"} /\ PayloadOf(k)' = "destroyed"
  BY <1>3, <1>4 DEF Shown
<1>6. \A h \in Ids \ {k} : PayloadOf(h)' = PayloadOf(h)
  <2> TAKE h \in Ids \ {k}
  <2>1. SameFate(h)
    BY <1>1, OthersFate
  <2> QED
    BY <2>1, SameFateSeen
<1>7. [h \in Ids |-> PayloadOf(h)]' = [[h \in Ids |-> PayloadOf(h)] EXCEPT ![k] = "destroyed"]
  BY <1>5, <1>6, OneChanges
<1>8. \A t \in Threads : view[t].id # k
  BY DEF InUseByCaller, NoView, Ids
<1> QED
  BY <1>5, <1>7, <1>8 DEF Store!Destroy, Store!Alive, Store!Ids, Ids

(* A write of the bridge is a write of the store. *)
LEMMA WriteMaps ==
  ASSUME CallerInv, Shown, Shown', NEW t \in Threads, Write(t)
  PROVE  Store!Write(t)
<1> PICK r \in Recs : Written(r) /\ tenants[r].id = view[t].id
  BY WriteKind
<1>1. /\ Live(r) /\ Live(r)' /\ nextId' = nextId /\ tenants'[r].id = tenants[r].id
      /\ CellsOf(r)' = CellsOf(r) /\ \A c \in CellsOf(r) : MemOf(r)'[c] = tenants[r].id
      /\ \A q \in Recs \ {r} : Stays(q)
  BY DEF Written
<1> PICK k \in Ids : k = view[t].id
  BY <1>1, LiveId DEF CallerInv
<1>2. Filled(k)'
  BY <1>1 DEF Filled
<1>3. PayloadOf(k)' = "written"
  BY <1>2 DEF Shown
<1>4. \A h \in Ids \ {k} : PayloadOf(h)' = PayloadOf(h)
  <2> TAKE h \in Ids \ {k}
  <2>1. SameFate(h)
    BY <1>1, OthersFate
  <2> QED
    BY <2>1, SameFateSeen
<1>5. [h \in Ids |-> PayloadOf(h)]' = [[h \in Ids |-> PayloadOf(h)] EXCEPT ![k] = "written"]
  BY <1>3, <1>4, OneChanges
<1>6. view' = view /\ k # 0
  BY DEF Write, callerVars, Ids
<1> QED
  BY <1>5, <1>6 DEF Store!Write

(* The steps that hand a span out or take it back. *)
LEMMA GainMaps ==
  ASSUME CallerInv, Shown, Shown', Quiet, NEW t \in Threads, NEW r \in Recs,
         Live(r), view[t] = NoView, view'[t].id = tenants[r].id,
         \A u \in Threads \ {t} : view'[u] = view[u]
  PROVE  \E h \in Ids : Store!Acquire(t, h)
<1> PICK k \in Ids : k = tenants[r].id
  BY LiveId DEF CallerInv
<1>1. ~Unborn(k) /\ ~Gone(k)
  BY LiveId DEF Unborn, Gone, CallerInv
<1>2. PayloadOf(k) \in {"zero", "written"}
  BY <1>1, OneOfFour DEF Shown
<1>3. [u \in Threads |-> view[u].id]' = [[u \in Threads |-> view[u].id] EXCEPT ![t] = k]
  OBVIOUS
<1>4. view[t].id = 0
  BY DEF NoView
<1> QED
  BY <1>2, <1>3, <1>4, NoneChanges DEF Store!Acquire, Store!Alive, Store!Ids, Ids

(* An acquire of a tenant in hot memory is an acquire of the store. *)
LEMMA AcquireMaps ==
  ASSUME CallerInv, Shown, Shown', NEW t \in Threads, NEW h \in Ids,
         AcquireFP32(t, h) \/ AcquireMicroFP32(t, h)
  PROVE  \E k \in Ids : Store!Acquire(t, k)
<1>1. Quiet
  BY SamePlaceSteps, SamePlacesIsQuiet DEF CallerInv
<1>2. PICK r \in Recs : Live(r) /\ view[t] = NoView /\ \E cells : GiveView(t, r, cells)
  BY DEF AcquireFP32, AcquireMicroFP32, CanCall, FindTenant
<1>3. view'[t].id = tenants[r].id /\ \A u \in Threads \ {t} : view'[u] = view[u]
  BY <1>2 DEF GiveView, CallerInv, BridgeInv, TypeOK
<1> QED
  BY <1>1, <1>2, <1>3, GainMaps

(* An acquire that promotes is an acquire of the store: tiers do not show. *)
LEMMA PromoteMaps ==
  ASSUME CallerInv, Shown, Shown', Promote
  PROVE  \E t \in Threads, h \in Ids : Store!Acquire(t, h)
<1> USE DEF CallerInv, BridgeInv
<1>1. PICK t \in Threads, r \in Recs : t = cs.who /\ r = cs.rec /\ Live(r)
  BY DEF Promote, HolderKnows, InCold, Live
<1>2. view[t] = NoView
  BY <1>1 DEF HoldersWait
<1>3. PICK s : view' = [view EXCEPT ![t] = [id |-> tenants[r].id, slot |-> s, cells |-> Cells]]
  BY <1>1 DEF Promote
<1>4. view'[t].id = tenants[r].id /\ \A u \in Threads \ {t} : view'[u] = view[u]
  BY <1>3 DEF TypeOK
<1>5. \E h \in Ids : Store!Acquire(t, h)
  BY <1>1, <1>2, <1>4, PromoteKind, GainMaps
<1> QED
  BY <1>5

(* A release of the bridge ends the holding of the store. *)
LEMMA ReleaseFindMaps ==
  ASSUME CallerInv, Shown, Shown', NEW t \in Threads, NEW h \in Ids, ReleaseFind(t, h)
  PROVE  Store!Release(t)
<1>1. Quiet
  BY SamePlaceSteps, SamePlacesIsQuiet DEF CallerInv
<1>2. view' = [view EXCEPT ![t] = NoView]
  BY DEF ReleaseFind
<1>3. [u \in Threads |-> view[u].id]' = [[u \in Threads |-> view[u].id] EXCEPT ![t] = 0]
  BY <1>2 DEF NoView, CallerInv, BridgeInv, TypeOK
<1> QED
  BY <1>1, <1>3, NoneChanges DEF Store!Release

(* Every step of the bridge is a step of TenantStore, or none. *)
LEMMA StepMaps ==
  ASSUME CallerInv, Shown, Shown', [Next]_vars
  PROVE  [Store!Next]_(Store!vars)
<1>1. ASSUME Quiet, view' = view PROVE UNCHANGED Store!vars
  BY <1>1, NoneChanges DEF Store!vars
<1>2. CASE \/ CreateTenant \/ CreateMicroTenant \/ GiveUp \/ UNCHANGED vars
           \/ \E h \in Ids : SealTenant(h)
           \/ \E s \in HotSlots : ExternalAllocate(s)
           \/ \E t \in Threads : ReleaseDecrement(t) \/ \E h \in Ids : AcquireFP32Cold(t, h)
  <2>1. Quiet
    BY <1>2, SamePlaceSteps, SamePlacesIsQuiet DEF CallerInv
  <2>2. view' = view
    BY <1>2 DEF CreateTenant, CreateMicroTenant, GiveUp, vars, SealTenant, ExternalAllocate,
                ReleaseDecrement, AcquireFP32Cold, callerVars
  <2> QED
    BY <1>1, <2>1, <2>2
<1>3. CASE CreateBind \/ CreateMicroInShared \/ CreateMicroBind
  <2>1. PICK r \in Recs : Born(r)
    BY <1>3, CreateBindKind, CreateMicroInSharedKind, CreateMicroBindKind
  <2>2. view' = view
    BY <1>3 DEF CreateBind, CreateMicroInShared, CreateMicroBind, callerVars
  <2> QED
    BY <2>1, <2>2, BornMaps DEF Store!Next, Store!Ids, Ids
<1>4. CASE EvictOldest
  BY <1>1, <1>4, EvictOldestKind DEF EvictOldest, callerVars
<1>5. CASE Promote
  BY <1>5, PromoteMaps DEF Store!Next, Store!Ids, Ids
<1>6. CASE PromoteDecodeFails \/ \E s \in HotSlots : ExternalRelease(s)
  <2>1. PICK s \in HotSlots : ReleaseHot(s) /\ (s \notin hotUsed \/ s \in ext)
    BY <1>6 DEF PromoteDecodeFails, ExternalRelease, HotFree
  <2>2. UNCHANGED <<tenants, nextId, coldMem, coldUsed, view>>
    BY <1>6 DEF PromoteDecodeFails, ExternalRelease, bridgeVars, callerVars
  <2> QED
    BY <1>1, <2>1, <2>2, WipeUnowned
<1>7. ASSUME NEW t \in Threads, Write(t) PROVE Store!Next
  BY <1>7, WriteMaps DEF Store!Next
<1>8. ASSUME NEW h \in Ids, DestroyFull(h) \/ DestroyMicro(h) PROVE Store!Next
  <2>1. PICK r \in Recs : Died(r) /\ ~InUseByCaller(r)
    BY <1>8, DestroyFullKind, DestroyMicroKind
  <2>2. view' = view
    BY <1>8 DEF DestroyFull, DestroyMicro, callerVars
  <2> QED
    BY <2>1, <2>2, DiedMaps DEF Store!Next, Store!Ids, Ids
<1>9. ASSUME NEW t \in Threads, NEW h \in Ids,
             AcquireFP32(t, h) \/ AcquireMicroFP32(t, h) \/ ReleaseFind(t, h)
      PROVE  Store!Next
  BY <1>9, AcquireMaps, ReleaseFindMaps DEF Store!Next, Store!Ids, Ids
<1> QED
  BY <1>2, <1>3, <1>4, <1>5, <1>6, <1>7, <1>8, <1>9, NothingLeaks
     DEF Next, Structural, External, Caller, CallerInv

(* The empty bridge is the empty store. *)
LEMMA InitMaps == Init => Store!Init
<1> SUFFICES ASSUME Init PROVE Store!Init
  OBVIOUS
<1>1. \A h \in Ids : PayloadOf(h) = "unborn"
  BY DEF Init, PayloadOf, Ids
<1> QED
  BY <1>1 DEF Init, Store!Init, Store!Ids, Ids, NoView

(* Eviction, compression, promotion and the packing of micro-tenants are   *)
(* invisible to callers that make no mistake: what they can observe of the *)
(* bridge is TenantStore.                                                  *)
THEOREM TiersAreInvisible == CallersBehave /\ Spec => ImplementsStore
<1>1. CallerInv /\ Shown /\ Shown' /\ [Next]_vars => [Store!Next]_(Store!vars)
  BY StepMaps
<1> QED
  BY InitMaps, AlwaysShown, <1>1, CallerInvariant, PTL DEF Spec, Store!Spec, ImplementsStore
=============================================================================
