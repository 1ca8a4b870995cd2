----------------------------- MODULE FractalArena -----------------------------
(***************************************************************************)
(* FractalArena: fixed slots named by GenIDs.  A slot's version counter is *)
(* bumped when it is allocated and again when it is released, so a GenID   *)
(* of an earlier life no longer matches.  Nothing is locked: validate()    *)
(* reads the version and then the occupancy bit, and release() wipes the   *)
(* slot, bumps the version and returns the bit, one after the other.       *)
(*                                                                         *)
(* The selector is taken as AxiomSelector shows it to be: acquire() takes  *)
(* some free bit at its compare-exchange.  Calls that return without an    *)
(* effect (arguments out of range, kNoSlot, a GenID refused at once) are   *)
(* no steps.                                                               *)
(*                                                                         *)
(* Callers: any thread may use any GenID it was ever given, stale ones     *)
(* included, but a live one is not released while another thread uses it.  *)
(***************************************************************************)
EXTENDS Integers

CONSTANTS
  Threads,
  Slots,
  Cells,        \* the sub-slots of a slot
  VersionMod,   \* 2^kVersionBits: the version counters count modulo VersionMod
  MaxBirths     \* bound: allocations of one slot

(* Versions repeat after VersionMod \div 2 lives of a slot (32768); no     *)
(* GenID is kept that long.                                                *)
ASSUME VersionAssumption ==
  /\ VersionMod \in Nat \ {0} /\ VersionMod % 2 = 0
  /\ MaxBirths \in Nat /\ 2 * MaxBirths <= VersionMod

VARIABLES
  occupied,   \* selector_: the slots whose bit is taken
  version,    \* versions_
  die,        \* die_: which life of the slot each cell was written for
  births,     \* how often each slot has been allocated
  live,       \* the GenIDs allocated and not released
  stale,      \* the GenIDs released
  op,         \* the call each thread is inside
  span        \* the span each thread holds

vars == <<occupied, version, die, births, live, stale, op, span>>

(* A GenID: the program sees slot and version.  birth tells the lives of a *)
(* slot apart; no guard of an operation reads it.                          *)
GenID == [slot : Slots, version : 0 .. VersionMod - 1, birth : 1 .. MaxBirths]

NoOp   == [at |-> "idle", id |-> <<>>, cells |-> {}]
NoSpan == [id |-> <<>>, cells |-> {}]
Zeroes == [c \in Cells |-> 0]

Init ==
  /\ occupied = {}
  /\ version = [s \in Slots |-> 0]
  /\ die = [s \in Slots |-> Zeroes]
  /\ births = [s \in Slots |-> 0]
  /\ live = {} /\ stale = {}
  /\ op = [t \in Threads |-> NoOp]
  /\ span = [t \in Threads |-> NoSpan]

(* A bug: the counter does not wrap at the width of the GenID's field. *)
BumpedUnwrapped(s) == version[s] + 1

(* fetch_add(1) of a u16 *)
Bumped(s) == (version[s] + 1) % VersionMod

Idle(t) == op[t] = NoOp
Return(t) == op' = [op EXCEPT ![t] = NoOp]
GoOn(t, step) == op' = [op EXCEPT ![t].at = step]

Releasing == {"releaseOccupied", "wipe", "unversion", "giveBack"}

UsedBy(t, id) == op[t].id = id \/ span[t].id = id
BeingReleased(id) == \E t \in Threads : op[t].id = id /\ op[t].at \in Releasing

-----------------------------------------------------------------------------
(* allocate() *)
AllocateTake(t, s) ==
  /\ Idle(t)
  /\ s \notin occupied
  /\ births[s] < MaxBirths
  /\ occupied' = occupied \cup {s}
  /\ births' = [births EXCEPT ![s] = @ + 1]
  /\ op' = [op EXCEPT ![t] = [at |-> "bump", cells |-> {},
       id |-> [slot |-> s, version |-> 0, birth |-> births[s] + 1]]]
  /\ UNCHANGED <<version, die, live, stale, span>>

AllocateBump(t) ==
  /\ op[t].at = "bump"
  /\ version' = [version EXCEPT ![op[t].id.slot] = Bumped(op[t].id.slot)]
  /\ live' = live \cup {[op[t].id EXCEPT !.version = Bumped(op[t].id.slot)]}
  /\ Return(t)
  /\ UNCHANGED <<occupied, die, births, stale, span>>

(* A bug: a view checks the occupancy bit but not the version. *)
ViewUnversioned(t, id, cells, step) ==
  /\ Idle(t) /\ span[t] = NoSpan /\ ~BeingReleased(id)
  /\ op' = [op EXCEPT ![t] = [at |-> step, id |-> id, cells |-> cells]]
  /\ UNCHANGED <<occupied, version, die, births, live, stale, span>>

(* view(), viewSubSlot() and zeroizeSubSlot(): validate() reads the        *)
(* version, then the bit.                                                  *)
ViewVersion(t, id, cells, step) ==
  /\ Idle(t)
  /\ span[t] = NoSpan
  /\ ~BeingReleased(id)
  /\ version[id.slot] = id.version
  /\ op' = [op EXCEPT ![t] = [at |-> step, id |-> id, cells |-> cells]]
  /\ UNCHANGED <<occupied, version, die, births, live, stale, span>>

ViewOccupied(t) ==
  /\ op[t].at = "viewOccupied"
  /\ span' = IF op[t].id.slot \in occupied
             THEN [span EXCEPT ![t] = [id |-> op[t].id, cells |-> op[t].cells]] ELSE span
  /\ Return(t)
  /\ UNCHANGED <<occupied, version, die, births, live, stale>>

ZeroizeOccupied(t) ==
  /\ op[t].at = "zeroizeOccupied"
  /\ IF op[t].id.slot \in occupied THEN GoOn(t, "zeroize") ELSE Return(t)
  /\ UNCHANGED <<occupied, version, die, births, live, stale, span>>

Zeroize(t) ==
  /\ op[t].at = "zeroize"
  /\ die' = [die EXCEPT ![op[t].id.slot] =
               [c \in Cells |-> IF c \in op[t].cells THEN 0 ELSE @[c]]]
  /\ Return(t)
  /\ UNCHANGED <<occupied, version, births, live, stale, span>>

(* A thread writes through its span, and lets go of it. *)
Write(t, c) ==
  /\ c \in span[t].cells
  /\ die' = [die EXCEPT ![span[t].id.slot][c] = span[t].id.birth]
  /\ UNCHANGED <<occupied, version, births, live, stale, op, span>>

DropSpan(t) ==
  /\ span[t] # NoSpan
  /\ span' = [span EXCEPT ![t] = NoSpan]
  /\ UNCHANGED <<occupied, version, die, births, live, stale, op>>

(* A bug: release() takes a GenID of an earlier life. *)
ReleaseUnversioned(t, id) ==
  /\ Idle(t)
  /\ id \in live => \A u \in Threads : ~UsedBy(u, id)
  /\ op' = [op EXCEPT ![t] = [at |-> "releaseOccupied", id |-> id, cells |-> {}]]
  /\ UNCHANGED <<occupied, version, die, births, live, stale, span>>

(* release() *)
ReleaseVersion(t, id) ==
  /\ Idle(t)
  /\ id \in live => \A u \in Threads : ~UsedBy(u, id)
  /\ version[id.slot] = id.version
  /\ op' = [op EXCEPT ![t] = [at |-> "releaseOccupied", id |-> id, cells |-> {}]]
  /\ UNCHANGED <<occupied, version, die, births, live, stale, span>>

ReleaseOccupied(t) ==
  /\ op[t].at = "releaseOccupied"
  /\ IF op[t].id.slot \in occupied THEN GoOn(t, "wipe") ELSE Return(t)
  /\ UNCHANGED <<occupied, version, die, births, live, stale, span>>

(* A bug: the slot goes back unwiped. *)
ReleaseUnwiped(t) ==
  /\ op[t].at = "wipe"
  /\ GoOn(t, "unversion")
  /\ UNCHANGED <<occupied, version, die, births, live, stale, span>>

ReleaseWipe(t) ==
  /\ op[t].at = "wipe"
  /\ die' = [die EXCEPT ![op[t].id.slot] = Zeroes]
  /\ GoOn(t, "unversion")
  /\ UNCHANGED <<occupied, version, births, live, stale, span>>

(* A bug: the version is left as it is. *)
ReleaseUnbumped(t) ==
  /\ op[t].at = "unversion"
  /\ GoOn(t, "giveBack")
  /\ UNCHANGED <<occupied, version, die, births, live, stale, span>>

ReleaseBump(t) ==
  /\ op[t].at = "unversion"
  /\ version' = [version EXCEPT ![op[t].id.slot] = Bumped(op[t].id.slot)]
  /\ GoOn(t, "giveBack")
  /\ UNCHANGED <<occupied, die, births, live, stale, span>>

(* A bug: the bit is never returned. *)
ReleaseLeaks(t) ==
  /\ op[t].at = "giveBack"
  /\ live' = live \ {op[t].id}
  /\ stale' = stale \cup {op[t].id}
  /\ Return(t)
  /\ UNCHANGED <<occupied, version, die, births, span>>

ReleaseGiveBack(t) ==
  /\ op[t].at = "giveBack"
  /\ occupied' = occupied \ {op[t].id.slot}
  /\ live' = live \ {op[t].id}
  /\ stale' = stale \cup {op[t].id}
  /\ Return(t)
  /\ UNCHANGED <<version, die, births, span>>

Step(t) ==
  \/ AllocateBump(t)
  \/ ViewOccupied(t) \/ ZeroizeOccupied(t) \/ Zeroize(t)
  \/ ReleaseOccupied(t) \/ ReleaseWipe(t) \/ ReleaseBump(t) \/ ReleaseGiveBack(t)

Call(t) ==
  \/ \E s \in Slots : AllocateTake(t, s)
  \/ \E id \in live \cup stale :
       \/ ReleaseVersion(t, id)
       \/ ViewVersion(t, id, Cells, "viewOccupied")
       \/ \E c \in Cells : \/ ViewVersion(t, id, {c}, "viewOccupied")
                           \/ ViewVersion(t, id, {c}, "zeroizeOccupied")
  \/ \E c \in Cells : Write(t, c)
  \/ DropSpan(t)

Next == \E t \in Threads : Step(t) \/ Call(t)

Spec == Init /\ [][Next]_vars

-----------------------------------------------------------------------------
(* Type invariant *)
TypeOK ==
  /\ occupied \subseteq Slots
  /\ version \in [Slots -> 0 .. VersionMod - 1]
  /\ die \in [Slots -> [Cells -> 0 .. MaxBirths]]
  /\ births \in [Slots -> 0 .. MaxBirths]
  /\ live \subseteq GenID /\ stale \subseteq GenID
  /\ op \in [Threads -> [at : {"idle", "bump", "viewOccupied", "zeroizeOccupied", "zeroize"}
                              \cup Releasing,
                         id : GenID \cup {<<>>}, cells : SUBSET Cells]]
  /\ span \in [Threads -> [id : GenID \cup {<<>>}, cells : SUBSET Cells]]

(* ABA safety: a GenID whose slot has been released is refused everywhere. *)
(* Whoever is past validate(), or holds a span, has a GenID of the slot's  *)
(* present life.                                                           *)
StaleIsRefused ==
  \A t \in Threads :
    /\ op[t].at \in {"viewOccupied", "zeroizeOccupied", "zeroize"} \cup Releasing => op[t].id \in live
    /\ span[t] # NoSpan => span[t].id \in live

(* Until somebody releases it a live GenID is valid, and no two of them    *)
(* name the same slot.                                                     *)
LiveIdsWork ==
  \A id \in live :
    /\ id.slot \in occupied /\ id.birth = births[id.slot]
    /\ ~BeingReleased(id) => version[id.slot] = id.version
    /\ \A other \in live \ {id} : other.slot # id.slot

(* No slot leaks: a taken bit belongs to a live GenID or to an allocate()  *)
(* that has not returned yet, and to one of them only.                     *)
OccupiedHasOwner ==
  \A s \in Slots :
    LET owners == {id \in live : id.slot = s}
        makers == {t \in Threads : op[t].at = "bump" /\ op[t].id.slot = s}
    IN  /\ s \in occupied <=> owners # {} \/ makers # {}
        /\ owners = {} \/ makers = {}
        /\ \A t, u \in makers : t = u

(* EC30, EC36, EC114: memory holds zeroes or what the present holder of    *)
(* the slot wrote; a free slot, and one just allocated, is all zeroes.     *)
NothingLeaks ==
  \A s \in Slots :
    /\ \A c \in Cells : die[s][c] \in {0, births[s]}
    /\ (\A id \in live : id.slot # s) => die[s] = Zeroes

(* The arena implements atomic allocation and release: a release takes     *)
(* effect when the slot is wiped.                                          *)
Wiped == {op[t].id.slot : t \in {u \in Threads : op[u].at \in {"unversion", "giveBack"}}}

Abstract == INSTANCE SlotArena WITH used <- occupied \ Wiped, bytes <- die

ImplementsSlotArena == Abstract!Spec
=============================================================================
