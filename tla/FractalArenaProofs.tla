-------------------------- MODULE FractalArenaProofs --------------------------
(***************************************************************************)
(* FractalArena for any number of threads, slots, cells and lives, and     *)
(* every width of the version counter: a GenID of an earlier life is       *)
(* refused, a live one works, no slot and no bytes leak, and the           *)
(* interleaved steps implement the atomic arena of SlotArena.              *)
(***************************************************************************)
EXTENDS FractalArena, TLAPS

(* The counter after n bumps, n at most VersionMod. *)
Wrapped(n) == IF n = VersionMod THEN 0 ELSE n

(***************************************************************************)
(* An allocation bumps the counter from even to odd and the release back   *)
(* to even: the version a GenID carries is odd and tells its life.         *)
(***************************************************************************)
IdsAreOdd == \A id \in live \cup stale : id.version = 2 * id.birth - 1

VersionsCount ==
  /\ \A s \in Slots \ occupied : version[s] = Wrapped(2 * births[s])
  /\ \A t \in Threads : op[t].at = "bump" =>
       version[op[t].id.slot] = 2 * births[op[t].id.slot] - 2
  /\ \A t \in Threads : op[t].at = "giveBack" =>
       version[op[t].id.slot] = Wrapped(2 * births[op[t].id.slot])
  /\ \A id \in live :
       (\A t \in Threads : ~(op[t].at = "giveBack" /\ op[t].id = id))
         => version[id.slot] = id.version

(* Who owns a taken bit: one live GenID, or one allocate() on its way. *)
LiveOwns ==
  \A id \in live :
    /\ id.slot \in occupied /\ id.birth = births[id.slot]
    /\ \A t \in Threads : op[t].at = "bump" => op[t].id.slot # id.slot

MakersOwn ==
  \A t \in Threads : op[t].at = "bump" =>
    /\ op[t].id \in GenID
    /\ op[t].id.slot \in occupied /\ op[t].id.birth = births[op[t].id.slot]
    /\ \A u \in Threads \ {t} : op[u].at = "bump" => op[u].id.slot # op[t].id.slot

OccupiedIsOwned ==
  \A s \in occupied :
    \/ \E id \in live : id.slot = s
    \/ \E t \in Threads : op[t].at = "bump" /\ op[t].id.slot = s

(* The life of a stale GenID is over. *)
StaleIsPast ==
  \A id \in stale :
    /\ id.birth <= births[id.slot]
    /\ id.birth = births[id.slot] => id.slot \notin occupied

(* Between its validate() and its last step a call has a live GenID, and   *)
(* a release() has it alone.                                               *)
Using == {"viewOccupied", "zeroizeOccupied", "zeroize"} \cup Releasing
UsersHaveLive ==
  \A t \in Threads :
    /\ op[t].at \in Using => op[t].id \in live
    /\ op[t].at \in {"zeroizeOccupied", "zeroize"} => \E c \in Cells : op[t].cells = {c}
    /\ op[t].at = "idle" => op[t] = NoOp
    /\ span[t] # NoSpan => span[t].id \in live
    /\ span[t] = NoSpan => span[t].cells = {}

ReleaserIsAlone ==
  \A t \in Threads : op[t].at \in Releasing =>
    /\ \A u \in Threads \ {t} : op[u].at \in Using => op[u].id # op[t].id
    /\ \A u \in Threads : span[u] # NoSpan => span[u].id # op[t].id

(* Memory: what NothingLeaks says, and that a wiped slot stays wiped. *)
MemoryIsOwned ==
  \A s \in Slots :
    /\ \A c \in Cells : die[s][c] \in {0, births[s]}
    /\ (\A id \in live : id.slot # s) => die[s] = Zeroes
WipedIsZero ==
  \A t \in Threads : op[t].at \in {"unversion", "giveBack"} => die[op[t].id.slot] = Zeroes

ArenaInv ==
  /\ TypeOK
  /\ IdsAreOdd /\ VersionsCount
  /\ LiveOwns /\ MakersOwn /\ OccupiedIsOwned /\ StaleIsPast
  /\ UsersHaveLive /\ ReleaserIsAlone
  /\ MemoryIsOwned /\ WipedIsZero

-----------------------------------------------------------------------------
(* Arithmetic of the version counters. *)

(* The version counter has at least two values. *)
LEMMA VersionFacts == VersionMod \in Nat /\ VersionMod >= 2 /\ MaxBirths \in Nat
<1>1. VersionMod # 1
  BY VersionAssumption
<1> QED
  BY <1>1, VersionAssumption

(* fetch_add wraps in one place only. *)
LEMMA BumpedIs ==
  ASSUME NEW v \in 0 .. VersionMod - 1
  PROVE  (v + 1) % VersionMod = Wrapped(v + 1)
BY VersionFacts, Z3 DEF Wrapped

-----------------------------------------------------------------------------
(* An empty arena satisfies the invariant. *)
LEMMA InitArena == Init => ArenaInv
<1> SUFFICES ASSUME Init PROVE ArenaInv
  OBVIOUS
<1> USE VersionFacts DEF Init
<1>1. TypeOK
  BY DEF TypeOK, NoOp, NoSpan, Zeroes, GenID, Releasing
<1>2. IdsAreOdd /\ VersionsCount /\ LiveOwns /\ MakersOwn /\ OccupiedIsOwned /\ StaleIsPast
  BY DEF IdsAreOdd, VersionsCount, LiveOwns, MakersOwn, OccupiedIsOwned, StaleIsPast, NoOp, Wrapped
<1>3. UsersHaveLive /\ ReleaserIsAlone
  BY DEF UsersHaveLive, ReleaserIsAlone, Using, Releasing, NoOp, NoSpan
<1>4. MemoryIsOwned /\ WipedIsZero
  BY DEF MemoryIsOwned, WipedIsZero, NoOp, Zeroes
<1> QED
  BY <1>1, <1>2, <1>3, <1>4 DEF ArenaInv

(* What validate() stands on: a GenID whose version is the slot's is live. *)
LEMMA MatchIsLive ==
  ASSUME ArenaInv, NEW id \in live \cup stale, version[id.slot] = id.version
  PROVE  id \in live
<1> SUFFICES ASSUME id \in stale PROVE id \in live
  OBVIOUS
<1> USE VersionFacts DEF ArenaInv
<1>1. id \in GenID /\ id.slot \in Slots /\ id.birth \in 1 .. MaxBirths /\ births[id.slot] \in 0 .. MaxBirths
  BY DEF TypeOK, GenID
<1>2. version[id.slot] = 2 * id.birth - 1
  BY DEF IdsAreOdd
<1>3. CASE id.slot \notin occupied
  BY <1>1, <1>2, <1>3 DEF VersionsCount, Wrapped
<1>4. CASE \E t \in Threads : op[t].at = "bump" /\ op[t].id.slot = id.slot
  BY <1>1, <1>2, <1>4 DEF VersionsCount
<1>5. CASE \E o \in live : o.slot = id.slot
  <2>1. PICK o \in live : o.slot = id.slot
    BY <1>5
  <2>2. o \in GenID /\ o.birth = births[id.slot] /\ o.version = 2 * o.birth - 1 /\ o.slot \in occupied
    BY <2>1 DEF LiveOwns, IdsAreOdd, TypeOK
  <2>3. CASE \E t \in Threads : op[t].at = "giveBack" /\ op[t].id = o
    BY <1>1, <1>2, <2>1, <2>2, <2>3 DEF VersionsCount, Wrapped
  <2>4. CASE \A t \in Threads : ~(op[t].at = "giveBack" /\ op[t].id = o)
    <3>1. 2 * id.birth - 1 = 2 * births[id.slot] - 1
      BY <1>2, <2>1, <2>2, <2>4 DEF VersionsCount
    <3> QED
      BY <1>1, <2>1, <2>2, <3>1 DEF StaleIsPast
  <2> QED
    BY <2>3, <2>4
<1> QED
  BY <1>3, <1>4, <1>5 DEF OccupiedIsOwned

(* Live GenIDs are told apart by their slots. *)
LEMMA LiveDistinct ==
  ASSUME ArenaInv, NEW a \in live, NEW b \in live, a.slot = b.slot
  PROVE  a = b
<1>1. a \in GenID /\ b \in GenID
  BY DEF ArenaInv, TypeOK
<1>2. a.birth = b.birth /\ a.version = b.version
  BY DEF ArenaInv, LiveOwns, IdsAreOdd
<1> QED
  BY <1>1, <1>2 DEF GenID

-----------------------------------------------------------------------------
(* One lemma per action. *)

(* allocate(): the selector hands out a slot nobody has. *)
LEMMA AllocateTakeStep ==
  ASSUME ArenaInv, NEW t \in Threads, NEW s \in Slots, AllocateTake(t, s)
  PROVE  ArenaInv'
<1> USE VersionFacts DEF ArenaInv
<1> DEFINE id == [slot |-> s, version |-> 0, birth |-> births[s] + 1]
<1>1. /\ op[t] = NoOp /\ s \notin occupied /\ births[s] < MaxBirths
      /\ occupied' = occupied \cup {s}
      /\ births' = [births EXCEPT ![s] = @ + 1]
      /\ op' = [op EXCEPT ![t] = [at |-> "bump", cells |-> {}, id |-> id]]
      /\ UNCHANGED <<version, die, live, stale, span>>
  BY DEF AllocateTake, Idle
<1>2. /\ id \in GenID /\ id.slot = s /\ id.birth = births[s] + 1
  BY <1>1 DEF TypeOK, GenID
<1> HIDE DEF id
<1>3. TypeOK'
  BY <1>1, <1>2 DEF TypeOK
<1>4. /\ op'[t] = [at |-> "bump", cells |-> {}, id |-> id]
      /\ \A u \in Threads \ {t} : op'[u] = op[u]
      /\ births'[s] = births[s] + 1
      /\ \A r \in Slots \ {s} : births'[r] = births[r]
  BY <1>1 DEF TypeOK
<1>5. \A o \in live : o.slot # s /\ o.slot \in Slots
  BY <1>1 DEF LiveOwns, TypeOK, GenID
<1>6. IdsAreOdd'
  BY <1>1 DEF IdsAreOdd
<1>7. VersionsCount'
  <2>1. version[s] = 2 * births'[s] - 2
    BY <1>1, <1>4, VersionAssumption DEF VersionsCount, Wrapped, TypeOK
  <2>2. \A u \in Threads \ {t} : op[u].at \in {"bump", "giveBack"} => op[u].id.slot # s
    BY <1>1, <1>5 DEF MakersOwn, UsersHaveLive, Using, Releasing
  <2>3. \A u \in Threads \ {t} : op[u].at \in {"bump", "giveBack"} => op[u].id.slot \in Slots
    BY <1>5 DEF MakersOwn, UsersHaveLive, Using, Releasing, GenID
  <2> QED
    BY <1>1, <1>2, <1>4, <1>5, <2>1, <2>2, <2>3 DEF VersionsCount, NoOp
<1>8. LiveOwns'
  BY <1>1, <1>2, <1>4, <1>5 DEF LiveOwns
<1>9. MakersOwn'
  BY <1>1, <1>2, <1>4, <1>5 DEF MakersOwn, GenID
<1>10. OccupiedIsOwned'
  BY <1>1, <1>2, <1>4 DEF OccupiedIsOwned, NoOp
<1>11. StaleIsPast'
  BY <1>1, <1>4 DEF StaleIsPast, TypeOK, GenID
<1>12. UsersHaveLive'
  BY <1>1, <1>4 DEF UsersHaveLive, Using, Releasing
<1>13. ReleaserIsAlone'
  BY <1>1, <1>4 DEF ReleaserIsAlone, Using, Releasing
<1>14. MemoryIsOwned'
  <2>1. die[s] = Zeroes
    BY <1>5 DEF MemoryIsOwned
  <2> QED
    BY <1>1, <1>4, <2>1 DEF MemoryIsOwned, Zeroes
<1>15. WipedIsZero'
  BY <1>1, <1>4 DEF WipedIsZero
<1> QED
  BY <1>3, <1>6, <1>7, <1>8, <1>9, <1>10, <1>11, <1>12, <1>13, <1>14, <1>15

(* allocate(): the version becomes odd and the GenID goes to the caller. *)
LEMMA AllocateBumpStep ==
  ASSUME ArenaInv, NEW t \in Threads, AllocateBump(t)
  PROVE  ArenaInv'
<1> USE VersionFacts DEF ArenaInv
<1> DEFINE s == op[t].id.slot
           id == [op[t].id EXCEPT !.version = Bumped(s)]
<1>1. /\ op[t].at = "bump"
      /\ version' = [version EXCEPT ![s] = Bumped(s)]
      /\ live' = live \cup {id}
      /\ op' = [op EXCEPT ![t] = NoOp]
      /\ UNCHANGED <<occupied, die, births, stale, span>>
  BY DEF AllocateBump, Return
<1>2. /\ op[t].id \in GenID /\ s \in Slots /\ s \in occupied /\ op[t].id.birth = births[s]
      /\ \A u \in Threads \ {t} : op[u].at = "bump" => op[u].id.slot # s
  BY <1>1 DEF MakersOwn, GenID
<1>3. Bumped(s) = 2 * births[s] - 1 /\ Bumped(s) \in 0 .. VersionMod - 1
  <2>1. version[s] = 2 * births[s] - 2 /\ births[s] \in 1 .. MaxBirths
    BY <1>1, <1>2 DEF VersionsCount, GenID
  <2>2. version[s] \in 0 .. VersionMod - 1
    BY <1>2 DEF TypeOK
  <2>3. Bumped(s) = Wrapped(version[s] + 1)
    BY <2>2, BumpedIs DEF Bumped
  <2>4. 2 * births[s] <= VersionMod
    BY <2>1, VersionAssumption
  <2> QED
    BY <2>1, <2>3, <2>4 DEF Wrapped
<1>4. id \in GenID /\ id.slot = s /\ id.birth = births[s] /\ id.version = 2 * births[s] - 1
  BY <1>2, <1>3 DEF GenID
<1>5. /\ op'[t] = NoOp
      /\ \A u \in Threads \ {t} : op'[u] = op[u]
      /\ version'[s] = 2 * births[s] - 1
      /\ \A r \in Slots \ {s} : version'[r] = version[r]
  BY <1>1, <1>2, <1>3 DEF TypeOK
<1>6. \A o \in live : o.slot # s /\ o.slot \in Slots
  BY <1>1 DEF LiveOwns, TypeOK, GenID
<1>7. \A u \in Threads \ {t} : op[u].at \in Using => op[u].id \in live
  BY DEF UsersHaveLive
<1> HIDE DEF s, id
<1>8. TypeOK'
  BY <1>1, <1>2, <1>3, <1>4 DEF TypeOK, NoOp
<1>9. IdsAreOdd'
  BY <1>1, <1>4 DEF IdsAreOdd
<1>10. VersionsCount'
  <2>1. \A u \in Threads \ {t} : op[u].at \in {"bump", "giveBack"} =>
          op[u].id.slot \in Slots /\ op[u].id.slot # s
    BY <1>2, <1>6, <1>7 DEF MakersOwn, Using, Releasing, GenID
  <2>2. \A u \in Threads : op'[u].at \in {"bump", "giveBack"} => u # t
    BY <1>5 DEF NoOp
  <2>3. \A o \in live : (\A u \in Threads : ~(op'[u].at = "giveBack" /\ op'[u].id = o))
          => version'[o.slot] = o.version
    BY <1>1, <1>5, <1>6 DEF VersionsCount
  <2>4. \A o \in live' : (\A u \in Threads : ~(op'[u].at = "giveBack" /\ op'[u].id = o))
          => version'[o.slot] = o.version
    BY <1>1, <1>4, <1>5, <2>3
  <2>5. \A r \in Slots \ occupied' : version'[r] = Wrapped(2 * births'[r])
    BY <1>1, <1>2, <1>5 DEF VersionsCount
  <2> QED
    BY <1>1, <1>5, <2>1, <2>2, <2>4, <2>5 DEF VersionsCount
<1>11. LiveOwns'
  BY <1>1, <1>2, <1>4, <1>5 DEF LiveOwns, NoOp
<1>12. MakersOwn'
  BY <1>1, <1>5 DEF MakersOwn, NoOp
<1>13. OccupiedIsOwned'
  BY <1>1, <1>4, <1>5 DEF OccupiedIsOwned, s
<1>14. StaleIsPast'
  BY <1>1 DEF StaleIsPast
<1>15. UsersHaveLive'
  BY <1>1, <1>5 DEF UsersHaveLive, Using, Releasing, NoOp
<1>16. ReleaserIsAlone'
  BY <1>1, <1>5 DEF ReleaserIsAlone, Using, Releasing, NoOp
<1>17. MemoryIsOwned'
  BY <1>1 DEF MemoryIsOwned
<1>18. WipedIsZero'
  BY <1>1, <1>5 DEF WipedIsZero, NoOp
<1> QED
  BY <1>8, <1>9, <1>10, <1>11, <1>12, <1>13, <1>14, <1>15, <1>16, <1>17, <1>18

(* view() and its kin read the version first. *)
LEMMA ViewVersionStep ==
  ASSUME ArenaInv, NEW t \in Threads, NEW id \in live \cup stale,
         NEW cells \in SUBSET Cells, NEW step \in {"viewOccupied", "zeroizeOccupied"},
         step = "zeroizeOccupied" => \E c \in Cells : cells = {c},
         ViewVersion(t, id, cells, step)
  PROVE  ArenaInv'
<1> USE DEF ArenaInv
<1>1. /\ op[t] = NoOp /\ ~BeingReleased(id) /\ version[id.slot] = id.version
      /\ op' = [op EXCEPT ![t] = [at |-> step, id |-> id, cells |-> cells]]
      /\ UNCHANGED <<occupied, version, die, births, live, stale, span>>
  BY DEF ViewVersion, Idle
<1>2. id \in live
  BY <1>1, MatchIsLive
<1>3. /\ op'[t] = [at |-> step, id |-> id, cells |-> cells]
      /\ \A u \in Threads \ {t} : op'[u] = op[u]
  BY <1>1 DEF TypeOK
<1>4. TypeOK'
  BY <1>1 DEF TypeOK
<1>5. IdsAreOdd' /\ StaleIsPast' /\ MemoryIsOwned'
  BY <1>1 DEF IdsAreOdd, StaleIsPast, MemoryIsOwned
<1>6. VersionsCount'
  BY <1>1, <1>3 DEF VersionsCount, NoOp
<1>7. LiveOwns' /\ MakersOwn' /\ OccupiedIsOwned'
  BY <1>1, <1>3 DEF LiveOwns, MakersOwn, OccupiedIsOwned, NoOp
<1>8. UsersHaveLive'
  BY <1>1, <1>2, <1>3 DEF UsersHaveLive, Using, Releasing
<1>9. ReleaserIsAlone'
  BY <1>1, <1>3 DEF ReleaserIsAlone, BeingReleased, Releasing
<1>10. WipedIsZero'
  BY <1>1, <1>3 DEF WipedIsZero
<1> QED
  BY <1>4, <1>5, <1>6, <1>7, <1>8, <1>9, <1>10

(* op keeps its type when a call goes on or returns. *)
LEMMA OpTypes ==
  ASSUME TypeOK, NEW t \in Threads, NEW step \in Using
  PROVE  LET OpSet == [Threads -> [at : {"idle", "bump", "viewOccupied", "zeroizeOccupied", "zeroize"}
                                        \cup Releasing,
                                   id : GenID \cup {<<>>}, cells : SUBSET Cells]]
         IN  [op EXCEPT ![t] = NoOp] \in OpSet /\ [op EXCEPT ![t].at = step] \in OpSet
<1>1. NoOp \in [at : {"idle", "bump", "viewOccupied", "zeroizeOccupied", "zeroize"}
                       \cup Releasing,
                 id : GenID \cup {<<>>}, cells : SUBSET Cells]
  BY DEF NoOp
<1> QED
  BY <1>1 DEF TypeOK, Using

(* A call that goes on from one step to the next, or returns, and leaves   *)
(* the shared state alone.                                                 *)
LEMMA PrivateStep ==
  ASSUME ArenaInv, NEW t \in Threads,
         op[t].at \in {"viewOccupied", "zeroizeOccupied", "zeroize", "releaseOccupied"},
         \/ op' = [op EXCEPT ![t] = NoOp]
         \/ op[t].at = "zeroizeOccupied" /\ op' = [op EXCEPT ![t].at = "zeroize"]
         \/ op[t].at = "releaseOccupied" /\ op' = [op EXCEPT ![t].at = "wipe"],
         UNCHANGED <<occupied, version, births, live, stale>>
  PROVE  /\ \A u \in Threads \ {t} : op'[u] = op[u]
         /\ op'[t] = NoOp \/ /\ op'[t].at \in {"zeroize", "wipe"} /\ op'[t].id = op[t].id
                             /\ op'[t].cells = op[t].cells /\ op[t].id \in live
                             /\ op[t].at = "zeroizeOccupied" <=> op'[t].at = "zeroize"
                             /\ op[t].at = "releaseOccupied" <=> op'[t].at = "wipe"
         /\ IdsAreOdd' /\ VersionsCount'
         /\ LiveOwns' /\ MakersOwn' /\ OccupiedIsOwned' /\ StaleIsPast'
<1> USE DEF ArenaInv
<1>1. \A u \in Threads \ {t} : op'[u] = op[u]
  BY DEF TypeOK
<1>2. op'[t] = NoOp \/ /\ op'[t].at \in {"zeroize", "wipe"} /\ op'[t].id = op[t].id
                       /\ op'[t].cells = op[t].cells /\ op[t].id \in live
                       /\ op[t].at = "zeroizeOccupied" <=> op'[t].at = "zeroize"
                       /\ op[t].at = "releaseOccupied" <=> op'[t].at = "wipe"
  BY DEF TypeOK, UsersHaveLive, Using, Releasing
<1>3. op'[t].at \notin {"bump", "giveBack"}
  BY <1>2 DEF NoOp
<1>4. IdsAreOdd' /\ StaleIsPast'
  BY DEF IdsAreOdd, StaleIsPast
<1>5. VersionsCount'
  BY <1>1, <1>3 DEF VersionsCount
<1>6. LiveOwns' /\ MakersOwn' /\ OccupiedIsOwned'
  BY <1>1, <1>3 DEF LiveOwns, MakersOwn, OccupiedIsOwned
<1> QED
  BY <1>1, <1>2, <1>4, <1>5, <1>6

(* view() then asks whether the slot is occupied, and gives the span or refuses. *)
LEMMA ViewOccupiedStep ==
  ASSUME ArenaInv, NEW t \in Threads, ViewOccupied(t)
  PROVE  ArenaInv'
<1> USE DEF ArenaInv
<1>1. /\ op[t].at = "viewOccupied" /\ op' = [op EXCEPT ![t] = NoOp]
      /\ UNCHANGED <<occupied, version, die, births, live, stale>>
      /\ \/ span' = span
         \/ span' = [span EXCEPT ![t] = [id |-> op[t].id, cells |-> op[t].cells]]
  BY DEF ViewOccupied, Return
<1>2. /\ \A u \in Threads \ {t} : op'[u] = op[u]
      /\ IdsAreOdd' /\ VersionsCount'
      /\ LiveOwns' /\ MakersOwn' /\ OccupiedIsOwned' /\ StaleIsPast'
  BY <1>1, PrivateStep
<1>3. op[t].id \in live /\ op'[t] = NoOp
  BY <1>1 DEF UsersHaveLive, Using, TypeOK
<1>4. /\ \A u \in Threads \ {t} : span'[u] = span[u]
      /\ span'[t] = span[t] \/ span'[t] = [id |-> op[t].id, cells |-> op[t].cells]
  BY <1>1 DEF TypeOK
<1>5. TypeOK'
  <2>1. [id |-> op[t].id, cells |-> op[t].cells] \in [id : GenID \cup {<<>>}, cells : SUBSET Cells]
    BY DEF TypeOK
  <2>2. span' \in [Threads -> [id : GenID \cup {<<>>}, cells : SUBSET Cells]]
    BY <1>1, <2>1 DEF TypeOK
  <2> QED
    BY <1>1, <2>2, OpTypes DEF TypeOK, Using
<1>6. UsersHaveLive'
  BY <1>1, <1>2, <1>3, <1>4 DEF UsersHaveLive, Using, Releasing, NoOp, NoSpan
<1>7. ReleaserIsAlone'
  BY <1>1, <1>2, <1>3, <1>4 DEF ReleaserIsAlone, Using, Releasing, NoOp
<1>8. MemoryIsOwned' /\ WipedIsZero'
  BY <1>1, <1>2, <1>3 DEF MemoryIsOwned, WipedIsZero, NoOp
<1> QED
  BY <1>2, <1>5, <1>6, <1>7, <1>8

(* zeroizeSubSlot() asks the same before it wipes. *)
LEMMA ZeroizeOccupiedStep ==
  ASSUME ArenaInv, NEW t \in Threads, ZeroizeOccupied(t)
  PROVE  ArenaInv'
<1> USE DEF ArenaInv
<1>1. /\ op[t].at = "zeroizeOccupied"
      /\ op' = [op EXCEPT ![t] = NoOp] \/ op' = [op EXCEPT ![t].at = "zeroize"]
      /\ UNCHANGED <<occupied, version, die, births, live, stale, span>>
  BY DEF ZeroizeOccupied, Return, GoOn
<1>2. /\ \A u \in Threads \ {t} : op'[u] = op[u]
      /\ op'[t] = NoOp \/ /\ op'[t].at = "zeroize" /\ op'[t].id = op[t].id
                          /\ op'[t].cells = op[t].cells /\ op[t].id \in live
      /\ IdsAreOdd' /\ VersionsCount'
      /\ LiveOwns' /\ MakersOwn' /\ OccupiedIsOwned' /\ StaleIsPast'
  BY <1>1, PrivateStep
<1>3. TypeOK'
  <2>1. CASE op' = [op EXCEPT ![t] = NoOp]
    BY <1>1, <2>1, OpTypes DEF TypeOK, Using
  <2>2. CASE op' = [op EXCEPT ![t].at = "zeroize"]
    BY <1>1, <2>2, OpTypes DEF TypeOK, Using, Releasing
  <2> QED
    BY <1>1, <2>1, <2>2
<1>4. UsersHaveLive'
  BY <1>1, <1>2 DEF UsersHaveLive, Using, Releasing, NoOp
<1>5. ReleaserIsAlone'
  BY <1>1, <1>2 DEF ReleaserIsAlone, Using, Releasing, NoOp
<1>6. MemoryIsOwned' /\ WipedIsZero'
  BY <1>1, <1>2 DEF MemoryIsOwned, WipedIsZero, NoOp
<1> QED
  BY <1>2, <1>3, <1>4, <1>5, <1>6

(* zeroizeSubSlot() wipes a cell of a live slot. *)
LEMMA ZeroizeStep ==
  ASSUME ArenaInv, NEW t \in Threads, Zeroize(t)
  PROVE  ArenaInv'
<1> USE VersionFacts DEF ArenaInv
<1> DEFINE s == op[t].id.slot
<1>1. /\ op[t].at = "zeroize" /\ op' = [op EXCEPT ![t] = NoOp]
      /\ UNCHANGED <<occupied, version, births, live, stale, span>>
      /\ die' = [die EXCEPT ![s] = [c \in Cells |-> IF c \in op[t].cells THEN 0 ELSE die[s][c]]]
  BY DEF Zeroize, Return
<1>2. /\ \A u \in Threads \ {t} : op'[u] = op[u]
      /\ IdsAreOdd' /\ VersionsCount'
      /\ LiveOwns' /\ MakersOwn' /\ OccupiedIsOwned' /\ StaleIsPast'
  BY <1>1, PrivateStep
<1>3. op'[t] = NoOp /\ op[t].id \in live /\ s \in Slots
  BY <1>1 DEF UsersHaveLive, Using, TypeOK, GenID
<1>4. /\ die'[s] = [c \in Cells |-> IF c \in op[t].cells THEN 0 ELSE die[s][c]]
      /\ \A r \in Slots \ {s} : die'[r] = die[r]
  BY <1>1, <1>3 DEF TypeOK
<1>5. TypeOK'
  <2>1. die'[s] \in [Cells -> 0 .. MaxBirths]
    BY <1>3, <1>4 DEF TypeOK
  <2>2. die' \in [Slots -> [Cells -> 0 .. MaxBirths]]
    BY <1>1, <1>3, <1>4, <2>1 DEF TypeOK
  <2> QED
    BY <1>1, <2>2 DEF TypeOK, NoOp
<1>6. UsersHaveLive' /\ ReleaserIsAlone'
  BY <1>1, <1>2, <1>3 DEF UsersHaveLive, ReleaserIsAlone, Using, Releasing, NoOp
<1>7. MemoryIsOwned'
  BY <1>1, <1>3, <1>4 DEF MemoryIsOwned
<1>8. WipedIsZero'
  <2>1. ASSUME NEW u \in Threads, op[u].at \in {"unversion", "giveBack"}
        PROVE  op[u].id.slot # s /\ op[u].id.slot \in Slots
    <3>1. op[u].id \in live /\ op[u].id # op[t].id
      BY <1>1, <2>1 DEF UsersHaveLive, ReleaserIsAlone, Using, Releasing
    <3> QED
      BY <1>3, <3>1, LiveDistinct DEF TypeOK, GenID
  <2> QED
    BY <1>2, <1>3, <1>4, <2>1 DEF WipedIsZero, NoOp
<1> QED
  BY <1>2, <1>5, <1>6, <1>7, <1>8

(* A caller writes through the span it holds. *)
LEMMA WriteStep ==
  ASSUME ArenaInv, NEW t \in Threads, NEW c \in Cells, Write(t, c)
  PROVE  ArenaInv'
<1> USE VersionFacts DEF ArenaInv
<1> DEFINE s == span[t].id.slot
<1>1. /\ c \in span[t].cells
      /\ UNCHANGED <<occupied, version, births, live, stale, op, span>>
      /\ die' = [die EXCEPT ![s][c] = span[t].id.birth]
  BY DEF Write
<1>2. span[t] # NoSpan /\ span[t].id \in live /\ s \in Slots
  BY <1>1 DEF UsersHaveLive, TypeOK, GenID
<1>3. span[t].id.birth = births[s] /\ births[s] \in 0 .. MaxBirths
  BY <1>2 DEF LiveOwns, TypeOK
<1>4. /\ die'[s][c] = births[s]
      /\ \A d \in Cells \ {c} : die'[s][d] = die[s][d]
      /\ \A r \in Slots \ {s} : die'[r] = die[r]
  BY <1>1, <1>2, <1>3 DEF TypeOK
<1>5. TypeOK'
  BY <1>1, <1>2, <1>3, SMTT(60) DEF TypeOK
<1>6. MemoryIsOwned'
  BY <1>1, <1>2, <1>4 DEF MemoryIsOwned
<1>7. WipedIsZero'
  <2>1. ASSUME NEW u \in Threads, op[u].at \in {"unversion", "giveBack"}
        PROVE  op[u].id.slot # s /\ op[u].id.slot \in Slots
    <3>1. op[u].id \in live /\ op[u].id # span[t].id
      BY <1>2, <2>1 DEF UsersHaveLive, ReleaserIsAlone, Using, Releasing
    <3> QED
      BY <1>2, <3>1, LiveDistinct DEF TypeOK, GenID
  <2> QED
    BY <1>1, <1>4, <2>1 DEF WipedIsZero
<1>8. IdsAreOdd' /\ VersionsCount' /\ StaleIsPast' /\ LiveOwns' /\ MakersOwn' /\ OccupiedIsOwned'
  BY <1>1 DEF IdsAreOdd, VersionsCount, StaleIsPast, LiveOwns, MakersOwn, OccupiedIsOwned
<1>9. UsersHaveLive' /\ ReleaserIsAlone'
  BY <1>1 DEF UsersHaveLive, ReleaserIsAlone
<1> QED
  BY <1>5, <1>6, <1>7, <1>8, <1>9

(* A caller lets its span go. *)
LEMMA DropSpanStep ==
  ASSUME ArenaInv, NEW t \in Threads, DropSpan(t)
  PROVE  ArenaInv'
<1> USE DEF ArenaInv
<1>1. /\ span' = [span EXCEPT ![t] = NoSpan]
      /\ UNCHANGED <<occupied, version, die, births, live, stale, op>>
  BY DEF DropSpan
<1>2. span'[t] = NoSpan /\ \A u \in Threads \ {t} : span'[u] = span[u]
  BY <1>1 DEF TypeOK
<1>3. TypeOK'
  BY <1>1 DEF TypeOK, NoSpan
<1>4. UsersHaveLive' /\ ReleaserIsAlone'
  BY <1>1, <1>2 DEF UsersHaveLive, ReleaserIsAlone, NoSpan
<1>5. IdsAreOdd' /\ VersionsCount' /\ StaleIsPast' /\ LiveOwns' /\ MakersOwn' /\ OccupiedIsOwned'
  BY <1>1 DEF IdsAreOdd, VersionsCount, StaleIsPast, LiveOwns, MakersOwn, OccupiedIsOwned
<1>6. MemoryIsOwned' /\ WipedIsZero'
  BY <1>1 DEF MemoryIsOwned, WipedIsZero
<1> QED
  BY <1>3, <1>4, <1>5, <1>6

-----------------------------------------------------------------------------
(* release() *)

(* release() reads the version, and only the owner goes on from it. *)
LEMMA ReleaseVersionStep ==
  ASSUME ArenaInv, NEW t \in Threads, NEW id \in live \cup stale, ReleaseVersion(t, id)
  PROVE  ArenaInv'
<1> USE DEF ArenaInv
<1>1. /\ op[t] = NoOp /\ version[id.slot] = id.version
      /\ id \in live => \A u \in Threads : ~UsedBy(u, id)
      /\ op' = [op EXCEPT ![t] = [at |-> "releaseOccupied", id |-> id, cells |-> {}]]
      /\ UNCHANGED <<occupied, version, die, births, live, stale, span>>
  BY DEF ReleaseVersion, Idle
<1>2. id \in live /\ \A u \in Threads : op[u].id # id /\ span[u].id # id
  BY <1>1, MatchIsLive DEF UsedBy
<1>3. /\ op'[t] = [at |-> "releaseOccupied", id |-> id, cells |-> {}]
      /\ \A u \in Threads \ {t} : op'[u] = op[u]
  BY <1>1 DEF TypeOK
<1>4. TypeOK'
  BY <1>1 DEF TypeOK, Releasing
<1>5. IdsAreOdd' /\ StaleIsPast' /\ MemoryIsOwned'
  BY <1>1 DEF IdsAreOdd, StaleIsPast, MemoryIsOwned
<1>6. VersionsCount'
  BY <1>1, <1>3 DEF VersionsCount, NoOp
<1>7. LiveOwns' /\ MakersOwn' /\ OccupiedIsOwned'
  BY <1>1, <1>3 DEF LiveOwns, MakersOwn, OccupiedIsOwned, NoOp
<1>8. UsersHaveLive'
  BY <1>1, <1>2, <1>3 DEF UsersHaveLive, Using, Releasing
<1>9. ReleaserIsAlone'
  BY <1>1, <1>2, <1>3 DEF ReleaserIsAlone, Using, Releasing
<1>10. WipedIsZero'
  BY <1>1, <1>3 DEF WipedIsZero
<1> QED
  BY <1>4, <1>5, <1>6, <1>7, <1>8, <1>9, <1>10

(* release() asks whether the slot is occupied. *)
LEMMA ReleaseOccupiedStep ==
  ASSUME ArenaInv, NEW t \in Threads, ReleaseOccupied(t)
  PROVE  ArenaInv'
<1> USE DEF ArenaInv
<1>1. /\ op[t].at = "releaseOccupied"
      /\ op' = [op EXCEPT ![t] = NoOp] \/ op' = [op EXCEPT ![t].at = "wipe"]
      /\ UNCHANGED <<occupied, version, die, births, live, stale, span>>
  BY DEF ReleaseOccupied, Return, GoOn
<1>2. /\ \A u \in Threads \ {t} : op'[u] = op[u]
      /\ op'[t] = NoOp \/ /\ op'[t].at = "wipe" /\ op'[t].id = op[t].id
                          /\ op'[t].cells = op[t].cells /\ op[t].id \in live
      /\ IdsAreOdd' /\ VersionsCount'
      /\ LiveOwns' /\ MakersOwn' /\ OccupiedIsOwned' /\ StaleIsPast'
  BY <1>1, PrivateStep
<1>3. TypeOK'
  <2>1. CASE op' = [op EXCEPT ![t] = NoOp]
    BY <1>1, <2>1, OpTypes DEF TypeOK, Using
  <2>2. CASE op' = [op EXCEPT ![t].at = "wipe"]
    BY <1>1, <2>2, OpTypes DEF TypeOK, Using, Releasing
  <2> QED
    BY <1>1, <2>1, <2>2
<1>4. UsersHaveLive'
  BY <1>1, <1>2 DEF UsersHaveLive, Using, Releasing, NoOp
<1>5. ReleaserIsAlone'
  BY <1>1, <1>2 DEF ReleaserIsAlone, Using, Releasing, NoOp
<1>6. MemoryIsOwned' /\ WipedIsZero'
  BY <1>1, <1>2 DEF MemoryIsOwned, WipedIsZero, NoOp
<1> QED
  BY <1>2, <1>3, <1>4, <1>5, <1>6

(* release() wipes the slot while its bit is still taken. *)
LEMMA ReleaseWipeStep ==
  ASSUME ArenaInv, NEW t \in Threads, ReleaseWipe(t)
  PROVE  ArenaInv'
<1> USE VersionFacts DEF ArenaInv
<1> DEFINE s == op[t].id.slot
<1>1. /\ op[t].at = "wipe" /\ op' = [op EXCEPT ![t].at = "unversion"]
      /\ UNCHANGED <<occupied, version, births, live, stale, span>>
      /\ die' = [die EXCEPT ![s] = Zeroes]
  BY DEF ReleaseWipe, GoOn
<1>2. op[t].id \in live /\ s \in Slots
  BY <1>1 DEF UsersHaveLive, Using, Releasing, TypeOK, GenID
<1>3. /\ op'[t].at = "unversion" /\ op'[t].id = op[t].id
      /\ \A u \in Threads \ {t} : op'[u] = op[u]
  BY <1>1 DEF TypeOK
<1>4. /\ die'[s] = Zeroes
      /\ \A r \in Slots \ {s} : die'[r] = die[r]
  BY <1>1, <1>2 DEF TypeOK
<1>5. TypeOK'
  <2>1. die' \in [Slots -> [Cells -> 0 .. MaxBirths]]
    <3>1. Zeroes \in [Cells -> 0 .. MaxBirths]
      BY DEF Zeroes
    <3> QED
      BY <1>1, <3>1 DEF TypeOK
  <2> QED
    BY <1>1, <2>1, OpTypes DEF TypeOK, Using, Releasing
<1>6. IdsAreOdd' /\ StaleIsPast'
  BY <1>1 DEF IdsAreOdd, StaleIsPast
<1>7. VersionsCount'
  BY <1>1, <1>3 DEF VersionsCount
<1>8. LiveOwns' /\ MakersOwn' /\ OccupiedIsOwned'
  BY <1>1, <1>3 DEF LiveOwns, MakersOwn, OccupiedIsOwned
<1>9. UsersHaveLive'
  BY <1>1, <1>2, <1>3 DEF UsersHaveLive, Using, Releasing
<1>10. ReleaserIsAlone'
  BY <1>1, <1>3 DEF ReleaserIsAlone, Using, Releasing
<1>11. MemoryIsOwned'
  BY <1>1, <1>2, <1>4 DEF MemoryIsOwned, Zeroes
<1>12. WipedIsZero'
  <2>1. \A u \in Threads : op[u].at \in {"unversion", "giveBack"} => op[u].id.slot \in Slots
    BY DEF UsersHaveLive, Using, Releasing, TypeOK, GenID
  <2> QED
    BY <1>2, <1>3, <1>4, <2>1 DEF WipedIsZero
<1> QED
  BY <1>5, <1>6, <1>7, <1>8, <1>9, <1>10, <1>11, <1>12

(* release() makes the version even: the GenID is stale from here on. *)
LEMMA ReleaseBumpStep ==
  ASSUME ArenaInv, NEW t \in Threads, ReleaseBump(t)
  PROVE  ArenaInv'
<1> USE VersionFacts DEF ArenaInv
<1> DEFINE s == op[t].id.slot
<1>1. /\ op[t].at = "unversion" /\ op' = [op EXCEPT ![t].at = "giveBack"]
      /\ UNCHANGED <<occupied, die, births, live, stale, span>>
      /\ version' = [version EXCEPT ![s] = Bumped(s)]
  BY DEF ReleaseBump, GoOn
<1>2. /\ op[t].id \in live /\ op[t].id \in GenID /\ s \in Slots /\ s \in occupied
      /\ op[t].id.birth = births[s] /\ op[t].id.version = 2 * births[s] - 1
  BY <1>1 DEF UsersHaveLive, Using, Releasing, TypeOK, GenID, LiveOwns, IdsAreOdd
<1>3. /\ op'[t].at = "giveBack" /\ op'[t].id = op[t].id
      /\ \A u \in Threads \ {t} : op'[u] = op[u]
  BY <1>1 DEF TypeOK
<1>4. Bumped(s) = Wrapped(2 * births[s]) /\ Bumped(s) \in 0 .. VersionMod - 1
  <2>1. \A u \in Threads : ~(op[u].at = "giveBack" /\ op[u].id = op[t].id)
    BY <1>1 DEF ReleaserIsAlone, Using, Releasing
  <2>2. version[s] = 2 * births[s] - 1 /\ version[s] \in 0 .. VersionMod - 1
    BY <1>2, <2>1 DEF VersionsCount, TypeOK
  <2>3. Bumped(s) = Wrapped(version[s] + 1)
    BY <2>2, BumpedIs DEF Bumped
  <2>4. births[s] \in 0 .. MaxBirths
    BY <1>2 DEF TypeOK
  <2> QED
    BY <2>2, <2>3, <2>4 DEF Wrapped
<1>5. /\ version'[s] = Wrapped(2 * births[s])
      /\ \A r \in Slots \ {s} : version'[r] = version[r]
  BY <1>1, <1>2, <1>4 DEF TypeOK
<1>6. \A u \in Threads \ {t} : op[u].at \in Using \cup {"bump"} =>
        op[u].id.slot # s /\ op[u].id.slot \in Slots
  <2>1. ASSUME NEW u \in Threads \ {t}, op[u].at = "bump"
        PROVE  op[u].id.slot # s /\ op[u].id.slot \in Slots
    BY <1>2, <2>1 DEF LiveOwns, MakersOwn, GenID
  <2>2. ASSUME NEW u \in Threads \ {t}, op[u].at \in Using
        PROVE  op[u].id.slot # s /\ op[u].id.slot \in Slots
    <3>1. op[u].id \in live /\ op[u].id # op[t].id
      BY <1>1, <2>2 DEF UsersHaveLive, ReleaserIsAlone, Releasing
    <3> QED
      BY <1>2, <3>1, LiveDistinct DEF TypeOK, GenID
  <2> QED
    BY <2>1, <2>2
<1>7. TypeOK'
  <2>1. version' \in [Slots -> 0 .. VersionMod - 1]
    BY <1>1, <1>4 DEF TypeOK
  <2> QED
    BY <1>1, <2>1, OpTypes DEF TypeOK, Using, Releasing
<1>8. IdsAreOdd' /\ StaleIsPast'
  BY <1>1 DEF IdsAreOdd, StaleIsPast
<1>9. VersionsCount'
  <2>1. \A r \in Slots \ occupied' : version'[r] = Wrapped(2 * births'[r])
    BY <1>1, <1>2, <1>5 DEF VersionsCount
  <2>2. \A u \in Threads : op'[u].at = "bump" =>
          version'[op'[u].id.slot] = 2 * births'[op'[u].id.slot] - 2
    BY <1>1, <1>3, <1>5, <1>6 DEF VersionsCount
  <2>3. \A u \in Threads : op'[u].at = "giveBack" =>
          version'[op'[u].id.slot] = Wrapped(2 * births'[op'[u].id.slot])
    BY <1>1, <1>3, <1>5, <1>6 DEF VersionsCount, Using, Releasing
  <2>4. ASSUME NEW o \in live, \A u \in Threads : ~(op'[u].at = "giveBack" /\ op'[u].id = o)
        PROVE  version'[o.slot] = o.version
    <3>1. o # op[t].id
      BY <1>3, <2>4
    <3>2. o.slot # s /\ o.slot \in Slots
      BY <1>2, <3>1, LiveDistinct DEF TypeOK, GenID
    <3>3. \A u \in Threads : ~(op[u].at = "giveBack" /\ op[u].id = o)
      BY <1>1, <1>3, <2>4
    <3> QED
      BY <1>5, <3>2, <3>3 DEF VersionsCount
  <2> QED
    BY <1>1, <2>1, <2>2, <2>3, <2>4 DEF VersionsCount
<1>10. LiveOwns' /\ MakersOwn' /\ OccupiedIsOwned'
  BY <1>1, <1>3 DEF LiveOwns, MakersOwn, OccupiedIsOwned
<1>11. UsersHaveLive'
  BY <1>1, <1>2, <1>3 DEF UsersHaveLive, Using, Releasing
<1>12. ReleaserIsAlone'
  BY <1>1, <1>3 DEF ReleaserIsAlone, Using, Releasing
<1>13. MemoryIsOwned' /\ WipedIsZero'
  BY <1>1, <1>3 DEF MemoryIsOwned, WipedIsZero
<1> QED
  BY <1>7, <1>8, <1>9, <1>10, <1>11, <1>12, <1>13

(* release() gives the bit back, and the slot has no owner any more. *)
LEMMA ReleaseGiveBackStep ==
  ASSUME ArenaInv, NEW t \in Threads, ReleaseGiveBack(t)
  PROVE  ArenaInv'
<1> USE VersionFacts DEF ArenaInv
<1> DEFINE s == op[t].id.slot
<1>1. /\ op[t].at = "giveBack" /\ op' = [op EXCEPT ![t] = NoOp]
      /\ UNCHANGED <<version, die, births, span>>
      /\ occupied' = occupied \ {s}
      /\ live' = live \ {op[t].id} /\ stale' = stale \cup {op[t].id}
  BY DEF ReleaseGiveBack, Return
<1>2. /\ op[t].id \in live /\ op[t].id \in GenID /\ s \in Slots
      /\ op[t].id.birth = births[s] /\ op[t].id.version = 2 * births[s] - 1
  BY <1>1 DEF UsersHaveLive, Using, Releasing, TypeOK, GenID, LiveOwns, IdsAreOdd
<1>3. op'[t] = NoOp /\ \A u \in Threads \ {t} : op'[u] = op[u]
  BY <1>1 DEF TypeOK
<1>4. \A o \in live' : o \in live /\ o.slot # s /\ o.slot \in Slots
  BY <1>1, <1>2, LiveDistinct DEF TypeOK, GenID
<1>5. \A u \in Threads \ {t} : op[u].at \in Using => op[u].id \in live'
  BY <1>1 DEF UsersHaveLive, ReleaserIsAlone, Releasing
<1>6. \A u \in Threads \ {t} : op[u].at = "bump" => op[u].id.slot # s
  BY <1>2 DEF LiveOwns
<1>7. TypeOK'
  BY <1>1, <1>2, OpTypes DEF TypeOK, Using, Releasing
<1>8. IdsAreOdd'
  BY <1>1, <1>2 DEF IdsAreOdd
<1>9. StaleIsPast'
  BY <1>1, <1>2 DEF StaleIsPast, TypeOK
<1>10. VersionsCount'
  <2>1. version[s] = Wrapped(2 * births[s])
    BY <1>1 DEF VersionsCount
  <2>2. ASSUME NEW o \in live', \A u \in Threads : ~(op'[u].at = "giveBack" /\ op'[u].id = o)
        PROVE  version[o.slot] = o.version
    <3>1. \A u \in Threads : ~(op[u].at = "giveBack" /\ op[u].id = o)
      BY <1>1, <1>3, <2>2
    <3> QED
      BY <1>4, <3>1 DEF VersionsCount
  <2> QED
    BY <1>1, <1>3, <2>1, <2>2 DEF VersionsCount, NoOp
<1>11. LiveOwns'
  BY <1>1, <1>3, <1>4 DEF LiveOwns, NoOp
<1>12. MakersOwn'
  BY <1>1, <1>3, <1>6 DEF MakersOwn, NoOp
<1>13. OccupiedIsOwned'
  BY <1>1, <1>3 DEF OccupiedIsOwned
<1>14. UsersHaveLive'
  <2>1. \A u \in Threads : span[u] # NoSpan => span[u].id \in live'
    BY <1>1 DEF UsersHaveLive, ReleaserIsAlone, Releasing
  <2> QED
    BY <1>1, <1>3, <1>5, <2>1 DEF UsersHaveLive, Using, Releasing, NoOp
<1>15. ReleaserIsAlone'
  BY <1>1, <1>3 DEF ReleaserIsAlone, Using, Releasing, NoOp
<1>16. MemoryIsOwned'
  <2>1. die[s] = Zeroes
    BY <1>1 DEF WipedIsZero
  <2>2. ASSUME NEW r \in Slots, \A id \in live' : id.slot # r
        PROVE  die[r] = Zeroes
    BY <1>1, <2>1, <2>2 DEF MemoryIsOwned
  <2> QED
    BY <1>1, <2>2 DEF MemoryIsOwned
<1>17. WipedIsZero'
  BY <1>1, <1>3 DEF WipedIsZero, NoOp
<1> QED
  BY <1>7, <1>8, <1>9, <1>10, <1>11, <1>12, <1>13, <1>14, <1>15, <1>16, <1>17

-----------------------------------------------------------------------------
(* Every step keeps the invariant. *)
LEMMA StepKeepsArena == ArenaInv /\ [Next]_vars => ArenaInv'
<1> SUFFICES ASSUME ArenaInv, [Next]_vars PROVE ArenaInv'
  OBVIOUS
<1>1. ASSUME NEW t \in Threads, Step(t)
      PROVE  ArenaInv'
  BY <1>1, AllocateBumpStep, ViewOccupiedStep, ZeroizeOccupiedStep, ZeroizeStep,
     ReleaseOccupiedStep, ReleaseWipeStep, ReleaseBumpStep, ReleaseGiveBackStep DEF Step
<1>2. ASSUME NEW t \in Threads, Call(t)
      PROVE  ArenaInv'
  <2>1. ASSUME NEW id \in live \cup stale, ViewVersion(t, id, Cells, "viewOccupied")
        PROVE  ArenaInv'
    BY <2>1, ViewVersionStep
  <2>2. ASSUME NEW id \in live \cup stale, NEW c \in Cells,
               NEW step \in {"viewOccupied", "zeroizeOccupied"}, ViewVersion(t, id, {c}, step)
        PROVE  ArenaInv'
    BY <2>2, ViewVersionStep
  <2> QED
    BY <1>2, <2>1, <2>2, AllocateTakeStep, ReleaseVersionStep, WriteStep, DropSpanStep DEF Call
<1>3. CASE UNCHANGED vars
  BY <1>3 DEF vars, ArenaInv, TypeOK, IdsAreOdd, VersionsCount, LiveOwns, MakersOwn,
              OccupiedIsOwned, StaleIsPast, UsersHaveLive, ReleaserIsAlone, MemoryIsOwned, WipedIsZero
<1> QED
  BY <1>1, <1>2, <1>3 DEF Next

(* The inductive invariant of FractalArena (fractal_arena.hpp): who owns a taken bit, what
   the versions count, and that a release has its slot to itself. *)
THEOREM ArenaInvariant == Spec => []ArenaInv
<1> QED
  BY InitArena, StepKeepsArena, PTL DEF Spec

(* Every variable of the arena keeps its type; the versions stay within    *)
(* the bits a GenID has for them.                                          *)
THEOREM ArenaTypeCorrect == Spec => []TypeOK
<1>1. ArenaInv => TypeOK
  BY DEF ArenaInv
<1> QED
  BY <1>1, ArenaInvariant, PTL

(* ABA safety: view(), zeroizeSubSlot() and release() never get   *)
(* past validate() with a GenID of an earlier life, whichever releases and *)
(* allocations fall between their steps.                                   *)
THEOREM StaleNeverPasses == Spec => []StaleIsRefused
<1>1. ArenaInv => StaleIsRefused
  BY DEF ArenaInv, UsersHaveLive, Using, StaleIsRefused
<1> QED
  BY <1>1, ArenaInvariant, PTL

(* A GenID works from the end of allocate() until somebody releases it,    *)
(* and no two live ones name one slot.                                     *)
THEOREM LiveAlwaysPasses == Spec => []LiveIdsWork
<1>1. ArenaInv => LiveIdsWork
  <2> SUFFICES ASSUME ArenaInv, NEW id \in live
               PROVE  /\ id.slot \in occupied /\ id.birth = births[id.slot]
                      /\ ~BeingReleased(id) => version[id.slot] = id.version
                      /\ \A other \in live \ {id} : other.slot # id.slot
    BY DEF LiveIdsWork
  <2>1. id.slot \in occupied /\ id.birth = births[id.slot]
    BY DEF ArenaInv, LiveOwns
  <2>2. ~BeingReleased(id) => version[id.slot] = id.version
    BY DEF ArenaInv, VersionsCount, BeingReleased, Releasing
  <2>3. \A other \in live \ {id} : other.slot # id.slot
    BY LiveDistinct
  <2> QED
    BY <2>1, <2>2, <2>3
<1> QED
  BY <1>1, ArenaInvariant, PTL

(* A bit is taken exactly while one live GenID or one allocate() has it:   *)
(* no slot leaks and none is handed out twice.                             *)
THEOREM NoSlotLeaks == Spec => []OccupiedHasOwner
<1>1. ArenaInv => OccupiedHasOwner
  <2> SUFFICES ASSUME ArenaInv, NEW s \in Slots
               PROVE  LET owners == {id \in live : id.slot = s}
                          makers == {t \in Threads : op[t].at = "bump" /\ op[t].id.slot = s}
                      IN  /\ s \in occupied <=> owners # {} \/ makers # {}
                          /\ owners = {} \/ makers = {}
                          /\ \A t, u \in makers : t = u
    BY DEF OccupiedHasOwner
  <2> QED
    BY DEF ArenaInv, LiveOwns, MakersOwn, OccupiedIsOwned
<1> QED
  BY <1>1, ArenaInvariant, PTL

(* A slot holds zeroes or bytes of its present life, and a slot nobody has *)
(* been given holds zeroes, so nothing of one tenant reaches the next.     *)
THEOREM NoByteLeaks == Spec => []NothingLeaks
<1>1. ArenaInv => NothingLeaks
  BY DEF ArenaInv, MemoryIsOwned, NothingLeaks
<1> QED
  BY <1>1, ArenaInvariant, PTL

-----------------------------------------------------------------------------
(* The refinement of SlotArena. *)

(* The empty arena is the empty SlotArena. *)
LEMMA InitMaps == Init => Abstract!Init
BY DEF Init, Abstract!Init, Wiped, NoOp, Zeroes, Abstract!Zeroes


(* A wiped slot still has its bit, and its GenID is nobody else's. *)
LEMMA WipedHasBit ==
  ASSUME ArenaInv
  PROVE  /\ Wiped \subseteq occupied
         /\ \A t \in Threads : op[t].at \in Using => op[t].id \in GenID /\ op[t].id.slot \in occupied
         /\ \A t \in Threads : span[t] # NoSpan => span[t].id \in GenID /\ span[t].id.slot \in occupied
BY DEF ArenaInv, TypeOK, UsersHaveLive, LiveOwns, Wiped, Using, Releasing

(* A slot in use by a call or a span of another kind is not a wiped one. *)
LEMMA UsedIsNotWiped ==
  ASSUME ArenaInv, NEW id \in live,
         \A t \in Threads : op[t].at \in {"unversion", "giveBack"} => op[t].id # id
  PROVE  id.slot \in occupied \ Wiped
<1>1. \A t \in Threads : op[t].at \in {"unversion", "giveBack"} => op[t].id \in live
  BY DEF ArenaInv, UsersHaveLive, Using, Releasing
<1>2. \A t \in Threads : op[t].at \in {"unversion", "giveBack"} => op[t].id.slot # id.slot
  BY <1>1, LiveDistinct
<1> QED
  BY <1>2 DEF Wiped, ArenaInv, LiveOwns

(* The steps that change no thread's membership in Wiped. *)
LEMMA WipedKept ==
  ASSUME NEW t \in Threads,
         op[t].at \notin {"unversion", "giveBack"} \/ op'[t].at = "giveBack",
         op'[t].at \notin {"unversion", "giveBack"} \/ op[t].at = "unversion",
         op'[t].id.slot = op[t].id.slot \/ op[t].at # "unversion",
         \A u \in Threads \ {t} : op'[u] = op[u]
  PROVE  Wiped' = Wiped
BY DEF Wiped

(* Taking the bit is where the abstract slot is allocated. *)
LEMMA AllocateTakeMaps ==
  ASSUME ArenaInv, NEW t \in Threads, NEW s \in Slots, AllocateTake(t, s)
  PROVE  Abstract!Allocate(s)
<1> USE DEF ArenaInv
<1>1. /\ op[t] = NoOp /\ s \notin occupied /\ births[s] < MaxBirths
      /\ occupied' = occupied \cup {s}
      /\ births' = [births EXCEPT ![s] = @ + 1] /\ die' = die
      /\ op'[t].at = "bump" /\ \A u \in Threads \ {t} : op'[u] = op[u]
  BY DEF AllocateTake, Idle, TypeOK
<1>2. Wiped' = Wiped
  BY <1>1, WipedKept DEF NoOp
<1>3. s \notin Wiped
  BY <1>1, WipedHasBit
<1> QED
  BY <1>1, <1>2, <1>3 DEF Abstract!Allocate

(* Steps that only read, count or hand over are invisible. *)
LEMMA PrivateStepMaps ==
  ASSUME ArenaInv, NEW t \in Threads,
         \/ AllocateBump(t) \/ ViewOccupied(t) \/ ZeroizeOccupied(t)
         \/ ReleaseOccupied(t) \/ ReleaseBump(t) \/ DropSpan(t)
         \/ \E id \in live \cup stale :
              \/ ReleaseVersion(t, id)
              \/ \E cells \in SUBSET Cells, step \in {"viewOccupied", "zeroizeOccupied"} :
                   ViewVersion(t, id, cells, step)
  PROVE  UNCHANGED Abstract!vars
<1> USE DEF ArenaInv
<1>1. births' = births /\ occupied' = occupied /\ die' = die
  BY DEF AllocateBump, ViewOccupied, ZeroizeOccupied, ReleaseOccupied, ReleaseBump, DropSpan,
         ReleaseVersion, ViewVersion
<1>2. Wiped' = Wiped
  <2>1. CASE DropSpan(t)
    BY <2>1 DEF DropSpan, Wiped
  <2>2. CASE ReleaseBump(t)
    BY <2>2, WipedKept DEF ReleaseBump, GoOn, TypeOK
  <2>3. CASE AllocateBump(t) \/ ViewOccupied(t)
    <3>1. /\ op[t].at \in {"bump", "viewOccupied"} /\ op' = [op EXCEPT ![t] = NoOp]
      BY <2>3 DEF AllocateBump, ViewOccupied, Return
    <3>2. op'[t].at = "idle" /\ \A u \in Threads \ {t} : op'[u] = op[u]
      BY <3>1 DEF TypeOK, NoOp
    <3> QED
      BY <3>1, <3>2, WipedKept
  <2>4. CASE ZeroizeOccupied(t) \/ ReleaseOccupied(t)
    <3>1. op[t].at \in {"zeroizeOccupied", "releaseOccupied"}
      BY <2>4 DEF ZeroizeOccupied, ReleaseOccupied
    <3>2. \/ op' = [op EXCEPT ![t] = NoOp] \/ op' = [op EXCEPT ![t].at = "zeroize"]
          \/ op' = [op EXCEPT ![t].at = "wipe"]
      BY <2>4 DEF ZeroizeOccupied, ReleaseOccupied, GoOn, Return
    <3>3. op'[t].at \in {"idle", "zeroize", "wipe"}
      BY <3>2 DEF TypeOK, NoOp
    <3>4. \A u \in Threads \ {t} : op'[u] = op[u]
      BY <3>2 DEF TypeOK
    <3> QED
      BY <3>1, <3>3, <3>4, WipedKept
  <2>5. CASE \E id \in live \cup stale :
              \/ ReleaseVersion(t, id)
              \/ \E cells \in SUBSET Cells, step \in {"viewOccupied", "zeroizeOccupied"} :
                   ViewVersion(t, id, cells, step)
    <3>1. PICK id \in live \cup stale, cells \in SUBSET Cells,
               step \in {"viewOccupied", "zeroizeOccupied", "releaseOccupied"} :
            op[t] = NoOp /\ op' = [op EXCEPT ![t] = [at |-> step, id |-> id, cells |-> cells]]
      BY <2>5 DEF ReleaseVersion, ViewVersion, Idle
    <3>2. op[t].at = "idle" /\ op'[t].at = step /\ \A u \in Threads \ {t} : op'[u] = op[u]
      BY <3>1 DEF TypeOK, NoOp
    <3> QED
      BY <3>2, WipedKept
  <2> QED
    BY <2>1, <2>2, <2>3, <2>4, <2>5
<1> QED
  BY <1>1, <1>2 DEF Abstract!vars

(* zeroizeSubSlot() writes zeroes to one cell of an allocated slot. *)
LEMMA ZeroizeMaps ==
  ASSUME ArenaInv, NEW t \in Threads, Zeroize(t)
  PROVE  \E s \in Slots, c \in Cells : Abstract!Write(s, c)
<1> USE DEF ArenaInv
<1>1. /\ op[t].at = "zeroize"
      /\ die' = [die EXCEPT ![op[t].id.slot] = [d \in Cells |-> IF d \in op[t].cells THEN 0 ELSE @[d]]]
      /\ births' = births /\ occupied' = occupied
      /\ op'[t].at = "idle" /\ \A u \in Threads \ {t} : op'[u] = op[u]
  BY DEF Zeroize, Return, NoOp, TypeOK
<1>2. PICK c \in Cells : op[t].cells = {c}
  BY <1>1 DEF UsersHaveLive
<1>3. op[t].id \in live /\ op[t].id.slot \in Slots
  BY <1>1, WipedHasBit DEF UsersHaveLive, Using, GenID
<1>4. Wiped' = Wiped
  BY <1>1, WipedKept
<1>5. \A u \in Threads : op[u].at \in {"unversion", "giveBack"} => op[u].id # op[t].id
  BY <1>1 DEF ReleaserIsAlone, Using, Releasing
<1>6. op[t].id.slot \in occupied \ Wiped
  BY <1>3, <1>5, UsedIsNotWiped
<1> DEFINE s == op[t].id.slot
<1>7. die[s] \in [Cells -> 0 .. MaxBirths]
  BY <1>3 DEF TypeOK
<1> HIDE DEF s
<1>8. [d \in Cells |-> IF d \in op[t].cells THEN 0 ELSE die[s][d]] = [die[s] EXCEPT ![c] = 0]
  BY <1>2, <1>7
<1>9. die' = [die EXCEPT ![s] = [die[s] EXCEPT ![c] = 0]]
  BY <1>1, <1>3, <1>8 DEF s, TypeOK
<1>10. die' = [die EXCEPT ![s][c] = 0]
  BY <1>9
<1>11. Abstract!Write(s, c)
  BY <1>1, <1>4, <1>6, <1>10 DEF Abstract!Write, s
<1> QED
  BY <1>3, <1>11 DEF s

(* A write through a span writes one cell of an allocated slot. *)
LEMMA WriteMaps ==
  ASSUME ArenaInv, NEW t \in Threads, NEW c \in Cells, Write(t, c)
  PROVE  \E s \in Slots : Abstract!Write(s, c)
<1> USE DEF ArenaInv
<1> DEFINE id == span[t].id
<1>1. /\ c \in span[t].cells /\ die' = [die EXCEPT ![id.slot][c] = id.birth]
      /\ births' = births /\ occupied' = occupied /\ op' = op
  BY DEF Write
<1>2. span[t] # NoSpan /\ id \in live
  BY <1>1 DEF UsersHaveLive, NoSpan
<1>3. id.slot \in Slots /\ id.birth = births[id.slot]
  BY <1>2, WipedHasBit DEF LiveOwns, GenID, TypeOK
<1>4. Wiped' = Wiped
  BY <1>1 DEF Wiped
<1>5. \A u \in Threads : op[u].at \in {"unversion", "giveBack"} => op[u].id # id
  BY <1>2 DEF ReleaserIsAlone, Using, Releasing
<1>6. id.slot \in occupied \ Wiped
  BY <1>2, <1>5, UsedIsNotWiped
<1> HIDE DEF id
<1>7. Abstract!Write(id.slot, c)
  BY <1>1, <1>3, <1>4, <1>6 DEF Abstract!Write
<1> QED
  BY <1>3, <1>7

(* The wipe is where the abstract slot is released. *)
LEMMA ReleaseWipeMaps ==
  ASSUME ArenaInv, NEW t \in Threads, ReleaseWipe(t)
  PROVE  \E s \in Slots : Abstract!Release(s)
<1> USE DEF ArenaInv
<1> DEFINE s == op[t].id.slot
<1>1. /\ op[t].at = "wipe" /\ die' = [die EXCEPT ![s] = Zeroes]
      /\ births' = births /\ occupied' = occupied
      /\ op'[t].at = "unversion" /\ op'[t].id = op[t].id
      /\ \A u \in Threads \ {t} : op'[u] = op[u]
  BY DEF ReleaseWipe, GoOn, TypeOK
<1>2. op[t].id \in live /\ s \in Slots
  BY <1>1, WipedHasBit DEF UsersHaveLive, Using, Releasing, GenID, TypeOK
<1>3. \A u \in Threads : op[u].at \in {"unversion", "giveBack"} => op[u].id # op[t].id
  BY <1>1 DEF ReleaserIsAlone, Using, Releasing
<1>4. s \in occupied \ Wiped
  BY <1>2, <1>3, UsedIsNotWiped
<1>5. Wiped' = Wiped \cup {s}
  BY <1>1 DEF Wiped
<1>6. Abstract!Release(s)
  BY <1>1, <1>4, <1>5 DEF Abstract!Release, Abstract!Zeroes, Zeroes
<1> QED
  BY <1>2, <1>6

(* Giving the bit back is invisible: the abstract slot is empty already. *)
LEMMA ReleaseGiveBackMaps ==
  ASSUME ArenaInv, NEW t \in Threads, ReleaseGiveBack(t)
  PROVE  UNCHANGED Abstract!vars
<1> USE DEF ArenaInv
<1> DEFINE s == op[t].id.slot
<1>1. /\ op[t].at = "giveBack" /\ die' = die /\ births' = births
      /\ occupied' = occupied \ {s}
      /\ op'[t].at = "idle" /\ \A u \in Threads \ {t} : op'[u] = op[u]
  BY DEF ReleaseGiveBack, Return, NoOp, TypeOK
<1>2. \A u \in Threads : op[u].at \in {"unversion", "giveBack"} => op[u].id \in live
  BY DEF UsersHaveLive, Using, Releasing
<1>3. \A u \in Threads \ {t} : op[u].at \in {"unversion", "giveBack"} => op[u].id # op[t].id
  BY <1>1 DEF ReleaserIsAlone, Using, Releasing
<1>4. \A u \in Threads \ {t} : op[u].at \in {"unversion", "giveBack"} => op[u].id.slot # s
  BY <1>1, <1>2, <1>3, LiveDistinct
<1>5. Wiped' = Wiped \ {s} /\ s \in Wiped
  BY <1>1, <1>4 DEF Wiped
<1> QED
  BY <1>1, <1>5 DEF Abstract!vars

(* Every step of the arena is a step of SlotArena, or none. *)
LEMMA StepMaps ==
  ASSUME ArenaInv, [Next]_vars
  PROVE  [Abstract!Next]_(Abstract!vars)
<1>1. CASE UNCHANGED vars
  BY <1>1 DEF vars, Abstract!vars, Wiped
<1>2. CASE Next
  <2>1. PICK t \in Threads : Step(t) \/ Call(t)
    BY <1>2 DEF Next
  <2>2. CASE \E s \in Slots : AllocateTake(t, s)
    BY <2>2, AllocateTakeMaps DEF Abstract!Next
  <2>3. CASE \/ AllocateBump(t) \/ ViewOccupied(t) \/ ZeroizeOccupied(t)
             \/ ReleaseOccupied(t) \/ ReleaseBump(t) \/ DropSpan(t)
    BY <2>3, PrivateStepMaps
  <2>4. CASE Zeroize(t)
    BY <2>4, ZeroizeMaps DEF Abstract!Next
  <2>5. CASE \E c \in Cells : Write(t, c)
    BY <2>5, WriteMaps DEF Abstract!Next
  <2>6. CASE ReleaseWipe(t)
    BY <2>6, ReleaseWipeMaps DEF Abstract!Next
  <2>7. CASE ReleaseGiveBack(t)
    BY <2>7, ReleaseGiveBackMaps
  <2>8. CASE \E id \in live \cup stale :
               \/ ReleaseVersion(t, id)
               \/ ViewVersion(t, id, Cells, "viewOccupied")
               \/ \E c \in Cells : \/ ViewVersion(t, id, {c}, "viewOccupied")
                                   \/ ViewVersion(t, id, {c}, "zeroizeOccupied")
    <3>1. \E id \in live \cup stale :
            \/ ReleaseVersion(t, id)
            \/ \E cells \in SUBSET Cells, step \in {"viewOccupied", "zeroizeOccupied"} :
                 ViewVersion(t, id, cells, step)
      BY <2>8
    <3> QED
      BY <3>1, PrivateStepMaps
  <2> QED
    BY <2>1, <2>2, <2>3, <2>4, <2>5, <2>6, <2>7, <2>8 DEF Step, Call
<1> QED
  BY <1>1, <1>2

(* The interleaved steps of allocate(), validate() and release() implement *)
(* the atomic arena: a release takes effect when it wipes the slot, and    *)
(* until the bit is back nobody is given the slot.                         *)
THEOREM ArenaImplementsAtomicArena == Spec => ImplementsSlotArena
<1>1. ArenaInv /\ [Next]_vars => [Abstract!Next]_(Abstract!vars)
  BY StepMaps
<1> QED
  BY InitMaps, <1>1, ArenaInvariant, PTL DEF Spec, Abstract!Spec, ImplementsSlotArena

=============================================================================
