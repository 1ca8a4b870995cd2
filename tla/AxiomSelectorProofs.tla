------------------------- MODULE AxiomSelectorProofs -------------------------
(***************************************************************************)
(* AxiomSelector for every number of threads, words, bits and retries, and *)
(* for exchanges that fail spuriously: a slot is free or has one owner,    *)
(* and a sweep overlooks a free slot only if it was disturbed.             *)
(***************************************************************************)
EXTENDS AxiomSelector, TLAPS

ScanState == [at : {"idle", "load", "cas"}, pass : {0, 1}, i : Words,
              expected : SUBSET Bits, retries : 0 .. kMaxRetriesPerWord - 1]

Outcomes == {"none", "slot", "kNoSlot"}

Histories == [free : SUBSET Slots, changes : 0 .. Budget]

(* TypeOK with its record sets named *)
LEMMA TypeSplit ==
  TypeOK <=> /\ words \in [Words -> SUBSET Bits]
             /\ scan \in [Threads -> ScanState]
             /\ held \in [Threads -> SUBSET Slots]
             /\ outcome \in [Threads -> Outcomes]
             /\ witness \in [Threads -> Histories]
  BY DEF TypeOK, ScanState, Outcomes, Histories

(* The ranges the constants give. *)
LEMMA Numbers ==
  /\ kWords \in Nat \ {0} /\ kBitsPerWord \in Nat \ {0} /\ kMaxRetriesPerWord \in Nat \ {0}
  /\ 0 \in Words /\ NoScan \in ScanState /\ Budget \in Nat
  BY SelectorAssumption DEF Words, NoScan, ScanState, Budget

(* A sweep only ever looks at a word of the array. *)
LEMMA WordInRange ==
  ASSUME TypeOK, NEW t \in Threads
  PROVE  WordOf(t) \in Words
<1>1. scan[t].i \in Words /\ StartWord[t] \in Words
  BY TypeSplit, SelectorAssumption DEF ScanState
<1>2. kWords \in Nat \ {0}
  BY Numbers
<1> QED
  BY <1>1, <1>2 DEF WordOf, Words

(* Going on to the next word keeps scan and outcome in range. *)
LEMMA NextWordTypes ==
  ASSUME TypeOK, NEW t \in Threads, NextWord(t)
  PROVE  scan' \in [Threads -> ScanState] /\ outcome' \in [Threads -> Outcomes]
<1>1. scan[t] \in ScanState /\ scan \in [Threads -> ScanState] /\ outcome \in [Threads -> Outcomes]
  BY TypeSplit
<1>2. CASE /\ scan[t].i # kWords - 1
           /\ scan' = [scan EXCEPT ![t] = [NoScan EXCEPT !.at = "load", !.pass = scan[t].pass,
                                                         !.i = scan[t].i + 1]]
           /\ UNCHANGED outcome
  <2>1. scan[t].i + 1 \in Words
    BY <1>1, <1>2, Numbers DEF ScanState, Words
  <2>2. [NoScan EXCEPT !.at = "load", !.pass = scan[t].pass, !.i = scan[t].i + 1] \in ScanState
    BY <1>1, <2>1, Numbers DEF ScanState, NoScan
  <2> QED
    BY <1>1, <1>2, <2>2
<1>3. CASE scan' = [scan EXCEPT ![t] = [NoScan EXCEPT !.at = "load", !.pass = 1]] /\ UNCHANGED outcome
  <2>1. [NoScan EXCEPT !.at = "load", !.pass = 1] \in ScanState
    BY Numbers DEF ScanState, NoScan
  <2> QED
    BY <1>1, <1>3, <2>1
<1>4. CASE scan' = [scan EXCEPT ![t] = NoScan] /\ outcome' = [outcome EXCEPT ![t] = "kNoSlot"]
  BY <1>1, <1>4, Numbers DEF Outcomes
<1> QED
  BY <1>2, <1>3, <1>4 DEF NextWord

(* The count of disturbances saturates at the budget. *)
LEMMA OneMoreInRange == ASSUME NEW n \in 0 .. Budget PROVE OneMore(n) \in 0 .. Budget
  BY Numbers DEF OneMore

(* A change of the bitmap keeps the histories in range. *)
LEMMA DisturbTypes ==
  ASSUME TypeOK, NEW t \in Threads, NEW taken, Disturb(t, taken)
  PROVE  witness' \in [Threads -> Histories]
<1>1. witness \in [Threads -> Histories] /\ Budget \in Nat
  BY TypeSplit, Numbers
<1>2. ASSUME NEW u \in Threads
      PROVE  [free |-> witness[u].free \ taken,
              changes |-> OneMore(witness[u].changes)] \in Histories
  BY <1>1, OneMoreInRange DEF Histories
<1> QED
  BY <1>1, <1>2 DEF Disturb

-----------------------------------------------------------------------------
(* The full bitmap satisfies the invariant. *)
LEMMA InitSelector == Init => SelectorInv
<1> SUFFICES ASSUME Init PROVE SelectorInv
  OBVIOUS
<1>1. words \in [Words -> SUBSET Bits] /\ held \in [Threads -> SUBSET Slots]
  BY DEF Init
<1>2. scan \in [Threads -> ScanState] /\ outcome \in [Threads -> Outcomes]
  BY Numbers DEF Init, Outcomes
<1>3. [free |-> {}, changes |-> 0] \in Histories
  BY Numbers DEF Histories
<1>4. witness \in [Threads -> Histories]
  BY <1>3 DEF Init
<1>5. SlotsOwnedOnce
  BY DEF Init, SlotsOwnedOnce, Slots
<1> QED
  BY <1>1, <1>2, <1>4, <1>5, TypeSplit DEF SelectorInv

(* Starting a sweep keeps the invariant. *)
LEMMA AcquireStep ==
  ASSUME SelectorInv, NEW t \in Threads, Acquire(t)
  PROVE  SelectorInv'
<1>1. SlotsOwnedOnce'
  BY DEF SelectorInv, SlotsOwnedOnce, Acquire
<1>2. scan' \in [Threads -> ScanState]
  BY TypeSplit, SMTT(60) DEF SelectorInv, Acquire, ScanState
<1>3. outcome' \in [Threads -> Outcomes]
  BY TypeSplit DEF SelectorInv, Acquire, Outcomes
<1>4. [free |-> FreeSlots, changes |-> 0] \in Histories
  BY Numbers DEF Histories, FreeSlots
<1>5. witness' \in [Threads -> Histories]
  BY <1>4, TypeSplit DEF SelectorInv, Acquire
<1>6. TypeOK'
  BY <1>2, <1>3, <1>5, TypeSplit DEF SelectorInv, Acquire, TypeOK, ScanState, Outcomes, Histories
<1> QED
  BY <1>1, <1>6 DEF SelectorInv

(* Loading a word keeps the invariant. *)
LEMMA LoadStep ==
  ASSUME SelectorInv, NEW t \in Threads, LoadWord(t)
  PROVE  SelectorInv'
<1>1. SlotsOwnedOnce'
  BY DEF SelectorInv, SlotsOwnedOnce, LoadWord
<1>2. scan' \in [Threads -> ScanState] /\ outcome' \in [Threads -> Outcomes]
  <2>1. CASE NextWord(t)
    BY <2>1, NextWordTypes DEF SelectorInv
  <2>2. CASE /\ scan' = [scan EXCEPT ![t].at = "cas", ![t].expected = words[WordOf(t)]]
             /\ UNCHANGED outcome
    <3>1. words[WordOf(t)] \in SUBSET Bits
      BY WordInRange, TypeSplit DEF SelectorInv
    <3>2. scan' \in [Threads -> ScanState]
      <4> DEFINE s == [scan[t] EXCEPT !.at = "cas", !.expected = words[WordOf(t)]]
      <4>1. scan \in [Threads -> ScanState]
        BY TypeSplit DEF SelectorInv
      <4>2. s \in ScanState
        BY <3>1, <4>1, Zenon DEF ScanState
      <4>3. scan' = [scan EXCEPT ![t] = s]
        BY <2>2
      <4> HIDE DEF s
      <4> QED
        BY <4>1, <4>2, <4>3, Zenon
    <3> QED
      BY <2>2, <3>2, TypeSplit DEF SelectorInv
  <2> QED
    BY <2>1, <2>2 DEF LoadWord
<1>3. TypeOK'
  BY <1>2, TypeSplit DEF SelectorInv, LoadWord, TypeOK, ScanState, Outcomes
<1> QED
  BY <1>1, <1>3 DEF SelectorInv

(* A lost compare-exchange keeps the invariant. *)
LEMMA ExchangeFailsStep ==
  ASSUME SelectorInv, NEW t \in Threads, ExchangeFails(t)
  PROVE  SelectorInv'
<1>1. SlotsOwnedOnce'
  BY DEF SelectorInv, SlotsOwnedOnce, ExchangeFails
<1>2. scan' \in [Threads -> ScanState] /\ outcome' \in [Threads -> Outcomes]
  <2>1. CASE NextWord(t)
    BY <2>1, NextWordTypes DEF SelectorInv
  <2>2. CASE /\ scan[t].retries + 1 < kMaxRetriesPerWord
             /\ scan' = [scan EXCEPT ![t].expected = words[WordOf(t)], ![t].retries = @ + 1]
             /\ UNCHANGED outcome
    <3>1. words[WordOf(t)] \in SUBSET Bits
      BY WordInRange, TypeSplit DEF SelectorInv
    <3>2. scan[t].retries + 1 \in 0 .. kMaxRetriesPerWord - 1
      BY <2>2, Numbers, TypeSplit DEF SelectorInv, ScanState
    <3>3. scan' \in [Threads -> ScanState]
      BY <2>2, <3>1, <3>2, TypeSplit DEF SelectorInv, ScanState
    <3> QED
      BY <2>2, <3>3, TypeSplit DEF SelectorInv
  <2> QED
    BY <2>1, <2>2 DEF ExchangeFails
<1>3. witness' \in [Threads -> Histories]
  <2>1. witness \in [Threads -> Histories]
    BY TypeSplit DEF SelectorInv
  <2>2. [witness[t] EXCEPT !.changes = OneMore(@)] \in Histories
    BY <2>1, OneMoreInRange DEF Histories
  <2>3. witness' = witness \/ witness' = [witness EXCEPT ![t].changes = OneMore(@)]
    BY DEF ExchangeFails
  <2> QED
    BY <2>1, <2>2, <2>3
<1>4. TypeOK'
  BY <1>2, <1>3, TypeSplit DEF SelectorInv, ExchangeFails, TypeOK, ScanState, Outcomes, Histories
<1> QED
  BY <1>1, <1>4 DEF SelectorInv

(* The exchange compares with the word's present value, so the bit it      *)
(* clears is a free slot, which nobody holds.                              *)
LEMMA ExchangeStep ==
  ASSUME SelectorInv, NEW t \in Threads, ExchangeSucceeds(t)
  PROVE  SelectorInv'
<1> DEFINE w == WordOf(t)
<1>1. w \in Words /\ words \in [Words -> SUBSET Bits] /\ held \in [Threads -> SUBSET Slots]
  BY WordInRange, TypeSplit DEF SelectorInv
<1>2. PICK b \in Bits :
        /\ b \in words[w]
        /\ words' = [words EXCEPT ![w] = words[w] \ {b}]
        /\ held' = [held EXCEPT ![t] = @ \cup {<<w, b>>}]
        /\ Disturb(t, {<<w, b>>})
  BY DEF ExchangeSucceeds, TakeLowest, Lowest
<1> HIDE DEF w
<1>3. SlotsOwnedOnce'
  <2> SUFFICES ASSUME NEW s \in Slots
               PROVE  (\/ s[2] \in words[s[1]] /\ \A u \in Threads : s \notin held[u]
                       \/ /\ s[2] \notin words[s[1]]
                          /\ \E u \in Threads : s \in held[u]
                                /\ \A x \in Threads \ {u} : s \notin held[x])'
    BY DEF SlotsOwnedOnce
  <2>1. s[1] \in Words /\ s[2] \in Bits /\ s = <<s[1], s[2]>>
    BY DEF Slots
  <2>2. CASE s = <<w, b>>
    <3>1. \A u \in Threads : s \notin held[u]
      BY <1>1, <1>2, <2>2 DEF SelectorInv, SlotsOwnedOnce
    <3> QED
      BY <1>1, <1>2, <2>1, <2>2, <3>1
  <2>3. CASE s # <<w, b>>
    <3>1. s[2] \in words'[s[1]] <=> s[2] \in words[s[1]]
      BY <1>1, <1>2, <2>1, <2>3
    <3>2. \A u \in Threads : s \in held'[u] <=> s \in held[u]
      BY <1>1, <1>2, <2>3
    <3> QED
      BY <3>1, <3>2 DEF SelectorInv, SlotsOwnedOnce
  <2> QED
    BY <2>2, <2>3
<1>4. words' \in [Words -> SUBSET Bits] /\ held' \in [Threads -> SUBSET Slots]
  BY <1>1, <1>2 DEF Slots
<1>5. scan' \in [Threads -> ScanState] /\ outcome' \in [Threads -> Outcomes]
  BY Numbers, TypeSplit DEF SelectorInv, ExchangeSucceeds, TakeLowest, Outcomes
<1>6. witness' \in [Threads -> Histories]
  BY <1>2, DisturbTypes DEF SelectorInv
<1>7. TypeOK'
  BY <1>4, <1>5, <1>6 DEF TypeOK, ScanState, Outcomes, Histories
<1> QED
  BY <1>3, <1>7 DEF SelectorInv

(* Giving an owned slot back keeps the invariant. *)
LEMMA ReleaseStep ==
  ASSUME SelectorInv, NEW t \in Threads, NEW s \in Slots, Release(t, s)
  PROVE  SelectorInv'
<1>1. /\ words \in [Words -> SUBSET Bits] /\ held \in [Threads -> SUBSET Slots]
      /\ s[1] \in Words /\ s[2] \in Bits /\ s = <<s[1], s[2]>> /\ s \in held[t]
  BY TypeSplit DEF SelectorInv, Slots, Release
<1>2. /\ words' = [words EXCEPT ![s[1]] = @ \cup {s[2]}]
      /\ held' = [held EXCEPT ![t] = @ \ {s}]
      /\ UNCHANGED <<scan, outcome>>
      /\ Disturb(t, {})
  BY DEF Release
<1>3. SlotsOwnedOnce'
  <2> SUFFICES ASSUME NEW r \in Slots
               PROVE  (\/ r[2] \in words[r[1]] /\ \A u \in Threads : r \notin held[u]
                       \/ /\ r[2] \notin words[r[1]]
                          /\ \E u \in Threads : r \in held[u]
                                /\ \A x \in Threads \ {u} : r \notin held[x])'
    BY DEF SlotsOwnedOnce
  <2>1. r[1] \in Words /\ r[2] \in Bits /\ r = <<r[1], r[2]>>
    BY DEF Slots
  <2>2. CASE r = s
    <3>1. \A u \in Threads \ {t} : r \notin held[u]
      BY <1>1, <2>2 DEF SelectorInv, SlotsOwnedOnce
    <3> QED
      BY <1>1, <1>2, <2>1, <2>2, <3>1
  <2>3. CASE r # s
    <3>1. r[2] \in words'[r[1]] <=> r[2] \in words[r[1]]
      BY <1>1, <1>2, <2>1, <2>3
    <3>2. \A u \in Threads : r \in held'[u] <=> r \in held[u]
      BY <1>1, <1>2, <2>3
    <3> QED
      BY <3>1, <3>2 DEF SelectorInv, SlotsOwnedOnce
  <2> QED
    BY <2>2, <2>3
<1>4. words' \in [Words -> SUBSET Bits] /\ held' \in [Threads -> SUBSET Slots]
  BY <1>1, <1>2
<1>5. witness' \in [Threads -> Histories]
  BY <1>2, DisturbTypes DEF SelectorInv
<1>6. TypeOK'
  BY <1>2, <1>4, <1>5 DEF SelectorInv, TypeOK, Histories
<1> QED
  BY <1>3, <1>6 DEF SelectorInv

-----------------------------------------------------------------------------
(* The inductive invariant holds of every selector. *)
THEOREM SelectorInvariant == Spec => []SelectorInv
<1>1. Init => SelectorInv
  BY InitSelector
<1>2. SelectorInv /\ [Next]_vars => SelectorInv'
  <2> SUFFICES ASSUME SelectorInv, [Next]_vars PROVE SelectorInv'
    OBVIOUS
  <2>1. CASE Next
    BY <2>1, AcquireStep, LoadStep, ExchangeStep, ExchangeFailsStep, ReleaseStep
       DEF Next, Scanning
  <2>2. CASE UNCHANGED vars
    BY <2>2 DEF vars, SelectorInv, TypeOK, SlotsOwnedOnce
  <2> QED
    BY <2>1, <2>2
<1> QED
  BY <1>1, <1>2, PTL DEF Spec

(* No slot is ever owned by two threads, and none is lost: neither owned   *)
(* nor free.                                                               *)
THEOREM SlotsNeverShared == Spec => []SlotsOwnedOnce
<1>1. SelectorInv => SlotsOwnedOnce
  BY DEF SelectorInv
<1> QED
  BY <1>1, SelectorInvariant, PTL

-----------------------------------------------------------------------------
(* The sweep *)

(* The word a sweep looks at in place p *)
Place(t, p) == (StartWord[t] + p) % kWords

(* What it has cost thread t to leave the word in place p behind without   *)
(* taking a slot: kMaxRetriesPerWord exchanges in each pass, and those it  *)
(* has lost there so far, the one it is bound to lose next included.       *)
PassCost(n) == n * kMaxRetriesPerWord

Behind(t, p) == IF scan[t].i > p THEN scan[t].pass + 1 ELSE scan[t].pass

Stale(t) == scan[t].at = "cas" /\ scan[t].expected # words[WordOf(t)]

LostHere(t) == IF Stale(t) THEN scan[t].retries + 1 ELSE scan[t].retries

Cost(t, p) == PassCost(Behind(t, p)) + IF scan[t].i = p THEN LostHere(t) ELSE 0

(* What the history must show before a free slot in place p is overlooked *)
Paid(t, p) == witness[t].changes = Budget \/ witness[t].changes >= Cost(t, p)

(***************************************************************************)
(* A slot in the history is free still, and a sweep that has passed its    *)
(* word has paid for it: each lost exchange is a disturbance of its own,   *)
(* since expected is loaded afresh after each.                             *)
(***************************************************************************)
Pays(t) ==
  /\ witness[t].free \subseteq FreeSlots
  /\ \A p \in Words, b \in Bits : <<Place(t, p), b>> \in witness[t].free => Paid(t, p)

SweepPays == \A t \in Threads : IF scan[t].at = "idle" THEN scan[t] = NoScan ELSE Pays(t)

SweepInv == SelectorInv /\ SweepPays

(* How an acquire() that gives up may end *)
GivesUpFairly(t) == witness[t].free = {} \/ witness[t].changes = Budget

(* The fields of a sweep and of its history. *)
LEMMA SweepFacts ==
  ASSUME SelectorInv, NEW t \in Threads
  PROVE  /\ scan \in [Threads -> ScanState] /\ witness \in [Threads -> Histories]
         /\ words \in [Words -> SUBSET Bits]
         /\ scan[t].at \in {"idle", "load", "cas"} /\ scan[t].pass \in {0, 1}
         /\ scan[t].i \in Int /\ scan[t].i >= 0 /\ scan[t].i <= kWords - 1
         /\ scan[t].retries \in Int /\ scan[t].retries >= 0 /\ scan[t].retries < kMaxRetriesPerWord
         /\ witness[t].free \subseteq Slots /\ witness[t].changes \in Int
         /\ witness[t].changes >= 0 /\ witness[t].changes <= Budget
         /\ WordOf(t) = Place(t, scan[t].i) /\ WordOf(t) \in Words
<1>1. scan[t] \in ScanState /\ witness[t] \in Histories /\ WordOf(t) \in Words
  BY TypeSplit, WordInRange DEF SelectorInv
<1> QED
  BY <1>1, TypeSplit, Numbers DEF SelectorInv, ScanState, Histories, Words, WordOf, Place

(* The price of no pass, of one and of both. *)
LEMMA PassCosts ==
  /\ PassCost(0) = 0 /\ PassCost(1) = kMaxRetriesPerWord /\ PassCost(2) = Budget
  /\ kMaxRetriesPerWord \in Int /\ kMaxRetriesPerWord >= 1 /\ Budget = 2 * kMaxRetriesPerWord
BY Numbers DEF PassCost, Budget

(* The sweep comes to every word. *)
LEMMA EveryWordHasPlace ==
  ASSUME NEW t \in Threads, NEW w \in Words
  PROVE  \E p \in Words : Place(t, p) = w
<1> DEFINE d == IF w >= StartWord[t] THEN w - StartWord[t] ELSE w - StartWord[t] + kWords
<1>1. StartWord[t] \in Words /\ kWords \in Nat \ {0} /\ w \in Words
  BY SelectorAssumption
<1>2. d \in Words /\ (StartWord[t] + d = w \/ StartWord[t] + d = w + kWords)
  BY <1>1 DEF Words
<1>3. w % kWords = w /\ (w + kWords) % kWords = w
  BY <1>1 DEF Words
<1> QED
  BY <1>2, <1>3 DEF Place

(* What a sweep owes after other threads' steps: nothing they did not pay. *)
LEMMA DisturbedPays ==
  ASSUME SelectorInv, NEW t \in Threads, Pays(t), scan'[t] = scan[t],
         NEW taken,
         witness'[t] = [free |-> witness[t].free \ taken, changes |-> OneMore(witness[t].changes)],
         witness[t].free \ taken \subseteq FreeSlots'
  PROVE  Pays(t)'
<1> SUFFICES ASSUME NEW p \in Words, NEW b \in Bits, <<Place(t, p), b>> \in witness'[t].free
             PROVE  Paid(t, p)'
  BY DEF Pays, Place
<1>1. Paid(t, p)
  BY DEF Pays
<1>2. Behind(t, p)' = Behind(t, p)
  BY DEF Behind
<1>3. LostHere(t) \in Int /\ LostHere(t)' <= LostHere(t) + 1 /\ LostHere(t)' \in Int
  BY SweepFacts DEF LostHere
<1>4. PassCost(Behind(t, p)) \in Int
  BY SweepFacts, PassCosts DEF Behind
<1>5. Cost(t, p) \in Int /\ Cost(t, p)' \in Int /\ Cost(t, p)' <= Cost(t, p) + 1
  BY <1>2, <1>3, <1>4 DEF Cost, PassCost
<1>6. witness'[t].changes = OneMore(witness[t].changes)
  OBVIOUS
<1> QED
  BY <1>1, <1>5, <1>6, SweepFacts, PassCosts DEF Paid, OneMore

(* A step of which the sweep sees nothing. *)
LEMMA UntouchedPays ==
  ASSUME NEW t \in Threads, Pays(t), scan'[t] = scan[t], witness'[t] = witness[t], words' = words
  PROVE  Pays(t)'
<1>1. FreeSlots' = FreeSlots /\ WordOf(t)' = WordOf(t) /\ \A p \in Words : Place(t, p)' = Place(t, p)
  BY DEF FreeSlots, WordOf, Place
<1>2. \A p \in Words : Paid(t, p)' <=> Paid(t, p)
  BY <1>1 DEF Paid, Cost, Behind, LostHere, Stale, PassCost
<1> QED
  BY <1>1, <1>2 DEF Pays

(* Going on to the next word: what was paid for the words behind counts on. *)
LEMMA NextWordPays ==
  ASSUME SelectorInv, NEW t \in Threads, Pays(t), NextWord(t), words' = words,
         witness'[t].free = witness[t].free, witness'[t].changes \in Int,
         witness'[t].changes >= witness[t].changes, witness'[t].changes <= Budget,
         \A b \in Bits : <<WordOf(t), b>> \in witness[t].free =>
           witness'[t].changes = Budget \/ witness'[t].changes >= PassCost(scan[t].pass + 1)
  PROVE  IF scan'[t].at = "idle" THEN scan'[t] = NoScan /\ GivesUpFairly(t)' ELSE Pays(t)'
<1> USE SweepFacts, PassCosts, Numbers
(* The word left now, and those left before. *)
<1>1. ASSUME NEW p \in Words, NEW b \in Bits, <<Place(t, p), b>> \in witness[t].free, p <= scan[t].i
      PROVE  witness'[t].changes = Budget \/ witness'[t].changes >= PassCost(scan[t].pass + 1)
  <2>1. CASE p = scan[t].i
    BY <1>1, <2>1
  <2>2. CASE p < scan[t].i
    <3>1. Paid(t, p)
      BY <1>1 DEF Pays
    <3>2. p \in Int
      BY <1>1 DEF Words
    <3>3. Cost(t, p) = PassCost(scan[t].pass + 1) + 0
      BY <2>2, <3>2 DEF Cost, Behind
    <3>4. PassCost(scan[t].pass + 1) \in Int
      OBVIOUS
    <3> QED
      BY <3>1, <3>3, <3>4 DEF Paid
  <2> QED
    BY <1>1, <2>1, <2>2 DEF Words
(* The words ahead. *)
<1>2. ASSUME NEW p \in Words, NEW b \in Bits, <<Place(t, p), b>> \in witness[t].free, p > scan[t].i
      PROVE  witness'[t].changes = Budget \/ witness'[t].changes >= PassCost(scan[t].pass)
  <2>1. Paid(t, p)
    BY <1>2 DEF Pays
  <2>2. p \in Int
    BY <1>2 DEF Words
  <2>3. Cost(t, p) = PassCost(scan[t].pass) + 0
    BY <1>2, <2>2 DEF Cost, Behind
  <2>4. PassCost(scan[t].pass) \in Int
    OBVIOUS
  <2> QED
    BY <2>1, <2>3, <2>4 DEF Paid
<1>3. FreeSlots' = FreeSlots /\ \A p \in Words : Place(t, p)' = Place(t, p)
  BY DEF FreeSlots, Place
<1>4. CASE /\ scan[t].i # kWords - 1
           /\ scan' = [scan EXCEPT ![t] = [NoScan EXCEPT !.at = "load", !.pass = scan[t].pass,
                                                         !.i = scan[t].i + 1]]
  <2>1. /\ scan'[t].at = "load" /\ scan'[t].pass = scan[t].pass
        /\ scan'[t].i = scan[t].i + 1 /\ scan'[t].retries = 0
    BY <1>4 DEF NoScan
  <2>2. ASSUME NEW p \in Words, NEW b \in Bits, <<Place(t, p), b>> \in witness[t].free
        PROVE  Paid(t, p)'
    <3>1. p \in Int
      BY <2>2 DEF Words
    <3>2. Cost(t, p)' = PassCost(Behind(t, p)') + 0
      BY <2>1 DEF Cost, LostHere, Stale, PassCost
    <3>3. CASE p <= scan[t].i
      <4>1. Behind(t, p)' = scan[t].pass + 1
        BY <2>1, <3>1, <3>3 DEF Behind
      <4>2. PassCost(scan[t].pass + 1) \in Int
        OBVIOUS
      <4> QED
        BY <1>1, <2>2, <3>2, <3>3, <4>1, <4>2 DEF Paid
    <3>4. CASE p > scan[t].i
      <4>1. Behind(t, p)' = scan[t].pass
        BY <2>1, <3>1, <3>4 DEF Behind
      <4>2. PassCost(scan[t].pass) \in Int
        OBVIOUS
      <4> QED
        BY <1>2, <2>2, <3>2, <3>4, <4>1, <4>2 DEF Paid
    <3> QED
      BY <3>1, <3>3, <3>4
  <2> QED
    BY <1>3, <2>1, <2>2 DEF Pays
<1>5. CASE /\ scan[t].i = kWords - 1 /\ scan[t].pass = 0
           /\ scan' = [scan EXCEPT ![t] = [NoScan EXCEPT !.at = "load", !.pass = 1]]
  <2>1. scan'[t].at = "load" /\ scan'[t].pass = 1 /\ scan'[t].i = 0 /\ scan'[t].retries = 0
    BY <1>5 DEF NoScan
  <2>2. ASSUME NEW p \in Words, NEW b \in Bits, <<Place(t, p), b>> \in witness[t].free
        PROVE  Paid(t, p)'
    <3>1. p \in Int /\ p >= 0 /\ p <= scan[t].i
      BY <1>5, <2>2 DEF Words
    <3>2. Cost(t, p)' = PassCost(1) + 0
      BY <2>1, <3>1 DEF Cost, LostHere, Stale, PassCost, Behind
    <3>3. witness'[t].changes = Budget \/ witness'[t].changes >= PassCost(1)
      BY <1>1, <1>5, <2>2, <3>1
    <3> QED
      BY <3>2, <3>3 DEF Paid
  <2> QED
    BY <1>3, <2>1, <2>2 DEF Pays
<1>6. CASE /\ scan[t].i = kWords - 1 /\ scan[t].pass = 1
           /\ scan' = [scan EXCEPT ![t] = NoScan]
  <2>1. scan'[t] = NoScan
    BY <1>6
  <2>2. ASSUME NEW s \in witness[t].free PROVE witness'[t].changes = Budget
    <3>1. s = <<s[1], s[2]>> /\ s[1] \in Words /\ s[2] \in Bits
      BY <2>2 DEF Slots
    <3>2. PICK p \in Words : Place(t, p) = s[1]
      BY <3>1, EveryWordHasPlace
    <3>3. p <= scan[t].i
      BY <1>6 DEF Words
    <3>4. <<Place(t, p), s[2]>> \in witness[t].free
      BY <2>2, <3>1, <3>2
    <3>5. witness'[t].changes = Budget \/ witness'[t].changes >= PassCost(scan[t].pass + 1)
      BY <1>1, <3>1, <3>3, <3>4
    <3> QED
      BY <1>6, <3>5
  <2> QED
    BY <2>1, <2>2 DEF GivesUpFairly, NoScan
<1> QED
  BY <1>4, <1>5, <1>6 DEF NextWord

(* What a step of the selector owes every sweep, and one that gives up. *)
SweepStep ==
  \A t \in Threads :
    /\ IF scan'[t].at = "idle" THEN scan'[t] = NoScan ELSE Pays(t)'
    /\ scan[t].at # "idle" /\ scan'[t].at = "idle" /\ outcome'[t] = "kNoSlot" => GivesUpFairly(t)'

(* A thread that is not scanning, or that sees nothing of the step. *)
LEMMA BystanderSweeps ==
  ASSUME SweepInv, NEW t \in Threads, scan'[t] = scan[t],
         scan[t].at # "idle" => Pays(t)'
  PROVE  /\ IF scan'[t].at = "idle" THEN scan'[t] = NoScan ELSE Pays(t)'
         /\ ~(scan[t].at # "idle" /\ scan'[t].at = "idle")
BY DEF SweepInv, SweepPays

(* acquire() starts: nothing is owed yet. *)
LEMMA AcquireSweeps ==
  ASSUME SweepInv, NEW t \in Threads, Acquire(t)
  PROVE  SweepStep
<1> USE DEF SweepInv
<1>1. /\ scan[t].at = "idle" /\ scan' = [scan EXCEPT ![t].at = "load"] /\ words' = words
      /\ witness' = [witness EXCEPT ![t] = [free |-> FreeSlots, changes |-> 0]]
  BY DEF Acquire
<1>2. scan[t] = NoScan
  BY <1>1 DEF SweepPays
<1>3. /\ scan'[t].at = "load" /\ scan'[t].pass = 0 /\ scan'[t].i = 0 /\ scan'[t].retries = 0
      /\ witness'[t].free = FreeSlots /\ witness'[t].changes = 0
  BY <1>1, <1>2, SweepFacts DEF NoScan
<1>4. \A p \in Words : Cost(t, p)' = 0
  <2> TAKE p \in Words
  <2>1. Behind(t, p)' = 0
    BY <1>3 DEF Behind, Words
  <2>2. LostHere(t)' = 0
    BY <1>3 DEF LostHere, Stale
  <2> QED
    BY <2>1, <2>2, PassCosts DEF Cost, PassCost
<1>5. Pays(t)'
  BY <1>1, <1>3, <1>4 DEF Pays, Paid, FreeSlots
<1>6. ASSUME NEW u \in Threads \ {t}
      PROVE  scan'[u] = scan[u] /\ (scan[u].at # "idle" => Pays(u)')
  BY <1>1, UntouchedPays, SweepFacts DEF SweepPays
<1>7. \A u \in Threads \ {t} :
        /\ IF scan'[u].at = "idle" THEN scan'[u] = NoScan ELSE Pays(u)'
        /\ ~(scan[u].at # "idle" /\ scan'[u].at = "idle")
  BY <1>6, BystanderSweeps
<1> QED
  BY <1>1, <1>3, <1>5, <1>7 DEF SweepStep

(* Steps of t's sweep that change no word leave the other sweeps alone. *)
LEMMA OthersSweep ==
  ASSUME SweepInv, NEW t \in Threads, words' = words,
         \A u \in Threads \ {t} : scan'[u] = scan[u] /\ witness'[u] = witness[u],
         IF scan'[t].at = "idle" THEN scan'[t] = NoScan /\ GivesUpFairly(t)' ELSE Pays(t)'
  PROVE  SweepStep
<1>1. ASSUME NEW u \in Threads \ {t}
      PROVE  scan'[u] = scan[u] /\ (scan[u].at # "idle" => Pays(u)')
  BY UntouchedPays DEF SweepInv, SweepPays
<1>2. \A u \in Threads \ {t} :
        /\ IF scan'[u].at = "idle" THEN scan'[u] = NoScan ELSE Pays(u)'
        /\ ~(scan[u].at # "idle" /\ scan'[u].at = "idle")
  BY <1>1, BystanderSweeps
<1> QED
  BY <1>2 DEF SweepStep

(* An empty word is left behind without cost: no slot of it is free. *)
LEMMA EmptyWordOwesNothing ==
  ASSUME SelectorInv, NEW t \in Threads, Pays(t), words[WordOf(t)] = {}, NEW b \in Bits
  PROVE  <<WordOf(t), b>> \notin witness[t].free
BY DEF Pays, FreeSlots

(* acquire() loads a word. *)
LEMMA LoadSweeps ==
  ASSUME SweepInv, NEW t \in Threads, LoadWord(t)
  PROVE  SweepStep
<1> USE DEF SweepInv
<1>1. scan[t].at = "load" /\ words' = words /\ witness' = witness /\ Pays(t)
  BY DEF LoadWord, SweepPays
<1>2. CASE words[WordOf(t)] = {} /\ NextWord(t)
  <2>1. \A u \in Threads \ {t} : scan'[u] = scan[u]
    BY <1>2, SweepFacts DEF NextWord
  <2>2. witness'[t].free = witness[t].free /\ witness'[t].changes = witness[t].changes
    BY <1>1
  <2>3. IF scan'[t].at = "idle" THEN scan'[t] = NoScan /\ GivesUpFairly(t)' ELSE Pays(t)'
    BY <1>1, <1>2, <2>2, EmptyWordOwesNothing, NextWordPays, SweepFacts
  <2> QED
    BY <1>1, <2>1, <2>3, OthersSweep
<1>3. CASE scan' = [scan EXCEPT ![t].at = "cas", ![t].expected = words[WordOf(t)]]
  <2>1. /\ scan'[t].at = "cas" /\ scan'[t].pass = scan[t].pass /\ scan'[t].i = scan[t].i
        /\ scan'[t].retries = scan[t].retries /\ scan'[t].expected = words[WordOf(t)]
        /\ \A u \in Threads \ {t} : scan'[u] = scan[u]
    BY <1>3, SweepFacts DEF ScanState
  <2>2. FreeSlots' = FreeSlots /\ WordOf(t)' = WordOf(t) /\ \A p \in Words : Place(t, p)' = Place(t, p)
    BY <1>1, <2>1 DEF FreeSlots, WordOf, Place
  <2>3. LostHere(t)' = LostHere(t)
    BY <1>1, <2>1, <2>2 DEF LostHere, Stale
  <2>4. \A p \in Words : Paid(t, p)' <=> Paid(t, p)
    BY <1>1, <2>1, <2>3 DEF Paid, Cost, Behind, PassCost
  <2>5. Pays(t)'
    BY <1>1, <2>2, <2>4 DEF Pays
  <2> QED
    BY <1>1, <2>1, <2>5, OthersSweep
<1> QED
  BY <1>2, <1>3 DEF LoadWord

(* A lost exchange has a disturbance to show for it: expected was the word *)
(* when it was loaded, and either it is so no more, or the exchange failed *)
(* for no reason.                                                          *)
LEMMA LostExchangePaid ==
  ASSUME SweepInv, NEW t \in Threads, ExchangeFails(t),
         NEW p \in Words, NEW b \in Bits, p = scan[t].i, <<Place(t, p), b>> \in witness[t].free
  PROVE  \/ witness'[t].changes = Budget
         \/ witness'[t].changes >= PassCost(scan[t].pass) + scan[t].retries + 1
<1> USE SweepFacts, PassCosts DEF SweepInv
<1>1. scan[t].at = "cas" /\ Paid(t, p)
  BY DEF ExchangeFails, SweepPays, Pays
<1>2. Cost(t, p) = PassCost(scan[t].pass) + LostHere(t) /\ PassCost(scan[t].pass) \in Int
  BY DEF Cost, Behind
<1>3. CASE words[WordOf(t)] # scan[t].expected
  <2>1. LostHere(t) = scan[t].retries + 1 /\ witness' = witness
    BY <1>1, <1>3 DEF LostHere, Stale, ExchangeFails
  <2> QED
    BY <1>1, <1>2, <2>1 DEF Paid
<1>4. CASE words[WordOf(t)] = scan[t].expected
  <2>1. LostHere(t) = scan[t].retries /\ witness' = [witness EXCEPT ![t].changes = OneMore(@)]
    BY <1>4 DEF LostHere, Stale, ExchangeFails
  <2>2. witness'[t].changes = OneMore(witness[t].changes)
    BY <2>1 DEF Histories
  <2> QED
    BY <1>1, <1>2, <2>1, <2>2 DEF Paid, OneMore
<1> QED
  BY <1>3, <1>4

(* A lost exchange: another try on the word, or on to the next one. *)
LEMMA ExchangeFailsSweeps ==
  ASSUME SweepInv, NEW t \in Threads, ExchangeFails(t)
  PROVE  SweepStep
<1> USE SweepFacts, PassCosts DEF SweepInv
<1>1. /\ scan[t].at = "cas" /\ words' = words /\ Pays(t)
      /\ \/ witness' = witness
         \/ witness' = [witness EXCEPT ![t].changes = OneMore(@)]
  BY DEF ExchangeFails, SweepPays
<1>2. /\ witness'[t].free = witness[t].free /\ witness'[t].changes \in Int
      /\ witness'[t].changes >= witness[t].changes /\ witness'[t].changes <= Budget
      /\ \A u \in Threads \ {t} : witness'[u] = witness[u]
  BY <1>1 DEF OneMore, Histories
<1>3. CASE /\ scan[t].retries + 1 >= kMaxRetriesPerWord \/ words[WordOf(t)] = {}
           /\ NextWord(t)
  <2>1. \A u \in Threads \ {t} : scan'[u] = scan[u]
    BY <1>3 DEF NextWord
  <2>2. ASSUME NEW b \in Bits, <<WordOf(t), b>> \in witness[t].free
        PROVE  witness'[t].changes = Budget \/ witness'[t].changes >= PassCost(scan[t].pass + 1)
    <3>1. scan[t].retries + 1 >= kMaxRetriesPerWord
      BY <1>1, <1>3, <2>2, EmptyWordOwesNothing
    <3>2. scan[t].i \in Words /\ <<Place(t, scan[t].i), b>> \in witness[t].free
      <4>1. WordOf(t) = Place(t, scan[t].i)
        OBVIOUS
      <4>2. scan[t].i \in Words
        BY Numbers DEF Words
      <4> QED
        BY <2>2, <4>1, <4>2
    <3>3. \/ witness'[t].changes = Budget
          \/ witness'[t].changes >= PassCost(scan[t].pass) + scan[t].retries + 1
      BY <3>2, LostExchangePaid
    <3>4. PassCost(scan[t].pass + 1) = PassCost(scan[t].pass) + kMaxRetriesPerWord /\ PassCost(scan[t].pass) \in Int
      OBVIOUS
    <3> QED
      BY <1>2, <3>1, <3>3, <3>4
  <2>3. IF scan'[t].at = "idle" THEN scan'[t] = NoScan /\ GivesUpFairly(t)' ELSE Pays(t)'
    BY <1>1, <1>2, <1>3, <2>2, NextWordPays
  <2> QED
    BY <1>1, <1>2, <2>1, <2>3, OthersSweep
<1>4. CASE scan' = [scan EXCEPT ![t].expected = words[WordOf(t)], ![t].retries = @ + 1]
  <2>1. /\ scan'[t].at = "cas" /\ scan'[t].pass = scan[t].pass /\ scan'[t].i = scan[t].i
        /\ scan'[t].retries = scan[t].retries + 1 /\ scan'[t].expected = words[WordOf(t)]
        /\ \A u \in Threads \ {t} : scan'[u] = scan[u]
    BY <1>1, <1>4 DEF ScanState
  <2>2. FreeSlots' = FreeSlots /\ WordOf(t)' = WordOf(t) /\ \A p \in Words : Place(t, p)' = Place(t, p)
    BY <1>1, <2>1 DEF FreeSlots, WordOf, Place
  <2>3. ASSUME NEW p \in Words, NEW b \in Bits, <<Place(t, p), b>> \in witness[t].free
        PROVE  Paid(t, p)'
    <3>1. CASE p = scan[t].i
      <4>1. \/ witness'[t].changes = Budget
            \/ witness'[t].changes >= PassCost(scan[t].pass) + scan[t].retries + 1
        BY <2>3, <3>1, LostExchangePaid
      <4>2. LostHere(t)' = scan[t].retries + 1
        BY <1>1, <2>1, <2>2 DEF LostHere, Stale
      <4>3. Cost(t, p)' = PassCost(scan[t].pass) + (scan[t].retries + 1)
        BY <2>1, <3>1, <4>2 DEF Cost, Behind, PassCost
      <4>4. PassCost(scan[t].pass) \in Int
        OBVIOUS
      <4> QED
        BY <4>1, <4>3, <4>4 DEF Paid
    <3>2. CASE p # scan[t].i
      <4>1. Paid(t, p)
        BY <1>1, <2>3 DEF Pays
      <4>2. Cost(t, p)' = Cost(t, p) /\ Cost(t, p) \in Int
        <5>1. Behind(t, p)' = Behind(t, p) /\ PassCost(Behind(t, p)) \in Int
          BY <2>1 DEF Behind
        <5> QED
          BY <2>1, <3>2, <5>1 DEF Cost, PassCost
      <4> QED
        BY <1>2, <4>1, <4>2 DEF Paid
    <3> QED
      BY <3>1, <3>2
  <2>4. Pays(t)'
    BY <1>1, <1>2, <2>2, <2>3 DEF Pays
  <2> QED
    BY <1>1, <1>2, <2>1, <2>4, OthersSweep
<1> QED
  BY <1>3, <1>4 DEF ExchangeFails

(* Another thread's change of the bitmap is entered in every history. *)
LEMMA DisturbSweeps ==
  ASSUME SweepInv, NEW t \in Threads, NEW taken, Disturb(t, taken),
         \A u \in Threads \ {t} : scan'[u] = scan[u],
         FreeSlots \ taken \subseteq FreeSlots'
  PROVE  \A u \in Threads \ {t} :
           /\ IF scan'[u].at = "idle" THEN scan'[u] = NoScan ELSE Pays(u)'
           /\ ~(scan[u].at # "idle" /\ scan'[u].at = "idle")
<1> TAKE u \in Threads \ {t}
<1>1. CASE scan[u].at = "idle"
  BY <1>1, BystanderSweeps
<1>2. CASE scan[u].at # "idle"
  <2>1. witness'[u] = [free |-> witness[u].free \ taken, changes |-> OneMore(witness[u].changes)]
    BY <1>2 DEF Disturb
  <2>2. Pays(u)
    BY <1>2 DEF SweepInv, SweepPays
  <2>3. Pays(u)'
    BY <2>1, <2>2, DisturbedPays DEF SweepInv, Pays
  <2> QED
    BY <2>3, BystanderSweeps
<1> QED
  BY <1>1, <1>2

(* acquire() takes a slot. *)
LEMMA ExchangeSweeps ==
  ASSUME SweepInv, NEW t \in Threads, ExchangeSucceeds(t)
  PROVE  SweepStep
<1> USE SweepFacts DEF SweepInv
<1> DEFINE w == WordOf(t)
<1>1. PICK b \in Bits :
        /\ words' = [words EXCEPT ![w] = words[w] \ {b}]
        /\ Disturb(t, {<<w, b>>})
  BY DEF ExchangeSucceeds, TakeLowest
<1>2. scan' = [scan EXCEPT ![t] = NoScan] /\ outcome' = [outcome EXCEPT ![t] = "slot"]
  BY DEF ExchangeSucceeds, TakeLowest
<1>3. scan'[t] = NoScan /\ outcome'[t] # "kNoSlot" /\ \A u \in Threads \ {t} : scan'[u] = scan[u]
  <2>1. outcome \in [Threads -> Outcomes] /\ scan \in [Threads -> ScanState]
    BY TypeSplit DEF SelectorInv
  <2> QED
    BY <1>2, <2>1
<1>4. FreeSlots \ {<<w, b>>} \subseteq FreeSlots'
  BY <1>1 DEF FreeSlots, Slots
<1>5. \A u \in Threads \ {t} :
        /\ IF scan'[u].at = "idle" THEN scan'[u] = NoScan ELSE Pays(u)'
        /\ ~(scan[u].at # "idle" /\ scan'[u].at = "idle")
  BY <1>1, <1>3, <1>4, DisturbSweeps
<1> QED
  BY <1>3, <1>5 DEF SweepStep, NoScan

(* release() gives a slot back. *)
LEMMA ReleaseSweeps ==
  ASSUME SweepInv, NEW t \in Threads, NEW s \in Slots, Release(t, s)
  PROVE  SweepStep
<1> USE SweepFacts DEF SweepInv
<1>1. /\ scan[t].at = "idle" /\ scan' = scan /\ Disturb(t, {})
      /\ words' = [words EXCEPT ![s[1]] = @ \cup {s[2]}]
  BY DEF Release
<1>2. FreeSlots \ {} \subseteq FreeSlots'
  BY <1>1 DEF FreeSlots, Slots
<1>3. \A u \in Threads \ {t} :
        /\ IF scan'[u].at = "idle" THEN scan'[u] = NoScan ELSE Pays(u)'
        /\ ~(scan[u].at # "idle" /\ scan'[u].at = "idle")
  BY <1>1, <1>2, DisturbSweeps
<1> QED
  BY <1>1, <1>3 DEF SweepStep, SweepPays

(* Every step of the selector. *)
LEMMA NextSweeps ==
  ASSUME SweepInv, [Next]_vars
  PROVE  SweepStep
<1>1. CASE Next
  BY <1>1, AcquireSweeps, LoadSweeps, ExchangeSweeps, ExchangeFailsSweeps, ReleaseSweeps
     DEF Next, Scanning
<1>2. CASE UNCHANGED vars
  <2>1. \A t \in Threads : scan[t].at # "idle" => Pays(t)'
    BY <1>2, UntouchedPays DEF vars, SweepInv, SweepPays
  <2> QED
    BY <1>2, <2>1, BystanderSweeps DEF vars, SweepStep
<1> QED
  BY <1>1, <1>2

(* EC13: acquire() (axiom_selector.hpp:192-265) overlooks a slot that was  *)
(* free all the time only if, while it ran, other threads changed the      *)
(* bitmap or its own exchanges failed spuriously 2 * kMaxRetriesPerWord    *)
(* times: its two passes lost that many exchanges on the slot's word.      *)
THEOREM OverlooksOnlyWhenDisturbed == Spec => OverlooksOnlyUnderContention
<1> DEFINE Step == \A t \in Threads :
             scan[t].at # "idle" /\ scan'[t].at = "idle" /\ outcome'[t] = "kNoSlot"
             => witness'[t].free = {} \/ witness'[t].changes = Budget
<1>1. Init => SweepPays
  BY DEF Init, SweepPays, NoScan
<1>2. SelectorInv /\ SweepPays /\ [Next]_vars => SweepPays' /\ Step
  BY NextSweeps DEF SweepInv, SweepStep, SweepPays, GivesUpFairly
<1>3. Spec => [][Step]_vars
  BY <1>1, <1>2, SelectorInvariant, PTL DEF Spec
<1> QED
  BY <1>3 DEF OverlooksOnlyUnderContention
=============================================================================
