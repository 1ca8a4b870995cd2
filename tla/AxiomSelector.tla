----------------------------- MODULE AxiomSelector -----------------------------
(***************************************************************************)
(* AxiomSelector: a bitmap of free slots in several atomic words.          *)
(* acquire() sweeps the words twice from a per-thread start word and takes *)
(* the lowest set bit with a compare-exchange, giving a word up after      *)
(* kMaxRetriesPerWord lost exchanges; release() is one fetch_or.           *)
(*                                                                         *)
(* A word's value is the set of its set (free) bits.  An atomic access is  *)
(* one step; a thread's steps interleave with every other thread's.        *)
(***************************************************************************)
EXTENDS Integers, FiniteSets

CONSTANTS
  Threads,
  kWords,
  kBitsPerWord,         \* 64
  kMaxRetriesPerWord,   \* 2
  StartWord,            \* threadStartWord() of each thread
  MaxHeld,              \* bound: slots a thread holds at once
  SpuriousFailures      \* compare_exchange_weak may fail without a reason

Words == 0 .. kWords - 1
Bits  == 0 .. kBitsPerWord - 1

ASSUME SelectorAssumption ==
  /\ kWords \in Nat \ {0} /\ kBitsPerWord \in Nat \ {0}
  /\ kMaxRetriesPerWord \in Nat \ {0} /\ MaxHeld \in Nat
  /\ StartWord \in [Threads -> Words]
  /\ SpuriousFailures \in BOOLEAN

VARIABLES
  words,      \* words_
  scan,       \* where each thread's acquire() is
  held,       \* the slots each thread owns
  outcome,    \* how each thread's last acquire() ended
  witness     \* history of the acquire() in progress: the slots that stayed
              \* free so far, and how often it was disturbed: by a change of
              \* the bitmap by another thread or a spurious failure

vars == <<words, scan, held, outcome, witness>>

Slots == Words \X Bits

(* Exchanges a word has to lose before both passes give it up *)
Budget == 2 * kMaxRetriesPerWord

FreeSlots == {s \in Slots : s[2] \in words[s[1]]}

NoScan == [at |-> "idle", pass |-> 0, i |-> 0, expected |-> {}, retries |-> 0]

Init ==
  /\ words = [w \in Words |-> Bits]
  /\ scan = [t \in Threads |-> NoScan]
  /\ held = [t \in Threads |-> {}]
  /\ outcome = [t \in Threads |-> "none"]
  /\ witness = [t \in Threads |-> [free |-> {}, changes |-> 0]]

OneMore(n) == IF n < Budget THEN n + 1 ELSE Budget

(* What a change of the bitmap by thread t does to the others' histories:  *)
(* taken is the slot it takes, if any.                                     *)
Disturb(t, taken) ==
  witness' = [u \in Threads |->
    IF u = t \/ scan[u].at = "idle" THEN witness[u]
    ELSE [free |-> witness[u].free \ taken, changes |-> OneMore(witness[u].changes)]]

(* A bug: the sweep never leaves its start word. *)
StuckWord(t) == StartWord[t]

(* word_idx of the sweep *)
WordOf(t) == (StartWord[t] + scan[t].i) % kWords

(* std::countr_zero *)
Lowest(b, S) == b \in S /\ \A c \in S : b <= c

Acquire(t) ==
  /\ scan[t].at = "idle"
  /\ Cardinality(held[t]) < MaxHeld
  /\ scan' = [scan EXCEPT ![t].at = "load"]
  /\ outcome' = [outcome EXCEPT ![t] = "none"]
  /\ witness' = [witness EXCEPT ![t] = [free |-> FreeSlots, changes |-> 0]]
  /\ UNCHANGED <<words, held>>

(* On to the next word, the second pass, or kNoSlot *)
NextWord(t) ==
  LET last == scan[t].i = kWords - 1
  IN  \/ /\ ~last
         /\ scan' = [scan EXCEPT ![t] = [NoScan EXCEPT !.at = "load", !.pass = scan[t].pass,
                                                       !.i = scan[t].i + 1]]
         /\ UNCHANGED outcome
      \/ /\ last /\ scan[t].pass = 0
         /\ scan' = [scan EXCEPT ![t] = [NoScan EXCEPT !.at = "load", !.pass = 1]]
         /\ UNCHANGED outcome
      \/ /\ last /\ scan[t].pass = 1
         /\ scan' = [scan EXCEPT ![t] = NoScan]
         /\ outcome' = [outcome EXCEPT ![t] = "kNoSlot"]

LoadWord(t) ==
  /\ scan[t].at = "load"
  /\ \/ words[WordOf(t)] = {} /\ NextWord(t)
     \/ /\ words[WordOf(t)] # {}
        /\ scan' = [scan EXCEPT ![t].at = "cas", ![t].expected = words[WordOf(t)]]
        /\ UNCHANGED outcome
  /\ UNCHANGED <<words, held, witness>>

(* The exchange clears the lowest set bit of expected, and acquire()       *)
(* returns its slot.                                                       *)
TakeLowest(t) ==
  /\ \E b \in Bits :
       /\ Lowest(b, scan[t].expected)
       /\ words' = [words EXCEPT ![WordOf(t)] = scan[t].expected \ {b}]
       /\ held' = [held EXCEPT ![t] = @ \cup {<<WordOf(t), b>>}]
       /\ Disturb(t, {<<WordOf(t), b>>})
  /\ scan' = [scan EXCEPT ![t] = NoScan]
  /\ outcome' = [outcome EXCEPT ![t] = "slot"]

(* A bug: the new word is stored without comparing. *)
StoreBlindly(t) == scan[t].at = "cas" /\ TakeLowest(t)

ExchangeSucceeds(t) ==
  /\ scan[t].at = "cas"
  /\ words[WordOf(t)] = scan[t].expected
  /\ TakeLowest(t)

(* A bug: a lost exchange is retried without a budget. *)
RetryForEver(t) ==
  /\ scan[t].at = "cas"
  /\ words[WordOf(t)] # scan[t].expected \/ SpuriousFailures
  /\ \/ words[WordOf(t)] = {} /\ NextWord(t)
     \/ /\ words[WordOf(t)] # {}
        /\ scan' = [scan EXCEPT ![t].expected = words[WordOf(t)]]
        /\ UNCHANGED outcome
  /\ UNCHANGED <<words, held, witness>>

(* The failed exchange reloads expected. *)
ExchangeFails(t) ==
  /\ scan[t].at = "cas"
  /\ words[WordOf(t)] # scan[t].expected \/ SpuriousFailures
  /\ \/ /\ \/ scan[t].retries + 1 >= kMaxRetriesPerWord
           \/ words[WordOf(t)] = {}
        /\ NextWord(t)
     \/ /\ scan[t].retries + 1 < kMaxRetriesPerWord
        /\ words[WordOf(t)] # {}
        /\ scan' = [scan EXCEPT ![t].expected = words[WordOf(t)], ![t].retries = @ + 1]
        /\ UNCHANGED outcome
  /\ witness' = IF words[WordOf(t)] # scan[t].expected THEN witness
                ELSE [witness EXCEPT ![t].changes = OneMore(@)]
  /\ UNCHANGED <<words, held>>

Release(t, s) ==
  /\ scan[t].at = "idle"
  /\ s \in held[t]
  /\ words' = [words EXCEPT ![s[1]] = @ \cup {s[2]}]
  /\ held' = [held EXCEPT ![t] = @ \ {s}]
  /\ Disturb(t, {})
  /\ UNCHANGED <<scan, outcome>>

Scanning(t) == LoadWord(t) \/ ExchangeSucceeds(t) \/ ExchangeFails(t)

Next == \E t \in Threads : Acquire(t) \/ Scanning(t) \/ \E s \in Slots : Release(t, s)

Spec == Init /\ [][Next]_vars

(* A thread inside acquire() keeps running. *)
FairSpec == Spec /\ \A t \in Threads : WF_vars(Scanning(t))

-----------------------------------------------------------------------------
(* Type invariant *)
TypeOK ==
  /\ words \in [Words -> SUBSET Bits]
  /\ scan \in [Threads -> [at : {"idle", "load", "cas"}, pass : {0, 1}, i : Words,
                           expected : SUBSET Bits, retries : 0 .. kMaxRetriesPerWord - 1]]
  /\ held \in [Threads -> SUBSET Slots]
  /\ outcome \in [Threads -> {"none", "slot", "kNoSlot"}]
  /\ witness \in [Threads -> [free : SUBSET Slots, changes : 0 .. Budget]]

(* A slot is free or belongs to one thread, never both and never neither:  *)
(* no exchange takes a bit that somebody else took, and no release is      *)
(* overwritten by a stale word.                                            *)
SlotsOwnedOnce ==
  \A s \in Slots :
    \/ s[2] \in words[s[1]] /\ \A t \in Threads : s \notin held[t]
    \/ /\ s[2] \notin words[s[1]]
       /\ \E t \in Threads : s \in held[t] /\ \A u \in Threads \ {t} : s \notin held[u]

(* The inductive invariant *)
SelectorInv == TypeOK /\ SlotsOwnedOnce

(* EC13: the retry budget.  acquire() overlooks a slot that was free all   *)
(* the time only if at least 2 * kMaxRetriesPerWord times while it ran     *)
(* another thread changed the bitmap or an exchange failed spuriously;     *)
(* undisturbed, or nearly so, kNoSlot means that every slot was taken at   *)
(* some moment.                                                            *)
OverlooksOnlyUnderContention ==
  [][\A t \in Threads :
       scan[t].at # "idle" /\ scan'[t].at = "idle" /\ outcome'[t] = "kNoSlot"
       => witness'[t].free = {} \/ witness'[t].changes = Budget]_vars

(* acquire() always ends, whatever the other threads do: the sweep is      *)
(* bounded and no thread is locked out of the bitmap.                      *)
AcquireReturns == \A t \in Threads : scan[t].at # "idle" ~> scan[t].at = "idle"
=============================================================================
