--------------------------- MODULE HaltLatchProofs ---------------------------
(***************************************************************************)
(* Theorems about HaltLatch, for every set of books and names and every    *)
(* bound.  The runs check the same properties on small instances.          *)
(***************************************************************************)
EXTENDS HaltLatch, TLAPS

(***************************************************************************)
(* The inductive invariant.                                                *)
(***************************************************************************)

\* Only latched halts have been saved, and halts are numbered in order.
HaltNumbers ==
    /\ mem.latch <= halts
    /\ disk.latch <= halts
    /\ \A h \in saved : h <= halts

\* What has been saved came through state.json.
SavedThroughDisk ==
    /\ ~onDisk => saved = {} /\ disk = Fresh
    /\ disk.latch # 0 => disk.latch \in saved

\* A saved halt in memory is the one on disk, unless an edit removed it.
MemoryMatchesDisk ==
    mem.latch # 0 /\ mem.latch \in saved
        => disk.latch = mem.latch \/ mem.latch \in edited

\* While the latch is up the tick in progress is taking every book to flat.
LatchZeroesTheTick ==
    mem.latch # 0 =>
        /\ stage = "decided" => target = {}
        /\ stage = "settled" => mem.held \subseteq mem.unpriced

LatchInv ==
    /\ TypeOK
    /\ HaltNumbers
    /\ SavedThroughDisk
    /\ MemoryMatchesDisk
    /\ LatchZeroesTheTick
    /\ HaltedFileIsFlat

(***************************************************************************)
(* Lemmas about the pieces of a tick.                                      *)
(***************************************************************************)

\* Settling gives a set of holdings, whatever the prices.
LEMMA SettledHoldings ==
    ASSUME NEW held \in Holdings, NEW tgt \in Holdings, NEW priced \in SUBSET Names
    PROVE  /\ HeldAfter(held, tgt, priced) \in Holdings
           /\ UnpricedAfter(held, priced) \in Holdings
BY DEF HeldAfter, UnpricedAfter, Holdings

\* Settling towards flat leaves exactly what could not be priced.
LEMMA FlatTargetLeavesUnpriced ==
    ASSUME NEW held \in Holdings, NEW priced \in SUBSET Names
    PROVE  HeldAfter(held, {}, priced) \subseteq UnpricedAfter(held, priced)
BY DEF HeldAfter, UnpricedAfter, Holdings

(***************************************************************************)
(* Type correctness: every variable stays in its type, for every action of *)
(* the tick loop, the script and the operator.                             *)
(***************************************************************************)
LEMMA TypeInit == Init => TypeOK
<1>1. {} \in Holdings
    BY DEF Holdings
<1>2. Fresh \in State
    BY <1>1 DEF Fresh, State
<1>3. [failures |-> 0, requests |-> 0, edits |-> 0, crashes |-> 0] \in Bounds
    BY DEF Bounds
<1> SUFFICES ASSUME Init PROVE TypeOK
    OBVIOUS
<1>4. /\ stage \in {"idle", "synced", "decided", "settled", "down"}
      /\ onDisk \in BOOLEAN
    BY DEF Init
<1>5. /\ mem \in State /\ disk \in State
      /\ target \in Holdings
      /\ spent \in Bounds
    BY <1>1, <1>2, <1>3 DEF Init
<1>6. /\ sentinel \in Nat /\ scriptSaw \in Nat /\ halts \in Nat
      /\ asked \in SUBSET Nat /\ edited \in SUBSET Nat /\ saved \in SUBSET Nat
    BY DEF Init
<1> QED
    BY <1>4, <1>5, <1>6 DEF TypeOK

LEMMA TypeNext == TypeOK /\ [Next]_vars => TypeOK'
<1> SUFFICES ASSUME TypeOK, [Next]_vars PROVE TypeOK'
    OBVIOUS
<1> USE BoundsAssumption DEF TypeOK, State, Bounds
<1>1. CASE HonorRequest
    BY <1>1 DEF HonorRequest
<1>2. CASE HonorEdit
    BY <1>2 DEF HonorEdit
<1>3. CASE NothingToHonor
    BY <1>3 DEF NothingToHonor
<1>4. ASSUME NEW halted \in BOOLEAN, NEW wanted \in Holdings, Decide(halted, wanted)
      PROVE  TypeOK'
    BY <1>4 DEF Decide, FinalTargets, Holdings
<1>5. ASSUME NEW priced \in SUBSET Names, Settle(priced)
      PROVE  TypeOK'
    <2>1. /\ HeldAfter(mem.held, target, priced) \in Holdings
          /\ UnpricedAfter(mem.held, priced) \in Holdings
        BY SettledHoldings
    <2>2. {} \in Holdings
        BY DEF Holdings
    <2> QED
        BY <1>5, <2>1, <2>2 DEF Settle
<1>6. CASE Save
    BY <1>6 DEF Save
<1>7. CASE TickFails
    BY <1>7 DEF TickFails, Holdings
<1>8. CASE Crash
    BY <1>8 DEF Crash, Holdings
<1>9. CASE Restart
    BY <1>9 DEF Restart, Loaded, Fresh, Holdings
<1>10. CASE ScriptReads
    BY <1>10 DEF ScriptReads
<1>11. CASE ScriptWrites
    BY <1>11 DEF ScriptWrites
<1>12. CASE HandEdit
    BY <1>12 DEF HandEdit
<1>13. CASE UNCHANGED vars
    BY <1>13 DEF vars
<1> QED
    BY <1>1, <1>2, <1>3, <1>4, <1>5, <1>6, <1>7, <1>8, <1>9, <1>10, <1>11,
       <1>12, <1>13 DEF Next, DecideSome, SettleSome

\* The state of the tick loop, of state.json, of the request file and of the
\* histories is always well-formed.
THEOREM TypeCorrect == Spec => []TypeOK
BY TypeInit, TypeNext, PTL DEF Spec

(***************************************************************************)
(* The invariant is inductive.                                             *)
(***************************************************************************)
LEMMA LatchInvInit == Init => LatchInv
BY TypeInit DEF Init, LatchInv, HaltNumbers, SavedThroughDisk, MemoryMatchesDisk,
   LatchZeroesTheTick, HaltedFileIsFlat, Fresh

LEMMA LatchInvNext == LatchInv /\ [Next]_vars => LatchInv'
<1> SUFFICES ASSUME LatchInv, [Next]_vars PROVE LatchInv'
    OBVIOUS
<1>0. TypeOK'
    BY TypeNext DEF LatchInv
<1> USE <1>0 DEF LatchInv, HaltNumbers, SavedThroughDisk, MemoryMatchesDisk,
        LatchZeroesTheTick, HaltedFileIsFlat, TypeOK, State
<1>1. CASE HonorRequest
    BY <1>1 DEF HonorRequest
<1>2. CASE HonorEdit
    BY <1>2 DEF HonorEdit
<1>3. CASE NothingToHonor
    BY <1>3 DEF NothingToHonor
<1>4. ASSUME NEW halted \in BOOLEAN, NEW wanted \in Holdings, Decide(halted, wanted)
      PROVE  LatchInv'
    <2>1. CASE halted /\ mem.latch = 0
        <3>1. /\ mem' = [mem EXCEPT !.latch = halts + 1]
              /\ halts' = halts + 1
              /\ target' = {}
              /\ stage' = "decided"
              /\ UNCHANGED <<disk, onDisk, edited, saved>>
            BY <1>4, <2>1 DEF Decide, FinalTargets
        <3>2. mem'.latch = halts + 1 /\ mem'.latch \notin saved
            BY <3>1
        <3> QED
            BY <3>1, <3>2
    <2>2. CASE ~(halted /\ mem.latch = 0)
        <3>1. /\ UNCHANGED <<mem, halts, disk, onDisk, edited, saved>>
              /\ target' = FinalTargets(mem.latch # 0, wanted)
              /\ stage' = "decided"
            BY <1>4, <2>2 DEF Decide
        <3> QED
            BY <3>1 DEF FinalTargets
    <2> QED
        BY <2>1, <2>2
<1>5. ASSUME NEW priced \in SUBSET Names, Settle(priced)
      PROVE  LatchInv'
    <2>1. /\ mem'.latch = mem.latch
          /\ mem'.held = HeldAfter(mem.held, target, priced)
          /\ mem'.unpriced = UnpricedAfter(mem.held, priced)
          /\ stage = "decided" /\ stage' = "settled"
          /\ UNCHANGED <<disk, onDisk, halts, edited, saved>>
        BY <1>5 DEF Settle
    <2>2. mem.latch # 0 => mem'.held \subseteq mem'.unpriced
        <3>1. mem.held \in Holdings
            OBVIOUS
        <3>2. HeldAfter(mem.held, {}, priced) \subseteq UnpricedAfter(mem.held, priced)
            BY <3>1, FlatTargetLeavesUnpriced
        <3>3. mem.latch # 0 => target = {}
            BY <2>1
        <3> QED
            BY <2>1, <3>2, <3>3
    <2> QED
        BY <2>1, <2>2
<1>6. CASE Save
    BY <1>6 DEF Save
<1>7. CASE TickFails
    BY <1>7 DEF TickFails
<1>8. CASE Crash
    BY <1>8 DEF Crash
<1>9. CASE Restart
    <2>1. CASE onDisk
        BY <1>9, <2>1 DEF Restart, Loaded
    <2>2. CASE ~onDisk
        <3>1. /\ mem' = Fresh /\ Fresh.latch = 0
              /\ UNCHANGED <<disk, onDisk, halts, edited, saved>>
            BY <1>9, <2>2 DEF Restart, Loaded, Fresh
        <3> QED
            BY <3>1
    <2> QED
        BY <2>1, <2>2
<1>10. CASE ScriptReads
    BY <1>10 DEF ScriptReads
<1>11. CASE ScriptWrites
    BY <1>11 DEF ScriptWrites
<1>12. CASE HandEdit
    BY <1>12 DEF HandEdit
<1>13. CASE UNCHANGED vars
    BY <1>13 DEF vars
<1> QED
    BY <1>1, <1>2, <1>3, <1>4, <1>5, <1>6, <1>7, <1>8, <1>9, <1>10, <1>11,
       <1>12, <1>13 DEF Next, DecideSome, SettleSome

LEMMA LatchInvariant == Spec => []LatchInv
BY LatchInvInit, LatchInvNext, PTL DEF Spec

(***************************************************************************)
(* The theorems.                                                           *)
(***************************************************************************)

\* A state.json with a latch describes a fund whose only holdings are listed
\* as unpriced, for every number of books, names, failures and crashes.
THEOREM HaltedFileIsFlatHolds == Spec => []HaltedFileIsFlat
BY LatchInvariant, PTL DEF LatchInv

\* No settlement under a latch adds a holding to any book.
THEOREM NoRiskUnderLatchHolds == Spec => NoRiskUnderLatch
<1>1. ASSUME LatchInv, [Next]_vars
      PROVE  [stage' = "settled" /\ mem'.held \ mem.held # {}
                => mem'.latch = 0]_vars
    <2> SUFFICES ASSUME Next, stage' = "settled", mem'.latch # 0
                 PROVE  mem'.held \subseteq mem.held
        BY <1>1 DEF vars
    <2> USE DEF LatchInv, TypeOK, State
    <2>1. CASE SettleSome
        <3>1. PICK priced \in SUBSET Names : Settle(priced)
            BY <2>1 DEF SettleSome
        <3>2. /\ mem'.held = HeldAfter(mem.held, target, priced)
              /\ mem.latch # 0 /\ stage = "decided"
            BY <1>1, <3>1 DEF Settle
        <3>3. target = {}
            BY <1>1, <3>2 DEF LatchZeroesTheTick
        <3>4. HeldAfter(mem.held, {}, priced) \subseteq mem.held
            BY DEF HeldAfter
        <3> QED
            BY <3>2, <3>3, <3>4
    <2>2. CASE ~SettleSome
        BY <1>1, <2>2 DEF Next, HonorRequest, HonorEdit, NothingToHonor, DecideSome,
           Decide, Save, TickFails, Crash, Restart, ScriptReads, ScriptWrites,
           HandEdit
    <2> QED
        BY <2>1, <2>2
<1> QED
    BY <1>1, LatchInvariant, PTL DEF Spec, NoRiskUnderLatch

\* A halt that has reached state.json survives failed ticks, crashes and
\* restarts until a request file is there or an edit has removed it.
THEOREM SavedHaltNeedsHumanHolds == Spec => SavedHaltNeedsHuman
<1>1. ASSUME LatchInv, [Next]_vars
      PROVE  [mem.latch \in saved /\ mem.latch # 0 /\ mem'.latch # mem.latch
                => sentinel # 0 \/ mem.latch \in edited]_vars
    <2> SUFFICES ASSUME Next, mem.latch \in saved, mem.latch # 0,
                        mem'.latch # mem.latch, sentinel = 0
                 PROVE  mem.latch \in edited
        BY <1>1 DEF vars
    <2> USE <1>1 DEF LatchInv, TypeOK, State, MemoryMatchesDisk, SavedThroughDisk
    <2>1. CASE HonorEdit
        BY <2>1 DEF HonorEdit, LatchOnDiskGone
    <2>2. CASE Restart
        BY <2>2 DEF Restart, Loaded
    <2>3. CASE DecideSome
        BY <2>3 DEF DecideSome, Decide
    <2>4. CASE SettleSome
        BY <2>4 DEF SettleSome, Settle
    <2>5. CASE HonorRequest
        BY <2>5 DEF HonorRequest, RequestPending
    <2> QED
        BY <2>1, <2>2, <2>3, <2>4, <2>5 DEF Next, NothingToHonor, Save, TickFails,
           Crash, ScriptReads, ScriptWrites, HandEdit
<1> QED
    BY <1>1, LatchInvariant, PTL DEF Spec, SavedHaltNeedsHuman
==============================================================================
