------------------------------ MODULE HaltLatch ------------------------------
(***************************************************************************)
(* The halt latch of the live runtime (runtime/live.py) and the ways a     *)
(* human may lift it.                                                      *)
(*                                                                         *)
(* The runtime keeps the whole fund state in memory and rewrites           *)
(* state.json once, at the very end of a tick.  A tick synchronises human  *)
(* halt clears, decides (governor, latch, final targets), settles the      *)
(* books and saves; it may raise anywhere, and run() then swallows the     *)
(* exception and keeps the memory it had.  scripts/clear_halt.py is a      *)
(* second process: it reads state.json and then writes a request file.     *)
(* An operator may also delete the latch key from state.json by hand.      *)
(*                                                                         *)
(* A halt is identified by a number, its "ts" in the code; 0 is no latch.  *)
(***************************************************************************)
EXTENDS Naturals, FiniteSets

CONSTANTS
    Books,         \* the shadow books marked this run (s1..s5)
    Names,         \* symbols
    Enabled,       \* books whose config flag is on
    MaxHalts,      \* bound: halts the governor may latch
    MaxRequests,   \* bound: runs of clear_halt.py
    MaxEdits,      \* bound: manual edits of state.json
    MaxFailures,   \* bound: ticks that raise, unreadable files, failed unlinks
    MaxCrashes     \* bound: process deaths

ASSUME BoundsAssumption ==
    /\ MaxHalts \in Nat /\ MaxRequests \in Nat /\ MaxEdits \in Nat
    /\ MaxFailures \in Nat /\ MaxCrashes \in Nat
ASSUME EnabledAssumption == Enabled \subseteq Books

VARIABLES
    stage,        \* where the tick loop is, "down" when the process is dead
    mem,          \* the state dict of the process
    disk,         \* the content of state.json
    onDisk,       \* whether state.json exists
    target,       \* final targets of the tick in progress: <<book, name>> held
    sentinel,     \* halt_clear.request: the halt it names, 0 when absent
    scriptSaw,    \* the latch clear_halt.py has read, 0 when it is not running
    halts,        \* halts latched so far
    asked,        \* history: halts clear_halt.py has written a request for
    edited,       \* history: halts a manual edit has removed from state.json
    saved,        \* history: halts that have reached state.json
    spent         \* the bounds used up

vars == <<stage, mem, disk, onDisk, target, sentinel, scriptSaw, halts,
          asked, edited, saved, spent>>

Holdings == SUBSET (Books \X Names)
State    == [latch : Nat, held : Holdings, unpriced : Holdings]
Fresh    == [latch |-> 0, held |-> {}, unpriced |-> {}]
Bounds   == [failures : Nat, requests : Nat, edits : Nat, crashes : Nat]

TypeOK ==
    /\ stage \in {"idle", "synced", "decided", "settled", "down"}
    /\ mem \in State
    /\ disk \in State
    /\ onDisk \in BOOLEAN
    /\ target \in Holdings
    /\ sentinel \in Nat
    /\ scriptSaw \in Nat
    /\ halts \in Nat
    /\ asked \in SUBSET Nat
    /\ edited \in SUBSET Nat
    /\ saved \in SUBSET Nat
    /\ spent \in Bounds

Init ==
    /\ stage = "idle"
    /\ mem = Fresh
    /\ disk = Fresh
    /\ onDisk = FALSE
    /\ target = {}
    /\ sentinel = 0
    /\ scriptSaw = 0
    /\ halts = 0
    /\ asked = {}
    /\ edited = {}
    /\ saved = {}
    /\ spent = [failures |-> 0, requests |-> 0, edits |-> 0, crashes |-> 0]

(***************************************************************************)
(* Defects a change could plausibly introduce.  No definition below uses   *)
(* them; each replaces the definition whose name it extends.               *)
(***************************************************************************)
FinalTargetsUnlatched(latched, wanted) == {p \in wanted : p[1] \in Enabled}
HeldAfterTargetOnly(held, tgt, priced) ==
    held \cup {p \in tgt : p[2] \in priced}
HeldAfterSticky(held, tgt, priced) ==
    {p \in Books \X Names :
        IF p[2] \in priced /\ p \notin mem.unpriced THEN p \in tgt ELSE p \in held}
LoadedUnlatched == IF onDisk THEN [disk EXCEPT !.latch = 0] ELSE Fresh
RequestPendingOnceCleared == sentinel # 0 /\ disk.latch = 0

(***************************************************************************)
(* Pieces of a tick.                                                       *)
(***************************************************************************)

\* A latched halt zeroes every book, a disabled book is zeroed on its own.
FinalTargets(latched, wanted) ==
    IF latched THEN {} ELSE {p \in wanted : p[1] \in Enabled}

\* A book that cannot price one of its holdings may not take on new names.
MayOnlyReduce(book, held, priced) ==
    \E n \in Names : n \notin priced /\ <<book, n>> \in held

\* settle_book: priced names go to target, unpriced names stay as they are.
HeldAfter(held, tgt, priced) ==
    {p \in Books \X Names :
        IF p[2] \in priced
        THEN p \in tgt /\ (MayOnlyReduce(p[1], held, priced) => p \in held)
        ELSE p \in held}

UnpricedAfter(held, priced) == {p \in held : p[2] \notin priced}

\* What a new process starts from.
Loaded == IF onDisk THEN disk ELSE Fresh

RequestPending == sentinel # 0
LatchOnDiskGone == onDisk /\ disk.latch = 0

(***************************************************************************)
(* The tick loop.                                                          *)
(***************************************************************************)

\* _sync_halt_clear_from_disk, request file present: lift and consume it.
\* The unlink may fail, and the failure is ignored.
HonorRequest ==
    /\ stage = "idle"
    /\ mem.latch # 0
    /\ RequestPending
    /\ mem' = [mem EXCEPT !.latch = 0]
    /\ \/ sentinel' = 0 /\ UNCHANGED spent
       \/ /\ spent.failures < MaxFailures
          /\ spent' = [spent EXCEPT !.failures = @ + 1]
          /\ UNCHANGED sentinel
    /\ stage' = "synced"
    /\ UNCHANGED <<disk, onDisk, target, scriptSaw, halts, asked, edited, saved>>

\* _sync_halt_clear_from_disk, legacy path: the key is gone from state.json.
HonorEdit ==
    /\ stage = "idle"
    /\ mem.latch # 0
    /\ ~RequestPending
    /\ LatchOnDiskGone
    /\ mem' = [mem EXCEPT !.latch = 0]
    /\ stage' = "synced"
    /\ UNCHANGED <<disk, onDisk, target, sentinel, scriptSaw, halts, asked,
                   edited, saved, spent>>

\* _sync_halt_clear_from_disk, nothing to honour, or state.json unreadable.
NothingToHonor ==
    /\ stage = "idle"
    /\ \/ mem.latch = 0 /\ UNCHANGED spent
       \/ mem.latch # 0 /\ ~RequestPending /\ ~LatchOnDiskGone /\ UNCHANGED spent
       \/ /\ mem.latch # 0 /\ ~RequestPending /\ onDisk
          /\ spent.failures < MaxFailures
          /\ spent' = [spent EXCEPT !.failures = @ + 1]
    /\ stage' = "synced"
    /\ UNCHANGED <<mem, disk, onDisk, target, sentinel, scriptSaw, halts, asked,
                   edited, saved>>

\* The governor's verdict, the latch, and the final targets of every book.
\* wanted is what the books would hold: fresh proposals, or what they hold.
Decide(halted, wanted) ==
    /\ stage = "synced"
    /\ LET trips == halted /\ mem.latch = 0 IN
       /\ trips => halts < MaxHalts
       /\ halts' = IF trips THEN halts + 1 ELSE halts
       /\ mem' = IF trips THEN [mem EXCEPT !.latch = halts + 1] ELSE mem
    /\ target' = FinalTargets(mem'.latch # 0, wanted)
    /\ stage' = "decided"
    /\ UNCHANGED <<disk, onDisk, sentinel, scriptSaw, asked, edited, saved, spent>>

\* Settle every book against the names that have a usable price this tick.
Settle(priced) ==
    /\ stage = "decided"
    /\ mem' = [mem EXCEPT !.held = HeldAfter(mem.held, target, priced),
                          !.unpriced = UnpricedAfter(mem.held, priced)]
    /\ target' = {}
    /\ stage' = "settled"
    /\ UNCHANGED <<disk, onDisk, sentinel, scriptSaw, halts, asked, edited, saved,
                   spent>>

\* _save: one atomic replacement of state.json, at the end of the tick.
Save ==
    /\ stage = "settled"
    /\ disk' = mem
    /\ onDisk' = TRUE
    /\ saved' = IF mem.latch # 0 THEN saved \cup {mem.latch} ELSE saved
    /\ stage' = "idle"
    /\ UNCHANGED <<mem, target, sentinel, scriptSaw, halts, asked, edited, spent>>

\* tick() raises somewhere before or in _save; run() logs it and goes on.
TickFails ==
    /\ stage \in {"synced", "decided", "settled"}
    /\ spent.failures < MaxFailures
    /\ spent' = [spent EXCEPT !.failures = @ + 1]
    /\ target' = {}
    /\ stage' = "idle"
    /\ UNCHANGED <<mem, disk, onDisk, sentinel, scriptSaw, halts, asked, edited,
                   saved>>

Crash ==
    /\ stage # "down"
    /\ spent.crashes < MaxCrashes
    /\ spent' = [spent EXCEPT !.crashes = @ + 1]
    /\ target' = {}
    /\ stage' = "down"
    /\ UNCHANGED <<mem, disk, onDisk, sentinel, scriptSaw, halts, asked, edited,
                   saved>>

\* A new process loads state.json; what the dead one held in memory is gone.
Restart ==
    /\ stage = "down"
    /\ mem' = Loaded
    /\ stage' = "idle"
    /\ UNCHANGED <<disk, onDisk, target, sentinel, scriptSaw, halts, asked, edited,
                   saved, spent>>

(***************************************************************************)
(* The humans.                                                             *)
(***************************************************************************)

\* clear_halt.py reads state.json; without a latch there it stops.
ScriptReads ==
    /\ scriptSaw = 0
    /\ onDisk /\ disk.latch # 0
    /\ spent.requests < MaxRequests
    /\ spent' = [spent EXCEPT !.requests = @ + 1]
    /\ scriptSaw' = disk.latch
    /\ UNCHANGED <<stage, mem, disk, onDisk, target, sentinel, halts, asked,
                   edited, saved>>

\* clear_halt.py writes the request file, for the latch it read.
ScriptWrites ==
    /\ scriptSaw # 0
    /\ sentinel' = scriptSaw
    /\ asked' = asked \cup {scriptSaw}
    /\ scriptSaw' = 0
    /\ UNCHANGED <<stage, mem, disk, onDisk, target, halts, edited, saved, spent>>

\* Someone deletes the latch key from state.json in an editor.
HandEdit ==
    /\ onDisk /\ disk.latch # 0
    /\ spent.edits < MaxEdits
    /\ spent' = [spent EXCEPT !.edits = @ + 1]
    /\ edited' = edited \cup {disk.latch}
    /\ disk' = [disk EXCEPT !.latch = 0]
    /\ UNCHANGED <<stage, mem, onDisk, target, sentinel, scriptSaw, halts, asked,
                   saved>>

Sync == HonorRequest \/ HonorEdit \/ NothingToHonor
DecideSome == \E halted \in BOOLEAN, wanted \in Holdings : Decide(halted, wanted)
SettleSome == \E priced \in SUBSET Names : Settle(priced)

Next ==
    \/ HonorRequest \/ HonorEdit \/ NothingToHonor
    \/ DecideSome \/ SettleSome \/ Save \/ TickFails
    \/ Crash \/ Restart
    \/ ScriptReads \/ ScriptWrites \/ HandEdit

Spec == Init /\ [][Next]_vars

\* run() loops for ever, a dead process is restarted, and every name is
\* priced again in infinitely many of the settlements the loop reaches.
Fairness ==
    /\ WF_vars(Sync) /\ WF_vars(DecideSome) /\ WF_vars(SettleSome)
    /\ WF_vars(Save) /\ WF_vars(Restart) /\ WF_vars(ScriptWrites)
    /\ SF_vars(Settle(Names))

FairSpec == Spec /\ Fairness

(***************************************************************************)
(* Safety.                                                                 *)
(***************************************************************************)

\* A state file that carries a latch describes a flat fund: all it still
\* holds is listed there as unpriced (tick(): latch zeroing, settlement and
\* "unpriced_holdings" must agree when _save writes them).
HaltedFileIsFlat == disk.latch # 0 => disk.held \subseteq disk.unpriced

\* Once the latch is up no settlement of any later tick adds a holding, not
\* even when the governor's own verdict has recovered (live.py:1618-1630).
NoRiskUnderLatch ==
    [][stage' = "settled" /\ mem'.held \ mem.held # {} => mem'.latch = 0]_vars

\* A halt that has reached state.json leaves memory, across failed ticks,
\* crashes and restarts, only after a human act: a request file is there, or
\* an edit removed that halt (_sync_halt_clear_from_disk, _load).
SavedHaltNeedsHuman ==
    [][mem.latch \in saved /\ mem.latch # 0 /\ mem'.latch # mem.latch
        => sentinel # 0 \/ mem.latch \in edited]_vars

(***************************************************************************)
(* What comments and tests of the repository say, and the code does not do *)
(***************************************************************************)

\* live.py:1618 "once tripped, ALL books stay flat until a human clears".
OnlyHumansClear ==
    [][stage # "down" /\ mem.latch # 0 /\ mem'.latch # mem.latch
        => sentinel # 0 \/ mem.latch \in edited]_vars

\* tests/test_halt_clear.py:50 "a new halt must survive the old request".
NewHaltSurvivesOldRequest ==
    [][stage # "down" /\ mem.latch \in saved /\ mem.latch # 0 /\ mem'.latch = 0
        => mem.latch \in asked \cup edited]_vars

(***************************************************************************)
(* Liveness.                                                               *)
(***************************************************************************)

\* A request that is on disk while its halt is latched lifts that latch,
\* whatever ticks fail in between (the E20 and E52 races).
RequestLiftsLatch ==
    \A h \in 1 .. MaxHalts : (sentinel = h /\ mem.latch = h) ~> (mem.latch # h)

\* live_book.py:46 "A halt remains pending for them until a valid mark is
\* available": a latched fund ends up flat unless it is unlatched first.
HaltFlattens ==
    \A h \in 1 .. MaxHalts :
        (mem.latch = h) ~> (mem.latch # h \/ mem.held = {})
==============================================================================
