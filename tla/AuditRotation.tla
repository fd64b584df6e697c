---------------------------- MODULE AuditRotation ----------------------------
(* The security auditor's walk over the source tree: each pass asks a model  *)
(* about the files it has not asked about for longest.                       *)
(* research/security_audit.py.                                               *)
EXTENDS Integers, FiniteSets, Sequences, SequencesExt, FiniteSetsExt

CONSTANTS
    NFiles,        \* files in scope; a file is its place in the order of paths
    Slice,         \* slice_size
    MaxUnreadable, \* files that cannot be read at one time
    MaxDeadPasses  \* bound: passes that die

RotationBounds ==
    {NFiles, Slice} \subseteq Nat \ {0} /\ {MaxUnreadable, MaxDeadPasses} \subseteq Nat

VARIABLES
    stamp,      \* audit_state.json: file -> when it was reviewed, 0 for never
    unreadable, \* files whose read raises
    queue,      \* the rest of the running pass's slice
    asked,      \* files stamped in memory by the running pass
    at,         \* "idle", "asking", "saved"
    deadPasses  \* bound

auditVars == <<stamp, unreadable, queue, asked, at, deadPasses>>

Files == 1..NFiles

AuditInit ==
    /\ stamp = [f \in Files |-> 0] /\ unreadable = {} /\ queue = <<>>
    /\ asked = {} /\ at = "idle" /\ deadPasses = 0

(* Only the order of the stamps matters: they are renumbered from 1.         *)
Renumbered(st) ==
    [f \in Files |-> IF st[f] = 0 THEN 0
                     ELSE Cardinality({st[g] : g \in {h \in Files : st[h] # 0 /\ st[h] <= st[f]}})]

(* next_slice: the least recently reviewed first, by path among equals.      *)
next_slice_by_path == SubSeq([i \in Files |-> i], 1, Min({Slice, NFiles}))
next_slice ==
    SubSeq(SetToSortSeq(Files, LAMBDA f, g : stamp[f] < stamp[g] \/ (stamp[f] = stamp[g] /\ f < g)),
           1, Min({Slice, NFiles}))

Begin ==
    /\ at = "idle" /\ at' = "asking" /\ queue' = next_slice /\ asked' = {}
    /\ UNCHANGED <<stamp, unreadable, deadPasses>>

(* A file that cannot be read is passed over without a stamp; one the model  *)
(* refused, or answered badly, is stamped like any other.                    *)
Review ==
    /\ at = "asking" /\ queue # <<>> /\ queue' = Tail(queue)
    /\ asked' = IF Head(queue) \in unreadable THEN asked ELSE asked \cup {Head(queue)}
    /\ UNCHANGED <<stamp, unreadable, at, deadPasses>>

(* The state is saved at the end of the pass, before the report is written.  *)
SaveState ==
    /\ at = "asking" /\ queue = <<>> /\ at' = "saved"
    /\ stamp' = Renumbered([f \in Files |-> IF f \in asked THEN NFiles + 1 ELSE stamp[f]])
    /\ UNCHANGED <<unreadable, queue, asked, deadPasses>>

WriteReport ==
    /\ at = "saved" /\ at' = "idle"
    /\ UNCHANGED <<stamp, unreadable, queue, asked, deadPasses>>

(* A pass that dies: a file torn by the save reads as no state at all.       *)
PassKilled ==
    /\ at # "idle" /\ deadPasses < MaxDeadPasses
    /\ at' = "idle" /\ queue' = <<>> /\ deadPasses' = deadPasses + 1
    /\ stamp' \in {stamp} \cup IF at = "asking" /\ queue = <<>> THEN {[f \in Files |-> 0]} ELSE {}
    /\ UNCHANGED <<unreadable, asked>>

(* A file is being written, or is binary, for a while.                       *)
Scramble ==
    /\ unreadable' \in {u \in SUBSET Files : Cardinality(u) <= MaxUnreadable}
    /\ unreadable' # unreadable /\ at = "idle"
    /\ UNCHANGED <<stamp, queue, asked, at, deadPasses>>

Pass == Begin \/ Review \/ SaveState \/ WriteReport

AuditNext == Pass \/ PassKilled \/ Scramble

AuditSpec == AuditInit /\ [][AuditNext]_auditVars

FairAudit == AuditSpec /\ WF_auditVars(Pass)

(* ------------------------------ properties ------------------------------- *)
AuditTypeOK ==
    /\ stamp \in [Files -> 0..NFiles] /\ unreadable \subseteq Files
    /\ asked \subseteq Files /\ at \in {"idle", "asking", "saved"}

(* "Every file is inspected on a fixed cycle": over passes that die and      *)
(* files that cannot be read now and then, fewer than a slice at a time, a   *)
(* file that can be read from some day on is asked about again and again.    *)
EveryFileIsAsked ==
    \A f \in Files : <>[](f \notin unreadable) => []<>(f \in asked)
==============================================================================
