------------------------------- MODULE GpuDemo -------------------------------
(* The paid cluster of the GPU demonstration: a create request whose answer  *)
(* may be lost, an asynchronous operation, the private state file, the       *)
(* foreground watcher, and the clean-up that must not take a cluster that is *)
(* not there yet for one that is gone.                                       *)
(* scripts/gke_gpu_demo.py                                                   *)
EXTENDS Integers, FiniteSets

CONSTANTS
    MaxDemos,  \* bound: executions of `create'
    MaxLost    \* bound: answers that are lost, and tools that are killed

DemoBounds == MaxDemos \in Nat \ {0} /\ MaxLost \in Nat

Demos == 1..MaxDemos

VARIABLES
    pc,       \* where the one tool that runs is
    mem,      \* its state
    disk,     \* the private state file
    op,       \* at the provider: the create operation of each demo
    cluster,  \* the demo whose label the cluster of this name has; 0: none
    deleting, \* whether its deletion was accepted
    lost

demoVars == <<pc, mem, disk, op, cluster, deleting, lost>>

NoState == [demo |-> 0, attempted |-> FALSE, known |-> FALSE, terminal |-> FALSE, deleted |-> FALSE]

DemoInit ==
    /\ pc = "idle" /\ mem = NoState /\ disk = NoState
    /\ op = [d \in Demos |-> "none"] /\ cluster = 0 /\ deleting = FALSE /\ lost = 0

Provider == <<op, cluster, deleting>>
Goes(next) == pc' = next
Saves(state) == mem' = state /\ disk' = state
Loses == lost < MaxLost /\ lost' = lost + 1

(* `create': preflight refuses a name that is taken; the state of an earlier *)
(* demo is overwritten.                                                      *)
Preflight ==
    /\ pc = "idle" /\ disk.demo < MaxDemos /\ cluster = 0
    /\ Saves([NoState EXCEPT !.demo = disk.demo + 1])
    /\ Goes("create")
    /\ UNCHANGED <<Provider, lost>>

Attempts ==
    /\ pc = "create" /\ Saves([mem EXCEPT !.attempted = TRUE]) /\ Goes("request")
    /\ UNCHANGED <<Provider, lost>>

(* One create at a time can hold the name.                                   *)
Free == cluster = 0 /\ \A d \in Demos : op[d] # "running"

(* The operation's name is in the answer, and saved before anything else.    *)
Requests ==
    /\ pc = "request"
    /\ \/ /\ Free /\ op' = [op EXCEPT ![mem.demo] = "running"]
          /\ \/ Saves([mem EXCEPT !.known = TRUE]) /\ Goes("watch") /\ UNCHANGED lost
             \/ Loses /\ Goes("cleanup") /\ UNCHANGED <<mem, disk>>
       \/ ~Free /\ Goes("cleanup") /\ UNCHANGED <<op, mem, disk, lost>>
    /\ UNCHANGED <<cluster, deleting>>

(* Due, an ERROR status, a description that fails, an absence after the      *)
(* cluster was seen, or a signal.                                            *)
WatchEnds == pc = "watch" /\ Goes("cleanup") /\ UNCHANGED <<mem, disk, Provider, lost>>

(* `cleanup', run by the operator on the state of the file, also again.      *)
Operator ==
    /\ pc = "idle" /\ disk.demo # 0
    /\ mem' = disk /\ Goes("cleanup")
    /\ UNCHANGED <<disk, Provider, lost>>

(* creation_status: absence counts only once the create operation is         *)
(* terminal, or was never asked for; whatever cannot be verified is pending. *)
Unknown == mem.attempted /\ ~mem.known
TerminalAtOnce == ~mem.attempted \/ mem.terminal
TerminalIfFound == TerminalAtOnce \/ op[mem.demo] # "none"
Terminal == TerminalAtOnce \/ op[mem.demo] = "done"

CleansUp ==
    /\ pc = "cleanup"
    /\ \/ ~Unknown /\ Terminal /\ Goes("look")
          /\ Saves([mem EXCEPT !.deleted = FALSE, !.terminal = mem.attempted]) /\ UNCHANGED lost
       \/ (Unknown \/ ~Terminal) /\ Goes("idle") /\ Saves([mem EXCEPT !.deleted = FALSE]) /\ UNCHANGED lost
       \/ ~Unknown /\ ~TerminalAtOnce /\ Loses /\ Goes("idle") /\ Saves([mem EXCEPT !.deleted = FALSE])
    /\ UNCHANGED Provider

(* describe_owned, and the deletion of nothing but the owned cluster.        *)
Owned == cluster = mem.demo
Looks ==
    /\ pc = "look"
    /\ \/ cluster = 0 /\ Saves([mem EXCEPT !.deleted = TRUE]) /\ Goes("idle") /\ UNCHANGED <<deleting, lost>>
       \/ cluster # 0 /\ ~Owned /\ Goes("idle") /\ UNCHANGED <<mem, disk, deleting, lost>>
       \/ Owned /\ ~deleting /\ deleting' = TRUE /\ Goes("wait") /\ UNCHANGED <<mem, disk, lost>>
       \/ Owned /\ deleting /\ Goes("idle") /\ UNCHANGED <<mem, disk, deleting, lost>>
       \/ Loses /\ Goes("idle") /\ UNCHANGED <<mem, disk, deleting>>
    /\ UNCHANGED <<op, cluster>>

(* Ten minutes of looking for its absence.                                   *)
Waits ==
    /\ pc = "wait" /\ Goes("idle")
    /\ \/ cluster = 0 /\ Saves([mem EXCEPT !.deleted = TRUE])
       \/ UNCHANGED <<mem, disk>>
    /\ UNCHANGED <<Provider, lost>>

ToolKilled == pc # "idle" /\ Loses /\ Goes("idle") /\ UNCHANGED <<mem, disk, Provider>>

(* The provider: the cluster of a running operation appears, at the latest   *)
(* when it ends; an operation may fail; a deletion ends.                     *)
Appears == \E d \in Demos :
    /\ op[d] = "running" /\ cluster = 0 /\ cluster' = d /\ UNCHANGED <<op, deleting>>
OperationEnds == \E d \in Demos :
    /\ op[d] = "running" /\ op' = [op EXCEPT ![d] = "done"]
    /\ UNCHANGED <<cluster, deleting>>
Deleted == deleting /\ cluster' = 0 /\ deleting' = FALSE /\ UNCHANGED op
Cloud == (Appears \/ OperationEnds \/ Deleted) /\ UNCHANGED <<pc, mem, disk, lost>>

Tool == Preflight \/ Attempts \/ Requests \/ WatchEnds \/ CleansUp \/ Looks \/ Waits
DemoNext == Tool \/ Operator \/ ToolKilled \/ Cloud

DemoSpec == DemoInit /\ [][DemoNext]_demoVars

(* ------------------------------ properties ------------------------------- *)
DemoTypeOK ==
    /\ pc \in {"idle", "create", "request", "watch", "cleanup", "look", "wait"}
    /\ {mem, disk} \subseteq [demo : 0..MaxDemos, attempted : BOOLEAN, known : BOOLEAN,
                              terminal : BOOLEAN, deleted : BOOLEAN]
    /\ op \in [Demos -> {"none", "running", "done"}] /\ cluster \in {0} \cup Demos

(* "A missing cluster is conclusive only after its create operation is       *)
(* terminal": a state file that says deleted has no cluster, now or later,   *)
(* through lost answers, killed watchers and repeated clean-ups.             *)
AbsenceIsFinal ==
    LET d == disk.demo IN disk.deleted => cluster # d /\ op[d] # "running"
==============================================================================
