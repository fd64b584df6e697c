---------------------------- MODULE EquityBackup -----------------------------
(* The nightly backup beside the trading process: daily closes lifted out of *)
(* the ring of marks before it evicts them, and the archives that are kept.  *)
(* scripts/backup_state.py; the ring is state.json's equity_history.         *)
EXTENDS Integers, Sequences, FiniteSets, SequencesExt

CONSTANTS
    MarksKept,   \* marks the ring keeps
    MarksPerDay, \* marks per day
    Values,      \* values a mark may have
    Keep,        \* retention
    LedgerDays,  \* bound: days
    MaxMissed,   \* nights in a row that may pass without a backup
    MaxTorn      \* bound: backups killed while they append

BackupBounds ==
    /\ {MarksKept, MarksPerDay, Keep, LedgerDays} \subseteq Nat \ {0} /\ {MaxMissed, MaxTorn} \subseteq Nat
    /\ MarksKept > MarksPerDay * (MaxMissed + 1) * (MaxTorn + 1)

VARIABLES
    day, marks,   \* the running day and its marks so far
    ring,         \* the marks in state.json: [day, value]
    ledger,       \* equity_daily.jsonl: its lines, [day, value] or Torn
    open,         \* whether the ledger ends without a newline
    snaps,        \* the archives under data/backups: the days they were cut
    missed, torn, \* nights in a row without a backup; bound
    closes        \* history: the last mark of each day

backupVars == <<day, marks, ring, ledger, open, snaps, missed, torn, closes>>

Torn == [day |-> 0, value |-> 0]
Rows == [day : 1..LedgerDays, value : Values]

BackupInit ==
    /\ day = 1 /\ marks = 0 /\ ring = <<>> /\ ledger = <<>> /\ open = FALSE
    /\ snaps = <<>> /\ missed = 0 /\ torn = 0 /\ closes = [d \in 1..LedgerDays |-> 0]

LastN(s, n) == IF Len(s) <= n THEN s ELSE SubSeq(s, Len(s) - n + 1, Len(s))

AddsMark ==
    /\ marks < MarksPerDay
    /\ \E v \in Values : /\ ring' = LastN(Append(ring, [day |-> day, value |-> v]), MarksKept)
                         /\ closes' = [closes EXCEPT ![day] = v]
    /\ marks' = marks + 1
    /\ UNCHANGED <<day, ledger, open, snaps, missed, torn>>

(* A night without a backup may pass, but not more than MaxMissed in a row.  *)
DayPasses ==
    /\ day < LedgerDays /\ marks > 0 /\ missed <= MaxMissed
    /\ day' = day + 1 /\ marks' = 0 /\ missed' = missed + 1
    /\ UNCHANGED <<ring, ledger, open, snaps, torn, closes>>

(* The last mark of each completed day that no intact line holds, by date.   *)
CloseIn(d) == ring[CHOOSE i \in DOMAIN ring : ring[i].day = d
                   /\ \A j \in DOMAIN ring : ring[j].day = d => j <= i].value
CompletedToday(d) == d <= day
Completed(d) == d < day
Seen == {ledger[i].day : i \in DOMAIN ledger}
Due ==
    LET ds == {d \in 1..LedgerDays : Completed(d) /\ d \notin Seen /\ \E i \in DOMAIN ring : ring[i].day = d}
    IN  [i \in 1..Cardinality(ds) |->
           LET d == CHOOSE x \in ds : Cardinality({y \in ds : y < x}) = i - 1
           IN  [day |-> d, value |-> CloseIn(d)]]

(* The first line after an end without a newline is glued to the torn one:   *)
(* neither can be read, and the next backup finds its date missing.          *)
Appended(rows) == IF open /\ rows # <<>> THEN ledger \o Tail(rows) ELSE ledger \o rows

Prune(s) == LastN(s, Keep)

Backup ==
    /\ ledger' = Appended(Due) /\ open' = (open /\ Due = <<>>)
    /\ snaps' = Prune(Append(snaps, day)) /\ missed' = 0
    /\ UNCHANGED <<day, marks, ring, torn, closes>>

(* Killed while it appends: some of the rows are there, the next one torn.   *)
BackupTorn ==
    /\ torn < MaxTorn /\ torn' = torn + 1
    /\ \E n \in 0..(Len(Due) - 1) : ledger' = Append(Appended(SubSeq(Due, 1, n)), Torn)
    /\ open' = TRUE
    /\ UNCHANGED <<day, marks, ring, snaps, missed, closes>>

BackupNext == AddsMark \/ DayPasses \/ Backup \/ BackupTorn

BackupSpec == BackupInit /\ [][BackupNext]_backupVars

(* ------------------------------ properties ------------------------------- *)
BackupTypeOK ==
    /\ day \in 1..LedgerDays /\ marks \in 0..MarksPerDay /\ open \in BOOLEAN
    /\ \A i \in DOMAIN ring : ring[i] \in Rows
    /\ \A i \in DOMAIN ledger : ledger[i] \in Rows \cup {Torn}
    /\ Len(ring) <= MarksKept /\ Len(snaps) <= Keep

(* A line of the ledger is the close of its day, and a day has one line.     *)
LedgerIsTrue ==
    /\ \A i \in DOMAIN ledger : ledger[i] # Torn => ledger[i].value = closes[ledger[i].day] /\ ledger[i].day < day
    /\ \A i, j \in DOMAIN ledger : i # j /\ ledger[i] # Torn => ledger[i].day # ledger[j].day

(* No completed day leaves the ring before the ledger has it: a torn line    *)
(* costs the backup that was killed and the next one, and no more.           *)
NoDayLost ==
    \A d \in 1..(day - 1) :
        \/ \E i \in DOMAIN ledger : ledger[i].day = d
        \/ \E i \in DOMAIN ring : ring[i].day = d /\ ring[i].value = closes[d]

(* The ledger and the ring together hold every close, and the ledger no line *)
(* that is not one (update_equity_ledger against the runtime's 3000 marks).  *)
LedgerKeepsDays == LedgerIsTrue /\ NoDayLost
==============================================================================
