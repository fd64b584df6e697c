----------------------------- MODULE NightProofs -----------------------------
(***************************************************************************)
(* Theorems about a night of research, for every value of the constants:   *)
(* ResearchHarness, for every set of specs and families, every queue and   *)
(* every bound, and EngineerLane, for any finite tree and every bound, when*)
(* the script stays out of a night and no death falls into an apply        *)
(* (without either, the runs show what goes wrong).  No theorem is about   *)
(* the two together.                                                       *)
(***************************************************************************)
EXTENDS ResearchHarness, EngineerLane, FiniteSetTheorems, TLAPS

(***************************************************************************)
(* Types, with where a night stands and what a candidate is.               *)
(***************************************************************************)

\* What the stages of a night rely on.
Position ==
    /\ stage = "run" => at \in DOMAIN mem /\ Disposition(mem[at]) = "run"
    /\ stage = "append" => /\ entry \in Row
                           /\ entry.phase = "discovery" => at \in DOMAIN mem
    /\ stage = "mark" => at \in DOMAIN mem

\* A candidate is a spec of its family.
Candidates ==
    \A f \in Families : families[f].status = "candidate" =>
        families[f].candidate \in Specs /\ FamilyOf[families[f].candidate] = f

TypeInv == TypeOK /\ Position /\ Candidates

\* Replacing one entry of a queue leaves a queue of the same length.
LEMMA ReplaceEntry ==
    ASSUME NEW q \in Seq(Entry), NEW i \in DOMAIN q,
           NEW st \in {"pending", "done", "rejected"}, NEW r \in Nat, NEW s \in Specs
    PROVE  /\ [q EXCEPT ![i].status = st] \in Seq(Entry)
           /\ [q EXCEPT ![i].status = st, ![i].result = r] \in Seq(Entry)
           /\ [q EXCEPT ![i].spec = s] \in Seq(Entry)
           /\ DOMAIN [q EXCEPT ![i].status = st] = DOMAIN q
           /\ DOMAIN [q EXCEPT ![i].status = st, ![i].result = r] = DOMAIN q
<1>1. q[i] \in Entry
    OBVIOUS
<1>2. /\ [q[i] EXCEPT !.status = st] \in Entry
      /\ [q[i] EXCEPT !.status = st, !.result = r] \in Entry
      /\ [q[i] EXCEPT !.spec = s] \in Entry
    BY <1>1 DEF Entry
<1>3. ASSUME NEW e \in Entry
      PROVE  [q EXCEPT ![i] = e] \in Seq(Entry) /\ DOMAIN [q EXCEPT ![i] = e] = DOMAIN q
    OBVIOUS
<1>4. /\ [q EXCEPT ![i].status = st] = [q EXCEPT ![i] = [q[i] EXCEPT !.status = st]]
      /\ [q EXCEPT ![i].status = st, ![i].result = r]
             = [q EXCEPT ![i] = [q[i] EXCEPT !.status = st, !.result = r]]
      /\ [q EXCEPT ![i].spec = s] = [q EXCEPT ![i] = [q[i] EXCEPT !.spec = s]]
    OBVIOUS
<1> QED
    BY <1>2, <1>3, <1>4

\* The first state: every entry of the queue is pending.
LEMMA TypeInit ==
    Init => TypeInv
<1> SUFFICES ASSUME Init
             PROVE  TypeInv
    OBVIOUS
<1> USE HarnessAssumption DEF Init
<1>1. queue \in Seq(Entry)
    <2>1. \A i \in DOMAIN Queue0 : Pending(Queue0[i], None) \in Entry
        BY DEF Pending, Entry
    <2>2. DOMAIN queue = 1 .. Len(Queue0) /\ Len(Queue0) \in Nat
        OBVIOUS
    <2> QED
        BY <2>1, <2>2
<1>2. families \in [Families -> Family]
    BY DEF Family
<1>3. /\ answered \in [Specs -> Nat] /\ total \in Nat
      /\ rows \in Seq(Row) /\ mem \in Seq(Entry) /\ at \in Nat
      /\ entry \in Row \cup {NoRow} /\ spent \in [errors : Nat, crashes : Nat, edits : Nat]
      /\ stage = "idle"
    OBVIOUS
<1> QED
    BY <1>1, <1>2, <1>3 DEF TypeInv, TypeOK, Position, Candidates

\* The bounds stay numbers.
LEMMA SpendType ==
    ASSUME TypeOK, NEW bound \in {"errors", "crashes", "edits"}, NEW limit \in Nat,
           Spend(bound, limit)
    PROVE  spent' \in [errors : Nat, crashes : Nat, edits : Nat]
BY DEF TypeOK, Spend

\* An answer is a number.
LEMMA AnswerType ==
    ASSUME TypeOK, NEW s \in Specs
    PROVE  Answer(s) \in Nat
BY DEF TypeOK, Answer

\* Recording a result leaves families of the same type.
LEMMA DiscoverType ==
    ASSUME TypeInv, NEW result \in {"strong", "weak", "null", "error"}, Discover(result)
    PROVE  TypeInv'
<1> DEFINE s == mem[at].spec
           f == FamilyOf[s]
           trials == TrialsAfter(f, result)
           verdict == Verdict(result, trials)
           wins == verdict = "PASS" /\ families[f].status = "open"
<1>1. at \in DOMAIN mem /\ mem \in Seq(Entry) /\ s \in Specs /\ f \in Families
    <2>1. at \in DOMAIN mem /\ mem \in Seq(Entry)
        BY DEF TypeInv, TypeOK, Position, Discover
    <2>2. mem[at] \in Entry
        BY <2>1
    <2> QED
        BY <2>1, <2>2, HarnessAssumption DEF Entry
<1>2. /\ families[f] \in Family /\ trials \in Nat
      /\ verdict \in {"PASS", "FAIL", "ERROR"}
      /\ NextId \in Nat \ {0}
    <2>1. families[f] \in Family /\ total \in Nat
        BY <1>1 DEF TypeInv, TypeOK
    <2> QED
        BY <2>1 DEF Family, TrialsAfter, Verdict, NextId
<1>3. /\ total' = NextId
      /\ families' = [families EXCEPT ![f].trials = trials,
                         ![f].status = IF wins THEN "candidate" ELSE @,
                         ![f].candidate = IF wins THEN s ELSE @]
      /\ answered' = IF verdict = "ERROR" THEN answered ELSE [answered EXCEPT ![s] = NextId]
      /\ entry' = [id |-> NextId, phase |-> "discovery", spec |-> s,
                   verdict |-> verdict, trials |-> trials]
      /\ stage' = "append"
      /\ UNCHANGED <<rows, queue, mem, at>>
    BY DEF Discover
<1> HIDE DEF wins, verdict, trials, f, s
<1>4. entry' \in Row /\ entry'.phase = "discovery"
    BY <1>1, <1>2, <1>3 DEF Row
<1>5. families' \in [Families -> Family]
    BY <1>1, <1>2, <1>3 DEF TypeInv, TypeOK, Family
<1>6. answered' \in [Specs -> Nat]
    BY <1>1, <1>2, <1>3 DEF TypeInv, TypeOK
<1>7. spent' \in [errors : Nat, crashes : Nat, edits : Nat]
    BY SpendType, HarnessAssumption DEF Discover, MayRaise, TypeInv, TypeOK
<1>8. TypeOK'
    BY <1>2, <1>3, <1>4, <1>5, <1>6, <1>7 DEF TypeInv, TypeOK
<1>9. Position'
    BY <1>1, <1>3, <1>4 DEF Position
<1>10. Candidates'
    <2> SUFFICES ASSUME NEW g \in Families, families'[g].status = "candidate"
                 PROVE  families'[g].candidate \in Specs /\ FamilyOf[families'[g].candidate] = g
        BY DEF Candidates
    <2>1. CASE g # f
        <3>1. families'[g] = families[g]
            BY <1>3, <2>1 DEF TypeInv, TypeOK
        <3> QED
            BY <3>1 DEF TypeInv, Candidates
    <2>2. CASE g = f /\ wins
        <3>1. families'[f].candidate = s
            BY <1>1, <1>2, <1>3, <2>2 DEF TypeInv, TypeOK, Family
        <3> QED
            BY <1>1, <2>2, <3>1 DEF f
    <2>3. CASE g = f /\ ~wins
        <3>1. /\ families'[f].status = families[f].status
              /\ families'[f].candidate = families[f].candidate
            BY <1>1, <1>2, <1>3, <2>3 DEF TypeInv, TypeOK, Family
        <3> QED
            BY <1>1, <2>3, <3>1 DEF TypeInv, Candidates
    <2> QED
        BY <2>1, <2>2, <2>3
<1> QED
    BY <1>8, <1>9, <1>10 DEF TypeInv

\* A confirmation closes its family or leaves it as it is.
LEMMA ConfirmType ==
    ASSUME TypeInv, NEW f \in Families, NEW result \in {"CONFIRMED", "BURNED", "ERROR"},
           Confirm(f, result)
    PROVE  TypeInv'
<1>1. families[f] \in Family /\ families[f].status = "candidate" /\ total \in Nat
    BY DEF TypeInv, TypeOK, Confirm, HasShot
<1>2. families[f].candidate \in Specs
    BY <1>1 DEF TypeInv, Candidates
<1>3. /\ total' = NextId
      /\ families' = IF result = "ERROR" THEN families
                     ELSE [families EXCEPT ![f].used = @ + 1,
                              ![f].status = IF result = "CONFIRMED" THEN "confirmed" ELSE "burned"]
      /\ entry' = [id |-> NextId, phase |-> "confirmation", spec |-> families[f].candidate,
                   verdict |-> result, trials |-> families[f].trials]
      /\ stage' = "append"
      /\ UNCHANGED <<answered, rows, queue, mem, at>>
    BY DEF Confirm
<1>4. entry' \in Row /\ entry'.phase = "confirmation"
    BY <1>1, <1>2, <1>3 DEF Row, NextId, Family
<1>5. families' \in [Families -> Family]
    <2> DEFINE closed == [families[f] EXCEPT !.used = @ + 1,
                             !.status = IF result = "CONFIRMED" THEN "confirmed" ELSE "burned"]
    <2>1. closed \in Family
        <3>1. \A n \in Nat, st \in {"confirmed", "burned"} :
                  [families[f] EXCEPT !.used = n, !.status = st] \in Family
            BY <1>1 DEF Family
        <3>2. families[f].used + 1 \in Nat
            BY <1>1 DEF Family
        <3>3. (IF result = "CONFIRMED" THEN "confirmed" ELSE "burned")
                  \in {"confirmed", "burned"}
            OBVIOUS
        <3> QED
            BY <3>1, <3>2, <3>3
    <2>2. families' = families \/ families' = [families EXCEPT ![f] = closed]
        BY <1>3
    <2> HIDE DEF closed
    <2> QED
        BY <2>1, <2>2 DEF TypeInv, TypeOK
<1>6. spent' \in [errors : Nat, crashes : Nat, edits : Nat]
    BY SpendType, HarnessAssumption DEF Confirm, MayRaise, TypeInv, TypeOK
<1>7. TypeOK'
    BY <1>1, <1>3, <1>4, <1>5, <1>6 DEF TypeInv, TypeOK, NextId
<1>8. Position'
    BY <1>3, <1>4 DEF Position
<1>9. Candidates'
    <2> SUFFICES ASSUME NEW g \in Families, families'[g].status = "candidate"
                 PROVE  families'[g].candidate \in Specs /\ FamilyOf[families'[g].candidate] = g
        BY DEF Candidates
    <2>1. families'[g] = families[g]
        BY <1>1, <1>3 DEF TypeInv, TypeOK, Family
    <2> QED
        BY <2>1 DEF TypeInv, Candidates
<1> QED
    BY <1>7, <1>8, <1>9 DEF TypeInv

\* The steps of the scan keep the types.
LEMMA ScanType ==
    ASSUME TypeInv, PassOver \/ Reject \/ SkipDuplicate \/ Choose \/ Exhausted
    PROVE  TypeInv'
<1>1. Candidates'
    BY DEF TypeInv, Candidates, PassOver, Reject, SkipDuplicate, Choose, Exhausted, registry
<1>2. Position'
    <2>1. CASE Choose
        <3>1. /\ at' = at /\ mem' = mem /\ stage' = "run" /\ at \in DOMAIN mem
              /\ rows' = rows /\ answered' = answered /\ families' = families
              /\ Disposition(mem[at]) = "run"
            BY <2>1 DEF Choose, registry
        <3>2. Disposition(mem[at])' = Disposition(mem[at])
            BY <3>1 DEF Disposition, Answer, FamilyOpen, Unaltered
        <3> QED
            BY <3>1, <3>2 DEF Position
    <2>2. CASE PassOver \/ Reject \/ SkipDuplicate \/ Exhausted
        <3>1. stage' \in {"scan", "director"}
            BY <2>2 DEF PassOver, Reject, SkipDuplicate, Exhausted
        <3> QED
            BY <3>1 DEF Position
    <2> QED
        BY <2>1, <2>2
<1>3. TypeOK'
    <2>1. CASE PassOver \/ Choose \/ Exhausted
        BY <2>1 DEF TypeInv, TypeOK, PassOver, Choose, Exhausted, registry
    <2>2. CASE Reject \/ SkipDuplicate
        <3>1. at \in DOMAIN mem /\ mem \in Seq(Entry) /\ at \in Nat
            BY <2>2 DEF TypeInv, TypeOK, Reject, SkipDuplicate
        <3>2. mem[at] \in Entry
            BY <3>1
        <3>3. mem[at].spec \in Specs
            BY <3>2 DEF Entry
        <3>4. Answer(mem[at].spec) \in Nat
            BY <3>3, AnswerType DEF TypeInv
        <3>5. mem' \in Seq(Entry)
            <4>1. CASE Reject
                BY <3>1, <3>3, <4>1, ReplaceEntry DEF Reject
            <4>2. CASE SkipDuplicate
                <5>1. mem' = [mem EXCEPT ![at].status = "done",
                                         ![at].result = Answer(mem[at].spec)]
                    BY <4>2 DEF SkipDuplicate
                <5> QED
                    BY <3>1, <3>3, <3>4, <5>1, ReplaceEntry
            <4> QED
                BY <2>2, <4>1, <4>2
        <3> QED
            BY <2>2, <3>1, <3>5 DEF TypeInv, TypeOK, Reject, SkipDuplicate, registry
    <2> QED
        BY <2>1, <2>2
<1> QED
    BY <1>1, <1>2, <1>3 DEF TypeInv

\* The last steps of a night, and its death, keep the types.
LEMMA CloseType ==
    ASSUME TypeInv, AppendRow \/ MarkDone \/ Director \/ Crash
    PROVE  TypeInv'
<1>1. Candidates'
    BY DEF TypeInv, Candidates, AppendRow, MarkDone, Director, Crash, registry
<1>2. Position'
    BY DEF TypeInv, Position, AppendRow, MarkDone, Director, Crash
<1>3. CASE AppendRow
    <2>1. entry \in Row /\ rows \in Seq(Row)
        BY <1>3 DEF TypeInv, TypeOK, Position, AppendRow
    <2>2. rows' \in Seq(Row)
        BY <1>3, <2>1 DEF AppendRow
    <2>3. TypeOK'
        BY <1>3, <2>2 DEF TypeInv, TypeOK, AppendRow, registry
    <2> QED
        BY <1>1, <1>2, <2>3 DEF TypeInv
<1>4. CASE MarkDone
    <2>1. at \in DOMAIN mem /\ mem \in Seq(Entry) /\ entry.id \in Nat
        BY <1>4 DEF TypeInv, TypeOK, Position, MarkDone, Row, NoRow
    <2>2. mem[at].spec \in Specs
        <3>1. mem[at] \in Entry
            BY <2>1
        <3> QED
            BY <3>1 DEF Entry
    <2>3. mem' \in Seq(Entry)
        BY <1>4, <2>1, <2>2, ReplaceEntry DEF MarkDone
    <2>4. TypeOK'
        BY <1>4, <2>3 DEF TypeInv, TypeOK, MarkDone, registry
    <2> QED
        BY <1>1, <1>2, <2>4 DEF TypeInv
<1>5. CASE Director
    <2>1. ASSUME NEW s \in Specs
          PROVE  Append(queue, Pending(s, s)) \in Seq(Entry)
        BY DEF TypeInv, TypeOK, Pending, Entry
    <2>2. queue' \in Seq(Entry)
        BY <1>5, <2>1 DEF TypeInv, TypeOK, Director
    <2>3. TypeOK'
        BY <1>5, <2>2 DEF TypeInv, TypeOK, Director, registry
    <2> QED
        BY <1>1, <1>2, <2>3 DEF TypeInv
<1>6. CASE Crash
    <2>1. spent' \in [errors : Nat, crashes : Nat, edits : Nat]
        BY <1>6, SpendType, HarnessAssumption DEF TypeInv, Crash
    <2>2. TypeOK'
        BY <1>6, <2>1 DEF TypeInv, TypeOK, Crash, registry
    <2> QED
        BY <1>1, <1>2, <2>2 DEF TypeInv
<1> QED
    BY <1>3, <1>4, <1>5, <1>6

\* So do the edits of a human.
LEMMA EditType ==
    ASSUME TypeInv, NEW i \in DOMAIN queue,
           ResetEntry(i) \/ \E s \in Specs : AlterEntry(i, s)
    PROVE  TypeInv'
<1>1. /\ UNCHANGED <<registry, rows, mem, stage, at, entry>>
      /\ Spend("edits", MaxEdits)
    BY DEF ResetEntry, AlterEntry
<1>2. spent' \in [errors : Nat, crashes : Nat, edits : Nat]
    BY <1>1, SpendType, HarnessAssumption DEF TypeInv
<1>3. queue' \in Seq(Entry)
    <2>1. queue \in Seq(Entry)
        BY DEF TypeInv, TypeOK
    <2>2. queue[i].spec \in Specs /\ queue[i].status \in {"pending", "done", "rejected"}
        <3>1. queue[i] \in Entry
            BY <2>1
        <3> QED
            BY <3>1 DEF Entry
    <2>3. CASE ResetEntry(i)
        BY <2>1, <2>2, <2>3, ReplaceEntry DEF ResetEntry
    <2>4. ASSUME NEW s \in Specs, AlterEntry(i, s)
          PROVE  queue' \in Seq(Entry)
        BY <2>1, <2>2, <2>4, ReplaceEntry DEF AlterEntry
    <2> QED
        BY <2>3, <2>4
<1>4. TypeOK' /\ Candidates'
    BY <1>1, <1>2, <1>3 DEF TypeInv, TypeOK, Candidates, registry
<1>5. Position'
    <2>1. Disposition(mem[at])' = Disposition(mem[at])
        BY <1>1 DEF registry, Disposition, Answer, FamilyOpen, Unaltered
    <2> QED
        BY <1>1, <2>1 DEF TypeInv, Position
<1> QED
    BY <1>4, <1>5 DEF TypeInv

\* Every step keeps the types.
LEMMA TypeStep ==
    ASSUME TypeInv, [Next]_vars
    PROVE  TypeInv'
<1>1. CASE StartNight
    BY <1>1 DEF StartNight, TypeInv, TypeOK, Position, Candidates, registry
<1>2. CASE UNCHANGED vars
    <2>1. Disposition(mem[at])' = Disposition(mem[at])
        BY <1>2 DEF vars, Disposition, Answer, FamilyOpen, Unaltered
    <2> QED
        BY <1>2, <2>1 DEF vars, TypeInv, TypeOK, Position, Candidates
<1> QED
    BY <1>1, <1>2, ConfirmType, ScanType, DiscoverType, CloseType, EditType DEF Next, Night

\* The registry, ledger, queue and night are always of their types, and a
\* night never works on an entry or a candidate that is not there.
THEOREM HarnessTypeCorrect ==
    Spec => []TypeOK
<1>1. TypeInv /\ [Next]_vars => TypeInv'
    BY TypeStep
<1>2. TypeInv => TypeOK
    BY DEF TypeInv
<1> QED
    BY TypeInit, <1>1, <1>2, PTL DEF Spec

(***************************************************************************)
(* Answers.                                                                *)
(***************************************************************************)

\* No number has been given out that is beyond the count.
Numbered ==
    /\ \A s \in Specs : answered[s] <= total
    /\ \A i \in DOMAIN rows : rows[i].id <= total
    /\ entry.id <= total

\* Where the row of an answer is, it is about that spec and no error.
Backs(row, s) == row.id = answered[s] => row.spec = s /\ row.verdict # "ERROR"

Backed ==
    \A s \in Specs : answered[s] # 0 =>
        /\ \A i \in DOMAIN rows : Backs(rows[i], s)
        /\ Backs(entry, s)

AnswersInv == Numbered /\ Backed

\* At first there is none.
LEMMA AnswersInit ==
    Init => AnswersInv
BY DEF Init, AnswersInv, Numbered, Backed, NoRow

\* The duplicate check finds every answer, in the ledger or not.
LEMMA AnswerFound ==
    ASSUME TypeInv, AnswersInv, NEW s \in Specs
    PROVE  Answer(s) = answered[s]
<1>1. CASE answered[s] = 0
    BY <1>1 DEF Answer
<1>2. CASE answered[s] # 0
    BY <1>2 DEF Answer, AnswersInv, Backed, Backs
<1> QED
    BY <1>1, <1>2

\* A step that leaves registry and ledger alone leaves the answers backed.
LEMMA AnswersRest ==
    ASSUME TypeInv, AnswersInv, UNCHANGED <<answered, total, rows>>, entry' \in {entry, NoRow}
    PROVE  AnswersInv'
<1>1. CASE entry' = entry
    BY <1>1 DEF AnswersInv, Numbered, Backed, Backs
<1>2. CASE entry' = NoRow
    BY <1>2 DEF TypeInv, TypeOK, AnswersInv, Numbered, Backed, Backs, NoRow
<1> QED
    BY <1>1, <1>2

\* A discovery answers a spec that had no answer, under a new number.
LEMMA AnswersDiscover ==
    ASSUME TypeInv, AnswersInv, NEW result \in {"strong", "weak", "null", "error"},
           Discover(result)
    PROVE  /\ AnswersInv'
           /\ \A s \in Specs : answered[s] # 0 => answered'[s] = answered[s]
<1> DEFINE x == mem[at].spec
<1>1. at \in DOMAIN mem /\ mem \in Seq(Entry) /\ Disposition(mem[at]) = "run"
    BY DEF TypeInv, TypeOK, Position, Discover
<1>2. x \in Specs
    <2>1. mem[at] \in Entry
        BY <1>1
    <2> QED
        BY <2>1 DEF Entry
<1>3. answered[x] = 0
    <2>1. Answer(x) = 0
        BY <1>1 DEF Disposition
    <2> QED
        BY <1>2, <2>1, AnswerFound
<1>4. /\ total' = total + 1 /\ rows' = rows
      /\ entry'.id = total + 1 /\ entry'.spec = x
      /\ answered' = IF entry'.verdict = "ERROR" THEN answered
                     ELSE [answered EXCEPT ![x] = total + 1]
    BY DEF Discover, NextId
<1>5. /\ answered \in [Specs -> Nat] /\ total \in Nat
      /\ \A i \in DOMAIN rows : rows[i].id \in Nat
    <2>1. \A i \in DOMAIN rows : rows[i] \in Row
        BY DEF TypeInv, TypeOK
    <2> QED
        BY <2>1 DEF TypeInv, TypeOK, Row
<1> HIDE DEF x
<1>6. Numbered'
    BY <1>2, <1>4, <1>5 DEF AnswersInv, Numbered
<1>7. Backed'
    <2> SUFFICES ASSUME NEW s \in Specs, answered'[s] # 0
                 PROVE  /\ \A i \in DOMAIN rows' : Backs(rows[i], s)'
                        /\ Backs(entry, s)'
        BY DEF Backed
    <2>1. CASE answered'[s] = answered[s]
        <3>1. \A i \in DOMAIN rows' : Backs(rows[i], s)'
            BY <1>4, <2>1 DEF AnswersInv, Backed, Backs
        <3>2. entry'.id # answered'[s]
            BY <1>4, <1>5, <2>1 DEF AnswersInv, Numbered
        <3> QED
            BY <3>1, <3>2 DEF Backs
    <2>2. CASE s = x /\ entry'.verdict # "ERROR" /\ answered'[s] = total + 1
        <3>1. \A i \in DOMAIN rows' : rows'[i].id # answered'[s]
            BY <1>4, <1>5, <2>2 DEF AnswersInv, Numbered
        <3> QED
            BY <1>4, <2>2, <3>1 DEF Backs
    <2> QED
        BY <1>2, <1>4, <1>5, <2>1, <2>2
<1>8. \A s \in Specs : answered[s] # 0 => answered'[s] = answered[s]
    BY <1>2, <1>3, <1>4, <1>5
<1> QED
    BY <1>6, <1>7, <1>8 DEF AnswersInv

\* A confirmation takes a new number too, and answers no spec.
LEMMA AnswersConfirm ==
    ASSUME TypeInv, AnswersInv, NEW f \in Families,
           NEW result \in {"CONFIRMED", "BURNED", "ERROR"}, Confirm(f, result)
    PROVE  AnswersInv'
<1>1. /\ total' = total + 1 /\ rows' = rows /\ answered' = answered
      /\ entry'.id = total + 1
    BY DEF Confirm, NextId
<1>2. /\ answered \in [Specs -> Nat] /\ total \in Nat
      /\ \A i \in DOMAIN rows : rows[i].id \in Nat
    <2>1. \A i \in DOMAIN rows : rows[i] \in Row
        BY DEF TypeInv, TypeOK
    <2> QED
        BY <2>1 DEF TypeInv, TypeOK, Row
<1> QED
    BY <1>1, <1>2 DEF AnswersInv, Numbered, Backed, Backs

\* The row that is appended is the entry.
LEMMA AppendedRows ==
    ASSUME TypeInv, AppendRow
    PROVE  /\ rows \in Seq(Row) /\ entry \in Row /\ Len(rows) \in Nat
           /\ Len(rows') = Len(rows) + 1
           /\ DOMAIN rows = 1 .. Len(rows) /\ DOMAIN rows' = 1 .. Len(rows) + 1
           /\ \A i \in 1 .. Len(rows) : rows'[i] = rows[i] /\ rows[i] \in Row
           /\ rows'[Len(rows) + 1] = entry
BY DEF TypeInv, TypeOK, Position, AppendRow

\* Appending the entry adds the row that was already spoken of.
LEMMA AnswersAppend ==
    ASSUME TypeInv, AnswersInv, AppendRow
    PROVE  AnswersInv'
<1>1. UNCHANGED <<answered, total, entry>>
    BY DEF AppendRow, registry
<1>2. \A i \in DOMAIN rows' :
          rows'[i] = entry \/ (i \in DOMAIN rows /\ rows'[i] = rows[i])
    BY AppendedRows
<1>3. Numbered'
    BY <1>1, <1>2 DEF AnswersInv, Numbered
<1>4. Backed'
    BY <1>1, <1>2 DEF AnswersInv, Backed, Backs
<1> QED
    BY <1>3, <1>4 DEF AnswersInv

\* Every step keeps the answers backed and given.
LEMMA AnswersStep ==
    ASSUME TypeInv, AnswersInv, [Next]_vars
    PROVE  /\ AnswersInv'
           /\ \A s \in Specs : answered[s] # 0 => answered'[s] = answered[s]
<1>1. CASE \E result \in {"strong", "weak", "null", "error"} : Discover(result)
    BY <1>1, AnswersDiscover
<1>2. CASE \E f \in Families, result \in {"CONFIRMED", "BURNED", "ERROR"} : Confirm(f, result)
    BY <1>2, AnswersConfirm DEF Confirm
<1>3. CASE AppendRow
    BY <1>3, AnswersAppend DEF AppendRow, registry
<1>4. CASE \/ StartNight \/ PassOver \/ Reject \/ SkipDuplicate \/ Choose \/ Exhausted
           \/ MarkDone \/ Director \/ Crash \/ UNCHANGED vars
           \/ \E i \in DOMAIN queue : ResetEntry(i) \/ \E s \in Specs : AlterEntry(i, s)
    <2>1. UNCHANGED <<answered, total, rows>> /\ entry' \in {entry, NoRow}
        BY <1>4 DEF StartNight, PassOver, Reject, SkipDuplicate, Choose, Exhausted, MarkDone,
                    Director, Crash, vars, ResetEntry, AlterEntry, registry
    <2> QED
        BY <2>1, AnswersRest
<1> QED
    BY <1>1, <1>2, <1>3, <1>4 DEF Next, Night

\* A spec that has an answer is never run again (run_one_from_queue, record),
\* whatever a killed night left out of the ledger or an edit asks for.
THEOREM AnsweredOnceHolds ==
    Spec => AnsweredOnce
<1>1. TypeInv /\ AnswersInv /\ [Next]_vars => (TypeInv /\ AnswersInv)'
    BY TypeStep, AnswersStep
<1>2. TypeInv /\ AnswersInv /\ [Next]_vars
          => [\A s \in Specs : answered[s] # 0 => answered'[s] = answered[s]]_vars
    BY AnswersStep
<1> QED
    BY TypeInit, AnswersInit, <1>1, <1>2, PTL DEF Spec, AnsweredOnce

(***************************************************************************)
(* The lockbox.                                                            *)
(***************************************************************************)

ClosedFamily(f) == families[f].status \in {"burned", "confirmed"}

\* A shot in the ledger has closed its family, and the row a night is about
\* to append is of a family without one.
ShotInv ==
    /\ \A f \in Families : Shots(f) # {} => ClosedFamily(f)
    /\ stage = "append" =>
          /\ Shots(FamilyOf[entry.spec]) = {}
          /\ entry.phase = "confirmation" /\ entry.verdict # "ERROR"
                => ClosedFamily(FamilyOf[entry.spec])
    /\ OneShotClosesFamily

\* At first the ledger is empty.
LEMMA ShotInit ==
    Init => ShotInv
BY DEF Init, ShotInv, Shots, OneShotClosesFamily

\* With the same ledger, families closed before still closed and no row about
\* to be appended, nothing changes.
LEMMA ShotRest ==
    ASSUME ShotInv, rows' = rows, \A f \in Families : ClosedFamily(f) => ClosedFamily(f)',
           stage' # "append"
    PROVE  ShotInv'
<1>1. \A f : Shots(f)' = Shots(f)
    BY DEF Shots
<1> QED
    BY <1>1 DEF ShotInv, OneShotClosesFamily

\* A discovery runs in an open family.
LEMMA ShotDiscover ==
    ASSUME TypeInv, ShotInv, NEW result \in {"strong", "weak", "null", "error"},
           Discover(result)
    PROVE  ShotInv'
<1> DEFINE s == mem[at].spec
           f == FamilyOf[s]
<1>1. at \in DOMAIN mem /\ mem \in Seq(Entry) /\ Disposition(mem[at]) = "run"
    BY DEF TypeInv, TypeOK, Position, Discover
<1>2. s \in Specs /\ f \in Families /\ ~ClosedFamily(f)
    <2>1. mem[at] \in Entry
        BY <1>1
    <2>2. FamilyOpen(s)
        BY <1>1 DEF Disposition
    <2> QED
        BY <2>1, <2>2, HarnessAssumption DEF Entry, FamilyOpen, ClosedFamily
<1>3. /\ rows' = rows /\ entry'.spec = s /\ entry'.phase = "discovery"
      /\ \A g \in Families \ {f} : families'[g] = families[g]
    BY <1>2 DEF Discover, TypeInv, TypeOK
<1>4. \A g : Shots(g)' = Shots(g)
    BY <1>3 DEF Shots
<1> HIDE DEF s, f
<1>5. \A g \in Families : ClosedFamily(g) => ClosedFamily(g)'
    BY <1>2, <1>3 DEF ClosedFamily
<1>6. Shots(f) = {}
    BY <1>2 DEF ShotInv
<1>7. Shots(FamilyOf[entry.spec])' = {}
    BY <1>3, <1>4, <1>6 DEF f
<1> QED
    BY <1>3, <1>4, <1>5, <1>7 DEF ShotInv, OneShotClosesFamily

\* A confirmation is of a candidate, which has had no shot.
LEMMA ShotConfirm ==
    ASSUME TypeInv, ShotInv, NEW f \in Families,
           NEW result \in {"CONFIRMED", "BURNED", "ERROR"}, Confirm(f, result)
    PROVE  ShotInv'
<1>1. /\ families[f].status = "candidate"
      /\ FamilyOf[families[f].candidate] = f
    BY DEF Confirm, HasShot, TypeInv, Candidates
<1>2. Shots(f) = {}
    BY <1>1 DEF ShotInv, ClosedFamily
<1>3. /\ rows' = rows /\ entry'.spec = families[f].candidate /\ entry'.verdict = result
      /\ \A g \in Families \ {f} : families'[g] = families[g]
    BY DEF Confirm, TypeInv, TypeOK
<1>4. \A g : Shots(g)' = Shots(g)
    BY <1>3 DEF Shots
<1>5. result # "ERROR" => ClosedFamily(f)'
    <2> SUFFICES ASSUME result # "ERROR"
                 PROVE  families'[f].status \in {"burned", "confirmed"}
        BY DEF ClosedFamily
    <2>1. families[f] \in Family
        BY DEF TypeInv, TypeOK
    <2>2. families' = [families EXCEPT ![f].used = @ + 1,
              ![f].status = IF result = "CONFIRMED" THEN "confirmed" ELSE "burned"]
        BY DEF Confirm
    <2>3. families'[f].status = IF result = "CONFIRMED" THEN "confirmed" ELSE "burned"
        BY <2>1, <2>2 DEF TypeInv, TypeOK, Family
    <2> QED
        BY <2>3
<1>6. \A g \in Families : ClosedFamily(g) => ClosedFamily(g)'
    BY <1>1, <1>3 DEF ClosedFamily
<1> QED
    BY <1>1, <1>2, <1>3, <1>4, <1>5, <1>6 DEF ShotInv, OneShotClosesFamily

\* The appended row comes after no shot of its family.
LEMMA ShotAppend ==
    ASSUME TypeInv, ShotInv, AppendRow
    PROVE  ShotInv'
<1> DEFINE n == Len(rows) + 1
           e == FamilyOf[entry.spec]
<1>1. /\ families' = families /\ stage' # "append" /\ stage = "append"
    BY DEF AppendRow, registry
<1>2. /\ n \in Nat /\ DOMAIN rows = 1 .. Len(rows) /\ DOMAIN rows' = 1 .. n
      /\ rows'[n] = entry /\ Len(rows) \in Nat
      /\ \A i \in 1 .. Len(rows) : rows'[i] = rows[i]
      /\ \A i \in DOMAIN rows' : i \in DOMAIN rows \/ i = n
    BY AppendedRows
<1>3. ASSUME NEW f \in Families, NEW i \in Shots(f)'
      PROVE  i \in Shots(f) \/ (i = n /\ f = e /\ ClosedFamily(f))
    <2>1. i \in DOMAIN rows'
        BY <1>3 DEF Shots
    <2>2. CASE i \in DOMAIN rows
        BY <1>2, <1>3, <2>2 DEF Shots
    <2>3. CASE i = n
        BY <1>1, <1>2, <1>3, <2>3, AppendedRows DEF Shots, ShotInv, Row
    <2> QED
        BY <1>2, <2>1, <2>2, <2>3
<1>4. \A f \in Families : Shots(f)' # {} => ClosedFamily(f)'
    BY <1>1, <1>3 DEF ShotInv, ClosedFamily
<1>5. ASSUME NEW f \in Families, NEW i \in Shots(f)', NEW k \in DOMAIN rows', k > i
      PROVE  FamilyOf[rows'[k].spec] # f
    <2>1. CASE i = n
        BY <1>2, <1>5, <2>1
    <2>2. CASE i \in Shots(f) /\ k \in DOMAIN rows
        BY <1>2, <1>5, <2>2 DEF ShotInv, OneShotClosesFamily
    <2>3. CASE i \in Shots(f) /\ k = n
        BY <1>1, <1>2, <2>3 DEF ShotInv
    <2> QED
        BY <1>2, <1>3, <1>5, <2>1, <2>2, <2>3
<1> QED
    BY <1>1, <1>4, <1>5 DEF ShotInv, OneShotClosesFamily

\* Every step keeps the invariant of the lockbox.
LEMMA ShotStep ==
    ASSUME TypeInv, ShotInv, [Next]_vars
    PROVE  ShotInv'
<1>1. CASE \E result \in {"strong", "weak", "null", "error"} : Discover(result)
    BY <1>1, ShotDiscover
<1>2. CASE \E f \in Families, result \in {"CONFIRMED", "BURNED", "ERROR"} : Confirm(f, result)
    BY <1>2, ShotConfirm
<1>3. CASE AppendRow
    BY <1>3, ShotAppend
<1>4. CASE \/ StartNight \/ PassOver \/ Reject \/ SkipDuplicate \/ Choose \/ Exhausted
           \/ MarkDone \/ Director \/ Crash
    <2>1. rows' = rows /\ families' = families /\ stage' # "append"
        BY <1>4 DEF StartNight, PassOver, Reject, SkipDuplicate, Choose, Exhausted, MarkDone,
                    Director, Crash, registry
    <2> QED
        BY <2>1, ShotRest DEF ClosedFamily
<1>5. CASE \/ UNCHANGED vars
           \/ \E i \in DOMAIN queue : ResetEntry(i) \/ \E s \in Specs : AlterEntry(i, s)
    <2>1. UNCHANGED <<families, rows, stage, entry>>
        BY <1>5 DEF vars, ResetEntry, AlterEntry, registry
    <2>2. \A f : Shots(f)' = Shots(f)
        BY <2>1 DEF Shots
    <2> QED
        BY <2>1, <2>2 DEF ShotInv, OneShotClosesFamily, ClosedFamily
<1> QED
    BY <1>1, <1>2, <1>3, <1>4, <1>5 DEF Next, Night

\* A family's lockbox answers once, and the ledger has nothing of the family
\* after it (run_confirmation, validate_spec).
THEOREM OneShotClosesFamilyHolds ==
    Spec => []OneShotClosesFamily
<1>1. TypeInv /\ ShotInv /\ [Next]_vars => (TypeInv /\ ShotInv)'
    BY TypeStep, ShotStep
<1>2. ShotInv => OneShotClosesFamily
    BY DEF ShotInv
<1> QED
    BY TypeInit, ShotInit, <1>1, <1>2, PTL DEF Spec

(***************************************************************************)
(* The family penalty.                                                     *)
(***************************************************************************)

\* The discoveries of a family among the first n rows of a ledger.
Discoveries(ledger, f, n) ==
    {k \in 1 .. n : ledger[k].phase = "discovery" /\ FamilyOf[ledger[k].spec] = f}

\* A family has counted every discovery in the ledger and the one about to be
\* appended, which was judged by that count.
PenaltyInv ==
    /\ \A f \in Families : Cardinality(Discoveries(rows, f, Len(rows))) <= families[f].trials
    /\ stage = "append" /\ entry.phase = "discovery" =>
          Cardinality(Discoveries(rows, FamilyOf[entry.spec], Len(rows))) + 1 <= entry.trials
          /\ entry.trials <= families[FamilyOf[entry.spec]].trials
    /\ PenaltyIsPaid

\* A count of discoveries is a number, and one more row adds at most one.
LEMMA DiscoveriesCount ==
    ASSUME NEW ledger, NEW f, NEW n \in Nat
    PROVE  /\ IsFiniteSet(Discoveries(ledger, f, n))
           /\ Cardinality(Discoveries(ledger, f, n)) \in Nat
           /\ Discoveries(ledger, f, n + 1) = Discoveries(ledger, f, n)
              \/ Cardinality(Discoveries(ledger, f, n + 1))
                     = Cardinality(Discoveries(ledger, f, n)) + 1
<1>1. IsFiniteSet(Discoveries(ledger, f, n))
    <2>1. IsFiniteSet(1 .. n)
        BY FS_Interval
    <2>2. Discoveries(ledger, f, n) \subseteq 1 .. n
        BY DEF Discoveries
    <2> QED
        BY <2>1, <2>2, FS_Subset
<1>2. Cardinality(Discoveries(ledger, f, n)) \in Nat
    BY <1>1, FS_CardinalityType
<1>3. n + 1 \notin Discoveries(ledger, f, n)
    BY DEF Discoveries
<1>4. \/ Discoveries(ledger, f, n + 1) = Discoveries(ledger, f, n)
      \/ Discoveries(ledger, f, n + 1) = Discoveries(ledger, f, n) \cup {n + 1}
    BY DEF Discoveries
<1>5. Cardinality(Discoveries(ledger, f, n) \cup {n + 1})
          = Cardinality(Discoveries(ledger, f, n)) + 1
    BY <1>1, <1>3, FS_AddElement
<1> QED
    BY <1>1, <1>2, <1>4, <1>5

\* The property in terms of the counts.
LEMMA PenaltyCounts ==
    PenaltyIsPaid <=> \A i \in DOMAIN rows : rows[i].phase = "discovery" =>
        Cardinality(Discoveries(rows, FamilyOf[rows[i].spec], i)) <= rows[i].trials
BY DEF PenaltyIsPaid, Discoveries

\* At first nothing has been counted.
LEMMA PenaltyInit ==
    Init => PenaltyInv
<1> SUFFICES ASSUME Init
             PROVE  PenaltyInv
    OBVIOUS
<1>1. rows = <<>> /\ stage # "append" /\ \A f \in Families : families[f].trials = 0
    BY DEF Init
<1>2. ASSUME NEW f \in Families
      PROVE  Cardinality(Discoveries(rows, f, Len(rows))) = 0
    <2>1. Discoveries(rows, f, Len(rows)) = {}
        BY <1>1 DEF Discoveries
    <2> QED
        BY <2>1, FS_EmptySet
<1>3. PenaltyIsPaid
    BY <1>1 DEF PenaltyIsPaid
<1> QED
    BY <1>1, <1>2, <1>3 DEF PenaltyInv

\* A discovery counts as a trial and is judged by the new count.
LEMMA PenaltyDiscover ==
    ASSUME TypeInv, PenaltyInv, NEW result \in {"strong", "weak", "null", "error"},
           Discover(result)
    PROVE  PenaltyInv'
<1> DEFINE s == mem[at].spec
           f == FamilyOf[s]
           wins == Verdict(result, TrialsAfter(f, result)) = "PASS"
                   /\ families[f].status = "open"
<1>1. f \in Families
    <2>1. at \in DOMAIN mem /\ mem \in Seq(Entry)
        BY DEF TypeInv, TypeOK, Position, Discover
    <2>2. mem[at] \in Entry
        BY <2>1
    <2> QED
        BY <2>2, HarnessAssumption DEF Entry
<1>2. /\ families \in [Families -> Family] /\ families[f].trials \in Nat
    BY <1>1 DEF TypeInv, TypeOK, Family
<1>3. /\ rows' = rows /\ entry'.spec = s /\ entry'.trials = families[f].trials + 1
      /\ families' = [families EXCEPT ![f].trials = families[f].trials + 1,
                         ![f].status = IF wins THEN "candidate" ELSE @,
                         ![f].candidate = IF wins THEN s ELSE @]
    BY DEF Discover, TrialsAfter
<1>4. /\ families'[f].trials = families[f].trials + 1
      /\ \A g \in Families \ {f} : families'[g] = families[g]
    <2> HIDE DEF f, wins
    <2>1. families[f] \in Family
        BY <1>1, <1>2
    <2> QED
        BY <1>1, <1>2, <1>3, <2>1 DEF Family
<1>5. PenaltyIsPaid'
    BY <1>3, PenaltyCounts DEF PenaltyInv, PenaltyIsPaid
<1>6. Cardinality(Discoveries(rows, f, Len(rows))) \in Nat
    BY DiscoveriesCount DEF TypeInv, TypeOK
<1>7. ASSUME NEW g \in Families
      PROVE  Cardinality(Discoveries(rows, g, Len(rows)))' <= families'[g].trials
    <2> HIDE DEF f
    <2>1. Cardinality(Discoveries(rows, g, Len(rows))) <= families[g].trials
        BY DEF PenaltyInv
    <2>2. CASE g = f
        BY <1>2, <1>3, <1>4, <1>6, <2>1, <2>2
    <2>3. CASE g # f
        BY <1>3, <1>4, <2>1, <2>3
    <2> QED
        BY <2>2, <2>3
<1>8. /\ Cardinality(Discoveries(rows, FamilyOf[entry.spec], Len(rows)))' + 1 <= entry'.trials
      /\ entry'.trials <= families'[FamilyOf[entry'.spec]].trials
    <2>1. Cardinality(Discoveries(rows, f, Len(rows))) <= families[f].trials
        BY <1>1 DEF PenaltyInv
    <2>2. FamilyOf[entry'.spec] = f /\ entry'.trials = families[f].trials + 1
        BY <1>3
    <2> HIDE DEF f
    <2>3. Discoveries(rows, FamilyOf[entry.spec], Len(rows))'
              = Discoveries(rows, f, Len(rows))
        BY <1>3, <2>2
    <2> QED
        BY <1>2, <1>4, <1>6, <2>1, <2>2, <2>3
<1> QED
    BY <1>5, <1>7, <1>8 DEF PenaltyInv

\* A confirmation is no trial.
LEMMA PenaltyConfirm ==
    ASSUME TypeInv, PenaltyInv, NEW f \in Families,
           NEW result \in {"CONFIRMED", "BURNED", "ERROR"}, Confirm(f, result)
    PROVE  PenaltyInv'
<1>1. rows' = rows /\ entry'.phase = "confirmation"
    BY DEF Confirm
<1>2. \A g \in Families : families'[g].trials = families[g].trials
    <2>1. families \in [Families -> Family] /\ families[f] \in Family
        BY DEF TypeInv, TypeOK
    <2> QED
        BY <2>1 DEF Confirm, Family
<1> QED
    BY <1>1, <1>2 DEF PenaltyInv, PenaltyIsPaid

\* Appending the row uses up what was counted for it.
LEMMA PenaltyAppend ==
    ASSUME TypeInv, PenaltyInv, AppendRow
    PROVE  PenaltyInv'
<1> DEFINE n == Len(rows)
           e == FamilyOf[entry.spec]
<1>1. families' = families /\ stage' # "append" /\ stage = "append"
    BY DEF AppendRow, registry
<1>2. /\ n \in Nat /\ Len(rows') = n + 1
      /\ DOMAIN rows = 1 .. n /\ DOMAIN rows' = 1 .. n + 1
      /\ \A i \in 1 .. n : rows'[i] = rows[i]
      /\ rows'[n + 1] = entry /\ entry \in Row
    BY AppendedRows
<1> HIDE DEF n
<1>3. ASSUME NEW f, NEW i \in 0 .. n
      PROVE  Discoveries(rows', f, i) = Discoveries(rows, f, i)
    BY <1>2 DEF Discoveries
<1>4. ASSUME NEW f \in Families
      PROVE  Cardinality(Discoveries(rows', f, n + 1)) <= families[f].trials
    <2>1. /\ Cardinality(Discoveries(rows, f, n)) <= families[f].trials
          /\ families[f].trials \in Nat
        BY DEF PenaltyInv, n, TypeInv, TypeOK, Family
    <2>2. Discoveries(rows', f, n) = Discoveries(rows, f, n)
        BY <1>2, <1>3
    <2>3. CASE entry.phase = "discovery" /\ e = f
        <3>1. /\ Cardinality(Discoveries(rows, f, n)) + 1 <= entry.trials
              /\ entry.trials <= families[f].trials
              /\ entry.trials \in Nat
            BY <1>1, <1>2, <2>3 DEF PenaltyInv, n, Row
        <3>2. /\ Cardinality(Discoveries(rows', f, n)) \in Nat
              /\ \/ Discoveries(rows', f, n + 1) = Discoveries(rows', f, n)
                 \/ Cardinality(Discoveries(rows', f, n + 1))
                        = Cardinality(Discoveries(rows', f, n)) + 1
            BY <1>2, DiscoveriesCount
        <3> QED
            BY <2>1, <2>2, <3>1, <3>2
    <2>4. CASE ~(entry.phase = "discovery" /\ e = f)
        <3>1. Discoveries(rows', f, n + 1) = Discoveries(rows', f, n)
            BY <1>2, <2>4 DEF Discoveries
        <3> QED
            BY <2>1, <2>2, <3>1
    <2> QED
        BY <2>3, <2>4
<1>5. ASSUME NEW i \in DOMAIN rows', rows'[i].phase = "discovery"
      PROVE  Cardinality(Discoveries(rows', FamilyOf[rows'[i].spec], i)) <= rows'[i].trials
    <2>1. CASE i \in 1 .. n
        <3>1. /\ rows'[i] = rows[i] /\ i \in DOMAIN rows
              /\ Discoveries(rows', FamilyOf[rows[i].spec], i)
                     = Discoveries(rows, FamilyOf[rows[i].spec], i)
            BY <1>2, <1>3, <2>1
        <3> QED
            BY <1>5, <3>1, PenaltyCounts DEF PenaltyInv
    <2>2. CASE i = n + 1
        <3>1. /\ Cardinality(Discoveries(rows, e, n)) + 1 <= entry.trials
              /\ entry.trials \in Nat
            BY <1>1, <1>2, <1>5, <2>2 DEF PenaltyInv, n, Row
        <3>2. Discoveries(rows', e, n) = Discoveries(rows, e, n)
            BY <1>2, <1>3
        <3>3. /\ Cardinality(Discoveries(rows', e, n)) \in Nat
              /\ \/ Discoveries(rows', e, n + 1) = Discoveries(rows', e, n)
                 \/ Cardinality(Discoveries(rows', e, n + 1))
                        = Cardinality(Discoveries(rows', e, n)) + 1
            BY <1>2, DiscoveriesCount
        <3> QED
            BY <1>2, <2>2, <3>1, <3>2, <3>3
    <2> QED
        BY <1>2, <2>1, <2>2
<1>6. PenaltyIsPaid'
    BY <1>5 DEF PenaltyIsPaid, Discoveries
<1> QED
    BY <1>1, <1>2, <1>4, <1>6 DEF PenaltyInv

\* Every step keeps the counts.
LEMMA PenaltyStep ==
    ASSUME TypeInv, PenaltyInv, [Next]_vars
    PROVE  PenaltyInv'
<1>1. CASE \E result \in {"strong", "weak", "null", "error"} : Discover(result)
    BY <1>1, PenaltyDiscover
<1>2. CASE \E f \in Families, result \in {"CONFIRMED", "BURNED", "ERROR"} : Confirm(f, result)
    BY <1>2, PenaltyConfirm
<1>3. CASE AppendRow
    BY <1>3, PenaltyAppend
<1>4. CASE \/ StartNight \/ PassOver \/ Reject \/ SkipDuplicate \/ Choose \/ Exhausted
           \/ MarkDone \/ Director \/ Crash
    <2>1. rows' = rows /\ families' = families /\ stage' # "append"
        BY <1>4 DEF StartNight, PassOver, Reject, SkipDuplicate, Choose, Exhausted, MarkDone,
                    Director, Crash, registry
    <2> QED
        BY <2>1 DEF PenaltyInv, PenaltyIsPaid
<1>5. CASE \/ UNCHANGED vars
           \/ \E i \in DOMAIN queue : ResetEntry(i) \/ \E s \in Specs : AlterEntry(i, s)
    <2>1. UNCHANGED <<families, rows, stage, entry>>
        BY <1>5 DEF vars, ResetEntry, AlterEntry, registry
    <2> QED
        BY <2>1 DEF PenaltyInv, PenaltyIsPaid
<1> QED
    BY <1>1, <1>2, <1>3, <1>4, <1>5 DEF Next, Night

\* Every discovery in the ledger was judged against at least the trials of
\* its family up to it, the raising ones included (record, verdict_of).
THEOREM PenaltyIsPaidHolds ==
    Spec => []PenaltyIsPaid
<1>1. TypeInv /\ PenaltyInv /\ [Next]_vars => (TypeInv /\ PenaltyInv)'
    BY TypeStep, PenaltyStep
<1>2. PenaltyInv => PenaltyIsPaid
    BY DEF PenaltyInv
<1> QED
    BY TypeInit, PenaltyInit, <1>1, <1>2, PTL DEF Spec

(***************************************************************************)
(* The queue.                                                              *)
(***************************************************************************)

\* A done entry carries a number given out by then, and where the ledger has
\* that row it is of the spec the entry was registered as.
OwnAnswer(e, ledger, top) ==
    /\ e.result <= top
    /\ e.status = "done" /\ e.prereg # None =>
          \A i \in DOMAIN ledger : ledger[i].id = e.result => ledger[i].spec = e.prereg

OwnAnswers(q, ledger, top) == \A i \in DOMAIN q : OwnAnswer(q[i], ledger, top)

\* The last number a queue entry may carry: the row about to be appended is
\* newer than every entry.
Top == IF stage = "append" THEN total - 1 ELSE total

DoneInv ==
    /\ OwnAnswers(queue, rows, Top)
    /\ OwnAnswers(mem, rows, Top)
    /\ stage = "append" => entry.id = total /\ \A i \in DOMAIN rows : rows[i].id < total
    /\ (stage = "append" /\ entry.phase = "discovery") \/ stage = "mark" =>
          entry.spec = mem[at].spec /\ Unaltered(mem[at])
    /\ stage = "mark" =>
          \A i \in DOMAIN rows : rows[i].id = entry.id => rows[i].spec = entry.spec

\* At first no entry is done.
LEMMA DoneInit ==
    Init => DoneInv
<1> SUFFICES ASSUME Init
             PROVE  DoneInv
    OBVIOUS
<1>1. \A i \in DOMAIN queue : queue[i].status = "pending" /\ queue[i].result = 0
    BY DEF Init, Pending
<1>2. stage = "idle" /\ total = 0 /\ mem = <<>>
    BY DEF Init
<1> QED
    BY <1>1, <1>2 DEF DoneInv, OwnAnswers, OwnAnswer, Top

\* Replacing one entry by one that carries its own answer.
LEMMA OwnReplaced ==
    ASSUME NEW q \in Seq(Entry), NEW ledger, NEW top, OwnAnswers(q, ledger, top),
           NEW i \in DOMAIN q, NEW e, OwnAnswer(e, ledger, top)
    PROVE  OwnAnswers([q EXCEPT ![i] = e], ledger, top)
BY DEF OwnAnswers

\* More numbers given out, the same ledger.
LEMMA OwnLater ==
    ASSUME NEW q \in Seq(Entry), NEW ledger, NEW top \in Int, NEW later \in Int,
           top <= later, OwnAnswers(q, ledger, top)
    PROVE  OwnAnswers(q, ledger, later)
<1>1. \A i \in DOMAIN q : q[i].result \in Nat
    <2>1. \A i \in DOMAIN q : q[i] \in Entry
        OBVIOUS
    <2> QED
        BY <2>1 DEF Entry
<1> QED
    BY <1>1 DEF OwnAnswers, OwnAnswer

\* Marking an entry of the loaded queue.
LEMMA DoneScan ==
    ASSUME TypeInv, AnswersInv, DoneInv, Reject \/ SkipDuplicate
    PROVE  DoneInv'
<1> DEFINE x == mem[at]
<1>1. /\ at \in DOMAIN mem /\ mem \in Seq(Entry) /\ stage = "scan" /\ stage' = "scan"
      /\ UNCHANGED <<total, rows>> /\ queue' = mem' /\ total \in Nat
    BY DEF TypeInv, TypeOK, Reject, SkipDuplicate, registry
<1>2. x \in Entry
    BY <1>1
<1>3. OwnAnswers(mem, rows, total) /\ OwnAnswer(x, rows, total)
    BY <1>1 DEF DoneInv, Top, OwnAnswers
<1>4. CASE Reject
    <2> DEFINE e == [x EXCEPT !.status = "rejected"]
    <2>1. mem' = [mem EXCEPT ![at] = e]
        BY <1>4 DEF Reject
    <2>2. e.status = "rejected" /\ e.result = x.result
        BY <1>2 DEF Entry
    <2>3. OwnAnswer(e, rows, total)
        BY <1>3, <2>2 DEF OwnAnswer
    <2> HIDE DEF e
    <2> QED
        BY <1>1, <1>3, <2>1, <2>3, OwnReplaced DEF DoneInv, Top
<1>5. CASE SkipDuplicate
    <2> DEFINE e == [x EXCEPT !.status = "done", !.result = Answer(x.spec)]
    <2>1. mem' = [mem EXCEPT ![at] = e]
        BY <1>5 DEF SkipDuplicate
    <2>2. e.prereg = x.prereg /\ e.result = Answer(x.spec) /\ x.spec \in Specs
        BY <1>2 DEF Entry
    <2>3. Answer(x.spec) # 0 /\ Unaltered(x)
        <3>1. Disposition(x) = "skip"
            BY <1>5 DEF SkipDuplicate
        <3> QED
            BY <3>1 DEF Disposition
    <2>4. e.result = answered[x.spec] /\ answered[x.spec] # 0
        BY <2>2, <2>3, AnswerFound
    <2>5. OwnAnswer(e, rows, total)
        BY <2>2, <2>3, <2>4 DEF OwnAnswer, AnswersInv, Numbered, Backed, Backs, Unaltered
    <2> HIDE DEF e
    <2> QED
        BY <1>1, <1>3, <2>1, <2>5, OwnReplaced DEF DoneInv, Top
<1> QED
    BY <1>4, <1>5

\* A new row is newer than every entry and every row.
LEMMA DoneJudge ==
    ASSUME TypeInv, AnswersInv, DoneInv,
           \/ \E result \in {"strong", "weak", "null", "error"} : Discover(result)
           \/ \E f \in Families, result \in {"CONFIRMED", "BURNED", "ERROR"} : Confirm(f, result)
    PROVE  DoneInv'
<1>1. /\ stage \in {"run", "confirm"} /\ stage' = "append"
      /\ UNCHANGED <<queue, mem, rows, at>>
      /\ total' = total + 1 /\ entry'.id = total + 1
      /\ stage = "run" => entry'.phase = "discovery" /\ entry'.spec = mem[at].spec
      /\ stage = "confirm" => entry'.phase = "confirmation"
    <2>1. ASSUME NEW result \in {"strong", "weak", "null", "error"}, Discover(result)
          PROVE  /\ stage = "run" /\ stage' = "append"
                 /\ UNCHANGED <<queue, mem, rows, at>>
                 /\ total' = total + 1 /\ entry'.id = total + 1
                 /\ entry'.phase = "discovery" /\ entry'.spec = mem[at].spec
        BY <2>1, Zenon DEF Discover, NextId
    <2>2. ASSUME NEW f \in Families, NEW result \in {"CONFIRMED", "BURNED", "ERROR"},
                 Confirm(f, result)
          PROVE  /\ stage = "confirm" /\ stage' = "append"
                 /\ UNCHANGED <<queue, mem, rows, at>>
                 /\ total' = total + 1 /\ entry'.id = total + 1
                 /\ entry'.phase = "confirmation"
        BY <2>2 DEF Confirm, NextId
    <2> QED
        BY <2>1, <2>2
<1>2. /\ total \in Nat /\ \A i \in DOMAIN rows : rows[i].id \in Nat /\ rows[i].id <= total
    <2>1. \A i \in DOMAIN rows : rows[i] \in Row
        BY DEF TypeInv, TypeOK
    <2> QED
        BY <2>1 DEF TypeInv, TypeOK, Row, AnswersInv, Numbered
<1>3. stage = "run" => Unaltered(mem[at])'
    BY <1>1 DEF TypeInv, Position, Disposition, Unaltered
<1>4. Top = total /\ Top' = total
    BY <1>1, <1>2 DEF Top
<1> QED
    BY <1>1, <1>2, <1>3, <1>4 DEF DoneInv

\* The appended row is nobody's answer yet but of the entry being marked.
LEMMA DoneAppend ==
    ASSUME TypeInv, DoneInv, AppendRow
    PROVE  DoneInv'
<1> DEFINE n == Len(rows)
<1>1. /\ stage = "append" /\ stage' \in {"mark", "director"}
      /\ stage' = "mark" => entry.phase = "discovery"
      /\ UNCHANGED <<queue, mem, total, entry, at>>
    BY DEF AppendRow, registry
<1>2. /\ n \in Nat /\ DOMAIN rows = 1 .. n /\ DOMAIN rows' = 1 .. n + 1
      /\ \A i \in 1 .. n : rows'[i] = rows[i]
      /\ rows'[n + 1] = entry
      /\ \A i \in DOMAIN rows' : i \in DOMAIN rows \/ i = n + 1
    BY AppendedRows
<1>3. total \in Nat /\ entry.id = total /\ \A i \in DOMAIN rows : rows[i].id < total
    BY <1>1 DEF TypeInv, TypeOK, DoneInv
<1>4. ASSUME NEW q \in Seq(Entry), OwnAnswers(q, rows, total - 1)
      PROVE  OwnAnswers(q, rows', total)
    <2> SUFFICES ASSUME NEW k \in DOMAIN q
                 PROVE  OwnAnswer(q[k], rows', total)
        BY DEF OwnAnswers
    <2>1. OwnAnswer(q[k], rows, total - 1) /\ q[k].result \in Nat
        <3>1. q[k] \in Entry
            OBVIOUS
        <3> QED
            BY <1>4, <3>1 DEF OwnAnswers, Entry
    <2>2. q[k].result <= total /\ q[k].result # entry.id
        BY <1>3, <2>1 DEF OwnAnswer
    <2> HIDE DEF n
    <2> QED
        BY <1>2, <2>1, <2>2 DEF OwnAnswer
<1>5. OwnAnswers(queue, rows', total) /\ OwnAnswers(mem, rows', total)
    <2>1. Top = total - 1
        BY <1>1 DEF Top
    <2> QED
        BY <1>4, <2>1 DEF TypeInv, TypeOK, DoneInv
<1>6. Top' = total
    BY <1>1 DEF Top
<1>7. stage' = "mark" =>
          /\ entry.spec = mem[at].spec /\ Unaltered(mem[at])'
          /\ \A i \in DOMAIN rows' : rows'[i].id = entry.id => rows'[i].spec = entry.spec
    <2>1. \A i \in DOMAIN rows : rows[i].id # entry.id
        <3>1. \A i \in DOMAIN rows : rows[i] \in Row
            BY DEF TypeInv, TypeOK
        <3> QED
            BY <1>3, <3>1 DEF Row
    <2>2. stage' = "mark" => entry.spec = mem[at].spec /\ Unaltered(mem[at])
        BY <1>1 DEF DoneInv
    <2> HIDE DEF n
    <2> QED
        BY <1>1, <1>2, <2>1, <2>2 DEF Unaltered
<1> QED
    BY <1>1, <1>5, <1>6, <1>7 DEF DoneInv

\* The entry that ran takes the number of its row.
LEMMA DoneMark ==
    ASSUME TypeInv, AnswersInv, DoneInv, MarkDone
    PROVE  DoneInv'
<1> DEFINE x == mem[at]
           e == [x EXCEPT !.status = "done", !.result = entry.id]
<1>1. /\ stage = "mark" /\ stage' = "director"
      /\ UNCHANGED <<total, rows>> /\ queue' = mem' /\ mem' = [mem EXCEPT ![at] = e]
    BY DEF MarkDone, registry
<1>2. at \in DOMAIN mem /\ mem \in Seq(Entry) /\ total \in Nat
    BY <1>1 DEF TypeInv, TypeOK, Position
<1>3. x \in Entry
    BY <1>2
<1>4. e.result = entry.id /\ e.prereg = x.prereg
    BY <1>3 DEF Entry
<1>5. OwnAnswer(e, rows, total)
    BY <1>1, <1>4 DEF OwnAnswer, AnswersInv, Numbered, DoneInv, Unaltered
<1>6. OwnAnswers(mem, rows, total)
    BY <1>1 DEF DoneInv, Top
<1> HIDE DEF e
<1> QED
    BY <1>1, <1>2, <1>5, <1>6, OwnReplaced DEF DoneInv, Top

\* The director and a death forget the loaded queue; a new entry is pending.
LEMMA DoneClose ==
    ASSUME TypeInv, DoneInv, Director \/ Crash
    PROVE  DoneInv'
<1>1. /\ stage' = "idle" /\ mem' = <<>> /\ UNCHANGED <<total, rows>>
      /\ total \in Nat /\ queue \in Seq(Entry)
      /\ queue' = queue \/ \E s \in Specs : queue' = Append(queue, Pending(s, s))
    BY DEF Director, Crash, registry, TypeInv, TypeOK
<1>2. Top \in Int /\ Top <= total /\ Top' = total
    BY <1>1 DEF Top
<1>3. OwnAnswers(queue, rows, total)
    BY <1>1, <1>2, OwnLater DEF DoneInv
<1>4. ASSUME NEW s \in Specs
      PROVE  OwnAnswers(Append(queue, Pending(s, s)), rows, total)
    <2>1. OwnAnswer(Pending(s, s), rows, total)
        BY <1>1 DEF OwnAnswer, Pending
    <2> QED
        BY <1>1, <1>3, <2>1 DEF OwnAnswers
<1>5. OwnAnswers(queue', rows, total)
    BY <1>1, <1>3, <1>4
<1>6. OwnAnswers(mem', rows, total)
    BY <1>1 DEF OwnAnswers
<1> QED
    BY <1>1, <1>2, <1>5, <1>6 DEF DoneInv

\* A human resets an entry or alters its spec; its registration stays.
LEMMA DoneEdit ==
    ASSUME TypeInv, DoneInv, NEW i \in DOMAIN queue,
           ResetEntry(i) \/ \E s \in Specs : AlterEntry(i, s)
    PROVE  DoneInv'
<1>1. UNCHANGED <<total, rows, mem, stage, at, entry>> /\ queue \in Seq(Entry)
    BY DEF ResetEntry, AlterEntry, registry, TypeInv, TypeOK
<1>2. queue[i] \in Entry /\ OwnAnswers(queue, rows, Top) /\ OwnAnswer(queue[i], rows, Top)
    BY <1>1 DEF DoneInv, OwnAnswers
<1>3. CASE ResetEntry(i)
    <2> DEFINE e == [queue[i] EXCEPT !.status = "pending"]
    <2>1. queue' = [queue EXCEPT ![i] = e]
        BY <1>3 DEF ResetEntry
    <2>2. e.status = "pending" /\ e.result = queue[i].result
        BY <1>2 DEF Entry
    <2>3. OwnAnswer(e, rows, Top)
        BY <1>2, <2>2 DEF OwnAnswer
    <2> HIDE DEF e
    <2>4. OwnAnswers(queue', rows, Top)
        BY <1>1, <1>2, <2>1, <2>3, OwnReplaced
    <2> QED
        BY <1>1, <2>4 DEF DoneInv, Top, Unaltered
<1>4. ASSUME NEW s \in Specs, AlterEntry(i, s)
      PROVE  DoneInv'
    <2> DEFINE e == [queue[i] EXCEPT !.spec = s]
    <2>1. queue' = [queue EXCEPT ![i] = e]
        BY <1>4 DEF AlterEntry
    <2>2. /\ e.status = queue[i].status /\ e.result = queue[i].result
          /\ e.prereg = queue[i].prereg
        BY <1>2 DEF Entry
    <2>3. OwnAnswer(e, rows, Top)
        BY <1>2, <2>2 DEF OwnAnswer
    <2> HIDE DEF e
    <2>4. OwnAnswers(queue', rows, Top)
        BY <1>1, <1>2, <2>1, <2>3, OwnReplaced
    <2> QED
        BY <1>1, <2>4 DEF DoneInv, Top, Unaltered
<1> QED
    BY <1>3, <1>4

\* Every step keeps the queue's answers.
LEMMA DoneStep ==
    ASSUME TypeInv, AnswersInv, DoneInv, [Next]_vars
    PROVE  DoneInv'
<1>1. CASE StartNight
    <2>1. /\ stage = "idle" /\ stage' \in {"confirm", "scan"}
          /\ mem' = queue /\ UNCHANGED <<total, rows, queue>>
        BY <1>1 DEF StartNight, registry
    <2> QED
        BY <2>1 DEF DoneInv, Top
<1>2. CASE PassOver \/ Choose \/ Exhausted
    <2>1. /\ stage = "scan" /\ stage' \in {"scan", "run", "director"}
          /\ UNCHANGED <<total, rows, queue, mem>>
        BY <1>2 DEF PassOver, Choose, Exhausted, registry
    <2> QED
        BY <2>1 DEF DoneInv, Top
<1>3. CASE UNCHANGED vars
    BY <1>3 DEF vars, DoneInv, Top, Unaltered
<1> QED
    BY <1>1, <1>2, <1>3, DoneScan, DoneJudge, DoneAppend, DoneMark, DoneClose, DoneEdit
    DEF Next, Night

\* An entry marked done carries the answer of the experiment it was registered
\* as, not of one it was altered into (validate_spec, already_run_discovery).
THEOREM DoneIsItsOwnAnswerHolds ==
    Spec => []DoneIsItsOwnAnswer
<1> DEFINE Inv == TypeInv /\ AnswersInv /\ DoneInv
<1>1. Init => Inv
    BY TypeInit, AnswersInit, DoneInit
<1>2. Inv /\ [Next]_vars => Inv'
    BY TypeStep, AnswersStep, DoneStep
<1>3. Inv => DoneIsItsOwnAnswer
    BY DEF TypeInv, TypeOK, DoneInv, OwnAnswers, OwnAnswer, DoneIsItsOwnAnswer
<1> QED
    BY <1>1, <1>2, <1>3, PTL DEF Spec

(* ---------------------------- the engineer lane -------------------------- *)
(* ------------------------ the inductive invariant ------------------------ *)
Pcs == {"off", "baseline", "gate", "plan", "spec", "sandbox", "review", "apply", "discard",
        "applying", "done"}
Stops == {"none", "baseline_red", "blocked", "budget", "no_progress", "round_cap", "stood_down"}

LaneRecord ==
    [pc : Pcs, rounds : Nat, barren : Nat, applied : Nat, stop : Stops,
     specs : SUBSET SUBSET Files, rejected : BOOLEAN, accepted : SUBSET Ids, won : SUBSET Ids,
     cur : 0..MaxProps, rec : Record]

Backups == UNION {[D -> 0..MaxProps] : D \in SUBSET Files}
JobRecord == [at : {"none", "write", "undo"}, rec : 0..MaxProps, todo : SUBSET Files, was : Backups]

Types ==
    /\ tree \in [Files -> 0..MaxProps] /\ prop \in [Ids -> Record]
    /\ lane \in LaneRecord /\ job \in [Hands -> JobRecord]
    /\ charged \in Nat /\ seen \in [calls : Nat, fruitless : Nat]

(* The records are numbered without a gap, so the next number is free, and a *)
(* record names files as soon as it exists.                                  *)
NumberedIds ==
    /\ \E n \in 0..MaxProps : \A i \in Ids : prop[i].status # "none" <=> i <= n
    /\ \A i \in Ids : prop[i].status = "none" <=> prop[i].files = {}

(* The record a round holds in memory agrees with the one it saved.          *)
Holds == {"sandbox", "review", "apply", "discard"}
Open ==
    /\ lane.pc \in Holds =>
         /\ lane.cur \in Ids /\ prop[lane.cur].status = "pending" /\ lane.rec.status = "pending"
         /\ lane.rec.files = prop[lane.cur].files /\ lane.rec.box = prop[lane.cur].box
    /\ lane.pc = "sandbox" => prop[lane.cur].box = "none"
    /\ lane.pc = "applying" =>
         lane.cur \in Ids /\ prop[lane.cur].status \in {"pending", "applied"}
    /\ lane.pc \in {"apply", "discard", "applying"} => lane.cur \in lane.accepted

(* An apply under way is of a pending proposal, of the hand that may act;    *)
(* what it wrote is backed up, and what it put back is what was there.       *)
Applying(h) ==
    /\ job[h].at = "none" => DOMAIN job[h].was = {}
    /\ job[h].at # "none" => job[h].rec \in Ids /\ prop[job[h].rec].status = "pending"
    /\ job[h].at # "none" =>
         IF h = "lane" THEN lane.pc = "applying" /\ job[h].rec = lane.cur
                       ELSE lane.pc \in {"off", "done"}
    /\ job[h].at = "write" =>
         /\ DOMAIN job[h].was \cup job[h].todo = prop[job[h].rec].files
         /\ DOMAIN job[h].was \cap job[h].todo = {}
         /\ \A f \in DOMAIN job[h].was : tree[f] = job[h].rec
    /\ job[h].at = "undo" =>
         /\ job[h].todo \subseteq DOMAIN job[h].was
         /\ \A f \in DOMAIN job[h].was \ job[h].todo : tree[f] = job[h].was[f]

(* A round's wins are the proposals of its own that are applied.             *)
Rounds == {"plan", "spec", "sandbox", "review", "apply", "discard", "applying"}
Winning ==
    /\ lane.pc \in Rounds => lane.won = {i \in lane.accepted : prop[i].status = "applied"}
    /\ lane.pc = "plan" => lane.accepted = {}

(* Specs and accepted proposals of a plan have no file in common.            *)
Claims ==
    /\ Claimed(lane.specs)
    /\ \A i \in lane.accepted :
         prop[i].status # "none" /\ \A s \in lane.specs : prop[i].files \cap s = {}
    /\ lane.pc \in {"sandbox", "review"} =>
         /\ \A s \in lane.specs : prop[lane.cur].files \cap s = {}
         /\ \A i \in lane.accepted : prop[lane.cur].files \cap prop[i].files = {}
    /\ RoundKeepsItsOwn

(* A plan is made below the cap, and what it may still write is counted.     *)
Queued ==
    /\ lane.pc = "plan" => PendingCount(prop) < MaxPending
    /\ lane.pc \in Rounds \ {"plan"} =>
         PendingCount(prop) + Cardinality(lane.specs) < MaxPending + MaxPerRound
    /\ PendingCount(prop) < MaxPending + MaxPerRound

(* The day's and the night's counters.                                       *)
Books ==
    /\ seen.calls = charged /\ charged <= Sessions
    /\ lane.barren <= seen.fruitless /\ lane.barren <= BarrenCap
    /\ lane.pc \notin {"off", "done"} => lane.barren < BarrenCap
    /\ StopIsTruthful

NightInv ==
    /\ Types /\ NumberedIds /\ Open /\ (\A h \in Hands : Applying(h))
    /\ Winning /\ Claims /\ Queued /\ Books

Scope == LaneBounds /\ IsFiniteSet(Files) /\ ~KillsInApply /\ ~Overlap

(* ------------------------------- lemmas ---------------------------------- *)
(* No backup is taken yet.                                                   *)
LEMMA NoBackup == <<>> \in Backups /\ DOMAIN <<>> = {}
<1>1. DOMAIN <<>> = {}
    OBVIOUS
<1>2. <<>> \in [{} -> 0..MaxProps]
    BY <1>1
<1> QED
    BY <1>1, <1>2 DEF Backups

(* What backing one more file up makes of the backups.                       *)
LEMMA OneMoreBackup ==
    ASSUME Types, NEW was \in Backups, NEW f \in Files
    PROVE  /\ BackedUp(was, f) \in Backups /\ DOMAIN BackedUp(was, f) = DOMAIN was \cup {f}
           /\ BackedUp(was, f)[f] = tree[f]
           /\ \A g \in DOMAIN was \ {f} : BackedUp(was, f)[g] = was[g]
<1>1. DOMAIN was \subseteq Files /\ \A g \in DOMAIN was : was[g] \in 0..MaxProps
    BY DEF Backups
<1>2. BackedUp(was, f) \in [DOMAIN was \cup {f} -> 0..MaxProps]
    BY <1>1 DEF BackedUp, Types
<1>3. BackedUp(was, f) \in Backups
    BY <1>1, <1>2 DEF Backups
<1> QED
    BY <1>3 DEF BackedUp

(* The numbers are finitely many, so the queue can be counted.               *)
LEMMA CountingIds ==
    ASSUME LaneBounds, NEW S \in SUBSET Ids
    PROVE  IsFiniteSet(S) /\ Cardinality(S) \in Nat
<1>1. IsFiniteSet(Ids)
    BY FS_Interval DEF Ids, LaneBounds
<1> QED
    BY <1>1, FS_Subset, FS_CardinalityType

(* The next number is free as long as the numbers last, and takes its place  *)
(* in the row.                                                               *)
LEMMA NextIsFree ==
    ASSUME LaneBounds, NumberedIds
    PROVE  \E n \in 0..MaxProps :
             NextProposal = n + 1 /\ \A i \in Ids : prop[i].status # "none" <=> i <= n
<1>1. PICK n \in 0..MaxProps : \A i \in Ids : prop[i].status # "none" <=> i <= n
    BY DEF NumberedIds
<1>2. {i \in Ids : prop[i].status # "none"} = 1..n
    BY <1>1 DEF Ids, LaneBounds
<1>3. Cardinality(1..n) = n
    BY FS_Interval
<1>4. Cardinality({i \in Ids : prop[i].status # "none"}) = n
    BY <1>2, <1>3
<1>5. NextProposal = n + 1
    BY <1>4 DEF NextProposal
<1> QED
    BY <1>1, <1>5

(* How most steps treat the records: none is made, none changes its files,   *)
(* no closed one changes, and none becomes actionable again.                 *)
Closings == {"applied", "rejected", "retired"}
Fades ==
    /\ prop' \in [Ids -> Record]
    /\ \A i \in Ids :
         /\ prop'[i].files = prop[i].files
         /\ prop'[i].status = "none" <=> prop[i].status = "none"
         /\ prop[i].status \in Closings => prop'[i].status = prop[i].status
         /\ Actionable(prop'[i]) => Actionable(prop[i])

LEMMA FadesKeepNumbers ==
    ASSUME NumberedIds, Fades
    PROVE  NumberedIds'
BY DEF NumberedIds, Fades

LEMMA FadesKeepQueue ==
    ASSUME LaneBounds, Fades
    PROVE  PendingCount(prop') \in Nat /\ PendingCount(prop) \in Nat /\ PendingCount(prop') <= PendingCount(prop)
<1> DEFINE A == {i \in Ids : Actionable(prop[i])}
           B == {i \in Ids : Actionable(prop'[i])}
<1>1. A \subseteq Ids /\ B \subseteq A
    BY DEF Fades
<1>2. IsFiniteSet(A) /\ Cardinality(A) \in Nat /\ Cardinality(B) \in Nat
    BY <1>1, CountingIds
<1>3. Cardinality(B) <= Cardinality(A)
    BY <1>1, <1>2, FS_Subset
<1> QED
    BY <1>2, <1>3 DEF PendingCount

(* So are the specs of a plan.                                               *)
LEMMA SpecsAreFinite ==
    ASSUME Scope, NEW S \in SUBSET SUBSET Files
    PROVE  IsFiniteSet(S)
<1>1. IsFiniteSet(SUBSET Files)
    BY FS_SUBSET DEF Scope
<1> QED
    BY <1>1, FS_Subset

(* No step of the night but the apply itself finds an apply under way.       *)
LEMMA NightIsQuiet ==
    ASSUME Scope, NightInv, LaneNight
    PROVE  \A h \in Hands : job[h].at = "none"
<1>1. lane.pc \in {"off", "done"} => job["human"].at = "none"
    BY DEF LaneNight, Start, Baseline, Gate, PlanFails, Plan, SpecFails, WriteProposal, Sandbox, Review,
           Discard, RoundEnds, LaneApplies, AutoApplied, Scope, Apart
<1>2. job["human"].at = "none"
    BY <1>1 DEF NightInv, Applying, Hands
<1>3. job["lane"].at = "none"
    BY DEF NightInv, Applying, Hands, LaneNight, Start, Baseline, Gate, PlanFails, Plan, SpecFails,
           WriteProposal, Sandbox, Review, Discard, RoundEnds, LaneApplies, AutoApplied
<1> QED
    BY <1>2, <1>3 DEF Hands

(* A step outside the apply that only fades records and drops specs: the     *)
(* records, the claims, the wins and the queue stay sound.                   *)
LEMMA Calm ==
    ASSUME Scope, NightInv, Types', Fades,
           \A h \in Hands : job'[h].at = "none" /\ DOMAIN job'[h].was = {},
           lane'.specs \subseteq lane.specs,
           lane'.accepted = lane.accepted \/ lane'.accepted = {},
           lane'.pc \in {"sandbox", "review"} =>
               lane.pc \in {"sandbox", "review"} /\ lane'.cur = lane.cur,
           lane'.pc \in Rounds =>
               /\ lane.pc \in Rounds /\ lane'.accepted = lane.accepted /\ lane'.won = lane.won
               /\ \A i \in Ids : prop'[i].status = "applied" <=> prop[i].status = "applied",
           lane'.pc = "plan" => lane.pc = "plan",
           lane'.pc \in Rounds \ {"plan"} => lane.pc \in Rounds \ {"plan"}
    PROVE  /\ NumberedIds' /\ (\A h \in Hands : Applying(h)')
           /\ Winning' /\ Claims' /\ Queued'
<1>1. NumberedIds'
    BY FadesKeepNumbers DEF NightInv
<1>2. \A h \in Hands : Applying(h)'
    BY DEF Applying
<1>3. Winning'
    BY DEF NightInv, Types, LaneRecord, Winning
<1>4. Claims'
    <2>1. Claims /\ lane.accepted \subseteq Ids /\ lane'.accepted \subseteq lane.accepted
        BY DEF NightInv, Types, LaneRecord
    <2>2. Claimed(lane'.specs)
        BY <2>1 DEF Claims, Claimed
    <2>3. \A i \in lane'.accepted :
             prop'[i].status # "none" /\ \A s \in lane'.specs : prop'[i].files \cap s = {}
        BY <2>1 DEF Claims, Fades
    <2>4. lane.pc \in {"sandbox", "review"} => lane.cur \in Ids
        BY DEF NightInv, Open, Holds
    <2>5. lane'.pc \in {"sandbox", "review"} =>
             /\ \A s \in lane'.specs : prop'[lane'.cur].files \cap s = {}
             /\ \A i \in lane'.accepted : prop'[lane'.cur].files \cap prop'[i].files = {}
        BY <2>1, <2>4 DEF Claims, Fades
    <2>6. RoundKeepsItsOwn'
        BY <2>1 DEF Claims, Fades, RoundKeepsItsOwn
    <2> QED
        BY <2>2, <2>3, <2>5, <2>6 DEF Claims
<1>5. Queued'
    <2>1. /\ PendingCount(prop') \in Nat /\ PendingCount(prop) \in Nat
          /\ PendingCount(prop') <= PendingCount(prop)
        BY FadesKeepQueue DEF Scope
    <2>2. /\ Cardinality(lane.specs) \in Nat /\ Cardinality(lane'.specs) \in Nat
          /\ Cardinality(lane'.specs) <= Cardinality(lane.specs)
        BY SpecsAreFinite, FS_Subset, FS_CardinalityType DEF NightInv, Types, LaneRecord
    <2>3. MaxPending \in Nat /\ MaxPerRound \in Nat
        BY DEF Scope, LaneBounds
    <2> QED
        BY <2>1, <2>2, <2>3 DEF NightInv, Queued
<1> QED
    BY <1>1, <1>2, <1>3, <1>4, <1>5

(* The counters after a step that pays for nothing and ends no round.        *)
LEMMA BooksStay ==
    ASSUME Scope, NightInv, Types', UNCHANGED <<seen, charged>>,
           lane'.barren = lane.barren \/ lane'.barren = 0,
           lane'.pc \notin {"off", "done"} => lane.pc \notin {"off", "done"} \/ lane'.barren = 0,
           lane'.pc = "done" => lane' = lane \/ lane'.stop \in {"baseline_red", "blocked"}
    PROVE  Books'
<1>1. /\ lane.barren \in Nat /\ lane'.barren \in Nat /\ seen.fruitless \in Nat
      /\ BarrenCap \in Nat \ {0}
    BY DEF NightInv, Types, LaneRecord, Scope, LaneBounds
<1>2. StopIsTruthful'
    BY DEF NightInv, Books, StopIsTruthful
<1> QED
    BY <1>1, <1>2 DEF NightInv, Books

(* The records of nothing have their types.                                  *)
LEMMA EmptyRecords ==
    ASSUME Scope
    PROVE  Absent \in Record /\ Idle \in JobRecord /\ Off \in LaneRecord
<1>1. Absent \in Record
    BY DEF Absent, Record, Scope, LaneBounds
<1> QED
    BY <1>1, NoBackup DEF Idle, JobRecord, Off, LaneRecord, Pcs, Stops, Scope, LaneBounds

(* The first state: nothing is written, nobody applies.                      *)
LEMMA NightInit ==
    ASSUME Scope, LaneInit
    PROVE  NightInv
<1>1. Absent \in Record /\ Idle \in JobRecord /\ Off \in LaneRecord
    BY EmptyRecords
<1>2. Types
    BY <1>1 DEF LaneInit, Types, Scope, LaneBounds
<1>3. NumberedIds
    <2>1. \A i \in Ids : prop[i].status = "none" /\ prop[i].files = {}
        BY DEF LaneInit, Absent
    <2>2. 0 \in 0..MaxProps /\ \A i \in Ids : ~(i <= 0)
        BY DEF Scope, LaneBounds, Ids
    <2> QED
        BY <2>1, <2>2 DEF NumberedIds
<1>4. Open /\ Winning
    BY DEF LaneInit, Off, Open, Winning, Rounds, Holds
<1>5. \A h \in Hands : Applying(h)
    BY NoBackup DEF LaneInit, Idle, Applying
<1>6. Claims
    BY DEF LaneInit, Off, Claims, Claimed, RoundKeepsItsOwn
<1>7. Queued
    <2>1. {i \in Ids : Actionable(prop[i])} = {}
        BY DEF LaneInit, Absent, Actionable
    <2>2. PendingCount(prop) = 0
        BY <2>1, FS_EmptySet DEF PendingCount
    <2> QED
        BY <2>2 DEF Queued, LaneInit, Off, Scope, LaneBounds, Rounds
<1>8. Books
    BY DEF LaneInit, Off, Books, StopIsTruthful, Scope, LaneBounds
<1> QED
    BY <1>2, <1>3, <1>4, <1>5, <1>6, <1>7, <1>8 DEF NightInv

(* ------------------------- the steps of a night -------------------------- *)
(* What leaves the records alone fades nothing.                              *)
LEMMA NothingFades ==
    ASSUME Types, UNCHANGED prop
    PROVE  Fades /\ \A i \in Ids : prop'[i].status = "applied" <=> prop[i].status = "applied"
BY DEF Types, Fades

(* A record is closed with its files.                                        *)
LEMMA ClosedRecord ==
    ASSUME Scope, NEW p \in Record, NEW status \in Closings
    PROVE  /\ Closed(p, status) \in Record
           /\ Closed(p, status).files = p.files /\ Closed(p, status).status = status
           /\ ~Actionable(Closed(p, status))
<1>1. 0 \in 0..(DeadAfter + 1)
    BY DEF Scope, LaneBounds
<1>2. /\ Closed(p, status) \in Record
      /\ Closed(p, status).files = p.files /\ Closed(p, status).status = status
    BY <1>1 DEF Closed, Record, Closings
<1> QED
    BY <1>2 DEF Closings, Actionable

(* Retirement closes what is not actionable, and nothing else.               *)
LEMMA RetirementFades ==
    ASSUME Scope, Types, prop' = Retired
    PROVE  Fades /\ \A i \in Ids : prop'[i].status = "applied" <=> prop[i].status = "applied"
<1>1. ASSUME NEW i \in Ids
      PROVE  /\ prop'[i] \in Record /\ prop'[i].files = prop[i].files
             /\ prop'[i].status = "none" <=> prop[i].status = "none"
             /\ prop[i].status \in Closings => prop'[i].status = prop[i].status
             /\ Actionable(prop'[i]) => Actionable(prop[i])
             /\ prop'[i].status = "applied" <=> prop[i].status = "applied"
    <2>1. prop[i] \in Record
        BY DEF Types
    <2>2. prop'[i] = IF prop[i].status = "pending" /\ ~Actionable(prop[i])
                     THEN Closed(prop[i], "retired") ELSE prop[i]
        BY DEF Retired
    <2>3. /\ Closed(prop[i], "retired") \in Record
          /\ Closed(prop[i], "retired").files = prop[i].files
          /\ Closed(prop[i], "retired").status = "retired"
        BY <2>1, ClosedRecord DEF Closings
    <2> QED
        BY <2>1, <2>2, <2>3 DEF Closings, Actionable
<1>2. prop' = [i \in Ids |-> prop'[i]]
    BY DEF Retired
<1> QED
    BY <1>1, <1>2 DEF Fades

(* One record replaced by one of the same files that is open only if the old *)
(* one is.                                                                   *)
LEMMA OneFades ==
    ASSUME Types, NEW i \in Ids, NEW r \in Record, prop' = [prop EXCEPT ![i] = r],
           prop[i].status = "pending", r.files = prop[i].files, r.status # "none",
           Actionable(r) => Actionable(prop[i])
    PROVE  /\ Fades /\ prop'[i] = r
           /\ \A j \in Ids \ {i} : prop'[j] = prop[j]
BY DEF Types, Fades, Closings

(* A rejection closes a pending record, and nothing else.                    *)
LEMMA RejectionFades ==
    ASSUME Scope, Types, NEW i \in Ids, RejectProposal(i)
    PROVE  Fades /\ \A j \in Ids : prop'[j].status = "applied" <=> prop[j].status = "applied"
<1>1. CASE prop[i].status = "pending"
    <2>1. Closed(prop[i], "rejected") \in Record /\ prop' = [prop EXCEPT ![i] = Closed(prop[i], "rejected")]
        BY <1>1, ClosedRecord DEF RejectProposal, Closings, Types
    <2>2. /\ Closed(prop[i], "rejected").files = prop[i].files
          /\ Closed(prop[i], "rejected").status = "rejected" /\ ~Actionable(Closed(prop[i], "rejected"))
        BY ClosedRecord DEF Closings, Types
    <2>3. /\ Fades /\ prop'[i] = Closed(prop[i], "rejected")
          /\ \A j \in Ids \ {i} : prop'[j] = prop[j]
        BY <1>1, <2>1, <2>2, OneFades
    <2> QED
        BY <1>1, <2>2, <2>3
<1>2. CASE prop[i].status # "pending"
    BY <1>2, NothingFades DEF RejectProposal
<1> QED
    BY <1>1, <1>2

(* A lane moved to another stage, with another reason or count.              *)
SameRound(l, m) ==
    /\ m \in LaneRecord
    /\ m.specs = l.specs /\ m.accepted = l.accepted /\ m.won = l.won /\ m.rounds = l.rounds

(* Where a barren round leads: on, to the ceiling, or to a stop for want of  *)
(* progress.                                                                 *)
LEMMA BarrenRound ==
    ASSUME Scope, Types, RoundWithout
    PROVE  /\ SameRound(lane, lane') /\ lane'.barren = lane.barren + 1
           /\ \/ lane'.pc = "gate" /\ lane'.barren < BarrenCap
              \/ lane'.pc = "done" /\ lane'.stop = "no_progress" /\ lane'.barren >= BarrenCap
              \/ /\ lane'.pc = "done" /\ lane'.stop = "round_cap" /\ lane'.barren < BarrenCap
                 /\ lane'.rounds = MaxRounds
<1> DEFINE l == [lane EXCEPT !.barren = Barren]
<1>1. lane \in LaneRecord /\ Barren \in Nat /\ Barren = lane.barren + 1 /\ BarrenCap \in Nat
    BY DEF Barren, Types, LaneRecord, Scope, LaneBounds
<1>2. "done" \in Pcs /\ "gate" \in Pcs /\ "no_progress" \in Stops /\ "round_cap" \in Stops
    BY DEF Pcs, Stops
<1>3. CASE Barren >= BarrenCap
    <2>1. lane' = [lane EXCEPT !.pc = "done", !.stop = "no_progress", !.barren = Barren]
        BY <1>3 DEF RoundWithout
    <2> QED
        BY <1>1, <1>2, <1>3, <2>1 DEF LaneRecord, SameRound
<1>4. CASE ~(Barren >= BarrenCap)
    <2>1. Continues(l)
        BY <1>4 DEF RoundWithout
    <2>2. SameRound(lane, l) /\ l.barren = Barren /\ l \in LaneRecord
        BY <1>1, <1>2 DEF SameRound, LaneRecord
    <2> HIDE DEF l
    <2>3. /\ SameRound(l, lane') /\ lane'.barren = Barren
          /\ \/ lane.rounds = MaxRounds /\ lane'.pc = "done" /\ lane'.stop = "round_cap"
             \/ lane'.pc = "gate"
        <3>1. CASE lane.rounds = MaxRounds
            <4>1. lane' = [l EXCEPT !.pc = "done", !.stop = "round_cap"]
                BY <2>1, <3>1 DEF Continues
            <4> QED
                BY <1>2, <2>2, <3>1, <4>1 DEF SameRound, LaneRecord
        <3>2. CASE lane.rounds # MaxRounds
            <4>1. lane' = [l EXCEPT !.pc = "gate"]
                BY <2>1, <3>2 DEF Continues
            <4> QED
                BY <1>2, <2>2, <3>2, <4>1 DEF SameRound, LaneRecord
        <3> QED
            BY <3>1, <3>2
    <2> QED
        BY <1>1, <1>4, <2>2, <2>3 DEF SameRound
<1> QED
    BY <1>3, <1>4

(* A stop changes nothing but the stage and the reason.                      *)
LEMMA Stopping ==
    ASSUME Types, NEW why \in Stops, StopsWith(why)
    PROVE  /\ SameRound(lane, lane') /\ lane'.pc = "done" /\ lane'.stop = why
           /\ lane'.barren = lane.barren
<1>1. "done" \in Pcs /\ 0 \in Nat
    BY DEF Pcs
<1> QED
    BY <1>1 DEF Types, StopsWith, SameRound, LaneRecord

(* A new night.                                                              *)
LEMMA Starting ==
    ASSUME Scope, NightInv, Start
    PROVE  NightInv'
<1>1. /\ Off \in LaneRecord /\ Off.specs = {} /\ Off.accepted = {} /\ Off.barren = 0
    BY EmptyRecords DEF Off
<1>2. /\ lane' \in LaneRecord /\ lane'.pc = "baseline" /\ lane'.specs = {} /\ lane'.accepted = {}
      /\ lane'.barren = 0
    BY <1>1 DEF Start, LaneRecord, Pcs
<1>3. seen' \in [calls : Nat, fruitless : Nat] /\ seen'.calls = seen.calls /\ seen'.fruitless = 0
    BY DEF Start, NightInv, Types
<1>4. Types'
    BY <1>2, <1>3 DEF Start, NightInv, Types
<1>5. \A h \in Hands : job'[h].at = "none" /\ DOMAIN job'[h].was = {}
    BY NightIsQuiet DEF LaneNight, Start, NightInv, Applying
<1>6. Fades
    BY NothingFades DEF Start, NightInv
<1>7. NumberedIds' /\ (\A h \in Hands : Applying(h)') /\ Winning' /\ Claims' /\ Queued'
    BY <1>2, <1>4, <1>5, <1>6, Calm DEF Rounds
<1>8. Open'
    BY <1>2 DEF Open, Holds
<1>9. Books'
    BY <1>2, <1>3 DEF NightInv, Books, StopIsTruthful, Start, Scope, LaneBounds
<1> QED
    BY <1>4, <1>7, <1>8, <1>9 DEF NightInv

(* A step of the night that starts no apply leaves none under way.           *)
LEMMA StaysQuiet ==
    ASSUME Scope, NightInv, LaneNight, UNCHANGED job
    PROVE  \A h \in Hands : job'[h].at = "none" /\ DOMAIN job'[h].was = {}
BY NightIsQuiet DEF NightInv, Applying

(* The baseline run of the tests.                                            *)
LEMMA Baselines ==
    ASSUME Scope, NightInv, Baseline
    PROVE  NightInv'
<1>1. /\ SameRound(lane, lane') /\ lane'.barren = lane.barren
      /\ lane'.pc = "gate" \/ (lane'.pc = "done" /\ lane'.stop = "baseline_red")
    <2>1. CASE lane' = [lane EXCEPT !.pc = "gate"]
        BY <2>1 DEF NightInv, Types, SameRound, LaneRecord, Pcs
    <2>2. CASE StopsWith("baseline_red")
        BY <2>2, Stopping DEF NightInv, Stops
    <2> QED
        BY <2>1, <2>2 DEF Baseline
<1>2. Types'
    BY <1>1 DEF Baseline, NightInv, Types, SameRound
<1>3. \A h \in Hands : job'[h].at = "none" /\ DOMAIN job'[h].was = {}
    BY StaysQuiet DEF LaneNight, Baseline
<1>4. Fades
    BY NothingFades DEF Baseline, NightInv
<1>5. NumberedIds' /\ (\A h \in Hands : Applying(h)') /\ Winning' /\ Claims' /\ Queued'
    BY <1>1, <1>2, <1>3, <1>4, Calm DEF Rounds, SameRound
<1>6. Open'
    BY <1>1 DEF Open, Holds
<1>7. Books'
    BY <1>1, <1>2, BooksStay DEF Baseline
<1> QED
    BY <1>2, <1>5, <1>6, <1>7 DEF NightInv

(* The queue's gate and the session's charge.                                *)
LEMMA Gates ==
    ASSUME Scope, NightInv, Gate
    PROVE  NightInv'
<1>1. Fades /\ \A i \in Ids : prop'[i].status = "applied" <=> prop[i].status = "applied"
    BY RetirementFades DEF Gate, NightInv
<1>2. \A h \in Hands : job'[h].at = "none" /\ DOMAIN job'[h].was = {}
    BY StaysQuiet DEF LaneNight, Gate
<1>3. CASE /\ UNCHANGED <<charged, seen>>
           /\ StopsWith("blocked") \/ (StopsWith("budget") /\ charged >= Sessions)
    <2>1. /\ SameRound(lane, lane') /\ lane'.barren = lane.barren /\ lane'.pc = "done"
          /\ lane'.stop = "blocked" \/ (lane'.stop = "budget" /\ charged >= Sessions)
        BY <1>3, Stopping DEF NightInv, Stops
    <2>2. Types'
        BY <1>1, <1>3, <2>1 DEF Gate, NightInv, Types, SameRound, Fades
    <2>3. NumberedIds' /\ (\A h \in Hands : Applying(h)') /\ Winning' /\ Claims' /\ Queued'
        BY <1>1, <1>2, <2>1, <2>2, Calm DEF Rounds, SameRound
    <2>4. Open'
        BY <2>1 DEF Open, Holds
    <2>5. Books'
        <3>1. Sessions \in Nat /\ charged \in Nat
            BY DEF Scope, LaneBounds, NightInv, Types
        <3> QED
            BY <1>3, <2>1, <3>1 DEF NightInv, Books, StopIsTruthful
    <2> QED
        BY <2>2, <2>3, <2>4, <2>5 DEF NightInv
<1>4. CASE /\ ~(PendingCount(Retired) >= MaxPending) /\ ~(charged >= Sessions)
           /\ charged' = charged + 1 /\ seen' = [seen EXCEPT !.calls = @ + 1]
           /\ lane' = [lane EXCEPT !.pc = "plan", !.rounds = @ + 1, !.specs = {},
                                   !.rejected = FALSE, !.accepted = {}, !.won = {}]
    <2>1. /\ lane' \in LaneRecord /\ lane'.pc = "plan" /\ lane'.specs = {} /\ lane'.accepted = {}
          /\ lane'.won = {} /\ lane'.barren = lane.barren
        <3> DEFINE n == lane.rounds + 1
        <3>1. n \in Nat /\ lane \in LaneRecord
            BY DEF NightInv, Types, LaneRecord
        <3>2. lane' = [lane EXCEPT !.pc = "plan", !.rounds = n, !.specs = {},
                                   !.rejected = FALSE, !.accepted = {}, !.won = {}]
            BY <1>4
        <3> HIDE DEF n
        <3> QED
            BY <3>1, <3>2 DEF LaneRecord, Pcs
    <2>2. seen' \in [calls : Nat, fruitless : Nat] /\ seen'.calls = seen.calls + 1
          /\ seen'.fruitless = seen.fruitless
        BY <1>4 DEF NightInv, Types
    <2>3. Types'
        BY <1>1, <1>4, <2>1, <2>2 DEF Gate, NightInv, Types, Fades
    <2>4. NumberedIds'
        BY <1>1, FadesKeepNumbers DEF NightInv
    <2>5. (\A h \in Hands : Applying(h)') /\ Winning' /\ Open'
        BY <1>2, <2>1 DEF Applying, Winning, Open, Holds
    <2>6. Claims'
        BY <2>1 DEF Claims, Claimed, RoundKeepsItsOwn
    <2>7. Queued'
        <3>1. PendingCount(prop') = PendingCount(Retired)
            BY DEF Gate
        <3>2. PendingCount(prop') \in Nat /\ MaxPending \in Nat /\ MaxPerRound \in Nat \ {0}
            BY <1>1, FadesKeepQueue DEF Scope, LaneBounds
        <3>3. PendingCount(prop') < MaxPending
            BY <1>4, <3>1, <3>2
        <3> QED
            BY <2>1, <3>2, <3>3 DEF Queued
    <2>8. Books'
        <3>1. Sessions \in Nat /\ charged \in Nat
            BY DEF Scope, LaneBounds, NightInv, Types
        <3> QED
            BY <1>4, <2>1, <2>2, <3>1 DEF Gate, NightInv, Books, StopIsTruthful
    <2> QED
        BY <2>3, <2>4, <2>5, <2>6, <2>7, <2>8 DEF NightInv
<1>5. PendingCount(Retired) \in Nat /\ charged \in Nat /\ MaxPending \in Nat /\ Sessions \in Nat
    <2>1. PendingCount(prop') \in Nat
        BY <1>1, FadesKeepQueue DEF Scope
    <2> QED
        BY <2>1 DEF Gate, Scope, LaneBounds, NightInv, Types
<1> QED
    BY <1>3, <1>4, <1>5 DEF Gate

(* The counters after a round that brought nothing.                          *)
LEMMA BarrenBooks ==
    ASSUME Scope, NightInv, SameRound(lane, lane'), lane'.barren = lane.barren + 1,
           lane.pc \notin {"off", "done"}, UNCHANGED charged,
           seen'.calls = seen.calls, seen'.fruitless = seen.fruitless + 1,
           \/ lane'.pc = "gate" /\ lane'.barren < BarrenCap
           \/ lane'.pc = "done" /\ lane'.stop = "no_progress" /\ lane'.barren >= BarrenCap
           \/ /\ lane'.pc = "done" /\ lane'.stop = "round_cap" /\ lane'.barren < BarrenCap
              /\ lane'.rounds = MaxRounds
    PROVE  Books'
<1>1. /\ lane.barren \in Nat /\ seen.fruitless \in Nat /\ BarrenCap \in Nat
      /\ lane.barren <= seen.fruitless /\ lane.barren < BarrenCap
    BY DEF NightInv, Types, LaneRecord, Scope, LaneBounds, Books
<1>2. StopIsTruthful'
    BY <1>1 DEF StopIsTruthful
<1> QED
    BY <1>1, <1>2 DEF NightInv, Books

(* The planner's call fails.                                                 *)
LEMMA PlanFailing ==
    ASSUME Scope, NightInv, PlanFails
    PROVE  NightInv'
<1>1. \A h \in Hands : job'[h].at = "none" /\ DOMAIN job'[h].was = {}
    BY StaysQuiet DEF LaneNight, PlanFails
<1>2. Fades
    BY NothingFades DEF PlanFails, NightInv
<1>3. CASE StopsWith("blocked") /\ UNCHANGED seen
    <2>1. /\ SameRound(lane, lane') /\ lane'.barren = lane.barren
          /\ lane'.pc = "done" /\ lane'.stop = "blocked"
        BY <1>3, Stopping DEF NightInv, Stops
    <2>2. Types'
        BY <1>3, <2>1 DEF PlanFails, NightInv, Types, SameRound
    <2>3. NumberedIds' /\ (\A h \in Hands : Applying(h)') /\ Winning' /\ Claims' /\ Queued'
        BY <1>1, <1>2, <2>1, <2>2, Calm DEF Rounds, SameRound
    <2>4. Open'
        BY <2>1 DEF Open, Holds
    <2>5. Books'
        BY <1>3, <2>1, <2>2, BooksStay DEF PlanFails
    <2> QED
        BY <2>2, <2>3, <2>4, <2>5 DEF NightInv
<1>4. CASE RoundWithout /\ seen' = [seen EXCEPT !.fruitless = @ + 1]
    <2>1. /\ SameRound(lane, lane') /\ lane'.barren = lane.barren + 1
          /\ \/ lane'.pc = "gate" /\ lane'.barren < BarrenCap
             \/ lane'.pc = "done" /\ lane'.stop = "no_progress" /\ lane'.barren >= BarrenCap
             \/ /\ lane'.pc = "done" /\ lane'.stop = "round_cap" /\ lane'.barren < BarrenCap
                /\ lane'.rounds = MaxRounds
        BY <1>4, BarrenRound DEF NightInv
    <2>2. seen' \in [calls : Nat, fruitless : Nat] /\ seen'.calls = seen.calls
          /\ seen'.fruitless = seen.fruitless + 1
        BY <1>4 DEF NightInv, Types
    <2>3. Types'
        BY <2>1, <2>2 DEF PlanFails, NightInv, Types, SameRound
    <2>4. NumberedIds' /\ (\A h \in Hands : Applying(h)') /\ Winning' /\ Claims' /\ Queued'
        BY <1>1, <1>2, <2>1, <2>3, Calm DEF Rounds, SameRound
    <2>5. Open'
        BY <2>1 DEF Open, Holds
    <2>6. Books'
        BY <2>1, <2>2, BarrenBooks DEF PlanFails
    <2> QED
        BY <2>3, <2>4, <2>5, <2>6 DEF NightInv
<1> QED
    BY <1>3, <1>4 DEF PlanFails

(* The plan: its specs are disjoint, and few enough.                         *)
LEMMA Planning ==
    ASSUME Scope, NightInv, Plan
    PROVE  NightInv'
<1>1. PICK specs \in SUBSET SUBSET Files, rejected \in BOOLEAN :
         /\ Claimed(specs)
         /\ Cardinality(specs) + (IF rejected THEN 1 ELSE 0) <= MaxPerRound
         /\ lane' = [lane EXCEPT !.pc = "spec", !.specs = specs, !.rejected = rejected]
    BY DEF Plan
<1>2. /\ lane' \in LaneRecord /\ lane'.pc = "spec" /\ lane'.specs = specs
      /\ lane'.accepted = lane.accepted /\ lane'.won = lane.won /\ lane'.barren = lane.barren
    BY <1>1 DEF NightInv, Types, LaneRecord, Pcs
<1>3. Types'
    BY <1>2 DEF Plan, NightInv, Types
<1>4. (\A h \in Hands : Applying(h)') /\ Open'
    <2>1. \A h \in Hands : job'[h].at = "none" /\ DOMAIN job'[h].was = {}
        BY StaysQuiet DEF LaneNight, Plan
    <2> QED
        BY <1>2, <2>1 DEF Applying, Open, Holds
<1>5. NumberedIds' /\ Winning'
    BY <1>2 DEF Plan, NightInv, NumberedIds, Winning, Rounds
<1>6. Claims'
    <2>1. lane.accepted = {}
        BY DEF Plan, NightInv, Winning
    <2> QED
        BY <1>1, <1>2, <2>1 DEF Claims, RoundKeepsItsOwn
<1>7. Queued'
    <2>1. /\ PendingCount(prop') = PendingCount(prop) /\ PendingCount(prop) < MaxPending
          /\ PendingCount(prop) \in Nat
        BY CountingIds DEF Plan, NightInv, Queued, PendingCount, Scope
    <2>2. Cardinality(specs) \in Nat /\ MaxPending \in Nat /\ MaxPerRound \in Nat
        BY SpecsAreFinite, FS_CardinalityType DEF Scope, LaneBounds
    <2>3. Cardinality(specs) <= MaxPerRound
        BY <1>1, <2>2
    <2> QED
        BY <1>2, <2>1, <2>2, <2>3 DEF Queued
<1>8. Books'
    BY <1>2, <1>3, BooksStay DEF Plan
<1> QED
    BY <1>3, <1>4, <1>5, <1>6, <1>7, <1>8 DEF NightInv

(* A spec that comes to nothing.                                             *)
LEMMA SpecFailing ==
    ASSUME Scope, NightInv, SpecFails
    PROVE  NightInv'
<1>1. /\ lane' \in LaneRecord /\ lane'.pc = "spec" /\ lane'.specs \subseteq lane.specs
      /\ lane'.accepted = lane.accepted /\ lane'.won = lane.won /\ lane'.barren = lane.barren
    <2>1. PICK s \in lane.specs : lane' = [lane EXCEPT !.specs = @ \ {s}, !.rejected = TRUE]
        BY DEF SpecFails
    <2> DEFINE rest == lane.specs \ {s}
    <2>2. lane \in LaneRecord /\ lane.pc = "spec" /\ rest \subseteq lane.specs
          /\ rest \in SUBSET SUBSET Files
        BY DEF SpecFails, NightInv, Types, LaneRecord
    <2>3. lane' = [lane EXCEPT !.specs = rest, !.rejected = TRUE]
        BY <2>1
    <2> HIDE DEF rest
    <2> QED
        BY <2>2, <2>3 DEF LaneRecord
<1>2. Types'
    BY <1>1 DEF SpecFails, NightInv, Types
<1>3. \A h \in Hands : job'[h].at = "none" /\ DOMAIN job'[h].was = {}
    BY StaysQuiet DEF LaneNight, SpecFails
<1>4. Fades /\ \A i \in Ids : prop'[i].status = "applied" <=> prop[i].status = "applied"
    BY NothingFades DEF SpecFails, NightInv
<1>5. NumberedIds' /\ (\A h \in Hands : Applying(h)') /\ Winning' /\ Claims' /\ Queued'
    BY <1>1, <1>2, <1>3, <1>4, Calm DEF Rounds, SpecFails
<1>6. Open'
    BY <1>1 DEF Open, Holds
<1>7. Books'
    BY <1>1, <1>2, BooksStay DEF SpecFails
<1> QED
    BY <1>2, <1>5, <1>6, <1>7 DEF NightInv

(* A record is made: it takes the next number.                               *)
LEMMA MakesRecord ==
    ASSUME Scope, NightInv, NextProposal <= MaxProps, NEW r \in Record, r.status = "pending",
           r.files # {}, prop' = [prop EXCEPT ![NextProposal] = r]
    PROVE  /\ NextProposal \in Ids /\ prop[NextProposal].status = "none" /\ prop[NextProposal].files = {}
           /\ prop' \in [Ids -> Record] /\ prop'[NextProposal] = r
           /\ \A i \in Ids \ {NextProposal} : prop'[i] = prop[i]
           /\ NumberedIds'
           /\ PendingCount(prop) \in Nat /\ PendingCount(prop') \in Nat
           /\ PendingCount(prop') <= PendingCount(prop) + 1
<1>1. PICK n \in 0..MaxProps : NextProposal = n + 1 /\ \A i \in Ids : prop[i].status # "none" <=> i <= n
    BY NextIsFree DEF Scope, NightInv
<1>2. NextProposal \in Ids /\ ~(NextProposal <= n) /\ MaxProps \in Nat
    BY <1>1 DEF Ids, Scope, LaneBounds
<1>3. prop[NextProposal].status = "none" /\ prop[NextProposal].files = {}
    BY <1>1, <1>2 DEF NightInv, NumberedIds
<1>4. /\ prop' \in [Ids -> Record] /\ prop'[NextProposal] = r
      /\ \A i \in Ids \ {NextProposal} : prop'[i] = prop[i]
    BY <1>2 DEF NightInv, Types
<1>5. NumberedIds'
    <2>1. \A i \in Ids : prop'[i].status = "none" <=> prop'[i].files = {}
        BY <1>2, <1>4 DEF NightInv, NumberedIds
    <2>2. n + 1 \in 0..MaxProps
        BY <1>1, <1>2 DEF Ids
    <2>3. \A i \in Ids : prop'[i].status # "none" <=> i <= n + 1
        <3>1. ASSUME NEW i \in Ids, i # NextProposal PROVE prop'[i].status # "none" <=> i <= n + 1
            <4>1. i \in Nat /\ i # n + 1 /\ n \in Nat
                BY <1>1, <3>1 DEF Ids
            <4>2. prop[i].status # "none" <=> i <= n
                BY <1>1
            <4>3. prop'[i] = prop[i]
                BY <1>4, <3>1
            <4> QED
                BY <4>1, <4>2, <4>3
        <3>2. prop'[NextProposal].status # "none" /\ NextProposal <= n + 1
            BY <1>1, <1>2, <1>4 DEF Ids
        <3> QED
            BY <3>1, <3>2
    <2> QED
        BY <2>1, <2>2, <2>3 DEF NumberedIds
<1>6. /\ PendingCount(prop) \in Nat /\ PendingCount(prop') \in Nat
      /\ PendingCount(prop') <= PendingCount(prop) + 1
    <2> DEFINE A == {i \in Ids : Actionable(prop[i])}
               B == {i \in Ids : Actionable(prop'[i])}
    <2>1. B \subseteq A \cup {NextProposal}
        BY <1>4
    <2>2. /\ IsFiniteSet(A) /\ IsFiniteSet(B) /\ IsFiniteSet(A \cup {NextProposal})
          /\ Cardinality(A) \in Nat /\ Cardinality(B) \in Nat
        BY <1>2, CountingIds DEF Scope
    <2>3. Cardinality(A \cup {NextProposal}) <= Cardinality(A) + 1
        BY <2>2, FS_AddElement
    <2>4. Cardinality(B) <= Cardinality(A \cup {NextProposal}) /\ Cardinality(A \cup {NextProposal}) \in Nat
        BY <2>1, <2>2, FS_Subset, FS_CardinalityType
    <2>5. PendingCount(prop) = Cardinality(A) /\ PendingCount(prop') = Cardinality(B)
        BY DEF PendingCount
    <2> HIDE DEF A, B
    <2> QED
        BY <2>2, <2>3, <2>4, <2>5
<1> QED
    BY <1>2, <1>3, <1>4, <1>5, <1>6

(* A proposal is written from a spec of the plan.                            *)
LEMMA Writing ==
    ASSUME Scope, NightInv, WriteProposal
    PROVE  NightInv'
<1>0. PICK s \in lane.specs : \E fs \in (SUBSET s) \ {{}} :
         LET rec == [Absent EXCEPT !.status = "pending", !.files = fs]
         IN  /\ prop' = [prop EXCEPT ![NextProposal] = rec]
             /\ lane' = [lane EXCEPT !.pc = "sandbox", !.specs = @ \ {s}, !.cur = NextProposal, !.rec = rec]
    BY DEF WriteProposal
<1>1. PICK fs \in (SUBSET s) \ {{}} :
         LET rec == [Absent EXCEPT !.status = "pending", !.files = fs]
         IN  /\ prop' = [prop EXCEPT ![NextProposal] = rec]
             /\ lane' = [lane EXCEPT !.pc = "sandbox", !.specs = @ \ {s}, !.cur = NextProposal, !.rec = rec]
    BY <1>0
<1> DEFINE rec == [Absent EXCEPT !.status = "pending", !.files = fs]
           rest == lane.specs \ {s}
<1>2. /\ lane \in LaneRecord /\ lane.specs \in SUBSET SUBSET Files /\ lane.accepted \in SUBSET Ids
      /\ rest \in SUBSET SUBSET Files
      /\ fs \in SUBSET Files /\ fs # {} /\ fs \subseteq s
    BY DEF NightInv, Types, LaneRecord
<1>3. /\ rec \in Record /\ rec.status = "pending" /\ rec.files = fs /\ rec.box = "none"
    BY <1>2, EmptyRecords DEF Record, Absent
<1>4. /\ prop' = [prop EXCEPT ![NextProposal] = rec]
      /\ lane' = [lane EXCEPT !.pc = "sandbox", !.specs = rest, !.cur = NextProposal, !.rec = rec]
    BY <1>1
<1>5. rest \subseteq lane.specs /\ s \notin rest
    OBVIOUS
<1> HIDE DEF rec
<1>6. /\ NextProposal \in Ids /\ prop[NextProposal].status = "none" /\ prop[NextProposal].files = {}
      /\ prop' \in [Ids -> Record] /\ prop'[NextProposal] = rec
      /\ \A i \in Ids \ {NextProposal} : prop'[i] = prop[i]
      /\ NumberedIds'
      /\ PendingCount(prop) \in Nat /\ PendingCount(prop') \in Nat
      /\ PendingCount(prop') <= PendingCount(prop) + 1
    BY <1>2, <1>3, <1>4, MakesRecord DEF WriteProposal
<1>7. NextProposal \in 0..MaxProps
    BY <1>6 DEF Ids
<1>8. /\ lane' \in LaneRecord /\ lane'.pc = "sandbox" /\ lane'.specs = rest /\ lane'.cur = NextProposal
      /\ lane'.rec = rec /\ lane'.accepted = lane.accepted /\ lane'.won = lane.won
      /\ lane'.barren = lane.barren
    <2> HIDE DEF rest
    <2> QED
        BY <1>2, <1>3, <1>4, <1>7 DEF LaneRecord, Pcs
<1>9. Types'
    BY <1>6, <1>8 DEF WriteProposal, NightInv, Types
<1>10. \A i \in lane.accepted : i # NextProposal /\ prop'[i] = prop[i] /\ prop[i].status # "none"
    BY <1>2, <1>6 DEF NightInv, Claims
<1>11. \A h \in Hands : Applying(h)'
    <2>1. \A h \in Hands : job'[h].at = "none" /\ DOMAIN job'[h].was = {}
        BY StaysQuiet DEF LaneNight, WriteProposal
    <2> QED
        BY <2>1 DEF Applying
<1>12. Open'
    BY <1>3, <1>6, <1>8 DEF Open, Holds
<1>13. Winning'
    BY <1>8, <1>10 DEF WriteProposal, NightInv, Winning, Rounds
<1>14. Claims'
    <2>1. /\ Claimed(lane.specs)
          /\ \A i \in lane.accepted : \A t \in lane.specs : prop[i].files \cap t = {}
        BY DEF NightInv, Claims
    <2>2. Claimed(rest)
        BY <2>1 DEF Claimed
    <2>3. \A i \in lane'.accepted :
             prop'[i].status # "none" /\ \A t \in lane'.specs : prop'[i].files \cap t = {}
        BY <1>5, <1>8, <1>10, <2>1
    <2>4. \A t \in rest : fs \cap t = {}
        BY <1>2, <1>5, <2>1 DEF Claimed
    <2>5. \A i \in lane.accepted : fs \cap prop[i].files = {}
        BY <1>2, <2>1
    <2>6. RoundKeepsItsOwn'
        BY <1>8, <1>10 DEF NightInv, Claims, RoundKeepsItsOwn
    <2> QED
        BY <1>3, <1>6, <1>8, <1>10, <2>2, <2>3, <2>4, <2>5, <2>6 DEF Claims
<1>15. Queued'
    <2>1. /\ IsFiniteSet(lane.specs) /\ Cardinality(lane.specs) \in Nat
          /\ Cardinality(rest) = Cardinality(lane.specs) - 1 /\ Cardinality(rest) \in Nat
        BY <1>2, SpecsAreFinite, FS_RemoveElement, FS_CardinalityType
    <2>2. PendingCount(prop) + Cardinality(lane.specs) < MaxPending + MaxPerRound
        BY DEF WriteProposal, NightInv, Queued, Rounds
    <2>3. MaxPending \in Nat /\ MaxPerRound \in Nat
        BY DEF Scope, LaneBounds
    <2> HIDE DEF rest
    <2>4. /\ PendingCount(prop') + Cardinality(rest) < MaxPending + MaxPerRound
          /\ PendingCount(prop') < MaxPending + MaxPerRound
        BY <1>6, <2>1, <2>2, <2>3
    <2> QED
        BY <1>8, <2>4 DEF Queued
<1>16. Books'
    BY <1>8, <1>9, BooksStay DEF WriteProposal
<1> QED
    BY <1>6, <1>9, <1>11, <1>12, <1>13, <1>14, <1>15, <1>16 DEF NightInv

(* A record saved keeps the age of the one it overwrites.                    *)
LEMMA SavedRecord ==
    ASSUME Types, NEW i \in Ids, NEW rec \in Record
    PROVE  LET r == [rec EXCEPT !.age = prop[i].age]
           IN  /\ r \in Record /\ r.status = rec.status /\ r.files = rec.files
               /\ r.box = rec.box /\ r.age = prop[i].age
<1>1. prop[i].age \in 0..(DeadAfter + 1)
    BY DEF Types, Record
<1> QED
    BY <1>1 DEF Record

(* Saving what the round holds of its record fades nothing: at most the      *)
(* verdict of the sandbox is new.                                            *)
LEMMA SavingFades ==
    ASSUME Types, NEW i \in Ids, NEW rec \in Record, Save(i, rec),
           prop[i].status = "pending", rec.status = "pending", rec.files = prop[i].files,
           rec.box = prop[i].box \/ prop[i].box = "none"
    PROVE  /\ Fades /\ prop'[i].status = "pending" /\ prop'[i].box = rec.box
           /\ \A j \in Ids : prop'[j].status = prop[j].status /\ prop'[j].files = prop[j].files
<1> DEFINE r == [rec EXCEPT !.age = prop[i].age]
<1>1. /\ r \in Record /\ r.status = rec.status /\ r.files = rec.files
      /\ r.box = rec.box /\ r.age = prop[i].age
    BY SavedRecord
<1>2. prop' = [prop EXCEPT ![i] = r]
    BY DEF Save
<1> HIDE DEF r
<1>3. Actionable(r) => Actionable(prop[i])
    BY <1>1 DEF Actionable
<1>4. Fades /\ prop'[i] = r /\ \A j \in Ids \ {i} : prop'[j] = prop[j]
    BY ZenonT(60), <1>1, <1>2, <1>3, OneFades
<1> QED
    BY <1>1, <1>4

(* The sandbox's verdict is saved.                                           *)
LEMMA Sandboxing ==
    ASSUME Scope, NightInv, Sandbox
    PROVE  NightInv' /\ Fades /\ \A j \in Ids : prop'[j].status = prop[j].status
<1>1. PICK box \in {"green", "red"} :
         LET rec == [lane.rec EXCEPT !.box = box]
         IN  Save(lane.cur, rec) /\ lane' = [lane EXCEPT !.pc = "review", !.rec = rec]
    BY DEF Sandbox
<1> DEFINE rec == [lane.rec EXCEPT !.box = box]
<1>2. /\ lane \in LaneRecord /\ lane.rec \in Record /\ lane.cur \in Ids
      /\ prop[lane.cur].status = "pending" /\ lane.rec.status = "pending"
      /\ lane.rec.files = prop[lane.cur].files
    BY DEF Sandbox, NightInv, Types, LaneRecord, Open, Holds
<1>3. /\ rec \in Record /\ rec.status = "pending" /\ rec.files = prop[lane.cur].files
    BY <1>2 DEF Record
<1>4. Save(lane.cur, rec) /\ lane' = [lane EXCEPT !.pc = "review", !.rec = rec]
    BY <1>1
<1> HIDE DEF rec
<1>5. rec.box = prop[lane.cur].box \/ prop[lane.cur].box = "none"
    BY DEF Sandbox, NightInv, Open
<1>6. /\ Fades /\ prop'[lane.cur].status = "pending" /\ prop'[lane.cur].box = rec.box
      /\ \A j \in Ids : prop'[j].status = prop[j].status /\ prop'[j].files = prop[j].files
    BY <1>2, <1>3, <1>4, <1>5, SavingFades DEF NightInv
<1>7. /\ lane' \in LaneRecord /\ lane'.pc = "review" /\ lane'.specs = lane.specs
      /\ lane'.cur = lane.cur /\ lane'.rec = rec /\ lane'.accepted = lane.accepted
      /\ lane'.won = lane.won /\ lane'.barren = lane.barren
    BY <1>2, <1>3, <1>4 DEF LaneRecord, Pcs
<1>8. Types'
    BY <1>6, <1>7 DEF Sandbox, NightInv, Types, Fades
<1>9. \A h \in Hands : job'[h].at = "none" /\ DOMAIN job'[h].was = {}
    BY StaysQuiet DEF LaneNight, Sandbox
<1>10. NumberedIds' /\ (\A h \in Hands : Applying(h)') /\ Winning' /\ Claims' /\ Queued'
    BY <1>6, <1>7, <1>8, <1>9, Calm DEF Rounds, Sandbox
<1>11. Open'
    BY <1>2, <1>3, <1>6, <1>7 DEF Open, Holds
<1>12. Books'
    BY <1>7, <1>8, BooksStay DEF Sandbox
<1> QED
    BY <1>6, <1>8, <1>10, <1>11, <1>12 DEF NightInv

(* The next spec is taken up.                                                *)
LEMMA NextSpecs ==
    ASSUME Scope, NEW l \in LaneRecord, NextSpec(l)
    PROVE  /\ SameRound(l, lane') /\ lane'.pc = "spec" /\ lane'.barren = l.barren
<1>1. Absent \in Record /\ 0 \in 0..MaxProps /\ "spec" \in Pcs
    BY EmptyRecords DEF Scope, LaneBounds, Pcs
<1> QED
    BY <1>1 DEF NextSpec, SameRound, LaneRecord

(* The review is saved, and its proposal counts as one of the round's.       *)
LEMMA Reviewing ==
    ASSUME Scope, NightInv, Review
    PROVE  NightInv' /\ Fades /\ \A j \in Ids : prop'[j].status = prop[j].status
<1>1. /\ lane \in LaneRecord /\ lane.rec \in Record /\ lane.cur \in Ids
      /\ prop[lane.cur].status = "pending" /\ lane.rec.status = "pending"
      /\ lane.rec.files = prop[lane.cur].files /\ lane.rec.box = prop[lane.cur].box
      /\ lane.accepted \in SUBSET Ids
    BY DEF Review, NightInv, Types, LaneRecord, Open, Holds
<1>2. /\ Fades /\ prop'[lane.cur].status = "pending" /\ prop'[lane.cur].box = lane.rec.box
      /\ \A j \in Ids : prop'[j].status = prop[j].status /\ prop'[j].files = prop[j].files
    BY <1>1, SavingFades DEF Review, NightInv
<1> DEFINE l == [lane EXCEPT !.accepted = @ \cup {lane.cur}]
<1>3. /\ l \in LaneRecord /\ l.specs = lane.specs /\ l.won = lane.won /\ l.cur = lane.cur
      /\ l.rec = lane.rec /\ l.accepted = lane.accepted \cup {lane.cur} /\ l.barren = lane.barren
    <2> DEFINE more == lane.accepted \cup {lane.cur}
    <2>1. more \in SUBSET Ids
        BY <1>1
    <2>2. l = [lane EXCEPT !.accepted = more]
        OBVIOUS
    <2> HIDE DEF more, l
    <2>3. /\ l \in LaneRecord /\ l.specs = lane.specs /\ l.won = lane.won /\ l.cur = lane.cur
          /\ l.rec = lane.rec /\ l.accepted = more /\ l.barren = lane.barren
        BY <1>1, <2>1, <2>2 DEF LaneRecord
    <2> QED
        BY <2>3 DEF more
<1>4. lane' = [l EXCEPT !.pc = "apply"] \/ lane' = [l EXCEPT !.pc = "discard"] \/ NextSpec(l)
    BY DEF Review
<1> HIDE DEF l
<1>5. /\ lane' \in LaneRecord /\ lane'.pc \in {"apply", "discard", "spec"}
      /\ lane'.specs = l.specs /\ lane'.accepted = l.accepted /\ lane'.won = l.won
      /\ lane'.barren = l.barren
      /\ lane'.pc # "spec" => lane'.cur = l.cur /\ lane'.rec = l.rec
    <2>1. CASE lane' = [l EXCEPT !.pc = "apply"]
        BY <1>3, <2>1 DEF LaneRecord, Pcs
    <2>2. CASE lane' = [l EXCEPT !.pc = "discard"]
        BY <1>3, <2>2 DEF LaneRecord, Pcs
    <2>3. CASE NextSpec(l)
        BY <1>3, <2>3, NextSpecs DEF SameRound
    <2> QED
        BY <1>4, <2>1, <2>2, <2>3
<1>6. /\ lane'.specs = lane.specs /\ lane'.won = lane.won /\ lane'.barren = lane.barren
      /\ lane'.accepted = lane.accepted \cup {lane.cur}
      /\ lane'.pc # "spec" => lane'.cur = lane.cur /\ lane'.rec = lane.rec
    BY <1>3, <1>5
<1>7. Types'
    BY <1>2, <1>5 DEF Review, NightInv, Types, Fades
<1>8. NumberedIds'
    BY <1>2, FadesKeepNumbers DEF NightInv
<1>9. \A h \in Hands : Applying(h)'
    <2>1. \A h \in Hands : job'[h].at = "none" /\ DOMAIN job'[h].was = {}
        BY StaysQuiet DEF LaneNight, Review
    <2> QED
        BY <2>1 DEF Applying
<1>10. Open'
    BY <1>1, <1>2, <1>5, <1>6 DEF Open, Holds
<1>11. Winning'
    <2>1. lane.won = {i \in lane.accepted : prop[i].status = "applied"}
        BY DEF Review, NightInv, Winning, Rounds
    <2>2. lane'.won = {i \in lane'.accepted : prop'[i].status = "applied"}
        BY <1>1, <1>2, <1>6, <2>1
    <2> QED
        BY <1>5, <2>2 DEF Winning
<1>12. Claims'
    <2>1. /\ Claimed(lane.specs) /\ RoundKeepsItsOwn
          /\ \A i \in lane.accepted :
               prop[i].status # "none" /\ \A s \in lane.specs : prop[i].files \cap s = {}
          /\ \A s \in lane.specs : prop[lane.cur].files \cap s = {}
          /\ \A i \in lane.accepted : prop[lane.cur].files \cap prop[i].files = {}
        BY DEF Review, NightInv, Claims
    <2>2. \A i \in lane'.accepted :
             prop'[i].status # "none" /\ \A s \in lane'.specs : prop'[i].files \cap s = {}
        BY <1>1, <1>2, <1>6, <2>1
    <2>3. RoundKeepsItsOwn'
        BY <1>1, <1>2, <1>6, <2>1 DEF RoundKeepsItsOwn
    <2> QED
        BY <1>5, <1>6, <2>1, <2>2, <2>3 DEF Claims
<1>13. Queued'
    <2>1. /\ PendingCount(prop') \in Nat /\ PendingCount(prop) \in Nat
          /\ PendingCount(prop') <= PendingCount(prop)
        BY <1>2, FadesKeepQueue DEF Scope
    <2>2. Cardinality(lane.specs) \in Nat
        BY SpecsAreFinite, FS_CardinalityType DEF NightInv, Types, LaneRecord
    <2>3. /\ PendingCount(prop) + Cardinality(lane.specs) < MaxPending + MaxPerRound
          /\ MaxPending \in Nat /\ MaxPerRound \in Nat
        BY DEF Review, NightInv, Queued, Rounds, Scope, LaneBounds
    <2> QED
        BY <1>5, <1>6, <2>1, <2>2, <2>3 DEF Queued
<1>14. Books'
    BY <1>5, <1>6, <1>7, BooksStay DEF Review
<1> QED
    BY <1>2, <1>7, <1>8, <1>9, <1>10, <1>11, <1>12, <1>13, <1>14 DEF NightInv

(* The reviewer's discard closes the proposal.                               *)
LEMMA Discarding ==
    ASSUME Scope, NightInv, Discard
    PROVE  NightInv'
<1>1. lane \in LaneRecord /\ lane.cur \in Ids /\ lane.pc = "discard"
    BY DEF Discard, NightInv, Types, Open, Holds
<1>2. Fades /\ \A i \in Ids : prop'[i].status = "applied" <=> prop[i].status = "applied"
    BY <1>1, RejectionFades DEF Discard, NightInv
<1>3. SameRound(lane, lane') /\ lane'.pc = "spec" /\ lane'.barren = lane.barren
    BY <1>1, NextSpecs DEF Discard
<1>4. Types'
    BY <1>2, <1>3 DEF Discard, NightInv, Types, Fades, SameRound
<1>5. \A h \in Hands : job'[h].at = "none" /\ DOMAIN job'[h].was = {}
    BY StaysQuiet DEF LaneNight, Discard
<1>6. NumberedIds' /\ (\A h \in Hands : Applying(h)') /\ Winning' /\ Claims' /\ Queued'
    BY <1>1, <1>2, <1>3, <1>4, <1>5, Calm DEF Rounds, SameRound
<1>7. Open'
    BY <1>3 DEF Open, Holds
<1>8. Books'
    BY <1>1, <1>3, <1>4, BooksStay DEF Discard
<1> QED
    BY <1>4, <1>6, <1>7, <1>8 DEF NightInv

(* The lane goes on after its apply; what it saves is what it read back.     *)
LEMMA AutoApplying ==
    ASSUME Scope, NightInv, AutoApplied
    PROVE  NightInv' /\ UNCHANGED prop
<1>1. lane \in LaneRecord /\ lane.cur \in Ids /\ lane.pc = "applying" /\ prop \in [Ids -> Record]
    BY DEF AutoApplied, NightInv, Types, Open
<1>2. prop' = prop
    <2>1. [prop[lane.cur] EXCEPT !.age = prop[lane.cur].age] = prop[lane.cur]
        BY <1>1 DEF Record
    <2>2. prop' = [prop EXCEPT ![lane.cur] = prop[lane.cur]]
        BY <2>1 DEF AutoApplied, Save, ReadBack
    <2> QED
        BY <1>1, <2>2
<1>3. Fades /\ \A i \in Ids : prop'[i].status = "applied" <=> prop[i].status = "applied"
    BY <1>2, NothingFades DEF NightInv
<1>4. SameRound(lane, lane') /\ lane'.pc = "spec" /\ lane'.barren = lane.barren
    BY <1>1, NextSpecs DEF AutoApplied
<1>5. Types'
    BY <1>3, <1>4 DEF AutoApplied, NightInv, Types, Fades, SameRound
<1>6. \A h \in Hands : job'[h].at = "none" /\ DOMAIN job'[h].was = {}
    BY StaysQuiet DEF LaneNight, AutoApplied
<1>7. NumberedIds' /\ (\A h \in Hands : Applying(h)') /\ Winning' /\ Claims' /\ Queued'
    BY <1>1, <1>3, <1>4, <1>5, <1>6, Calm DEF Rounds, SameRound
<1>8. Open'
    BY <1>4 DEF Open, Holds
<1>9. Books'
    BY <1>1, <1>4, <1>5, BooksStay DEF AutoApplied
<1> QED
    BY <1>2, <1>5, <1>7, <1>8, <1>9 DEF NightInv

(* A round that brought something leads on, or to the ceiling.               *)
LEMMA Continuing ==
    ASSUME Scope, Types, NEW l \in LaneRecord, Continues(l), l.rounds = lane.rounds
    PROVE  /\ SameRound(l, lane') /\ lane'.barren = l.barren
           /\ \/ lane'.pc = "gate"
              \/ lane'.pc = "done" /\ lane'.stop = "round_cap" /\ lane'.rounds = MaxRounds
<1>1. "done" \in Pcs /\ "gate" \in Pcs /\ "round_cap" \in Stops
    BY DEF Pcs, Stops
<1>2. CASE lane.rounds = MaxRounds
    <2>1. lane' = [l EXCEPT !.pc = "done", !.stop = "round_cap"]
        BY <1>2 DEF Continues
    <2> QED
        BY <1>1, <1>2, <2>1 DEF SameRound, LaneRecord
<1>3. CASE lane.rounds # MaxRounds
    <2>1. lane' = [l EXCEPT !.pc = "gate"]
        BY <1>3 DEF Continues
    <2> QED
        BY <1>1, <2>1 DEF SameRound, LaneRecord
<1> QED
    BY <1>2, <1>3

(* A round ends: stand down, count it barren, or go on.                      *)
LEMMA RoundEnding ==
    ASSUME Scope, NightInv, RoundEnds
    PROVE  NightInv'
<1>1. /\ lane \in LaneRecord /\ lane.pc = "spec" /\ lane.won \in SUBSET Ids
      /\ lane.won = {i \in lane.accepted : prop[i].status = "applied"}
      /\ lane.specs = {} /\ lane.applied \in Nat
    BY DEF RoundEnds, NightInv, Types, Winning, Rounds, LaneRecord
<1>2. /\ seen' \in [calls : Nat, fruitless : Nat] /\ seen'.calls = seen.calls
      /\ lane.won = {} => seen'.fruitless = seen.fruitless + 1
    <2>1. seen' = [seen EXCEPT !.fruitless = IF lane.won # {} THEN 0 ELSE @ + 1]
        BY <1>1 DEF RoundEnds
    <2> QED
        BY <2>1 DEF NightInv, Types
<1>3. \A h \in Hands : job'[h].at = "none" /\ DOMAIN job'[h].was = {}
    BY StaysQuiet DEF LaneNight, RoundEnds
<1>4. Fades
    BY NothingFades DEF RoundEnds, NightInv
<1>5. /\ SameRound(lane, lane') /\ lane'.pc \in {"gate", "done"}
      /\ Books'
    <2>1. CASE lane.accepted = {} /\ ~lane.rejected
        <3>1. /\ SameRound(lane, lane') /\ lane'.pc = "done" /\ lane'.stop = "stood_down"
              /\ lane'.barren = lane.barren
            BY <2>1, Stopping DEF RoundEnds, NightInv, Stops
        <3>2. lane.won = {}
            BY <1>1, <2>1
        <3>3. StopIsTruthful'
            BY <1>1, <2>1, <3>1 DEF StopIsTruthful, SameRound
        <3> QED
            BY <1>1, <1>2, <3>1, <3>2, <3>3
            DEF RoundEnds, NightInv, Types, LaneRecord, Books, Scope, LaneBounds
    <2>2. CASE ~(lane.accepted = {} /\ ~lane.rejected) /\ lane.won = {}
        <3>1. RoundWithout
            BY <2>2 DEF RoundEnds
        <3>2. /\ SameRound(lane, lane') /\ lane'.barren = lane.barren + 1
              /\ \/ lane'.pc = "gate" /\ lane'.barren < BarrenCap
                 \/ lane'.pc = "done" /\ lane'.stop = "no_progress" /\ lane'.barren >= BarrenCap
                 \/ /\ lane'.pc = "done" /\ lane'.stop = "round_cap" /\ lane'.barren < BarrenCap
                    /\ lane'.rounds = MaxRounds
            BY <3>1, BarrenRound DEF NightInv
        <3>3. Books'
            BY <1>1, <1>2, <2>2, <3>2, BarrenBooks DEF RoundEnds
        <3> QED
            BY <3>2, <3>3
    <2>3. CASE ~(lane.accepted = {} /\ ~lane.rejected) /\ lane.won # {}
        <3> DEFINE n == lane.applied + Cardinality(lane.won)
                   l == [lane EXCEPT !.barren = 0, !.applied = n]
        <3>1. Continues(l)
            BY <2>3 DEF RoundEnds
        <3>2. n \in Nat
            BY <1>1, CountingIds DEF Scope
        <3> HIDE DEF n
        <3>3. SameRound(lane, l) /\ l.barren = 0 /\ l \in LaneRecord /\ l.rounds = lane.rounds
            BY <1>1, <3>2 DEF SameRound, LaneRecord
        <3> HIDE DEF l
        <3>4. /\ SameRound(l, lane') /\ lane'.barren = 0
              /\ \/ lane'.pc = "gate"
                 \/ lane'.pc = "done" /\ lane'.stop = "round_cap" /\ lane'.rounds = MaxRounds
            BY <3>1, <3>3, Continuing DEF NightInv
        <3>5. SameRound(lane, lane')
            BY <3>3, <3>4 DEF SameRound
        <3>6. StopIsTruthful'
            BY <3>4 DEF StopIsTruthful
        <3> QED
            BY <1>2, <3>4, <3>5, <3>6
            DEF RoundEnds, NightInv, Types, Books, Scope, LaneBounds
    <2> QED
        BY <2>1, <2>2, <2>3
<1>6. Types'
    BY <1>2, <1>5 DEF RoundEnds, NightInv, Types, SameRound
<1>7. NumberedIds' /\ (\A h \in Hands : Applying(h)') /\ Winning' /\ Claims' /\ Queued'
    BY <1>1, <1>3, <1>4, <1>5, <1>6, Calm DEF Rounds, SameRound
<1>8. Open'
    BY <1>5 DEF Open, Holds
<1> QED
    BY <1>5, <1>6, <1>7, <1>8 DEF NightInv

(* ------------------------------ the applies ------------------------------ *)
(* Two hands are never at it at once.                                        *)
LEMMA OneHand ==
    ASSUME NightInv, NEW h \in Hands, job[h].at # "none"
    PROVE  \A g \in Hands \ {h} : job[g].at = "none"
BY DEF NightInv, Applying, Hands

(* What depends on neither the tree nor the applies.                         *)
LEMMA Elsewhere ==
    ASSUME NightInv, UNCHANGED <<prop, lane, charged, seen>>
    PROVE  NumberedIds' /\ Open' /\ Winning' /\ Claims' /\ Queued' /\ Books'
<1>1. NumberedIds' /\ Open' /\ Winning'
    BY DEF NightInv, NumberedIds, Open, Winning
<1>2. Claims'
    BY DEF NightInv, Claims, RoundKeepsItsOwn
<1>3. Queued'
    BY DEF NightInv, Queued, PendingCount
<1>4. Books'
    BY DEF NightInv, Books, StopIsTruthful
<1> QED
    BY <1>1, <1>2, <1>3, <1>4

(* An apply begins: nothing is written, every file is still to do.           *)
LEMMA BeginsApply ==
    ASSUME Scope, NightInv, NEW h \in Hands, NEW i \in Ids, prop[i].status = "pending",
           job[h].at = "none", Apply(h, i)
    PROVE  /\ job' \in [Hands -> JobRecord]
           /\ job'[h].at = "write" /\ job'[h].rec = i /\ job'[h].todo = prop[i].files
           /\ DOMAIN job'[h].was = {}
           /\ \A g \in Hands \ {h} : job'[g] = job[g]
<1> DEFINE r == [at |-> "write", rec |-> i, todo |-> prop[i].files, was |-> <<>>]
<1>1. i \in 0..MaxProps /\ prop[i].files \in SUBSET Files
    BY DEF Ids, NightInv, Types, Record, Scope, LaneBounds
<1>2. r \in JobRecord /\ DOMAIN r.was = {}
    BY <1>1, NoBackup DEF JobRecord
<1>3. job' = [job EXCEPT ![h] = r]
    BY DEF Apply
<1>4. r.at = "write" /\ r.rec = i /\ r.todo = prop[i].files
    OBVIOUS
<1> HIDE DEF r
<1> QED
    BY <1>2, <1>3, <1>4 DEF NightInv, Types

(* The lane begins to apply what the review approved.                        *)
LEMMA LaneApplying ==
    ASSUME Scope, NightInv, LaneApplies
    PROVE  NightInv'
<1>1. /\ lane \in LaneRecord /\ lane.pc = "apply" /\ lane.cur \in Ids
      /\ prop[lane.cur].status = "pending" /\ lane.cur \in lane.accepted
    BY DEF LaneApplies, NightInv, Types, Open, Holds
<1>2. \A h \in Hands : job[h].at = "none" /\ DOMAIN job[h].was = {}
    BY NightIsQuiet DEF LaneNight, NightInv, Applying
<1>3. /\ job' \in [Hands -> JobRecord]
      /\ job'["lane"].at = "write" /\ job'["lane"].rec = lane.cur
      /\ job'["lane"].todo = prop[lane.cur].files
      /\ DOMAIN job'["lane"].was = {}
      /\ \A g \in Hands \ {"lane"} : job'[g] = job[g]
    BY <1>1, <1>2, BeginsApply DEF LaneApplies, Hands
<1>4. /\ SameRound(lane, lane') /\ lane'.pc = "applying" /\ lane'.cur = lane.cur
      /\ lane'.barren = lane.barren
    BY <1>1 DEF LaneApplies, SameRound, LaneRecord, Pcs
<1>5. Types'
    BY <1>3, <1>4 DEF LaneApplies, NightInv, Types, SameRound
<1>6. Applying("lane")'
    BY <1>1, <1>3, <1>4 DEF LaneApplies, Applying
<1>7. Applying("human")'
    BY <1>2, <1>3 DEF Applying, Hands
<1>8. NumberedIds' /\ Open'
    BY <1>1, <1>4 DEF LaneApplies, NightInv, NumberedIds, Open, Holds, SameRound
<1>9. Winning'
    BY <1>1, <1>4 DEF LaneApplies, NightInv, Winning, Rounds, SameRound
<1>10. Claims'
    BY <1>1, <1>4 DEF LaneApplies, NightInv, Claims, RoundKeepsItsOwn, SameRound
<1>11. Queued'
    BY <1>1, <1>4 DEF LaneApplies, NightInv, Queued, Rounds, PendingCount, SameRound
<1>12. Books'
    BY <1>1, <1>4, <1>5, BooksStay DEF LaneApplies
<1> QED
    BY <1>5, <1>6, <1>7, <1>8, <1>9, <1>10, <1>11, <1>12 DEF NightInv, Hands

(* One more file is backed up and replaced.                                  *)
LEMMA WritingFile ==
    ASSUME Scope, NightInv, NEW h \in Hands, WriteFile(h)
    PROVE  NightInv'
<1>1. PICK f \in job[h].todo :
         /\ job' = [job EXCEPT ![h].todo = @ \ {f}, ![h].was = BackedUp(@, f)]
         /\ tree' = [tree EXCEPT ![f] = job[h].rec]
    BY DEF WriteFile
<1>2. /\ job[h] \in JobRecord /\ job[h].at = "write" /\ f \in Files /\ job[h].was \in Backups
      /\ job[h].rec \in Ids /\ job[h].todo \in SUBSET Files /\ job[h].rec \in 0..MaxProps
    BY DEF WriteFile, NightInv, Types, JobRecord, Applying
<1> DEFINE w == BackedUp(job[h].was, f)
           d == job[h].todo \ {f}
<1>3. /\ w \in Backups /\ DOMAIN w = DOMAIN job[h].was \cup {f} /\ d \in SUBSET Files
    BY <1>2, OneMoreBackup DEF NightInv
<1>4. job' = [job EXCEPT ![h].todo = d, ![h].was = w]
    BY <1>1
<1>5. d = job[h].todo \ {f}
    OBVIOUS
<1> HIDE DEF w, d
<1>6. /\ job' \in [Hands -> JobRecord] /\ job'[h].at = "write" /\ job'[h].rec = job[h].rec
      /\ job'[h].todo = d /\ job'[h].was = w
      /\ \A g \in Hands \ {h} : job'[g] = job[g]
    BY <1>2, <1>3, <1>4 DEF NightInv, Types, JobRecord
<1>7. /\ tree' \in [Files -> 0..MaxProps] /\ tree'[f] = job[h].rec
      /\ \A g \in Files \ {f} : tree'[g] = tree[g]
    BY <1>1, <1>2 DEF NightInv, Types
<1>8. Types'
    BY <1>6, <1>7 DEF WriteFile, NightInv, Types
<1>9. Applying(h)'
    <2>1. /\ Applying(h) /\ DOMAIN job[h].was \subseteq Files
          /\ DOMAIN job[h].was \cup job[h].todo = prop[job[h].rec].files
          /\ DOMAIN job[h].was \cap job[h].todo = {}
          /\ \A g \in DOMAIN job[h].was : tree[g] = job[h].rec
        BY <1>2 DEF NightInv, Applying, Backups
    <2>2. /\ DOMAIN w \cup d = prop[job[h].rec].files /\ DOMAIN w \cap d = {}
          /\ \A g \in DOMAIN w : tree'[g] = job[h].rec
        BY <1>1, <1>3, <1>5, <1>7, <2>1
    <2> QED
        BY <1>2, <1>6, <2>1, <2>2 DEF WriteFile, Applying
<1>10. \A g \in Hands \ {h} : Applying(g)'
    <2>1. \A g \in Hands \ {h} : job'[g].at = "none" /\ DOMAIN job'[g].was = {}
        BY <1>2, <1>6, OneHand DEF NightInv, Applying
    <2> QED
        BY <2>1 DEF Applying
<1>11. NumberedIds' /\ Open' /\ Winning' /\ Claims' /\ Queued' /\ Books'
    BY Elsewhere DEF WriteFile
<1> QED
    BY <1>8, <1>9, <1>10, <1>11 DEF NightInv

(* The tests are red or a write failed: every backup is to be put back.      *)
LEMMA RollingBack ==
    ASSUME Scope, NightInv, NEW h \in Hands, RollsBack(h)
    PROVE  NightInv'
<1>1. job[h] \in JobRecord /\ job[h].at = "write" /\ DOMAIN job[h].was \in SUBSET Files
    BY DEF RollsBack, NightInv, Types, JobRecord, Backups
<1> DEFINE d == DOMAIN job[h].was
<1>2. job' = [job EXCEPT ![h].at = "undo", ![h].todo = d]
    BY DEF RollsBack
<1>3. d \in SUBSET Files /\ d \subseteq DOMAIN job[h].was /\ DOMAIN job[h].was \ d = {}
    BY <1>1
<1> HIDE DEF d
<1>4. /\ job' \in [Hands -> JobRecord] /\ job'[h].at = "undo" /\ job'[h].rec = job[h].rec
      /\ job'[h].todo = d /\ job'[h].was = job[h].was
      /\ \A g \in Hands \ {h} : job'[g] = job[g]
    BY <1>1, <1>2, <1>3 DEF NightInv, Types, JobRecord
<1>5. Types'
    BY <1>4 DEF RollsBack, NightInv, Types
<1>6. Applying(h)'
    <2>1. Applying(h)
        BY DEF NightInv
    <2>2. \A f \in DOMAIN job'[h].was \ job'[h].todo : tree'[f] = job'[h].was[f]
        BY <1>3, <1>4
    <2> QED
        BY <1>1, <1>3, <1>4, <2>1, <2>2 DEF RollsBack, Applying
<1>7. \A g \in Hands \ {h} : Applying(g)'
    <2>1. \A g \in Hands \ {h} : job'[g].at = "none" /\ DOMAIN job'[g].was = {}
        BY <1>1, <1>4, OneHand DEF NightInv, Applying
    <2> QED
        BY <2>1 DEF Applying
<1>8. NumberedIds' /\ Open' /\ Winning' /\ Claims' /\ Queued' /\ Books'
    BY Elsewhere DEF RollsBack
<1> QED
    BY <1>5, <1>6, <1>7, <1>8 DEF NightInv

(* An apply that is over leaves nothing behind of its own.                   *)
LEMMA EndsApply ==
    ASSUME Scope, NightInv, NEW h \in Hands, job[h].at # "none" \/ job[h] = Idle,
           \A g \in Hands \ {h} : job[g].at = "none", job' = [job EXCEPT ![h] = Idle]
    PROVE  /\ job' \in [Hands -> JobRecord]
           /\ \A g \in Hands : job'[g].at = "none" /\ DOMAIN job'[g].was = {}
<1>1. Idle \in JobRecord /\ Idle.at = "none" /\ DOMAIN Idle.was = {}
    BY EmptyRecords, NoBackup DEF Idle
<1>2. job' \in [Hands -> JobRecord] /\ job'[h] = Idle /\ \A g \in Hands \ {h} : job'[g] = job[g]
    BY <1>1 DEF NightInv, Types
<1>3. \A g \in Hands \ {h} : DOMAIN job[g].was = {}
    BY DEF NightInv, Applying
<1> QED
    BY <1>1, <1>2, <1>3

(* A backup is put back, or all are and the proposal is pending as it was.   *)
LEMMA Undoing ==
    ASSUME Scope, NightInv, NEW h \in Hands, Undo(h)
    PROVE  NightInv' /\ UNCHANGED prop
<1>1. /\ job[h] \in JobRecord /\ job[h].at = "undo" /\ job[h].was \in Backups
      /\ job[h].rec \in Ids /\ prop[job[h].rec].status = "pending" /\ Applying(h)
      /\ prop \in [Ids -> Record]
    BY DEF Undo, NightInv, Types, JobRecord, Applying
<1>2. CASE /\ job[h].todo = {} /\ job' = [job EXCEPT ![h] = Idle]
           /\ Save(job[h].rec, [prop[job[h].rec] EXCEPT !.status = "pending"]) /\ UNCHANGED tree
    <2>1. UNCHANGED prop
        <3>1. [[prop[job[h].rec] EXCEPT !.status = "pending"] EXCEPT !.age = prop[job[h].rec].age]
                 = prop[job[h].rec]
            BY <1>1 DEF Record
        <3>2. prop' = [prop EXCEPT ![job[h].rec] = prop[job[h].rec]]
            BY <1>2, <3>1 DEF Save
        <3> QED
            BY <1>1, <3>2
    <2>2. /\ job' \in [Hands -> JobRecord]
          /\ \A g \in Hands : job'[g].at = "none" /\ DOMAIN job'[g].was = {}
        BY <1>1, <1>2, OneHand, EndsApply
    <2>3. Types' /\ \A g \in Hands : Applying(g)'
        BY <1>2, <2>1, <2>2 DEF Undo, NightInv, Types, Applying
    <2>4. NumberedIds' /\ Open' /\ Winning' /\ Claims' /\ Queued' /\ Books'
        BY <2>1, Elsewhere DEF Undo
    <2> QED
        BY <2>1, <2>3, <2>4 DEF NightInv
<1>3. CASE \E f \in job[h].todo :
             /\ tree' = [tree EXCEPT ![f] = job[h].was[f]]
             /\ job' = [job EXCEPT ![h].todo = @ \ {f}] /\ UNCHANGED prop
    <2>1. PICK f \in job[h].todo :
             /\ tree' = [tree EXCEPT ![f] = job[h].was[f]]
             /\ job' = [job EXCEPT ![h].todo = @ \ {f}] /\ UNCHANGED prop
        BY <1>3
    <2>2. /\ f \in DOMAIN job[h].was /\ f \in Files /\ job[h].was[f] \in 0..MaxProps
          /\ job[h].todo \in SUBSET Files
        BY <1>1 DEF Applying, Backups, JobRecord
    <2> DEFINE d == job[h].todo \ {f}
    <2>3. d \in SUBSET Files /\ job' = [job EXCEPT ![h].todo = d] /\ d = job[h].todo \ {f}
        BY <2>1, <2>2
    <2> HIDE DEF d
    <2>4. /\ job' \in [Hands -> JobRecord] /\ job'[h].at = "undo" /\ job'[h].rec = job[h].rec
          /\ job'[h].todo = d /\ job'[h].was = job[h].was
          /\ \A g \in Hands \ {h} : job'[g] = job[g]
        BY <1>1, <2>3 DEF NightInv, Types, JobRecord
    <2>5. /\ tree' \in [Files -> 0..MaxProps] /\ tree'[f] = job[h].was[f]
          /\ \A g \in Files \ {f} : tree'[g] = tree[g]
        BY <2>1, <2>2 DEF NightInv, Types
    <2>6. Types'
        BY <2>1, <2>4, <2>5 DEF Undo, NightInv, Types
    <2>7. Applying(h)'
        <3>1. /\ job[h].todo \subseteq DOMAIN job[h].was /\ DOMAIN job[h].was \subseteq Files
              /\ \A g \in DOMAIN job[h].was \ job[h].todo : tree[g] = job[h].was[g]
            BY <1>1 DEF Applying, Backups
        <3>2. /\ job'[h].todo \subseteq DOMAIN job'[h].was
              /\ \A g \in DOMAIN job'[h].was \ job'[h].todo : tree'[g] = job'[h].was[g]
            BY <2>3, <2>4, <2>5, <3>1
        <3> QED
            BY <1>1, <2>1, <2>4, <3>2 DEF Undo, Applying
    <2>8. \A g \in Hands \ {h} : Applying(g)'
        <3>1. \A g \in Hands \ {h} : job'[g].at = "none" /\ DOMAIN job'[g].was = {}
            BY <1>1, <2>4, OneHand DEF NightInv, Applying
        <3> QED
            BY <3>1 DEF Applying
    <2>9. NumberedIds' /\ Open' /\ Winning' /\ Claims' /\ Queued' /\ Books'
        BY <2>1, Elsewhere DEF Undo
    <2> QED
        BY <2>1, <2>6, <2>7, <2>8, <2>9 DEF NightInv
<1> QED
    BY <1>2, <1>3 DEF Undo

(* Green tests close the proposal as applied; the lane's is a win.           *)
LEMMA GreenFades ==
    ASSUME Scope, NightInv, NEW h \in Hands, Green(h)
    PROVE  /\ Fades /\ job[h].rec \in Ids /\ prop[job[h].rec].status = "pending"
           /\ prop'[job[h].rec].status = "applied"
           /\ \A i \in Ids \ {job[h].rec} : prop'[i] = prop[i]
           /\ h = "lane" => lane.pc = "applying" /\ job[h].rec = lane.cur
           /\ h # "lane" => lane.pc \in {"off", "done"}
<1>1. /\ job[h].rec \in Ids /\ prop[job[h].rec].status = "pending"
      /\ prop[job[h].rec] \in Record
      /\ h = "lane" => lane.pc = "applying" /\ job[h].rec = lane.cur
      /\ h # "lane" => lane.pc \in {"off", "done"}
    BY DEF Green, NightInv, Applying, Types
<1> DEFINE r == Closed(prop[job[h].rec], "applied")
<1>2. r \in Record /\ r.files = prop[job[h].rec].files /\ r.status = "applied" /\ ~Actionable(r)
    BY <1>1, ClosedRecord DEF Closings
<1>3. prop' = [prop EXCEPT ![job[h].rec] = r]
    BY DEF Green
<1> HIDE DEF r
<1>4. Fades /\ prop'[job[h].rec] = r /\ \A i \in Ids \ {job[h].rec} : prop'[i] = prop[i]
    BY <1>1, <1>2, <1>3, OneFades DEF NightInv
<1> QED
    BY <1>1, <1>2, <1>4

(* The steps that close a proposal as applied keep the night's invariant.    *)
LEMMA Greening ==
    ASSUME Scope, NightInv, NEW h \in Hands, Green(h)
    PROVE  NightInv'
<1>1. /\ Fades /\ job[h].rec \in Ids /\ prop[job[h].rec].status = "pending"
      /\ prop'[job[h].rec].status = "applied"
      /\ \A i \in Ids \ {job[h].rec} : prop'[i] = prop[i]
      /\ h = "lane" => lane.pc = "applying" /\ job[h].rec = lane.cur
      /\ h # "lane" => lane.pc \in {"off", "done"}
    BY GreenFades
<1>2. /\ job' \in [Hands -> JobRecord]
      /\ \A g \in Hands : job'[g].at = "none" /\ DOMAIN job'[g].was = {}
    BY OneHand, EndsApply DEF Green
<1>3. /\ lane' \in LaneRecord /\ lane'.pc = lane.pc /\ lane'.barren = lane.barren
      /\ lane'.specs = lane.specs /\ lane'.accepted = lane.accepted /\ lane'.cur = lane.cur
      /\ h = "lane" => lane'.won = lane.won \cup {lane.cur}
      /\ h # "lane" => lane' = lane
    <2>1. CASE h = "lane"
        <3> DEFINE w == lane.won \cup {lane.cur}
        <3>1. lane' = [lane EXCEPT !.won = w] /\ lane \in LaneRecord
            BY <2>1 DEF Green, NightInv, Types
        <3>2. w \in SUBSET Ids
            BY <1>1, <2>1, <3>1 DEF LaneRecord
        <3>3. w = lane.won \cup {lane.cur}
            OBVIOUS
        <3> HIDE DEF w
        <3> QED
            BY <2>1, <3>1, <3>2, <3>3 DEF LaneRecord
    <2>2. CASE h # "lane"
        BY <2>2 DEF Green, NightInv, Types
    <2> QED
        BY <2>1, <2>2
<1>4. Types'
    BY <1>1, <1>2, <1>3 DEF Green, NightInv, Types, Fades
<1>5. \A g \in Hands : Applying(g)'
    BY <1>2 DEF Applying
<1>6. NumberedIds'
    BY <1>1, FadesKeepNumbers DEF NightInv
<1>7. Open'
    BY <1>1, <1>3 DEF NightInv, Open, Holds
<1>8. Winning'
    <2>1. CASE h = "lane"
        <3>1. /\ lane.won = {i \in lane.accepted : prop[i].status = "applied"}
              /\ lane.cur \in lane.accepted /\ lane.accepted \in SUBSET Ids
            BY <1>1, <2>1 DEF NightInv, Winning, Rounds, Open, Types, LaneRecord
        <3>2. lane'.won = {i \in lane'.accepted : prop'[i].status = "applied"}
            BY <1>1, <1>3, <2>1, <3>1
        <3> QED
            BY <1>1, <1>3, <2>1, <3>2 DEF Winning
    <2>2. CASE h # "lane"
        BY <1>1, <1>3, <2>2 DEF Winning, Rounds
    <2> QED
        BY <2>1, <2>2
<1>9. Claims'
    <2>1. lane.accepted \in SUBSET Ids /\ lane.pc \notin {"sandbox", "review"}
        BY <1>1 DEF NightInv, Types, LaneRecord, Hands
    <2>2. RoundKeepsItsOwn'
        BY <1>1, <1>3, <2>1 DEF NightInv, Claims, RoundKeepsItsOwn, Fades
    <2> QED
        BY <1>1, <1>3, <2>1, <2>2 DEF NightInv, Claims, Fades
<1>10. Queued'
    <2>1. /\ PendingCount(prop') \in Nat /\ PendingCount(prop) \in Nat
          /\ PendingCount(prop') <= PendingCount(prop)
        BY <1>1, FadesKeepQueue DEF Scope
    <2>2. /\ Cardinality(lane.specs) \in Nat /\ MaxPending \in Nat /\ MaxPerRound \in Nat
        BY SpecsAreFinite, FS_CardinalityType DEF NightInv, Types, LaneRecord, Scope, LaneBounds
    <2> QED
        BY <1>3, <2>1, <2>2 DEF NightInv, Queued
<1>11. Books'
    <2>1. lane'.pc = "done" => lane' = lane
        BY <1>1, <1>3
    <2> QED
        BY <1>3, <1>4, <2>1, BooksStay DEF Green
<1> QED
    BY <1>4, <1>5, <1>6, <1>7, <1>8, <1>9, <1>10, <1>11 DEF NightInv

(* ------------------------- the script and the world ---------------------- *)
(* The script applies a pending proposal, with no night on.                  *)
LEMMA HumanApplying ==
    ASSUME Scope, NightInv, NEW i \in Ids, HumanApplies(i)
    PROVE  NightInv'
<1>1. lane.pc \in {"off", "done"} /\ job["human"].at = "none" /\ prop[i].status = "pending"
    BY DEF HumanApplies, ScriptMayAct, Scope
<1>2. /\ job' \in [Hands -> JobRecord]
      /\ job'["human"].at = "write" /\ job'["human"].rec = i
      /\ job'["human"].todo = prop[i].files /\ DOMAIN job'["human"].was = {}
      /\ \A g \in Hands \ {"human"} : job'[g] = job[g]
    BY <1>1, BeginsApply DEF HumanApplies, Hands
<1>3. Types'
    BY <1>2 DEF HumanApplies, NightInv, Types
<1>4. Applying("human")'
    BY <1>1, <1>2 DEF HumanApplies, Applying
<1>5. Applying("lane")'
    <2>1. job["lane"].at = "none" /\ DOMAIN job["lane"].was = {}
        BY <1>1 DEF NightInv, Applying, Hands
    <2> QED
        BY <1>2, <2>1 DEF Applying, Hands
<1>6. NumberedIds' /\ Open' /\ Winning' /\ Claims' /\ Queued' /\ Books'
    BY Elsewhere DEF HumanApplies
<1> QED
    BY <1>3, <1>4, <1>5, <1>6 DEF NightInv, Hands

(* The script rejects a pending proposal, with no night on.                  *)
LEMMA HumanRejecting ==
    ASSUME Scope, NightInv, NEW i \in Ids, HumanRejects(i)
    PROVE  NightInv' /\ Fades /\ \A j \in Ids : prop'[j].status = "applied" <=> prop[j].status = "applied"
<1>1. lane.pc \in {"off", "done"} /\ job["human"].at = "none"
    BY DEF HumanRejects, ScriptMayAct, Scope
<1>2. Fades /\ \A j \in Ids : prop'[j].status = "applied" <=> prop[j].status = "applied"
    BY RejectionFades DEF HumanRejects, NightInv
<1>3. Types'
    BY <1>2 DEF HumanRejects, NightInv, Types, Fades
<1>4. \A h \in Hands : job'[h].at = "none" /\ DOMAIN job'[h].was = {}
    BY <1>1 DEF HumanRejects, NightInv, Applying, Hands
<1>5. NumberedIds' /\ (\A h \in Hands : Applying(h)') /\ Winning' /\ Claims' /\ Queued'
    BY <1>1, <1>2, <1>3, <1>4, Calm DEF HumanRejects, Rounds
<1>6. Open'
    BY <1>1 DEF HumanRejects, Open, Holds
<1>7. Books'
    BY <1>1, <1>3, BooksStay DEF HumanRejects
<1> QED
    BY <1>2, <1>3, <1>5, <1>6, <1>7 DEF NightInv

(* The night dies, but not in an apply.                                      *)
LEMMA Dying ==
    ASSUME Scope, NightInv, Killed
    PROVE  NightInv'
<1>1. lane.pc \notin {"off", "done"} /\ job["lane"].at = "none"
    BY DEF Killed, Scope
<1>2. job["human"].at = "none"
    BY <1>1 DEF NightInv, Applying, Hands
<1>3. /\ Off \in LaneRecord /\ Off.pc = "off" /\ Off.specs = {} /\ Off.accepted = {}
      /\ Off.barren = 0
    BY EmptyRecords DEF Off
<1>4. /\ lane' \in LaneRecord /\ lane'.pc = "off" /\ lane'.specs = {} /\ lane'.accepted = {}
      /\ lane'.barren = 0
    BY <1>3 DEF Killed
<1>5. /\ job' \in [Hands -> JobRecord]
      /\ \A g \in Hands : job'[g].at = "none" /\ DOMAIN job'[g].was = {}
    <2>1. Idle \in JobRecord /\ Idle.at = "none" /\ DOMAIN Idle.was = {}
        BY EmptyRecords, NoBackup DEF Idle
    <2> QED
        BY <1>2, <2>1 DEF Killed, NightInv, Types, Applying, Hands
<1>6. Fades
    BY NothingFades DEF Killed, NightInv
<1>7. Types'
    BY <1>4, <1>5 DEF Killed, NightInv, Types
<1>8. NumberedIds' /\ (\A h \in Hands : Applying(h)') /\ Winning' /\ Claims' /\ Queued'
    BY <1>4, <1>5, <1>6, <1>7, Calm DEF Rounds
<1>9. Open'
    BY <1>4 DEF Open, Holds
<1>10. Books'
    BY <1>4, <1>7, BooksStay DEF Killed
<1> QED
    BY <1>7, <1>8, <1>9, <1>10 DEF NightInv

(* A day passes: the open records age.                                       *)
LEMMA DayFades ==
    ASSUME Scope, NightInv, NewDay
    PROVE  Fades /\ \A i \in Ids : prop'[i].status = prop[i].status
<1>1. ASSUME NEW i \in Ids
      PROVE  /\ prop'[i] \in Record /\ prop'[i].files = prop[i].files
             /\ prop'[i].status = prop[i].status
             /\ Actionable(prop'[i]) => Actionable(prop[i])
    <2> DEFINE older == prop[i].age + 1
               r == [prop[i] EXCEPT !.age = older]
    <2>1. prop[i] \in Record /\ DeadAfter \in Nat /\ prop[i].age \in Nat
        BY DEF NightInv, Types, Record, Scope, LaneBounds
    <2>2. prop'[i] = IF prop[i].status = "pending" /\ prop[i].age <= DeadAfter THEN r ELSE prop[i]
        BY DEF NewDay
    <2>3. prop[i].age <= DeadAfter => older \in 0..(DeadAfter + 1)
        BY <2>1
    <2>4. older <= DeadAfter => prop[i].age <= DeadAfter
        BY <2>1
    <2> HIDE DEF older
    <2>5. prop[i].age <= DeadAfter =>
            /\ r \in Record /\ r.files = prop[i].files /\ r.status = prop[i].status
            /\ r.box = prop[i].box /\ r.age = older
        BY <2>1, <2>3 DEF Record
    <2> HIDE DEF r
    <2> QED
        BY <2>1, <2>2, <2>4, <2>5 DEF Actionable
<1>2. prop' = [i \in Ids |-> prop'[i]]
    BY DEF NewDay
<1> QED
    BY <1>1, <1>2 DEF Fades

(* The new day keeps the night's invariant.                                  *)
LEMMA Dawning ==
    ASSUME Scope, NightInv, NewDay
    PROVE  NightInv'
<1>1. Fades /\ \A i \in Ids : prop'[i].status = prop[i].status
    BY DayFades
<1>2. \A h \in Hands : job'[h].at = "none" /\ DOMAIN job'[h].was = {}
    BY DEF NewDay, Apart, Scope, NightInv, Applying, Hands
<1>3. /\ Off \in LaneRecord /\ Off.pc = "off" /\ Off.specs = {} /\ Off.accepted = {}
      /\ Off.barren = 0
    BY EmptyRecords DEF Off
<1>4. /\ lane' \in LaneRecord /\ lane'.pc = "off" /\ lane'.specs = {} /\ lane'.accepted = {}
      /\ lane'.barren = 0
    BY <1>3 DEF NewDay
<1>5. seen' \in [calls : Nat, fruitless : Nat] /\ seen'.calls = 0 /\ seen'.fruitless \in Nat
    BY DEF NewDay, NightInv, Types
<1>6. Types'
    BY <1>1, <1>4, <1>5 DEF NewDay, NightInv, Types, Fades
<1>7. NumberedIds' /\ (\A h \in Hands : Applying(h)') /\ Winning' /\ Claims' /\ Queued'
    BY <1>1, <1>2, <1>4, <1>6, Calm DEF Rounds
<1>8. Open'
    BY <1>4 DEF Open, Holds
<1>9. Books'
    BY <1>4, <1>5 DEF NewDay, Books, StopIsTruthful, Scope, LaneBounds
<1> QED
    BY <1>6, <1>7, <1>8, <1>9 DEF NightInv

(* ----------------------------- the invariant ----------------------------- *)
(* Every step does.                                                          *)
LEMMA NightStep ==
    ASSUME Scope, NightInv, [LaneNext]_laneVars
    PROVE  NightInv'
<1>1. CASE LaneNight
    BY <1>1, Starting, Baselines, Gates, PlanFailing, Planning, SpecFailing, Writing, Sandboxing,
       Reviewing, Discarding, RoundEnding, LaneApplying, AutoApplying DEF LaneNight
<1>2. CASE Killed
    BY <1>2, Dying
<1>3. CASE NewDay
    BY <1>3, Dawning
<1>4. CASE \E h \in Hands : ApplySteps(h)
    BY <1>4, WritingFile, Greening, RollingBack, Undoing DEF ApplySteps
<1>5. CASE \E i \in Ids : HumanApplies(i) \/ HumanRejects(i)
    BY <1>5, HumanApplying, HumanRejecting
<1>6. CASE UNCHANGED laneVars
    <2>1. Types' /\ \A h \in Hands : Applying(h)'
        BY <1>6 DEF laneVars, NightInv, Types, Applying
    <2>2. NumberedIds' /\ Open' /\ Winning' /\ Claims' /\ Queued' /\ Books'
        BY <1>6, Elsewhere DEF laneVars
    <2> QED
        BY <2>1, <2>2 DEF NightInv
<1> QED
    BY <1>1, <1>2, <1>3, <1>4, <1>5, <1>6 DEF LaneNext

(* What a step makes of the records: a new one, a win, or only less.         *)
LEMMA StepFades ==
    ASSUME Scope, NightInv, [LaneNext]_laneVars
    PROVE  \/ WriteProposal
           \/ \E h \in Hands : Green(h)
           \/ Fades /\ \A i \in Ids : prop'[i].status = "applied" <=> prop[i].status = "applied"
<1>1. CASE UNCHANGED prop
    BY <1>1, NothingFades DEF NightInv
<1>2. CASE LaneNight /\ ~WriteProposal
    <2>1. CASE Gate
        BY <2>1, RetirementFades DEF Gate, NightInv
    <2>2. CASE Sandbox
        BY <2>2, Sandboxing
    <2>3. CASE Review
        BY <2>3, Reviewing
    <2>4. CASE Discard
        <3>1. lane.cur \in Ids
            BY <2>4 DEF Discard, NightInv, Open, Holds
        <3> QED
            BY <2>4, <3>1, RejectionFades DEF Discard, NightInv
    <2>5. CASE AutoApplied
        BY <1>1, <2>5, AutoApplying
    <2>6. CASE Start \/ Baseline \/ PlanFails \/ Plan \/ SpecFails \/ RoundEnds \/ LaneApplies
        BY <1>1, <2>6 DEF Start, Baseline, PlanFails, Plan, SpecFails, RoundEnds, LaneApplies
    <2> QED
        BY <1>2, <2>1, <2>2, <2>3, <2>4, <2>5, <2>6 DEF LaneNight
<1>3. CASE Killed
    BY <1>1, <1>3 DEF Killed
<1>4. CASE NewDay
    BY <1>4, DayFades
<1>5. ASSUME NEW h \in Hands, ApplySteps(h), ~Green(h)
      PROVE  UNCHANGED prop
    BY <1>5, Undoing DEF ApplySteps, WriteFile, RollsBack
<1>6. ASSUME NEW i \in Ids, HumanApplies(i) \/ HumanRejects(i)
      PROVE  Fades /\ \A j \in Ids : prop'[j].status = "applied" <=> prop[j].status = "applied"
    <2>1. CASE HumanApplies(i)
        BY <2>1, NothingFades DEF HumanApplies, NightInv
    <2>2. CASE HumanRejects(i)
        BY <2>2, HumanRejecting
    <2> QED
        BY <1>6, <2>1, <2>2
<1>7. CASE UNCHANGED laneVars
    BY <1>1, <1>7 DEF laneVars
<1> QED
    BY <1>1, <1>2, <1>3, <1>4, <1>5, <1>6, <1>7 DEF LaneNext

(* A closed proposal is never opened or closed otherwise.                    *)
LEMMA ClosedStep ==
    ASSUME Scope, NightInv, [LaneNext]_laneVars
    PROVE  \A i \in Ids : prop[i].status \in {"applied", "rejected", "retired"}
                            => prop'[i].status = prop[i].status
<1>1. CASE WriteProposal
    <2>1. PICK s \in lane.specs : \E fs \in (SUBSET s) \ {{}} :
             prop' = [prop EXCEPT ![NextProposal] = [Absent EXCEPT !.status = "pending", !.files = fs]]
        BY <1>1 DEF WriteProposal
    <2>2. PICK n \in 0..MaxProps : NextProposal = n + 1 /\ \A i \in Ids : prop[i].status # "none" <=> i <= n
        BY NextIsFree DEF Scope, NightInv
    <2>3. \A i \in Ids : prop[i].status # "none" => i # NextProposal
        BY <2>2 DEF Ids
    <2> QED
        BY <2>1, <2>3 DEF NightInv, Types
<1>2. CASE \E h \in Hands : Green(h)
    BY <1>2, GreenFades DEF Fades, Closings
<1>3. CASE Fades
    BY <1>3 DEF Fades, Closings
<1> QED
    BY <1>1, <1>2, <1>3, StepFades

(* ------------------------- the working tree ------------------------------ *)
(* What the tree was before an apply: with one hand at it, its backups; with *)
(* none, the tree.                                                           *)
LEMMA Chosen == ASSUME NEW x, NEW S, S = {x} PROVE (CHOOSE y \in S : TRUE) = x
OBVIOUS

LEMMA BeforeApply ==
    ASSUME NEW h \in Hands, \A g \in Hands \ {h} : DOMAIN job[g].was = {}, NEW f
    PROVE  Before(f) = IF f \in DOMAIN job[h].was THEN job[h].was[f] ELSE tree[f]
<1> DEFINE under == {g \in Hands : f \in DOMAIN job[g].was}
<1>1. under = IF f \in DOMAIN job[h].was THEN {h} ELSE {}
    OBVIOUS
<1>2. Before(f) = IF under = {} THEN tree[f] ELSE job[CHOOSE g \in under : TRUE].was[f]
    BY DEF Before
<1> HIDE DEF under
<1> QED
    BY <1>1, <1>2, Chosen

(* The same of the next state.                                               *)
LEMMA BeforeApplyNext ==
    ASSUME NEW h \in Hands, \A g \in Hands \ {h} : DOMAIN job'[g].was = {}, NEW f
    PROVE  Before(f)' = IF f \in DOMAIN job'[h].was THEN job'[h].was[f] ELSE tree'[f]
<1> DEFINE under == {g \in Hands : f \in DOMAIN job'[g].was}
<1>1. under = IF f \in DOMAIN job'[h].was THEN {h} ELSE {}
    OBVIOUS
<1>2. Before(f)' = IF under = {} THEN tree'[f] ELSE job'[CHOOSE g \in under : TRUE].was[f]
    BY DEF Before
<1> HIDE DEF under
<1> QED
    BY <1>1, <1>2, Chosen

(* A step outside the applies does not touch the tree.                       *)
LEMMA TreeRests ==
    ASSUME UNCHANGED tree, \A h \in Hands : DOMAIN job[h].was = {} /\ DOMAIN job'[h].was = {}
    PROVE  \A f \in Files : Before(f)' = Before(f)
<1>1. "lane" \in Hands
    BY DEF Hands
<1> QED
    BY <1>1, BeforeApply, BeforeApplyNext

(* Nor does one within an apply, seen as the tree was before it.             *)
LEMMA TreeUndisturbed ==
    ASSUME Scope, NightInv, NEW h \in Hands, WriteFile(h) \/ RollsBack(h) \/ Undo(h)
    PROVE  \A f \in Files : Before(f)' = Before(f)
<1>1. /\ job[h].at # "none" /\ job \in [Hands -> JobRecord] /\ job[h] \in JobRecord
      /\ job[h].was \in Backups /\ Applying(h) /\ tree \in [Files -> 0..MaxProps]
    BY DEF WriteFile, RollsBack, Undo, NightInv, Types, JobRecord
<1>2. \A g \in Hands \ {h} : DOMAIN job[g].was = {} /\ job'[g] = job[g]
    BY <1>1, OneHand DEF NightInv, Applying, WriteFile, RollsBack, Undo
<1>3. CASE WriteFile(h)
    <2>1. PICK f \in job[h].todo :
             /\ job' = [job EXCEPT ![h].todo = @ \ {f}, ![h].was = BackedUp(@, f)]
             /\ tree' = [tree EXCEPT ![f] = job[h].rec]
        BY <1>3 DEF WriteFile
    <2>2. f \in Files /\ f \notin DOMAIN job[h].was
        BY <1>1, <1>3 DEF WriteFile, Applying, JobRecord
    <2>3. job'[h].was = BackedUp(job[h].was, f)
        BY <1>1, <2>1 DEF JobRecord
    <2>4. /\ DOMAIN job'[h].was = DOMAIN job[h].was \cup {f} /\ job'[h].was[f] = tree[f]
          /\ \A g \in DOMAIN job[h].was \ {f} : job'[h].was[g] = job[h].was[g]
        <3> DEFINE w == BackedUp(job[h].was, f)
        <3>1. /\ DOMAIN w = DOMAIN job[h].was \cup {f} /\ w[f] = tree[f]
              /\ \A g \in DOMAIN job[h].was \ {f} : w[g] = job[h].was[g]
            BY <1>1, <2>2, OneMoreBackup DEF NightInv
        <3> HIDE DEF w
        <3> QED
            BY <2>3, <3>1 DEF w
    <2>5. \A g \in Files \ {f} : tree'[g] = tree[g]
        BY <1>1, <2>1
    <2> QED
        BY <1>2, <2>2, <2>4, <2>5, BeforeApply, BeforeApplyNext
<1>4. CASE RollsBack(h)
    <2>1. job'[h].was = job[h].was /\ tree' = tree
        BY <1>1, <1>4 DEF RollsBack, JobRecord
    <2> QED
        BY <1>2, <2>1, BeforeApply, BeforeApplyNext
<1>5. CASE Undo(h)
    <2>1. CASE job[h].todo = {} /\ job' = [job EXCEPT ![h] = Idle] /\ UNCHANGED tree
        <3>1. DOMAIN job'[h].was = {}
            BY <1>1, <2>1, NoBackup DEF Idle
        <3>2. \A f \in DOMAIN job[h].was : tree[f] = job[h].was[f]
            BY <1>1, <1>5, <2>1 DEF Applying, Undo
        <3> QED
            BY <1>2, <2>1, <3>1, <3>2, BeforeApply, BeforeApplyNext
    <2>2. CASE \E f \in job[h].todo : /\ tree' = [tree EXCEPT ![f] = job[h].was[f]]
                                      /\ job' = [job EXCEPT ![h].todo = @ \ {f}]
        <3>1. PICK f \in job[h].todo : /\ tree' = [tree EXCEPT ![f] = job[h].was[f]]
                                       /\ job' = [job EXCEPT ![h].todo = @ \ {f}]
            BY <2>2
        <3>2. f \in DOMAIN job[h].was
            BY <1>1, <1>5 DEF Applying, Undo
        <3>3. job'[h].was = job[h].was /\ \A g \in Files \ {f} : tree'[g] = tree[g]
            BY <1>1, <3>1 DEF JobRecord
        <3> QED
            BY <1>2, <3>2, <3>3, BeforeApply, BeforeApplyNext
    <2> QED
        BY <1>5, <2>1, <2>2 DEF Undo
<1> QED
    BY <1>3, <1>4, <1>5

(* The tree, the files and the landings as AtomicTree sees them.             *)
SeenTree == [f \in Files |-> Before(f)]
SeenWrote == [i \in Ids |-> prop[i].files]
SeenLanded == {i \in Ids : prop[i].status = "applied"}

(* Nothing is seen of a step that fades records and rests the tree.          *)
LEMMA Unseen ==
    ASSUME \A i \in Ids : /\ prop'[i].files = prop[i].files
                          /\ prop'[i].status = "applied" <=> prop[i].status = "applied",
           \A f \in Files : Before(f)' = Before(f)
    PROVE  SeenTree' = SeenTree /\ SeenWrote' = SeenWrote /\ SeenLanded' = SeenLanded
<1>1. SeenTree' = SeenTree
    BY DEF SeenTree
<1>2. SeenWrote' = SeenWrote
    BY DEF SeenWrote
<1>3. SeenLanded' = SeenLanded
    BY DEF SeenLanded
<1> QED
    BY <1>1, <1>2, <1>3

(* A proposal written is a proposal made.                                    *)
LEMMA SeenProposed ==
    ASSUME Scope, NightInv, WriteProposal
    PROVE  Tree!Next
<1>1. PICK s \in lane.specs : \E fs \in (SUBSET s) \ {{}} :
         prop' = [prop EXCEPT ![NextProposal] = [Absent EXCEPT !.status = "pending", !.files = fs]]
    BY DEF WriteProposal
<1>2. PICK fs \in (SUBSET s) \ {{}} :
         prop' = [prop EXCEPT ![NextProposal] = [Absent EXCEPT !.status = "pending", !.files = fs]]
    BY <1>1
<1> DEFINE rec == [Absent EXCEPT !.status = "pending", !.files = fs]
<1>3. fs \in SUBSET Files /\ fs # {}
    BY DEF NightInv, Types, LaneRecord
<1>4. rec \in Record /\ rec.status = "pending" /\ rec.files = fs
    BY <1>3, EmptyRecords DEF Record, Absent
<1>5. prop' = [prop EXCEPT ![NextProposal] = rec]
    BY <1>2
<1> HIDE DEF rec
<1>6. /\ NextProposal \in Ids /\ prop[NextProposal].status = "none" /\ prop[NextProposal].files = {}
      /\ prop'[NextProposal] = rec
      /\ \A i \in Ids \ {NextProposal} : prop'[i] = prop[i]
    BY <1>3, <1>4, <1>5, MakesRecord DEF WriteProposal
<1>7. \A f \in Files : Before(f)' = Before(f)
    <2>1. \A h \in Hands : DOMAIN job[h].was = {} /\ DOMAIN job'[h].was = {}
        BY NightIsQuiet, StaysQuiet DEF LaneNight, WriteProposal, NightInv, Applying
    <2> QED
        BY <2>1, TreeRests DEF WriteProposal
<1>8. SeenTree' = SeenTree
    BY <1>7 DEF SeenTree
<1>9. SeenWrote' = [SeenWrote EXCEPT ![NextProposal] = fs] /\ SeenWrote[NextProposal] = {}
    BY <1>4, <1>6 DEF SeenWrote
<1>10. SeenLanded' = SeenLanded
    BY <1>4, <1>6 DEF SeenLanded
<1>11. Tree!Propose(NextProposal)
    BY <1>3, <1>8, <1>9, <1>10 DEF Tree!Propose, SeenTree, SeenWrote, SeenLanded
<1> QED
    BY <1>6, <1>11 DEF Tree!Next, Tree!Propose

(* Green tests land the proposal, whole and for the first time.              *)
LEMMA SeenLands ==
    ASSUME Scope, NightInv, NEW h \in Hands, Green(h)
    PROVE  Tree!Next
<1> DEFINE i == job[h].rec
<1>1. /\ Fades /\ i \in Ids /\ prop[i].status = "pending" /\ prop'[i].status = "applied"
      /\ \A j \in Ids \ {i} : prop'[j] = prop[j]
    BY GreenFades
<1>2. /\ \A g \in Hands : DOMAIN job'[g].was = {}
      /\ \A g \in Hands \ {h} : DOMAIN job[g].was = {}
    BY OneHand, EndsApply DEF Green, NightInv, Applying
<1>3. /\ DOMAIN job[h].was = prop[i].files /\ prop[i].files # {}
      /\ \A f \in prop[i].files : tree[f] = i
    BY ZenonT(60), <1>1 DEF Green, NightInv, Applying, NumberedIds
<1> HIDE DEF i
<1>4. \A f \in Files : Before(f)' = IF f \in prop[i].files THEN i ELSE Before(f)
    <2>1. \A f \in Files : Before(f)' = tree'[f] /\ tree'[f] = tree[f]
        BY <1>2, BeforeApplyNext DEF Green
    <2>2. \A f \in Files : f \notin prop[i].files => Before(f) = tree[f]
        BY <1>2, <1>3, BeforeApply
    <2> QED
        BY <1>3, <2>1, <2>2
<1>5. SeenTree' = [f \in Files |-> IF f \in SeenWrote[i] THEN i ELSE SeenTree[f]]
    BY <1>1, <1>4 DEF SeenTree, SeenWrote
<1>6. SeenWrote' = SeenWrote /\ SeenWrote[i] # {}
    BY <1>1, <1>3 DEF SeenWrote, Fades
<1>7. SeenLanded' = SeenLanded \cup {i} /\ i \notin SeenLanded
    BY <1>1 DEF SeenLanded
<1>8. Tree!Land(i)
    BY <1>5, <1>6, <1>7 DEF Tree!Land, SeenTree, SeenWrote, SeenLanded
<1> QED
    BY <1>1, <1>8 DEF Tree!Next, Tree!Land

(* Every step lands a proposal whole, makes one, or is not seen.             *)
LEMMA TreeStep ==
    ASSUME Scope, NightInv, [LaneNext]_laneVars
    PROVE  [Tree!Next]_(Tree!vars)
<1>1. ASSUME \A f \in Files : Before(f)' = Before(f),
             ~WriteProposal, \A h \in Hands : ~Green(h)
      PROVE  UNCHANGED (Tree!vars)
    <2>1. Fades /\ \A i \in Ids : prop'[i].status = "applied" <=> prop[i].status = "applied"
        BY <1>1, StepFades
    <2>2. SeenTree' = SeenTree /\ SeenWrote' = SeenWrote /\ SeenLanded' = SeenLanded
        BY <1>1, <2>1, Unseen DEF Fades
    <2> QED
        BY <2>2 DEF Tree!vars, SeenTree, SeenWrote, SeenLanded
<1>2. CASE WriteProposal
    BY <1>2, SeenProposed
<1>3. CASE \E h \in Hands : Green(h)
    BY <1>3, SeenLands
<1>4. CASE ~WriteProposal /\ \A h \in Hands : ~Green(h)
    <2>1. ASSUME UNCHANGED <<tree, job>>
          PROVE  \A f \in Files : Before(f)' = Before(f)
        BY <2>1 DEF Before
    <2>2. CASE LaneNight /\ ~LaneApplies
        <3>1. UNCHANGED <<tree, job>>
            BY <2>2 DEF LaneNight, Start, Baseline, Gate, PlanFails, Plan, SpecFails, WriteProposal,
                        Sandbox, Review, Discard, RoundEnds, AutoApplied
        <3> QED
            BY <1>1, <1>4, <2>1, <3>1
    <2>3. ASSUME NEW h \in Hands, NEW i \in Ids, job[h].at = "none", prop[i].status = "pending",
                 Apply(h, i), UNCHANGED tree, \A g \in Hands : DOMAIN job[g].was = {}
          PROVE  \A f \in Files : Before(f)' = Before(f)
        <3>1. \A g \in Hands : DOMAIN job'[g].was = {}
            BY <2>3, BeginsApply
        <3> QED
            BY <2>3, <3>1, TreeRests
    <2>4. CASE LaneApplies
        <3>1. /\ lane.cur \in Ids /\ prop[lane.cur].status = "pending"
              /\ \A g \in Hands : job[g].at = "none" /\ DOMAIN job[g].was = {}
            BY <2>4, NightIsQuiet DEF LaneNight, LaneApplies, NightInv, Open, Holds, Applying
        <3>2. \A f \in Files : Before(f)' = Before(f)
            BY <2>3, <2>4, <3>1 DEF LaneApplies, Hands
        <3> QED
            BY <1>1, <1>4, <3>2
    <2>5. CASE Killed
        <3>1. \A g \in Hands : DOMAIN job[g].was = {} /\ DOMAIN job'[g].was = {}
            <4>1. job["lane"].at = "none" /\ job["human"].at = "none"
                BY <2>5 DEF Killed, Scope, NightInv, Applying, Hands
            <4> QED
                BY <2>5, <4>1, NoBackup DEF Killed, Idle, NightInv, Types, Applying, Hands
        <3>2. \A f \in Files : Before(f)' = Before(f)
            BY <2>5, <3>1, TreeRests DEF Killed
        <3> QED
            BY <1>1, <1>4, <3>2
    <2>6. CASE NewDay
        BY <1>1, <1>4, <2>1, <2>6 DEF NewDay
    <2>7. CASE \E h \in Hands : ApplySteps(h)
        <3>1. PICK h \in Hands : WriteFile(h) \/ RollsBack(h) \/ Undo(h)
            BY <1>4, <2>7 DEF ApplySteps
        <3> QED
            BY <1>1, <1>4, <3>1, TreeUndisturbed
    <2>8. CASE \E i \in Ids : HumanApplies(i)
        <3>1. PICK i \in Ids : HumanApplies(i)
            BY <2>8
        <3>2. \A g \in Hands : job[g].at = "none" /\ DOMAIN job[g].was = {}
            BY <3>1 DEF HumanApplies, ScriptMayAct, Scope, NightInv, Applying, Hands
        <3>3. \A f \in Files : Before(f)' = Before(f)
            BY <2>3, <3>1, <3>2 DEF HumanApplies, Hands
        <3> QED
            BY <1>1, <1>4, <3>3
    <2>9. CASE \E i \in Ids : HumanRejects(i)
        <3>1. UNCHANGED <<tree, job>>
            BY <2>9 DEF HumanRejects
        <3> QED
            BY <1>1, <1>4, <2>1, <3>1
    <2>10. CASE UNCHANGED laneVars
        BY <1>1, <1>4, <2>1, <2>10 DEF laneVars
    <2> QED
        BY <2>2, <2>4, <2>5, <2>6, <2>7, <2>8, <2>9, <2>10 DEF LaneNext
<1> QED
    BY <1>2, <1>3, <1>4

(* In the first state nothing is written and nothing has landed.             *)
LEMMA TreeInit ==
    ASSUME LaneInit
    PROVE  Tree!Init
<1>1. \A h \in Hands : DOMAIN job[h].was = {}
    BY NoBackup DEF LaneInit, Idle
<1>2. \A f \in Files : Before(f) = 0
    BY <1>1, BeforeApply DEF LaneInit, Hands
<1>3. \A i \in Ids : prop[i].files = {} /\ prop[i].status # "applied"
    BY DEF LaneInit, Absent
<1> QED
    BY <1>2, <1>3 DEF Tree!Init

(* ------------------------------- theorems -------------------------------- *)
(* The night's types and bounds (LaneTypeOK).                                *)
THEOREM LaneTypeCorrect == ASSUME Scope PROVE LaneSpec => []LaneTypeOK
<1>1. ASSUME NightInv PROVE LaneTypeOK
    <2>1. /\ tree \in [Files -> 0..MaxProps] /\ prop \in [Ids -> Record]
          /\ \A h \in Hands : job[h] \in JobRecord
          /\ lane \in LaneRecord /\ charged \in Nat /\ charged <= Sessions
          /\ lane.barren <= BarrenCap /\ Sessions \in Nat /\ BarrenCap \in Nat
        BY <1>1 DEF NightInv, Types, Books, Scope, LaneBounds
    <2>2. charged \in 0..Sessions /\ lane.barren \in 0..BarrenCap /\ lane.cur \in 0..MaxProps
        BY <2>1 DEF LaneRecord
    <2>3. \A h \in Hands : /\ job[h].at \in {"none", "write", "undo"} /\ job[h].rec \in 0..MaxProps
                           /\ job[h].todo \subseteq Files /\ DOMAIN job[h].was \subseteq Files
        BY <2>1 DEF JobRecord, Backups
    <2> QED
        BY <2>1, <2>2, <2>3 DEF LaneTypeOK
<1> QED
    BY <1>1, NightInit, NightStep, PTL DEF LaneSpec

(* The night's books (NightIsAccounted): the planner is paid within the      *)
(* day's budget, a night stops for the reason it gives, what could still     *)
(* land stays below the cap plus one plan, and the proposals of one plan     *)
(* never replace each other's file -- over failed rounds, deaths outside an  *)
(* apply, and nights started again.                                          *)
THEOREM NightIsAccountedHolds == ASSUME Scope PROVE LaneSpec => []NightIsAccounted
<1>1. ASSUME NightInv PROVE NightIsAccounted
    <2>1. PaidWithinBudget /\ StopIsTruthful /\ RoundKeepsItsOwn
        BY <1>1 DEF NightInv, Books, Claims, PaidWithinBudget
    <2>2. QueueBounded
        BY <1>1 DEF NightInv, Queued, PendingCount, Actionable, QueueBounded
    <2> QED
        BY <2>1, <2>2 DEF NightIsAccounted
<1> QED
    BY <1>1, NightInit, NightStep, PTL DEF LaneSpec

(* Proposals land whole (ProposalsLandWhole): with one applier at a time     *)
(* that is not killed in its apply, the tree changes only by a whole         *)
(* proposal landing once -- EngineerLane implements AtomicTree -- and a      *)
(* proposal once closed is never opened or closed differently.               *)
THEOREM ProposalsLandWholeHolds == ASSUME Scope PROVE LaneSpec => ProposalsLandWhole
<1>1. LaneSpec => []NightInv
    BY NightInit, NightStep, PTL DEF LaneSpec
<1>2. LaneSpec => Tree!Spec
    BY <1>1, TreeInit, TreeStep, PTL DEF LaneSpec, Tree!Spec
<1>3. ASSUME NightInv, [LaneNext]_laneVars
      PROVE  [\A i \in Ids : prop[i].status \in {"applied", "rejected", "retired"}
                               => prop'[i].status = prop[i].status]_laneVars
    BY <1>3, ClosedStep
<1>4. LaneSpec => ClosedStaysClosed
    BY <1>1, <1>3, PTL DEF LaneSpec, ClosedStaysClosed
<1> QED
    BY <1>2, <1>4 DEF ProposalsLandWhole, LandsWhole
==============================================================================
