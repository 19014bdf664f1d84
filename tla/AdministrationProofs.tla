------------------------- MODULE AdministrationProofs -------------------------
(***************************************************************************)
(* What Reports and Bell promise, for any number of rows, templates,       *)
(* users, background tasks and threads.                                    *)
(***************************************************************************)
EXTENDS Reports, Bell, FiniteSetTheorems, SequenceTheorems, TLAPS

-----------------------------------------------------------------------------
(* Reports: the two queries.                                               *)

\* A join by primary key gives a row of the table exactly one partner, so
\* that a filter on the table's own columns selects as many rows with the
\* join as without.
LEMMA JoinKeepsCount ==
    ASSUME fact \in [RowIds -> {NoRow} \cup Row], NEW q \in Asks \cup {NoAsk}
    PROVE  CountQuery(q) = Cardinality(Selected(q))
<1> DEFINE Counted == {row \in From(CountJoins(q)) : Where(q, row)}
<1>1. CASE CountJoins(q) = SelectJoins(q)
  BY <1>1 DEF CountQuery, Selected
<1>2. CASE CountJoins(q) # SelectJoins(q)
  <2>1. q.filter = "none" /\ CountJoins(q) = {} /\ SelectJoins(q) = {"partner"}
    <3>1. \A f \in q.fields : FieldJoins(f) \in {{}, {"partner"}}
      BY DEF FieldJoins
    <3>2. SelectJoins(q) \subseteq {"partner"}
      BY <3>1 DEF SelectJoins, FilterJoins, FieldJoins
    <3>3. CountJoins(q) \subseteq SelectJoins(q)
      BY DEF CountJoins, SelectJoins
    <3>4. q.filter \notin {"eq", "is_null"}
      BY <1>2, <3>2, <3>3 DEF CountJoins, FilterJoins, FieldJoins
    <3> QED
      BY <1>2, <3>2, <3>3, <3>4 DEF Asks, NoAsk, CountJoins, FilterJoins
  <2> DEFINE Kept == {x \in Present : q.shop # Unset => fact[x].shop = q.shop}
             bare == [x \in Kept |-> <<x, Unset>>]
             joined == [x \in Kept |-> <<x, fact[x].partner>>]
  <2>2. IsFiniteSet(Kept)
    <3>1. Kept \subseteq RowIds
      BY DEF Present
    <3> QED
      BY <3>1, ReportsAssumption, FS_Subset
  <2>3. \A x \in Present : fact[x].partner \in Partners \cup {Unset}
    BY DEF Present, Row
  <2>4. Counted = {<<x, Unset>> : x \in Kept}
    BY <2>1 DEF From, Where
  <2>5. Selected(q) = {<<x, fact[x].partner>> : x \in Kept}
    BY <2>1, <2>3 DEF Selected, From, Where
  <2>6. bare \in Bijection(Kept, Counted)
    BY <2>4 DEF Bijection, Injection, Surjection, IsInjective
  <2>7. joined \in Bijection(Kept, Selected(q))
    BY <2>5 DEF Bijection, Injection, Surjection, IsInjective
  <2> HIDE DEF Kept, Counted, bare, joined
  <2>8. Cardinality(Counted) = Cardinality(Kept)
    BY <2>2, <2>6, FS_Bijection DEF ExistsBijection
  <2>9. Cardinality(Selected(q)) = Cardinality(Kept)
    BY <2>2, <2>7, FS_Bijection DEF ExistsBijection
  <2> QED
    BY <2>8, <2>9 DEF CountQuery, Counted
<1> QED
  BY <1>1, <1>2

LEMMA CountIsNat ==
    ASSUME NEW q
    PROVE  CountQuery(q) \in Nat
<1>1. IsFiniteSet(RowIds \X (Partners \cup {Unset}))
  BY ReportsAssumption, FS_AddElement, FS_Product
<1>2. {row \in From(CountJoins(q)) : Where(q, row)} \subseteq
          RowIds \X (Partners \cup {Unset})
  BY DEF From, Present
<1> QED
  BY <1>1, <1>2, FS_Subset, FS_CardinalityType DEF CountQuery

-----------------------------------------------------------------------------
(* Reports: templates and their schedules.                                 *)

\* A drafting thread works on a template that was there when it was opened.
DeskInv ==
    \A h \in Drafters :
        desk[h].op \in {"delete", "schedule"} => desk[h].template \in Templates

ReportsInv == ReportsTypeOK /\ DeskInv /\ SchedulesWhole

LEMMA InitReports == ReportsInit => ReportsInv
BY ReportsAssumption DEF ReportsInit, ReportsInv, ReportsTypeOK, DeskInv, SchedulesWhole,
       NoTask

\* A report reads, and another part of the program writes the table.
LEMMA QueryReports ==
    ASSUME ReportsInv, QueryNext
    PROVE  ReportsInv'
<1>1. /\ DeskInv' /\ SchedulesWhole'
      /\ UNCHANGED <<template, schedule, desk>>
  BY DEF ReportsInv, QueryNext, RunCount, RunRows, WriteFact, DeskInv, SchedulesWhole
<1>2. ASSUME NEW h \in Analysts, NEW q \in Asks, RunCount(h, q)
      PROVE  ReportsTypeOK'
  <2>1. [at |-> "counted", ask |-> q, total |-> CountQuery(q), rows |-> {}] \in
           [at : {"idle", "counted", "answered", "failed"},
            ask : {NoAsk} \cup Asks, total : Nat,
            rows : SUBSET (RowIds \X (Partners \cup {Unset}))]
    BY CountIsNat
  <2> QED
    BY <1>1, <1>2, <2>1 DEF RunCount, ReportsInv, ReportsTypeOK
<1>3. ASSUME NEW h \in Analysts, RunRows(h)
      PROVE  ReportsTypeOK'
  <2>1. \A q : Selected(q) \subseteq RowIds \X (Partners \cup {Unset})
    BY DEF Selected, From, Present
  <2>2. \A page \in Pages(report[h].ask) :
           page \in SUBSET (RowIds \X (Partners \cup {Unset}))
    BY <2>1 DEF Pages
  <2>3. UNCHANGED <<fact, writes>>
    BY <1>3 DEF RunRows
  <2>4. report' \in [Analysts -> [at : {"idle", "counted", "answered", "failed"},
                                  ask : {NoAsk} \cup Asks, total : Nat,
                                  rows : SUBSET (RowIds \X (Partners \cup {Unset}))]]
    <3>1. CASE SortIsJoined(report[h].ask)
      <4>1. PICK page \in Pages(report[h].ask) :
               report' = [report EXCEPT ![h].at = "answered", ![h].rows = page]
        BY <1>3, <3>1 DEF RunRows
      <4>2. PICK c : c = report[h]
        OBVIOUS
      <4>3. c \in [at : {"idle", "counted", "answered", "failed"},
                   ask : {NoAsk} \cup Asks, total : Nat,
                   rows : SUBSET (RowIds \X (Partners \cup {Unset}))]
        BY <4>2 DEF ReportsInv, ReportsTypeOK
      <4>4. [c EXCEPT !.at = "answered", !.rows = page] \in
               [at : {"idle", "counted", "answered", "failed"},
                ask : {NoAsk} \cup Asks, total : Nat,
                rows : SUBSET (RowIds \X (Partners \cup {Unset}))]
        BY <2>2, <4>3
      <4>5. report' = [report EXCEPT ![h] = [c EXCEPT !.at = "answered", !.rows = page]]
        BY <4>1, <4>2
      <4> QED
        BY <4>4, <4>5 DEF ReportsInv, ReportsTypeOK
    <3>2. CASE ~SortIsJoined(report[h].ask)
      <4>1. report' = [report EXCEPT ![h].at = "failed"]
        BY <1>3, <3>2 DEF RunRows
      <4> QED
        BY <4>1 DEF ReportsInv, ReportsTypeOK
    <3> QED
      BY <3>1, <3>2
  <2> QED
    BY <1>1, <2>3, <2>4 DEF ReportsInv, ReportsTypeOK
<1>4. ASSUME NEW x \in RowIds, NEW row \in {NoRow} \cup Row, WriteFact(x, row)
      PROVE  ReportsTypeOK'
  BY <1>1, <1>4, ReportsAssumption DEF WriteFact, ReportsInv, ReportsTypeOK
<1> QED
  BY <1>1, <1>2, <1>3, <1>4 DEF ReportsInv, QueryNext

LEMMA TemplateReports ==
    ASSUME ReportsInv, TemplateNext
    PROVE  ReportsInv'
<1> USE ReportsAssumption DEF ReportsInv
<1>1. ASSUME NEW t \in Templates, SaveTemplate(t)
      PROVE  ReportsInv'
  BY <1>1 DEF SaveTemplate, ReportsTypeOK, DeskInv, SchedulesWhole
<1>2. ASSUME NEW h \in Drafters, NEW drafting, desk' = [desk EXCEPT ![h] = drafting],
             UNCHANGED <<fact, report, template, schedule, writes>>,
             drafting \in [op : {"none", "delete", "schedule", "unschedule"},
                        template : Templates \cup {Unset},
                        schedule : Schedules \cup {Unset}],
             drafting.op \in {"delete", "schedule"} => drafting.template \in Templates
      PROVE  ReportsInv'
  <2>1. ReportsTypeOK'
    BY <1>2 DEF ReportsTypeOK
  <2>2. DeskInv'
    BY <1>2 DEF ReportsTypeOK, DeskInv
  <2>3. SchedulesWhole'
    BY <1>2 DEF SchedulesWhole
  <2> QED
    BY <2>1, <2>2, <2>3
<1>3. NoTask \in [op : {"none", "delete", "schedule", "unschedule"},
                  template : Templates \cup {Unset}, schedule : Schedules \cup {Unset}]
      /\ NoTask.op = "none"
  BY DEF NoTask
<1>4. ASSUME NEW h \in Drafters, NEW t \in Templates,
             NEW op \in {"delete", "schedule"}, OpenTemplate(h, t, op)
      PROVE  ReportsInv'
  <2> DEFINE opened == [NoTask EXCEPT !.op = op, !.template = t]
  <2>1. desk' = [desk EXCEPT ![h] = opened]
    BY <1>4 DEF OpenTemplate, ReportsTypeOK
  <2>2. /\ opened \in [op : {"none", "delete", "schedule", "unschedule"},
                       template : Templates \cup {Unset},
                       schedule : Schedules \cup {Unset}]
        /\ opened.template = t
    BY <1>3 DEF NoTask
  <2> HIDE DEF opened
  <2> QED
    BY <1>2, <1>4, <2>1, <2>2 DEF OpenTemplate
<1>5. ASSUME NEW h \in Drafters, NEW s \in Schedules, OpenSchedule(h, s)
      PROVE  ReportsInv'
  <2> DEFINE opened == [NoTask EXCEPT !.op = "unschedule", !.schedule = s]
  <2>1. desk' = [desk EXCEPT ![h] = opened]
    BY <1>5 DEF OpenSchedule, ReportsTypeOK
  <2>2. /\ opened \in [op : {"none", "delete", "schedule", "unschedule"},
                       template : Templates \cup {Unset},
                       schedule : Schedules \cup {Unset}]
        /\ opened.op = "unschedule"
    BY <1>3 DEF NoTask
  <2> HIDE DEF opened
  <2> QED
    BY <1>2, <1>5, <2>1, <2>2 DEF OpenSchedule
<1>6. ASSUME NEW h \in Drafters, CommitDelete(h)
      PROVE  ReportsInv'
  <2> DEFINE t == desk[h].template
  <2>1. /\ t \in Templates
        /\ template' = [template EXCEPT ![t] = "deleted"]
        /\ schedule' = [s \in Schedules |-> IF schedule[s] = t THEN Deleted
                                            ELSE schedule[s]]
        /\ desk' = [desk EXCEPT ![h] = NoTask]
        /\ UNCHANGED <<fact, report, writes>>
    BY <1>6 DEF CommitDelete, DeskInv, Leave
  <2>2. ReportsTypeOK'
    BY <1>3, <2>1 DEF ReportsTypeOK
  <2>3. DeskInv'
    BY <1>3, <2>1 DEF ReportsTypeOK, DeskInv
  <2>4. SchedulesWhole'
    BY <2>1 DEF ReportsTypeOK, SchedulesWhole
  <2> QED
    BY <2>2, <2>3, <2>4
<1>7. ASSUME NEW h \in Drafters, CommitSchedule(h)
      PROVE  ReportsInv'
  <2> DEFINE t == desk[h].template
  <2>1. /\ t \in Templates
        /\ desk' = [desk EXCEPT ![h] = NoTask]
        /\ UNCHANGED <<fact, report, template, writes>>
        /\ \/ schedule' = schedule
           \/ /\ template[t] = "saved"
              /\ \E s \in Schedules : schedule' = [schedule EXCEPT ![s] = t]
    BY <1>7 DEF CommitSchedule, DeskInv, Leave
  <2>2. ReportsTypeOK'
    BY <1>3, <2>1 DEF ReportsTypeOK
  <2>3. DeskInv'
    BY <1>3, <2>1 DEF ReportsTypeOK, DeskInv
  <2>4. SchedulesWhole'
    BY <2>1 DEF ReportsTypeOK, SchedulesWhole
  <2> QED
    BY <2>2, <2>3, <2>4
<1>8. ASSUME NEW h \in Drafters, CommitUnschedule(h)
      PROVE  ReportsInv'
  <2>1. /\ schedule' = [schedule EXCEPT ![desk[h].schedule] = Deleted]
        /\ desk' = [desk EXCEPT ![h] = NoTask]
        /\ UNCHANGED <<fact, report, template, writes>>
    BY <1>8 DEF CommitUnschedule, Leave
  <2>2. ReportsTypeOK'
    BY <1>3, <2>1 DEF ReportsTypeOK
  <2>3. DeskInv'
    BY <1>3, <2>1 DEF ReportsTypeOK, DeskInv
  <2>4. SchedulesWhole'
    BY <2>1 DEF ReportsTypeOK, SchedulesWhole
  <2> QED
    BY <2>2, <2>3, <2>4
<1> QED
  BY <1>1, <1>5, <1>6, <1>7, <1>8, <1>4 DEF TemplateNext

LEMMA ReportsInvariant == ReportsSpec => []ReportsInv
<1>1. ReportsInv /\ [ReportsNext]_reportVars => ReportsInv'
  <2>1. CASE UNCHANGED reportVars
    BY <2>1 DEF reportVars, ReportsInv, ReportsTypeOK, DeskInv, SchedulesWhole
  <2> QED
    BY <2>1, QueryReports, TemplateReports DEF ReportsNext
<1> QED
  BY <1>1, InitReports, PTL DEF ReportsSpec

(* The total of a report is the number of rows its query finds, on         *)
(* whatever tables the two are run: count_query leaves out the joins that  *)
(* only the selected fields need, and no row is dropped or doubled by      *)
(* them.                                                                   *)
THEOREM TotalsMatch == ReportsSpec => []CountMatchesRows
<1>1. ReportsInv => CountMatchesRows
  <2> SUFFICES ASSUME ReportsInv, NEW h \in Analysts, report[h].at # "idle"
               PROVE  CountQuery(report[h].ask) = Cardinality(Selected(report[h].ask))
    BY DEF CountMatchesRows
  <2>1. report[h].ask \in Asks \/ report[h].ask = NoAsk
    BY DEF ReportsInv, ReportsTypeOK
  <2> QED
    BY <2>1, JoinKeepsCount DEF ReportsInv, ReportsTypeOK
<1> QED
  BY <1>1, ReportsInvariant, PTL

(* No schedule outlives its template: the foreign key is looked at in the  *)
(* commit that creates a schedule, and the cascade runs in the commit that *)
(* deletes a template, so that no interleaving of the two leaves one.      *)
THEOREM SchedulesHaveTemplates == ReportsSpec => []SchedulesWhole
BY ReportsInvariant, PTL DEF ReportsInv

-----------------------------------------------------------------------------
(* Bell: a task and its queue.                                             *)

\* A task at work has somebody left to serve, and between the commit and the
\* push the first of its queue has a row, or is gone and its row with it.
QueueInv(n) ==
    /\ task[n].at \in {"save", "push"} => task[n].queue # <<>>
    /\ task[n].at = "push" /\ Head(task[n].queue) \in here
           => bell[n][Head(task[n].queue)] # "none"

BellInv == /\ BellTypeOK /\ PushedIsKept /\ LastIsServed
           /\ \A n \in Notices : QueueInv(n)

\* What LastIsServed asks of one task.
Served(n) ==
    task[n].at = "over" /\ task[n].usable /\ Last(task[n].queue) \in here
        => bell[n][Last(task[n].queue)] # "none"

LEMMA BellParts ==
    BellInv <=> /\ BellTypeOK /\ PushedIsKept
                /\ \A n \in Notices : QueueInv(n) /\ Served(n)
BY DEF BellInv, LastIsServed, Served

\* The members of a finite set, in some order.
LEMMA SetToSeqType ==
    ASSUME NEW S, IsFiniteSet(S)
    PROVE  SetToSeq(S) \in Seq(S)
<1>1. PICK f : f \in [1..Cardinality(S) -> S] /\ IsInjective(f)
  BY FS_CardinalityType DEF ExistsBijection, Bijection, Injection
<1>2. SetToSeq(S) \in [1..Cardinality(S) -> S]
  BY <1>1 DEF SetToSeq
<1>3. Cardinality(S) \in Nat
  BY FS_CardinalityType
<1> QED
  BY <1>2, <1>3, SeqDef

LEMMA InitBell == BellInit => BellInv
<1> SUFFICES ASSUME BellInit PROVE BellInv
  OBVIOUS
<1>1. NewTask \in Tasks /\ NewTask.at = "new"
  BY DEF NewTask, Tasks
<1>2. BellTypeOK
  BY <1>1, BellAssumption DEF BellInit, BellTypeOK
<1>3. PushedIsKept
  BY DEF BellInit, PushedIsKept
<1>4. \A n \in Notices : QueueInv(n) /\ Served(n)
  BY <1>1 DEF BellInit, QueueInv, Served
<1> QED
  BY <1>2, <1>3, <1>4, BellParts

\* A step of one task that leaves users and rows alone.
LEMMA OneTask ==
    ASSUME BellInv, NEW n \in Notices, NEW r \in Tasks, task' = [task EXCEPT ![n] = r],
           r.at \in {"save", "push"} => r.queue # <<>>,
           r.at = "push" /\ Head(r.queue) \in here => bell[n][Head(r.queue)] # "none",
           r.at = "over" /\ r.usable /\ Last(r.queue) \in here
               => bell[n][Last(r.queue)] # "none",
           UNCHANGED <<here, phones, bell, pushed>>, failures' \in 0..MaxFailures
    PROVE  BellInv'
<1>1. task'[n] = r /\ \A m \in Notices \ {n} : task'[m] = task[m]
  BY DEF BellInv, BellTypeOK
<1>2. BellTypeOK'
  BY DEF BellInv, BellTypeOK
<1>3. PushedIsKept'
  BY DEF BellInv, PushedIsKept
<1>4. ASSUME NEW m \in Notices
      PROVE  QueueInv(m)' /\ Served(m)'
  <2>1. QueueInv(m) /\ Served(m)
    BY BellParts
  <2> QED
    BY <1>1, <2>1 DEF QueueInv, Served
<1> QED
  BY <1>2, <1>3, <1>4, BellParts DEF BellInv, LastIsServed, Served

\* AfterError, with a session still usable only when the last of a queue of
\* one is gone.
LEMMA ErrorKeeps ==
    ASSUME BellInv, NEW n \in Notices, NEW usable \in BOOLEAN,
           task[n].at \in {"save", "push"}, AfterError(n, usable),
           usable /\ ~IsCopy(n) => Head(task[n].queue) \notin here,
           UNCHANGED <<here, phones, bell, pushed>>, failures' \in 0..MaxFailures
    PROVE  BellInv'
<1>1. task[n] \in Tasks /\ task[n].queue \in Seq(People) /\ task[n].queue # <<>>
  BY DEF BellInv, BellTypeOK, QueueInv, Tasks
<1>2. PICK r : r = [task[n] EXCEPT
                       !.usable = usable, !.served = TRUE,
                       !.at = IF IsCopy(n) THEN "save" ELSE "over",
                       !.queue = IF IsCopy(n) THEN <<Last(@)>> ELSE @]
  OBVIOUS
<1>3. Last(task[n].queue) \in People
  BY <1>1 DEF Last
<1>4. r \in Tasks
  <2>1. <<Last(task[n].queue)>> \in Seq(People)
    BY <1>3
  <2>2. PICK q : q = IF IsCopy(n) THEN <<Last(task[n].queue)>> ELSE task[n].queue
    OBVIOUS
  <2>3. q \in Seq(People)
    BY <1>1, <2>1, <2>2
  <2>4. PICK at : at = IF IsCopy(n) THEN "save" ELSE "over"
    OBVIOUS
  <2>5. r = [task[n] EXCEPT !.usable = usable, !.served = TRUE, !.at = at, !.queue = q]
    BY <1>2, <2>2, <2>4
  <2> QED
    BY <1>1, <2>3, <2>4, <2>5 DEF Tasks
<1>5. /\ r.usable = usable
      /\ r.at = IF IsCopy(n) THEN "save" ELSE "over"
      /\ r.queue = IF IsCopy(n) THEN <<Last(task[n].queue)>> ELSE task[n].queue
  BY <1>1, <1>2 DEF Tasks
<1>6. task' = [task EXCEPT ![n] = r]
  BY <1>2 DEF AfterError, BellInv, BellTypeOK
<1>7. ~IsCopy(n) => Last(task[n].queue) = Head(task[n].queue)
  BY <1>1 DEF IsCopy, Last
<1>8. /\ r.at \in {"save", "push"} => r.queue # <<>>
      /\ r.at # "push"
  BY <1>1, <1>5
<1>9. ~(r.at = "over" /\ r.usable /\ Last(r.queue) \in here)
  BY <1>5, <1>7
<1> QED
  BY <1>4, <1>6, <1>8, <1>9, OneTask

-----------------------------------------------------------------------------
(* Bell: the steps.                                                        *)

LEMMA NotifyKeeps ==
    ASSUME BellInv, NEW n \in Notices, NotifyWorkshopNewOffer(n) \/ NotifyUser(n)
    PROVE  BellInv'
<1>1. ASSUME NEW queue \in Seq(People), queue # <<>>, Notify(n, queue)
      PROVE  BellInv'
  <2>1. PICK r : r = [task[n] EXCEPT !.at = "save", !.queue = queue]
    OBVIOUS
  <2>2. task[n] \in Tasks
    BY DEF BellInv, BellTypeOK
  <2>3. r \in Tasks /\ r.at = "save" /\ r.queue = queue
    BY <2>1, <2>2, <1>1 DEF Tasks
  <2>4. task' = [task EXCEPT ![n] = r]
    BY <1>1, <2>1 DEF Notify, BellInv, BellTypeOK
  <2>5. UNCHANGED <<here, phones, bell, pushed>> /\ failures' \in 0..MaxFailures
    BY <1>1 DEF Notify, BellInv, BellTypeOK
  <2> QED
    BY <1>1, <2>3, <2>4, <2>5, OneTask
<1>2. CASE NotifyWorkshopNewOffer(n)
  <2> DEFINE Others == (Admins \cap here) \ {Owner}
  <2>1. IsFiniteSet(Others) /\ Others \subseteq People
    BY BellAssumption, FS_Subset
  <2>2. SetToSeq(Others) \in Seq(People)
    BY <2>1, SetToSeqType
  <2> HIDE DEF Others
  <2>3. SetToSeq(Others) \o <<Owner>> \in Seq(People)
    BY <2>2, BellAssumption
  <2>4. SetToSeq(Others) \o <<Owner>> # <<>>
    BY <2>2, BellAssumption
  <2> QED
    BY <1>1, <1>2, <2>3, <2>4 DEF NotifyWorkshopNewOffer, Others
<1>3. CASE NotifyUser(n)
  <2>1. PICK u \in here : Notify(n, <<u>>)
    BY <1>3 DEF NotifyUser
  <2>2. <<u>> \in Seq(People) /\ <<u>> # <<>>
    BY DEF BellInv, BellTypeOK
  <2> QED
    BY <1>1, <2>1, <2>2
<1> QED
  BY <1>2, <1>3

LEMMA SaveKeeps ==
    ASSUME BellInv, NEW n \in Notices, Save(n)
    PROVE  BellInv'
<1> DEFINE u == Head(task[n].queue)
<1>1. PICK r : r = [task[n] EXCEPT !.at = "push"]
  OBVIOUS
<1>2. task[n] \in Tasks /\ u \in here /\ u \in People
  BY DEF Save, BellInv, BellTypeOK
<1>3. r \in Tasks /\ r.at = "push" /\ r.queue = task[n].queue
  BY <1>1, <1>2 DEF Tasks
<1>4. task' = [task EXCEPT ![n] = r]
  BY <1>1 DEF Save, BellInv, BellTypeOK
<1>5. task'[n] = r /\ \A m \in Notices \ {n} : task'[m] = task[m]
  BY <1>4 DEF BellInv, BellTypeOK
<1>6. /\ bell'[n][u] = "unread"
      /\ \A m \in Notices, v \in People : <<m, v>> # <<n, u>> => bell'[m][v] = bell[m][v]
      /\ bell' \in [Notices -> [People -> {"none", "unread", "read", "removed"}]]
  BY <1>2 DEF Save, BellInv, BellTypeOK
<1>7. UNCHANGED <<here, phones, pushed, failures>>
  BY DEF Save
<1>8. BellTypeOK'
  BY <1>3, <1>4, <1>6, <1>7 DEF BellInv, BellTypeOK
<1>9. PushedIsKept'
  BY <1>6, <1>7 DEF BellInv, PushedIsKept, BellTypeOK
<1>10. ASSUME NEW m \in Notices
       PROVE  QueueInv(m)' /\ Served(m)'
  <2>1. QueueInv(m) /\ Served(m) /\ QueueInv(n)
    BY BellParts
  <2>2. CASE m = n
    BY <1>3, <1>5, <1>6, <2>1, <2>2 DEF QueueInv, Served, Save
  <2>3. CASE m # n
    <3>1. \A v \in People : bell'[m][v] = bell[m][v]
      BY <1>6, <2>3
    <3> QED
      BY <1>5, <1>7, <2>1, <2>3, <3>1 DEF QueueInv, Served, BellInv, BellTypeOK
  <2> QED
    BY <2>2, <2>3
<1> QED
  BY <1>8, <1>9, <1>10, BellParts DEF BellInv, LastIsServed, Served

LEMMA PushKeeps ==
    ASSUME BellInv, NEW n \in Notices, NEW arrives \in BOOLEAN, Push(n, arrives)
    PROVE  BellInv'
<1> DEFINE u == Head(task[n].queue)
<1>1. task[n] \in Tasks /\ task[n].queue \in Seq(People) /\ task[n].queue # <<>>
  BY DEF BellInv, BellTypeOK, QueueInv, Tasks, Push
<1>2. PICK r : r = [task[n] EXCEPT
                       !.served = TRUE,
                       !.at = IF IsCopy(n) THEN "save" ELSE "over",
                       !.queue = IF IsCopy(n) THEN Tail(@) ELSE @]
  OBVIOUS
<1>3. /\ r \in Tasks
      /\ r.at = IF IsCopy(n) THEN "save" ELSE "over"
      /\ r.queue = IF IsCopy(n) THEN Tail(task[n].queue) ELSE task[n].queue
  <2>1. PICK q : q = IF IsCopy(n) THEN Tail(task[n].queue) ELSE task[n].queue
    OBVIOUS
  <2>2. q \in Seq(People)
    BY <1>1, <2>1
  <2>3. PICK at : at = IF IsCopy(n) THEN "save" ELSE "over"
    OBVIOUS
  <2>4. r = [task[n] EXCEPT !.served = TRUE, !.at = at, !.queue = q]
    BY <1>2, <2>1, <2>3
  <2>5. r \in Tasks
    BY <1>1, <2>2, <2>3, <2>4 DEF Tasks
  <2>6. r.at = at /\ r.queue = q
    BY <1>1, <2>4 DEF Tasks
  <2> QED
    BY <2>1, <2>3, <2>5, <2>6
<1>4. task' = [task EXCEPT ![n] = r]
  BY <1>2 DEF Push, NextRecipient, BellInv, BellTypeOK
<1>5. UNCHANGED <<here, phones, bell, failures>>
  BY DEF Push
<1>6. task'[n] = r /\ \A m \in Notices \ {n} : task'[m] = task[m]
  BY <1>4 DEF BellInv, BellTypeOK
<1>7. u \in here => bell[n][u] # "none"
  BY DEF BellInv, QueueInv, Push
<1>8. u \in People /\ pushed' \subseteq pushed \cup {<<n, u>>}
  BY <1>1 DEF Push
<1>9. BellTypeOK'
  BY <1>3, <1>4, <1>5, <1>8 DEF BellInv, BellTypeOK
<1>10. PushedIsKept'
  BY <1>5, <1>7, <1>8 DEF BellInv, PushedIsKept
<1>11. ASSUME NEW m \in Notices
       PROVE  QueueInv(m)' /\ Served(m)'
  <2>1. QueueInv(m) /\ Served(m)
    BY BellParts
  <2>2. CASE m = n
    <3>1. IsCopy(n) => Tail(task[n].queue) # <<>>
      <4>1. PICK k \in Nat : k = Len(task[n].queue)
        BY <1>1
      <4>2. Len(Tail(task[n].queue)) = k - 1
        BY <1>1, <4>1
      <4>3. k > 1 => k - 1 # 0
        OBVIOUS
      <4>4. Len(<<>>) = 0
        OBVIOUS
      <4> QED
        BY <4>1, <4>2, <4>3, <4>4, Zenon DEF IsCopy
    <3>2. ~IsCopy(n) => Last(task[n].queue) = u
      BY <1>1 DEF IsCopy, Last
    <3> QED
      BY <1>3, <1>5, <1>6, <1>7, <2>2, <3>1, <3>2 DEF QueueInv, Served
  <2>3. CASE m # n
    BY <1>5, <1>6, <2>1, <2>3 DEF QueueInv, Served
  <2> QED
    BY <2>2, <2>3
<1> QED
  BY <1>9, <1>10, <1>11, BellParts DEF BellInv, LastIsServed, Served

LEMMA TaskKeeps ==
    ASSUME BellInv, NEW n \in Notices, TaskStep(n)
    PROVE  BellInv'
<1> USE BellAssumption
<1>1. task[n].queue \in Seq(People) /\ failures \in 0..MaxFailures
  BY DEF BellInv, BellTypeOK, Tasks
<1>2. CASE SaveFails(n)
  <2>1. task[n].at \in {"save", "push"} /\ AfterError(n, FALSE)
    BY <1>2 DEF SaveFails
  <2>2. UNCHANGED <<here, phones, bell, pushed>> /\ failures' \in 0..MaxFailures
    BY <1>1, <1>2 DEF SaveFails
  <2> QED
    BY <2>1, <2>2, ErrorKeeps
<1>3. CASE SaveOnDeadSession(n)
  BY <1>1, <1>3, ErrorKeeps DEF SaveOnDeadSession
<1>4. CASE RecipientGone(n)
  <2>1. task[n].queue # <<>>
    BY <1>4 DEF BellInv, QueueInv, RecipientGone
  <2>2. ~IsCopy(n) => Last(task[n].queue) = Head(task[n].queue)
    BY <1>1, <2>1 DEF IsCopy, Last
  <2> QED
    BY <1>1, <1>4, <2>2, ErrorKeeps DEF RecipientGone
<1>5. CASE RefreshFails(n)
  BY <1>1, <1>5, ErrorKeeps DEF RefreshFails
<1> QED
  BY <1>2, <1>3, <1>4, <1>5, SaveKeeps, PushKeeps DEF TaskStep

LEMMA CrashKeeps ==
    ASSUME BellInv, CrashTasks
    PROVE  BellInv'
<1>1. UNCHANGED <<here, phones, bell, pushed>> /\ failures' \in 0..MaxFailures
  BY BellAssumption DEF CrashTasks, BellInv, BellTypeOK
<1>2. ASSUME NEW n \in Notices
      PROVE  task'[n] \in Tasks /\ (task'[n] = task[n] \/ task'[n].at = "killed")
  BY DEF CrashTasks, BellInv, BellTypeOK, Tasks
<1>3. BellTypeOK'
  BY <1>1, <1>2 DEF CrashTasks, BellInv, BellTypeOK
<1>4. PushedIsKept'
  BY <1>1 DEF BellInv, PushedIsKept
<1>5. ASSUME NEW n \in Notices
      PROVE  QueueInv(n)' /\ Served(n)'
  <2>1. QueueInv(n) /\ Served(n)
    BY BellParts
  <2> QED
    BY <1>1, <1>2, <2>1 DEF QueueInv, Served
<1> QED
  BY <1>3, <1>4, <1>5, BellParts DEF BellInv, LastIsServed, Served

\* Users and the daily job leave the tasks alone, and take rows away from
\* nobody who is still there.
LEMMA UserKeeps ==
    ASSUME BellInv, UNCHANGED <<pushed, task, failures>>,
           here' \subseteq here, phones' \subseteq here',
           bell' \in [Notices -> [People -> {"none", "unread", "read", "removed"}]],
           \A n \in Notices, u \in here' : bell[n][u] # "none" => bell'[n][u] # "none"
    PROVE  BellInv'
<1>1. BellTypeOK'
  BY DEF BellInv, BellTypeOK
<1>2. PushedIsKept'
  BY DEF BellInv, PushedIsKept
<1>3. ASSUME NEW n \in Notices
      PROVE  QueueInv(n)' /\ Served(n)'
  <2>1. QueueInv(n) /\ Served(n)
    BY BellParts
  <2> QED
    BY <2>1 DEF QueueInv, Served
<1> QED
  BY <1>1, <1>2, <1>3, BellParts DEF BellInv, LastIsServed, Served

LEMMA BellStep ==
    ASSUME BellInv, BellNext
    PROVE  BellInv'
<1> USE DEF BellInv, BellTypeOK
<1>1. ASSUME NEW u \in People, RegisterFcmToken(u)
      PROVE  BellInv'
  BY <1>1, UserKeeps DEF RegisterFcmToken
<1>2. ASSUME NEW u \in People, NEW n \in Notices, MarkAsRead(u, n)
      PROVE  BellInv'
  BY <1>2, UserKeeps DEF MarkAsRead
<1>3. ASSUME NEW u \in People, RemoveUser(u)
      PROVE  BellInv'
  BY <1>3, UserKeeps DEF RemoveUser
<1>4. ASSUME NEW old \in SUBSET People, CleanupOldNotifications(old)
      PROVE  BellInv'
  BY <1>4, UserKeeps DEF CleanupOldNotifications
<1> QED
  BY <1>1, <1>2, <1>3, <1>4, NotifyKeeps, TaskKeeps, CrashKeeps DEF BellNext

LEMMA BellInvariant == BellSpec => []BellInv
<1>1. BellInv /\ [BellNext]_bellVars => BellInv'
  <2> SUFFICES ASSUME BellInv, [BellNext]_bellVars PROVE BellInv'
    OBVIOUS
  <2>1. CASE UNCHANGED bellVars
    BY <2>1, UserKeeps DEF bellVars, BellInv, BellTypeOK
  <2> QED
    BY <2>1, BellStep
<1> QED
  BY <1>1, InitBell, PTL DEF BellSpec

-----------------------------------------------------------------------------
(* Bell: the theorems.                                                     *)

(* Whoever got a push has the notification in the list of the application, *)
(* however the task, the users' deletions and the cleanup interleave: the  *)
(* row is committed first, and only the deletion of its user takes the row *)
(* itself away.                                                            *)
THEOREM PushesAreKept == BellSpec => []PushedIsKept
BY BellInvariant, PTL DEF BellInv

(* The owner of a workshop, who comes last, is served whatever becomes of  *)
(* the copies before: an error of theirs leads to the last recipient, and  *)
(* a task is over with a session alive only when that one has the row, or  *)
(* is gone.                                                                *)
THEOREM LastRecipientServed == BellSpec => []LastIsServed
BY BellInvariant, PTL DEF BellInv

(* No step takes away a notification its user has not read, but the one    *)
(* that deletes the user: the daily job looks at is_read.                  *)
THEOREM UnreadIsNotLost == BellSpec => UnreadStays
<1> DEFINE Stays ==
      \A n \in Notices, u \in People :
          bell[n][u] = "unread" /\ bell'[n][u] \notin {"unread", "read"}
              => u \notin here'
<1>1. BellTypeOK /\ [BellNext]_bellVars => [Stays]_bellVars
  <2> SUFFICES ASSUME BellTypeOK, BellNext,
                      NEW n \in Notices, NEW u \in People,
                      bell[n][u] = "unread", bell'[n][u] \notin {"unread", "read"}
               PROVE  u \notin here'
    OBVIOUS
  <2>1. bell' # bell
    OBVIOUS
  <2>2. PICK v \in People : RemoveUser(v)
    <3>1. ~CrashTasks /\ \A m \in Notices : ~NotifyWorkshopNewOffer(m) /\ ~NotifyUser(m)
      BY <2>1 DEF CrashTasks, NotifyWorkshopNewOffer, NotifyUser, Notify
    <3>2. ASSUME NEW m \in Notices, TaskStep(m)
          PROVE  FALSE
      <4>1. Save(m)
        BY <2>1, <3>2 DEF TaskStep, SaveFails, SaveOnDeadSession, RecipientGone,
                          RefreshFails, Push
      <4> QED
        BY <4>1 DEF Save, BellTypeOK
    <3>3. ASSUME NEW w \in People, RegisterFcmToken(w) \/ \E m \in Notices : MarkAsRead(w, m)
          PROVE  FALSE
      BY <2>1, <3>3 DEF RegisterFcmToken, MarkAsRead, BellTypeOK
    <3>4. ASSUME NEW old \in SUBSET People, CleanupOldNotifications(old)
          PROVE  FALSE
      BY <3>4 DEF CleanupOldNotifications, BellTypeOK
    <3> QED
      BY <3>1, <3>2, <3>3, <3>4 DEF BellNext
  <2> QED
    BY <2>2 DEF RemoveUser, BellTypeOK
<1>2. UnreadStays <=> [][Stays]_bellVars
  BY DEF UnreadStays
<1> HIDE DEF Stays
<1>3. BellInv => BellTypeOK
  BY DEF BellInv
<1> QED
  BY <1>1, <1>2, <1>3, BellInvariant, PTL DEF BellSpec
=============================================================================
