------------------------------- MODULE Reports -------------------------------
(***************************************************************************)
(* Reports: a query built from a catalogue entry and a request, run twice  *)
(* (its COUNT, then its page of rows) while others write, and the          *)
(* templates of requests with their schedules.                             *)
(*                                                                         *)
(* One table and one LEFT JOIN stand for the catalogue's entries: in all   *)
(* of them a row is joined by the primary key of the other table.          *)
(***************************************************************************)
EXTENDS Naturals, FiniteSets

CONSTANTS
    RowIds,       \* rows of the table reported on
    Partners,     \* rows of the table joined
    Shops,        \* workshops
    Analysts,     \* threads that run reports
    Drafters,     \* threads that change the templates, of the user who owns them
    Templates,
    Schedules,
    Unset,        \* SQL NULL, and no row yet
    Deleted,      \* a row that is gone; its id is not used again
    MaxWrites     \* bound: commits by others

ASSUME ReportsAssumption ==
    /\ Unset \notin Partners \cup Shops \cup Templates \cup Schedules
    /\ Deleted \notin Templates \cup {Unset}
    /\ IsFiniteSet(RowIds) /\ IsFiniteSet(Partners)
    /\ MaxWrites \in Nat

VARIABLES
    fact,      \* the table: absent, or a row's workshop and partner
    report,    \* what each thread is running
    template,  \* report_templates: "none", "saved" or "deleted"
    schedule,  \* scheduled_reports: each one's template_id, Unset or Deleted
    desk,      \* what each editing thread has loaded
    writes

reportVars == <<fact, report, template, schedule, desk, writes>>

Row == [shop : Shops, partner : Partners \cup {Unset}]

NoRow == [shop |-> Unset, partner |-> Unset]

Present == {x \in RowIds : fact[x] # NoRow}

\* "own" is a column of the table, "partner" one of the joined table.
Fields == {"own", "partner"}

FieldJoins(f) == IF f = "partner" THEN {"partner"} ELSE {}

Asks == [shop   : Shops \cup {Unset},      \* the workshop_filter's parameter
         fields : (SUBSET Fields) \ {{}},
         filter : {"none", "eq", "is_null"},
         sort   : {"none"} \cup Fields,
         limit  : {1}, offset : {0}]

NoAsk == [shop |-> Unset, fields |-> {}, filter |-> "none", sort |-> "none",
          limit |-> 0, offset |-> 0]

NoTask == [op |-> "none", template |-> Unset, schedule |-> Unset]

ReportsInit ==
    /\ fact = [x \in RowIds |-> NoRow]
    /\ report = [h \in Analysts |-> [at |-> "idle", ask |-> NoAsk, total |-> 0,
                                     rows |-> {}]]
    /\ template = [t \in Templates |-> "none"]
    /\ schedule = [s \in Schedules |-> Unset]
    /\ desk = [h \in Drafters |-> NoTask]
    /\ writes = 0

-----------------------------------------------------------------------------
(* The query. build_and_run_query joins what the selected fields and the   *)
(* filters name, count_query what the filters name.                        *)

\* A filter on a field that the entry does not have is left out: as "none".
FilterJoins(q) == IF q.filter \in {"eq", "is_null"} THEN FieldJoins("partner") ELSE {}

SelectJoins(q) == FilterJoins(q) \cup UNION {FieldJoins(f) : f \in q.fields}

CountJoins(q) == FilterJoins(q)

\* Fault: an inner join.
FromInner(joins) ==
    {row \in Present \X (Partners \cup {Unset}) :
        IF "partner" \in joins
        THEN row[2] \in Partners /\ fact[row[1]].partner = row[2]
        ELSE row[2] = Unset}

\* The joined rows; a partner that is not joined, or not there, is NULL.
From(joins) ==
    {row \in Present \X (Partners \cup {Unset}) :
        IF "partner" \in joins THEN fact[row[1]].partner = row[2] ELSE row[2] = Unset}

Where(q, row) ==
    /\ q.shop # Unset => fact[row[1]].shop = q.shop
    /\ q.filter = "eq" => row[2] = CHOOSE p \in Partners : TRUE
    /\ q.filter = "is_null" => row[2] = Unset

Selected(q) == {row \in From(SelectJoins(q)) : Where(q, row)}

CountQuery(q) == Cardinality({row \in From(CountJoins(q)) : Where(q, row)})

\* ORDER BY names a column of a table that only a selected field or a filter
\* joins: without one of these the database refuses the query.
SortIsJoined(q) == q.sort = "none" \/ FieldJoins(q.sort) \subseteq SelectJoins(q)

Minimum(a, b) == IF a < b THEN a ELSE b

PageSize(q, n) == IF n <= q.offset THEN 0 ELSE Minimum(q.limit, n - q.offset)

\* Without an ORDER BY, and among equal keys, any rows make up the page.
Pages(q) == {page \in SUBSET Selected(q) :
                Cardinality(page) = PageSize(q, Cardinality(Selected(q)))}

-----------------------------------------------------------------------------
(* run_report: two statements, each with a snapshot of its own.            *)

RunCount(h, q) ==
    /\ report[h].at # "counted"
    /\ report' = [report EXCEPT ![h] = [at |-> "counted", ask |-> q,
                                       total |-> CountQuery(q), rows |-> {}]]
    /\ UNCHANGED <<fact, template, schedule, desk, writes>>

RunRows(h) ==
    LET q == report[h].ask IN
    /\ report[h].at = "counted"
    /\ IF SortIsJoined(q)
       THEN \E page \in Pages(q) :
               report' = [report EXCEPT ![h].at = "answered", ![h].rows = page]
       ELSE report' = [report EXCEPT ![h].at = "failed"]
    /\ UNCHANGED <<fact, template, schedule, desk, writes>>

\* A commit by another part of the program.
WriteFact(x, row) ==
    /\ writes < MaxWrites /\ writes' = writes + 1
    /\ fact[x] # row
    /\ fact' = [fact EXCEPT ![x] = row]
    /\ UNCHANGED <<report, template, schedule, desk>>

-----------------------------------------------------------------------------
(* Templates and schedules. Whoever does not own a template is refused     *)
(* before any write, so only threads of the owner appear.                  *)

SaveTemplate(t) ==
    /\ template[t] = "none"
    /\ template' = [template EXCEPT ![t] = "saved"]
    /\ UNCHANGED <<fact, report, schedule, desk, writes>>

\* get_template and the owner's check, by edit_template, remove_template and
\* create_template_schedule.
OpenTemplate(h, t, op) ==
    /\ desk[h] = NoTask
    /\ template[t] = "saved"
    /\ desk' = [desk EXCEPT ![h].op = op, ![h].template = t]
    /\ UNCHANGED <<fact, report, template, schedule, writes>>

\* remove_schedule loads the schedule and then its template.
OpenSchedule(h, s) ==
    /\ desk[h] = NoTask
    /\ schedule[s] \in Templates
    /\ desk' = [desk EXCEPT ![h].op = "unschedule", ![h].schedule = s]
    /\ UNCHANGED <<fact, report, template, schedule, writes>>

Leave(h) == desk' = [desk EXCEPT ![h] = NoTask]

\* Fault: the schedules are left behind.
CommitDeleteOnly(h) ==
    /\ desk[h].op = "delete"
    /\ template' = [template EXCEPT ![desk[h].template] = "deleted"]
    /\ Leave(h)
    /\ UNCHANGED <<fact, report, schedule, writes>>

\* The foreign key is ON DELETE CASCADE. A template another thread deleted
\* fails the flush, as it does in edit_template, which changes no more than
\* the template's own columns.
CommitDelete(h) ==
    LET t == desk[h].template IN
    /\ desk[h].op = "delete"
    /\ template' = [template EXCEPT ![t] = "deleted"]
    /\ schedule' = [s \in Schedules |-> IF schedule[s] = t THEN Deleted ELSE schedule[s]]
    /\ Leave(h)
    /\ UNCHANGED <<fact, report, writes>>

\* Fault: a schedule without the foreign key.
CommitScheduleUnchecked(h) ==
    /\ desk[h].op = "schedule"
    /\ \E s \in {x \in Schedules : schedule[x] = Unset} :
          schedule' = [schedule EXCEPT ![s] = desk[h].template]
    /\ Leave(h)
    /\ UNCHANGED <<fact, report, template, writes>>

\* The foreign key refuses a schedule of a template deleted since.
CommitSchedule(h) ==
    /\ desk[h].op = "schedule"
    /\ IF template[desk[h].template] = "saved"
       THEN \E s \in {x \in Schedules : schedule[x] = Unset} :
               schedule' = [schedule EXCEPT ![s] = desk[h].template]
       ELSE UNCHANGED schedule
    /\ Leave(h)
    /\ UNCHANGED <<fact, report, template, writes>>

CommitUnschedule(h) ==
    /\ desk[h].op = "unschedule"
    /\ schedule' = [schedule EXCEPT ![desk[h].schedule] = Deleted]
    /\ Leave(h)
    /\ UNCHANGED <<fact, report, template, writes>>

-----------------------------------------------------------------------------

QueryNext ==
    \/ \E h \in Analysts, q \in Asks : RunCount(h, q)
    \/ \E h \in Analysts : RunRows(h)
    \/ \E x \in RowIds, row \in {NoRow} \cup Row : WriteFact(x, row)

TemplateNext ==
    \/ \E t \in Templates : SaveTemplate(t)
    \/ \E h \in Drafters, t \in Templates, op \in {"delete", "schedule"} :
          OpenTemplate(h, t, op)
    \/ \E h \in Drafters, s \in Schedules : OpenSchedule(h, s)
    \/ \E h \in Drafters :
          CommitDelete(h) \/ CommitSchedule(h) \/ CommitUnschedule(h)

ReportsNext == QueryNext \/ TemplateNext

ReportsSpec == ReportsInit /\ [][ReportsNext]_reportVars

-----------------------------------------------------------------------------

\* Types of the reports' state.
ReportsTypeOK ==
    /\ fact \in [RowIds -> {NoRow} \cup Row]
    /\ report \in [Analysts -> [at : {"idle", "counted", "answered", "failed"},
                                ask : {NoAsk} \cup Asks, total : Nat,
                                rows : SUBSET (RowIds \X (Partners \cup {Unset}))]]
    /\ template \in [Templates -> {"none", "saved", "deleted"}]
    /\ schedule \in [Schedules -> Templates \cup {Unset, Deleted}]
    /\ desk \in [Drafters -> [op : {"none", "delete", "schedule", "unschedule"},
                             template : Templates \cup {Unset},
                             schedule : Schedules \cup {Unset}]]
    /\ writes \in 0..MaxWrites

\* Whatever the tables hold by now, the total that count_query computes for a
\* request, with the joins of its filters only, is the number of rows that
\* build_and_run_query finds for it, with the joins of the selected fields as
\* well: a join that one of them leaves out neither drops nor doubles a row.
CountMatchesRows ==
    \A h \in Analysts :
        LET q == report[h].ask IN
        report[h].at # "idle" => CountQuery(q) = Cardinality(Selected(q))

\* A schedule's template exists, however its creation and the template's
\* deletion interleave.
SchedulesWhole ==
    \A s \in Schedules :
        schedule[s] \in Templates => template[schedule[s]] = "saved"
=============================================================================
