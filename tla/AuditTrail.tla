----------------------------- MODULE AuditTrail -----------------------------
(***************************************************************************)
(* The audit log of one server instance: the middleware around every       *)
(* request, the @auditable decorator inside some of them, and the buffer   *)
(* with its retry thread, which keep the entries the database refused.     *)
(*                                                                         *)
(* The middleware writes on the event loop, decorated services in worker   *)
(* threads, the retry thread on its own.  Every database call may fail.    *)
(***************************************************************************)
EXTENDS Naturals, Sequences, SequencesExt

CONSTANTS
    Requests,
    Capacity,      \* AUDIT_BUFFER_MAX_SIZE
    MaxFaults,     \* bound: database calls that fail
    MaxCrashes    \* bound: crashes of the instance

ASSUME AuditAssumption ==
    Capacity \in Nat /\ MaxFaults \in Nat /\ MaxCrashes \in Nat

VARIABLES
    stage,      \* how far each request has come
    kind,       \* what the middleware and the decorator make of it
    outcome,    \* how its handler ended
    audited,    \* requests with request.state._audited
    saved,      \* entries whose log_action has returned
    table,      \* rows of audit_log
    keyed,      \* entry objects that SQLAlchemy takes for stored rows
    buffer,     \* _failed_buffer
    retry,      \* where the retry thread stands
    batch,      \* its local list to_retry
    session,    \* its session: usable, or dead with the text it then raises
    discarded,  \* entries it reported as duplicates
    recovered,  \* entries it reported as recovered
    lost,       \* entries dropped from a full buffer or gone with the process
    faults, crashes

requestVars == <<stage, kind, outcome, audited>>
retryVars == <<retry, batch, session, discarded, recovered>>
auditVars == <<requestVars, saved, table, keyed, buffer, retryVars, lost,
          faults, crashes>>

\* The entry the decorator makes of a request, and the middleware's.
Entries == Requests \X {"call", "http"}

Kinds == {"unknown", "skipped", "plain", "decorated"}

(* "full" and "put" are the two later steps of _add_to_buffer. *)
Stages == {"new", "handling", "call", "replied", "http", "done", "killed"}
Writes == {"save", "full", "put"}

AuditInit ==
    /\ stage = [r \in Requests |-> <<"new", "save">>]
    /\ kind = [r \in Requests |-> "unknown"]
    /\ outcome = [r \in Requests |-> "none"]
    /\ audited = {} /\ saved = {} /\ table = {} /\ keyed = {}
    /\ buffer = <<>> /\ batch = <<>>
    /\ retry = "asleep" /\ session = "closed"
    /\ discarded = {} /\ recovered = {} /\ lost = {}
    /\ faults = 0 /\ crashes = 0

-----------------------------------------------------------------------------
(* A request, through the middleware and back.                             *)

At(r, s) == stage[r][1] = s

Go(r, s) == stage' = [stage EXCEPT ![r] = <<s, "save">>]

\* The middleware writes its entry without yielding the event loop.
LoopFree == \A r \in Requests : ~At(r, "http")

\* "skipped": a read, a path outside /api/ or an excluded one.
PassMiddleware(r, k) ==
    /\ At(r, "new") /\ LoopFree
    /\ kind' = [kind EXCEPT ![r] = k]
    /\ Go(r, IF k = "skipped" THEN "done" ELSE "handling")
    /\ UNCHANGED <<outcome, audited, saved, table, keyed, buffer, retryVars,
                   lost, faults, crashes>>

\* "conflict" is an exception nobody handles, here the database's unique
\* violation; an HTTPException is an answer like any other.
Handle(r, result) ==
    /\ At(r, "handling")
    /\ outcome' = [outcome EXCEPT ![r] = result]
    /\ IF kind[r] = "decorated"
       THEN Go(r, "call") /\ audited' = audited \cup {r}
       ELSE Go(r, "replied") /\ UNCHANGED audited
    /\ UNCHANGED <<kind, saved, table, keyed, buffer, retryVars, lost, faults, crashes>>

\* Fault: the middleware does not look at request.state._audited.
ReturnTwice(r) ==
    /\ At(r, "replied") /\ LoopFree
    /\ Go(r, "http")
    /\ UNCHANGED <<kind, outcome, audited, saved, table, keyed, buffer,
                   retryVars, lost, faults, crashes>>

\* The path of an unhandled exception does not look at _audited.
Return(r) ==
    /\ At(r, "replied") /\ LoopFree
    /\ Go(r, IF outcome[r] = "conflict" \/ r \notin audited
             THEN "http" ELSE "done")
    /\ UNCHANGED <<kind, outcome, audited, saved, table, keyed, buffer,
                   retryVars, lost, faults, crashes>>

-----------------------------------------------------------------------------
(* log_action, for the entry the request is writing.                       *)

EntryOf(r) == <<r, stage[r][1]>>

Writing(r, w) == stage[r] \in {<<"call", w>>, <<"http", w>>}

WriteOn(r, w) == stage' = [stage EXCEPT ![r][2] = w]

Written(r) ==
    /\ saved' = saved \cup {EntryOf(r)}
    /\ Go(r, IF At(r, "call") THEN "replied" ELSE "done")

Fail == faults < MaxFaults /\ faults' = faults + 1

LogAction(r) ==
    /\ Writing(r, "save")
    /\ table' = table \cup {EntryOf(r)}
    /\ Written(r)
    /\ UNCHANGED <<kind, outcome, audited, keyed, buffer, retryVars, lost, faults, crashes>>

\* A commit may fail after the flush has given the object its identity, and
\* the server may have applied it all the same.
FailToStore(e) ==
    /\ Fail
    /\ \/ UNCHANGED <<table, keyed>>
       \/ keyed' = keyed \cup {e} /\ table' \in {table, table \cup {e}}

LogActionFails(r) ==
    /\ Writing(r, "save")
    /\ FailToStore(EntryOf(r))
    /\ WriteOn(r, IF Len(buffer) >= Capacity THEN "full" ELSE "put")
    /\ UNCHANGED <<kind, outcome, audited, saved, buffer, retryVars, lost, crashes>>

DiscardFirst(r) ==
    /\ Writing(r, "full")
    /\ IF buffer = <<>> THEN UNCHANGED <<buffer, lost>>
       ELSE buffer' = Tail(buffer) /\ lost' = lost \cup {Head(buffer)}
    /\ WriteOn(r, "put")
    /\ UNCHANGED <<kind, outcome, audited, saved, table, keyed, retryVars, faults, crashes>>

AddToBuffer(r) ==
    /\ Writing(r, "put")
    /\ buffer' = Append(buffer, EntryOf(r))
    /\ Written(r)
    /\ UNCHANGED <<kind, outcome, audited, table, keyed, retryVars, lost, faults, crashes>>

-----------------------------------------------------------------------------
(* The retry thread, every 30 seconds.                                     *)

RetryWakes ==
    /\ retry = "asleep" /\ buffer # <<>>
    /\ retry' = "draining"
    /\ UNCHANGED <<requestVars, saved, table, keyed, buffer, batch, session,
                   discarded, recovered, lost, faults, crashes>>

RetryTakes ==
    /\ retry = "draining" /\ buffer # <<>>
    /\ buffer' = Tail(buffer) /\ batch' = Append(batch, Head(buffer))
    /\ UNCHANGED <<requestVars, saved, table, keyed, retry, session, discarded,
                   recovered, lost, faults, crashes>>

\* Fault: one session for the thread, opened once and never again.
RetryKeepsSession ==
    /\ retry = "draining" /\ buffer = <<>>
    /\ retry' = "sending"
    /\ session' = IF session = "closed" THEN "open" ELSE session
    /\ UNCHANGED <<requestVars, saved, table, keyed, buffer, batch, discarded,
                   recovered, lost, faults, crashes>>

RetryOpensSession ==
    /\ retry = "draining" /\ buffer = <<>>
    /\ retry' = "sending" /\ session' = "open"
    /\ UNCHANGED <<requestVars, saved, table, keyed, buffer, batch, discarded,
                   recovered, lost, faults, crashes>>

Sending == retry = "sending" /\ batch # <<>>

\* An object with an identity is no longer inserted: the commit is empty.
RetryStores ==
    LET e == Head(batch) IN
    /\ Sending /\ session = "open"
    /\ table' = IF e \in keyed THEN table ELSE table \cup {e}
    /\ recovered' = recovered \cup {e}
    /\ batch' = Tail(batch)
    /\ UNCHANGED <<requestVars, saved, keyed, buffer, retry, session,
                   discarded, lost, faults, crashes>>

\* The error of a failed INSERT quotes its parameters, error_message among
\* them, and that of an unhandled unique violation says "duplicate".
Mentions(e) == outcome[e[1]] = "conflict"

\* Fault: a failed entry is logged and not put back.
RequeueOrDiscardDrops(e, text) ==
    /\ discarded' = IF text = "duplicate" THEN discarded \cup {e} ELSE discarded
    /\ UNCHANGED buffer

\* Fault: whatever the error, the entry is taken for a duplicate.
RequeueOrDiscardAlways(e, text) ==
    discarded' = discarded \cup {e} /\ UNCHANGED buffer

RequeueOrDiscard(e, text) ==
    IF text = "duplicate"
    THEN discarded' = discarded \cup {e} /\ UNCHANGED buffer
    ELSE buffer' = Append(buffer, e) /\ UNCHANGED discarded

\* The session is not rolled back: it is dead for the rest of the batch.
RetryFails ==
    LET e == Head(batch) IN
    /\ Sending /\ session = "open" /\ e \notin keyed
    /\ \/ FailToStore(e) /\ session' = "other"
       \/ Fail /\ Mentions(e) /\ session' = "duplicate"
               /\ UNCHANGED <<table, keyed>>
    /\ RequeueOrDiscard(e, session')
    /\ batch' = Tail(batch)
    /\ UNCHANGED <<requestVars, saved, retry, recovered, lost,
                   crashes>>

\* PendingRollbackError quotes the error that killed the session.
RetryOnDeadSession ==
    /\ Sending /\ session \in {"other", "duplicate"}
    /\ RequeueOrDiscard(Head(batch), session)
    /\ batch' = Tail(batch)
    /\ UNCHANGED <<requestVars, saved, table, keyed, retry, session, recovered,
                   lost, faults, crashes>>

RetrySleeps ==
    /\ retry = "sending" /\ batch = <<>>
    /\ retry' = "asleep"
    /\ UNCHANGED <<requestVars, saved, table, keyed, buffer, batch, session,
                   discarded, recovered, lost, faults, crashes>>

-----------------------------------------------------------------------------
(* Nothing of the buffer or the batch is on disk.                          *)

InFlight == {r \in Requests : stage[r][1] \notin {"new", "done", "killed"}}

Waiting == ToSet(buffer) \cup ToSet(batch)

CrashServer ==
    /\ crashes < MaxCrashes
    /\ crashes' = crashes + 1
    /\ stage' = [r \in Requests |-> IF r \in InFlight
                                    THEN <<"killed", "save">> ELSE stage[r]]
    /\ lost' = lost \cup Waiting
                    \cup {EntryOf(r) : r \in {q \in InFlight :
                               At(q, "call") \/ At(q, "http")}}
    /\ buffer' = <<>> /\ batch' = <<>>
    /\ retry' = "asleep" /\ session' = "closed"
    /\ UNCHANGED <<kind, outcome, audited, saved, table, keyed, discarded,
                   recovered, faults>>

ServeRequest(r) ==
    \/ \E result \in {"answer", "conflict"} : Handle(r, result)
    \/ Return(r)
    \/ LogAction(r) \/ LogActionFails(r) \/ DiscardFirst(r) \/ AddToBuffer(r)

RetryStep ==
    \/ RetryWakes \/ RetryTakes \/ RetryOpensSession
    \/ RetryStores \/ RetryFails \/ RetryOnDeadSession \/ RetrySleeps

AuditNext ==
    \/ \E r \in Requests : \/ \E k \in Kinds \ {"unknown"} : PassMiddleware(r, k)
                           \/ ServeRequest(r)
    \/ RetryStep
    \/ CrashServer

AuditSpec == AuditInit /\ [][AuditNext]_auditVars

(* A request that arrived goes on, and the retry thread is a daemon that   *)
(* wakes every 30 seconds; nobody is obliged to send a request or to       *)
(* restart, and the database fails at most MaxFaults times.                *)
AuditFairness == /\ \A r \in Requests : WF_auditVars(ServeRequest(r))
            /\ WF_auditVars(RetryStep)

AuditFairSpec == AuditSpec /\ AuditFairness

-----------------------------------------------------------------------------
(* Properties.                                                             *)

\* The trail's variables keep their types, and an entry waits at most once.
AuditTypeOK ==
    /\ stage \in [Requests -> Stages \X Writes]
    /\ kind \in [Requests -> Kinds]
    /\ outcome \in [Requests -> {"none", "answer", "conflict"}]
    /\ audited \subseteq Requests
    /\ saved \cup table \cup keyed \subseteq Entries
    /\ discarded \cup recovered \cup lost \subseteq Entries
    /\ buffer \in Seq(Entries) /\ batch \in Seq(Entries)
    /\ retry \in {"asleep", "draining", "sending"}
    /\ session \in {"closed", "open", "other", "duplicate"}
    /\ faults \in 0..MaxFaults /\ crashes \in 0..MaxCrashes

\* Once log_action has returned, the entry is a row, waits once for a retry,
\* or has one recorded end: dropped from a full buffer, lost with the
\* process, or taken by the retry thread for stored or for a duplicate.
EntriesAccounted ==
    /\ IsInjective(buffer \o batch)
    /\ Waiting \cap (discarded \cup recovered \cup lost) = {}
    /\ saved \subseteq table \cup Waiting \cup discarded \cup recovered
                             \cup lost

\* A request the middleware audits leaves an entry by the time it is over,
\* and one that got an answer leaves exactly one: the decorator's entry and
\* the middleware's exclude each other unless an exception went unhandled.
AnsweredOnce ==
    \A r \in Requests :
        At(r, "done") /\ kind[r] \in {"plain", "decorated"} =>
            /\ <<r, "call">> \in saved \/ <<r, "http">> \in saved
            /\ <<r, "call">> \in saved /\ <<r, "http">> \in saved
                   => outcome[r] = "conflict"

\* An entry that is neither stored nor waiting has met a fault that explains
\* it: without a failing database call or a restart nothing is ever lost, and
\* without a text that mentions a duplicate nothing is ever discarded.
LossExplained ==
    /\ faults = 0 /\ crashes = 0 => saved \subseteq table
    /\ discarded # {} => \E e \in Entries : Mentions(e)
    /\ recovered \ table \subseteq keyed

\* Whatever fails, and however a batch fails half way, the entries that wait
\* are all dealt with at some later moment, once the database answers again.
BufferDrains == Waiting # {} ~> Waiting = {}

\* "Recovered %d audit logs" and "failed with duplicate/unique violation,
\* discarding": what the retry thread gives up is in the table.
RetriedAreStored == recovered \cup discarded \subseteq table
=============================================================================
