------------------------------ MODULE Dispatch ------------------------------
(***************************************************************************)
(* The life of a roadside incident: request, AI triage, search for a       *)
(* workshop, offer, acceptance or rejection (by the owner or by the        *)
(* scheduler), technician booking, arrival, cancellation and completion.   *)
(*                                                                         *)
(* A handler is a thread of some server instance with its own SQLAlchemy   *)
(* session.  It runs in segments: it loads rows, then commits what it      *)
(* changed.  Nothing locks a row between the two, so one step here is one  *)
(* group of reads, or one commit, and other threads run in between.        *)
(***************************************************************************)
EXTENDS Integers, FiniteSets

CONSTANTS
    Incidents,      \* incident ids; every incident belongs to its own client
    Workshops,
    Technicians,
    Employer,       \* Technicians -> Workshops
    Threads,        \* request, background and scheduler threads
    None,           \* SQL NULL
    NearSets,       \* what the specialty and radius query may return
    InitPoints,     \* activity_points of a new workshop
    MaxPoints,      \* ceiling of activity_points
    Bonus,          \* points for a completed service
    Penalties,      \* points an owner's rejection reasons may cost
    TimeoutPenalty, \* points of timeout_no_response
    MaxPenalty,     \* the dearest of them
    Toggles,        \* values of is_available that owners post
    MaxOffers,      \* bound: offer rows ever created
    MaxInFlight,    \* bound: handlers that overlap
    MaxCrashes,     \* bound: handlers killed half way
    MaxCompletions  \* bound: calls of complete_offer

ASSUME DispatchAssumption ==
    /\ None \notin Incidents \cup Workshops \cup Technicians
    /\ Employer \in [Technicians -> Workshops]
    /\ NearSets \subseteq SUBSET Workshops
    /\ InitPoints \in Nat /\ MaxPoints \in Nat /\ InitPoints <= MaxPoints
    /\ Bonus \in Nat
    /\ MaxPenalty \in Nat
    /\ Penalties \subseteq 1..MaxPenalty /\ TimeoutPenalty \in 1..MaxPenalty
    /\ Toggles \subseteq BOOLEAN
    /\ MaxOffers \in Nat /\ MaxInFlight \in Nat
    /\ MaxCrashes \in Nat /\ MaxCompletions \in Nat

VARIABLES
    incident,    \* table incidents
    offer,       \* table workshop_offers
    points,      \* workshops.activity_points
    rejections,  \* workshops.rejection_count
    available,   \* technicians.is_available
    clock,       \* orders accepted_at and rejected_at stamps
    job,         \* what each thread is doing
    crashes, completions

vars == <<incident, offer, points, rejections, available, clock, job,
          crashes, completions>>
workshopVars == <<points, rejections>>
countVars == <<crashes, completions>>

-----------------------------------------------------------------------------
(* Rows.                                                                   *)

OfferIds == 1..MaxOffers

\* "none": the row does not exist yet.
IncidentStatus ==
    {"none", "pending", "analyzing", "pending_info", "matched", "assigned",
     "in_progress", "completed", "cancelled", "no_offers", "error"}

OfferStatus == {"none", "notified", "accepted", "rejected", "expired"}

IncidentRow ==
    [status     : IncidentStatus,
     near       : SUBSET Workshops,          \* stands for ai_category
     workshop   : Workshops \cup {None},     \* assigned_workshop_id
     technician : Technicians \cup {None}]   \* assigned_technician_id

OfferRow ==
    [status     : OfferStatus,
     incident   : Incidents \cup {None},
     workshop   : Workshops \cup {None},
     acceptedAt : Nat,                       \* 0 is NULL
     rejectedAt : Nat,                       \* 0 is NULL
     overdue    : BOOLEAN,   \* notified, and expires_at has passed
     cooled     : BOOLEAN]   \* rejected, and the cooldown has passed

NewIncident ==
    [status |-> "none", near |-> {}, workshop |-> None, technician |-> None]

NoOffer ==
    [status |-> "none", incident |-> None, workshop |-> None,
     acceptedAt |-> 0, rejectedAt |-> 0, overdue |-> FALSE, cooled |-> FALSE]

(* A thread's local state.  row, free, pts and rej hold what the session   *)
(* has loaded, as of the moment it loaded it.                              *)
Labels ==
    {"idle", "request_analyzing", "ai_load", "ai_result", "ai_status", "find",
     "create_offer", "mark_matched", "mark_no_offers",
     "accept_offer", "accept_load", "accept_incident",
     "reject_offer", "penalty_load", "penalty_commit",
     "cancel_commit", "complete_incident", "release_load", "release_commit",
     "bonus_load", "bonus_commit", "arrive_commit", "evidence_commit"}

Jobs ==
    [pc         : Labels,
     incident   : Incidents \cup {None},
     offer      : OfferIds \cup {0},
     workshop   : Workshops \cup {None},
     technician : Technicians \cup {None},
     row        : IncidentRow,
     free       : BOOLEAN,
     live       : SUBSET OfferIds,
     pts        : 0..MaxPoints,
     rej        : Nat,
     cost       : 0..MaxPenalty]

Idle ==
    [pc |-> "idle", incident |-> None, offer |-> 0, workshop |-> None,
     technician |-> None, row |-> NewIncident, free |-> FALSE, live |-> {},
     pts |-> 0, rej |-> 0, cost |-> 0]

\* Fault: a commit that writes every column as the session last saw it.
FlushWholeRow(loaded, new, now) == new

(* What a commit leaves in a row: SQLAlchemy writes the columns whose new  *)
(* value differs from the loaded one and keeps the rest as they are now.   *)
Flush(loaded, new, now) ==
    [status     |-> IF new.status = loaded.status
                    THEN now.status ELSE new.status,
     near       |-> IF new.near = loaded.near THEN now.near ELSE new.near,
     workshop   |-> IF new.workshop = loaded.workshop
                    THEN now.workshop ELSE new.workshop,
     technician |-> IF new.technician = loaded.technician
                    THEN now.technician ELSE new.technician]

FlushValue(loaded, new, now) == IF new = loaded THEN now ELSE new

SmallerOf(a, b) == IF a <= b THEN a ELSE b
LargerOf(a, b) == IF a >= b THEN a ELSE b

-----------------------------------------------------------------------------
(* Scheduling of threads.                                                  *)

Busy == {h \in Threads : job[h].pc # "idle"}

Room == Cardinality(Busy) < MaxInFlight

Begin(h, j) ==
    /\ job[h].pc = "idle"
    /\ Room
    /\ job' = [job EXCEPT ![h] = j]

At(h, label) == job[h].pc = label

Continue(h, j) == job' = [job EXCEPT ![h] = j]

Finish(h) == job' = [job EXCEPT ![h] = Idle]

Init ==
    /\ incident = [i \in Incidents |-> NewIncident]
    /\ offer = [o \in OfferIds |-> NoOffer]
    /\ points = [w \in Workshops |-> InitPoints]
    /\ rejections = [w \in Workshops |-> 0]
    /\ available = [t \in Technicians |-> TRUE]
    /\ clock = 0
    /\ job = [h \in Threads |-> Idle]
    /\ crashes = 0
    /\ completions = 0

-----------------------------------------------------------------------------
(* request_help, add_incident_evidence and the AI triage they schedule.    *)

RequestHelp(h, i) ==
    /\ incident[i].status = "none"
    /\ incident' = [incident EXCEPT ![i].status = "pending"]
    /\ Begin(h, [Idle EXCEPT !.pc = "request_analyzing", !.incident = i])
    /\ UNCHANGED <<offer, workshopVars, available, clock, countVars>>

\* log_status_change has expired the session: the status is written blindly.
RequestAnalyzing(h) ==
    /\ At(h, "request_analyzing")
    /\ incident' = [incident EXCEPT ![job[h].incident].status = "analyzing"]
    /\ Continue(h, [job[h] EXCEPT !.pc = "ai_load"])
    /\ UNCHANGED <<offer, workshopVars, available, clock, countVars>>

AddEvidence(h, i) ==
    /\ incident[i].status = "pending_info"
    /\ Begin(h, [Idle EXCEPT !.pc = "evidence_commit", !.incident = i,
                             !.row = incident[i]])
    /\ UNCHANGED <<incident, offer, workshopVars, available, clock, countVars>>

EvidenceCommit(h) ==
    LET j == job[h] IN
    /\ At(h, "evidence_commit")
    /\ incident' = [incident EXCEPT ![j.incident] =
                      Flush(j.row, [j.row EXCEPT !.status = "analyzing"], @)]
    /\ Continue(h, [Idle EXCEPT !.pc = "ai_load", !.incident = j.incident])
    /\ UNCHANGED <<offer, workshopVars, available, clock, countVars>>

AiLoad(h) ==
    /\ At(h, "ai_load")
    /\ Continue(h, [job[h] EXCEPT !.pc = "ai_result",
                                  !.row = incident[job[h].incident]])
    /\ UNCHANGED <<incident, offer, workshopVars, available, clock, countVars>>

SaveTriage(j, near, status) ==
    incident' = [incident EXCEPT ![j.incident] =
        Flush(j.row, [j.row EXCEPT !.near = near, !.status = status], @)]

\* With image evidence, saving it commits the category early, and reading
\* the category again reloads the whole row.
AiSaveImages(h, near) ==
    LET i == job[h].incident IN
    /\ At(h, "ai_result")
    /\ SaveTriage(job[h], near, job[h].row.status)
    /\ Continue(h, [job[h] EXCEPT !.pc = "ai_status", !.row = incident'[i]])
    /\ UNCHANGED <<offer, workshopVars, available, clock, countVars>>

\* The category the analysis chose, which the early commit has fixed.
Triaged(h, near) ==
    \/ At(h, "ai_result") /\ near \in NearSets
    \/ At(h, "ai_status") /\ near = job[h].row.near

\* Uncertain category or low confidence.
AiPendingInfo(h, near) ==
    /\ Triaged(h, near)
    /\ SaveTriage(job[h], near, "pending_info")
    /\ Finish(h)
    /\ UNCHANGED <<offer, workshopVars, available, clock, countVars>>

AiMatched(h, near) ==
    /\ Triaged(h, near)
    /\ SaveTriage(job[h], near, "matched")
    /\ Continue(h, [Idle EXCEPT !.pc = "find", !.incident = job[h].incident])
    /\ UNCHANGED <<offer, workshopVars, available, clock, countVars>>

\* The exception may come before ai_category is assigned.
AiError(h, near) ==
    /\ \/ Triaged(h, near)
       \/ At(h, "ai_result") /\ near = job[h].row.near
    /\ SaveTriage(job[h], near, "error")
    /\ Finish(h)
    /\ UNCHANGED <<offer, workshopVars, available, clock, countVars>>

-----------------------------------------------------------------------------
(* AssignmentService: which workshop gets the offer.                       *)

RejectionsOf(w) ==
    {o \in OfferIds : /\ offer[o].workshop = w
                      /\ offer[o].status = "rejected"
                      /\ offer[o].rejectedAt > 0}

\* Only the latest rejection counts, and a later acceptance cancels it.
InCooldown(w) ==
    \E o \in RejectionsOf(w) :
        /\ \A p \in RejectionsOf(w) : offer[p].rejectedAt <= offer[o].rejectedAt
        /\ ~offer[o].cooled
        /\ ~\E p \in OfferIds : /\ offer[p].workshop = w
                                /\ offer[p].status = "accepted"
                                /\ offer[p].acceptedAt > offer[o].rejectedAt

HasFreeTechnician(w) == \E t \in Technicians : Employer[t] = w /\ available[t]

Candidates(i) ==
    {w \in incident[i].near :
        points[w] > 0 /\ ~InCooldown(w) /\ HasFreeTechnician(w)}

Unused == {o \in OfferIds : offer[o].status = "none"}

\* Fault: an empty list of candidates returns without marking the incident.
FindWithoutNoOffers(h) ==
    LET j == job[h] IN
    /\ At(h, "find")
    /\ \/ Candidates(j.incident) = {} /\ Finish(h)
       \/ \E w \in Candidates(j.incident) :
             Continue(h, [Idle EXCEPT !.pc = "create_offer",
                                      !.incident = j.incident, !.workshop = w])
    /\ UNCHANGED <<incident, offer, workshopVars, available, clock, countVars>>

\* The winner has the best score; scores are not modelled, so any candidate
\* may win.
FindAndCreateOffer(h) ==
    LET j == job[h] IN
    /\ At(h, "find")
    /\ \/ /\ Candidates(j.incident) = {}
          /\ Continue(h, [Idle EXCEPT !.pc = "mark_no_offers",
                                      !.incident = j.incident,
                                      !.row = incident[j.incident]])
       \/ \E w \in Candidates(j.incident) :
             Continue(h, [Idle EXCEPT !.pc = "create_offer",
                                      !.incident = j.incident, !.workshop = w])
    /\ UNCHANGED <<incident, offer, workshopVars, available, clock, countVars>>

MarkNoOffers(h) ==
    LET j == job[h] IN
    /\ At(h, "mark_no_offers")
    /\ incident' = [incident EXCEPT ![j.incident] =
                      Flush(j.row, [j.row EXCEPT !.status = "no_offers"], @)]
    /\ Finish(h)
    /\ UNCHANGED <<offer, workshopVars, available, clock, countVars>>

CreateOffer(h) ==
    LET j == job[h] IN
    /\ At(h, "create_offer")
    /\ \E o \in Unused :
          /\ \A p \in Unused : o <= p
          /\ offer' = [offer EXCEPT ![o] =
                         [NoOffer EXCEPT !.status = "notified",
                                         !.incident = j.incident,
                                         !.workshop = j.workshop]]
    /\ Continue(h, [j EXCEPT !.pc = "mark_matched", !.workshop = None])
    /\ UNCHANGED <<incident, workshopVars, available, clock, countVars>>

\* The offer's commit has expired the incident: a blind write again.
MarkMatched(h) ==
    /\ At(h, "mark_matched")
    /\ incident' = [incident EXCEPT ![job[h].incident].status = "matched"]
    /\ Finish(h)
    /\ UNCHANGED <<offer, workshopVars, available, clock, countVars>>

-----------------------------------------------------------------------------
(* OfferService: the workshop's answer, and the scheduler's.               *)

\* Fault: accept_offer does not look at the offer's status.
BeginAcceptUnguarded(h, o, t) ==
    /\ offer[o].status # "none"
    /\ Begin(h, [Idle EXCEPT !.pc = "accept_offer", !.offer = o,
                             !.technician = t])
    /\ UNCHANGED <<incident, offer, workshopVars, available, clock, countVars>>

\* Neither the technician's employer nor is_available is looked at.
BeginAccept(h, o, t) ==
    /\ offer[o].status = "notified"
    /\ Begin(h, [Idle EXCEPT !.pc = "accept_offer", !.offer = o,
                             !.technician = t])
    /\ UNCHANGED <<incident, offer, workshopVars, available, clock, countVars>>

\* Fault: accepted_at is not stamped.
AcceptOfferUnstamped(h) ==
    LET o == job[h].offer IN
    /\ At(h, "accept_offer")
    /\ offer' = [offer EXCEPT ![o].status = "accepted", ![o].overdue = FALSE]
    /\ clock' = clock + 1
    /\ Continue(h, [job[h] EXCEPT !.pc = "accept_load"])
    /\ UNCHANGED <<incident, workshopVars, available, countVars>>

AcceptOffer(h) ==
    LET o == job[h].offer IN
    /\ At(h, "accept_offer")
    /\ offer' = [offer EXCEPT ![o].status = "accepted",
                              ![o].acceptedAt = clock + 1,
                              ![o].overdue = FALSE]
    /\ clock' = clock + 1
    /\ Continue(h, [job[h] EXCEPT !.pc = "accept_load"])
    /\ UNCHANGED <<incident, workshopVars, available, countVars>>

AcceptLoad(h) ==
    LET j == job[h] IN
    /\ At(h, "accept_load")
    /\ Continue(h, [j EXCEPT !.pc = "accept_incident",
                             !.row = incident[offer[j.offer].incident],
                             !.free = j.technician # None
                                      /\ available[j.technician]])
    /\ UNCHANGED <<incident, offer, workshopVars, available, clock, countVars>>

\* The incident and the technician go out in one commit.
AcceptIncident(h) ==
    LET j == job[h]
        t == j.technician
        new == [j.row EXCEPT !.status = "assigned",
                             !.workshop = offer[j.offer].workshop,
                             !.technician = IF t = None THEN @ ELSE t]
    IN
    /\ At(h, "accept_incident")
    /\ incident' = [incident EXCEPT ![offer[j.offer].incident] =
                                      Flush(j.row, new, @)]
    /\ available' = IF t = None THEN available
                    ELSE [available EXCEPT ![t] = FlushValue(j.free, FALSE, @)]
    /\ Finish(h)
    /\ UNCHANGED <<offer, workshopVars, clock, countVars>>

\* Fault: reject_offer does not look at the offer's status.
BeginRejectUnguarded(h, o, penalty) ==
    /\ offer[o].status # "none"
    /\ Begin(h, [Idle EXCEPT !.pc = "reject_offer", !.offer = o,
                             !.cost = penalty])
    /\ UNCHANGED <<incident, offer, workshopVars, available, clock, countVars>>

BeginReject(h, o, penalty) ==
    /\ offer[o].status = "notified"
    /\ Begin(h, [Idle EXCEPT !.pc = "reject_offer", !.offer = o,
                             !.cost = penalty])
    /\ UNCHANGED <<incident, offer, workshopVars, available, clock, countVars>>

\* Fault: the scheduler skips the offers of incidents that moved on.
ProcessTimeoutMatchedOnly(h, o) ==
    /\ offer[o].overdue
    /\ incident[offer[o].incident].status = "matched"
    /\ BeginReject(h, o, TimeoutPenalty)

\* The scheduler's query, and reject_offer for one of its rows.
ProcessTimeout(h, o) ==
    /\ offer[o].overdue
    /\ offer[o].acceptedAt = 0
    /\ offer[o].rejectedAt = 0
    /\ BeginReject(h, o, TimeoutPenalty)

RejectOffer(h) ==
    LET j == job[h] IN
    /\ At(h, "reject_offer")
    /\ offer' = [offer EXCEPT ![j.offer].status = "rejected",
                              ![j.offer].rejectedAt = clock + 1,
                              ![j.offer].overdue = FALSE]
    /\ clock' = clock + 1
    /\ Continue(h, [j EXCEPT !.pc = "penalty_load"])
    /\ UNCHANGED <<incident, workshopVars, available, countVars>>

PenaltyLoad(h) ==
    LET w == offer[job[h].offer].workshop IN
    /\ At(h, "penalty_load")
    /\ Continue(h, [job[h] EXCEPT !.pc = "penalty_commit", !.workshop = w,
                                  !.pts = points[w], !.rej = rejections[w]])
    /\ UNCHANGED <<incident, offer, workshopVars, available, clock, countVars>>

\* Fault: max(0, ...) is missing.
PenaltyCommitNoFloor(h) ==
    LET j == job[h] IN
    /\ At(h, "penalty_commit")
    /\ points' = [points EXCEPT ![j.workshop] = j.pts - j.cost]
    /\ rejections' = [rejections EXCEPT ![j.workshop] = j.rej + 1]
    /\ Continue(h, [Idle EXCEPT !.pc = "find",
                                !.incident = offer[j.offer].incident])
    /\ UNCHANGED <<incident, offer, available, clock, countVars>>

\* Fault: the points are taken in SQL, the count is still read and written.
PenaltyCommitHalfAtomic(h) ==
    LET j == job[h] IN
    /\ At(h, "penalty_commit")
    /\ points' = [points EXCEPT ![j.workshop] = LargerOf(0, @ - j.cost)]
    /\ rejections' = [rejections EXCEPT ![j.workshop] = j.rej + 1]
    /\ Continue(h, [Idle EXCEPT !.pc = "find",
                                !.incident = offer[j.offer].incident])
    /\ UNCHANGED <<incident, offer, available, clock, countVars>>

PenaltyCommit(h) ==
    LET j == job[h] IN
    /\ At(h, "penalty_commit")
    /\ points' = [points EXCEPT ![j.workshop] =
                    FlushValue(j.pts, LargerOf(0, j.pts - j.cost), @)]
    /\ rejections' = [rejections EXCEPT ![j.workshop] = j.rej + 1]
    /\ Continue(h, [Idle EXCEPT !.pc = "find",
                                !.incident = offer[j.offer].incident])
    /\ UNCHANGED <<incident, offer, available, clock, countVars>>

-----------------------------------------------------------------------------
(* cancel_incident, the GPS arrival and complete_offer.                    *)

\* The statuses cancel_incident does not refuse.
Cancellable == {"pending", "analyzing", "pending_info", "matched", "assigned"}

LiveOffers(i) ==
    {o \in OfferIds : offer[o].incident = i /\ offer[o].status = "notified"}

BeginCancel(h, i) ==
    LET t == incident[i].technician IN
    /\ incident[i].status \in Cancellable
    /\ Begin(h, [Idle EXCEPT !.pc = "cancel_commit", !.incident = i,
                             !.technician = t, !.row = incident[i],
                             !.free = t # None /\ available[t],
                             !.live = LiveOffers(i)])
    /\ UNCHANGED <<incident, offer, workshopVars, available, clock, countVars>>

\* Fault: a cancellation leaves the incident's offers live.
CancelCommitKeepsOffers(h) ==
    LET j == job[h]
        t == j.technician
    IN
    /\ At(h, "cancel_commit")
    /\ incident' = [incident EXCEPT ![j.incident] =
                      Flush(j.row, [j.row EXCEPT !.status = "cancelled"], @)]
    /\ available' = IF t = None THEN available
                    ELSE [available EXCEPT ![t] = FlushValue(j.free, TRUE, @)]
    /\ Finish(h)
    /\ UNCHANGED <<offer, workshopVars, clock, countVars>>

\* Fault: a cancellation keeps the technician busy.
CancelCommitKeepsTechnician(h) ==
    LET j == job[h] IN
    /\ At(h, "cancel_commit")
    /\ incident' = [incident EXCEPT ![j.incident] =
                      Flush(j.row, [j.row EXCEPT !.status = "cancelled"], @)]
    /\ offer' = [o \in OfferIds |-> IF o \in j.live
                                    THEN [offer[o] EXCEPT !.status = "expired",
                                                          !.overdue = FALSE]
                                    ELSE offer[o]]
    /\ Finish(h)
    /\ UNCHANGED <<workshopVars, available, clock, countVars>>

CancelCommit(h) ==
    LET j == job[h]
        t == j.technician
    IN
    /\ At(h, "cancel_commit")
    /\ incident' = [incident EXCEPT ![j.incident] =
                      Flush(j.row, [j.row EXCEPT !.status = "cancelled"], @)]
    /\ offer' = [o \in OfferIds |-> IF o \in j.live
                                    THEN [offer[o] EXCEPT !.status = "expired",
                                                          !.overdue = FALSE]
                                    ELSE offer[o]]
    /\ available' = IF t = None THEN available
                    ELSE [available EXCEPT ![t] = FlushValue(j.free, TRUE, @)]
    /\ Finish(h)
    /\ UNCHANGED <<workshopVars, clock, countVars>>

BeginArrive(h, i) ==
    /\ incident[i].status = "assigned"
    /\ Begin(h, [Idle EXCEPT !.pc = "arrive_commit", !.incident = i,
                             !.row = incident[i]])
    /\ UNCHANGED <<incident, offer, workshopVars, available, clock, countVars>>

ArriveCommit(h) ==
    LET j == job[h] IN
    /\ At(h, "arrive_commit")
    /\ incident' = [incident EXCEPT ![j.incident] =
                      Flush(j.row, [j.row EXCEPT !.status = "in_progress"], @)]
    /\ Finish(h)
    /\ UNCHANGED <<offer, workshopVars, available, clock, countVars>>

\* Neither the offer's status nor the incident's is looked at.
BeginComplete(h, o) ==
    /\ offer[o].status # "none"
    /\ completions < MaxCompletions
    /\ completions' = completions + 1
    /\ Begin(h, [Idle EXCEPT !.pc = "complete_incident", !.offer = o,
                             !.incident = offer[o].incident,
                             !.row = incident[offer[o].incident]])
    /\ UNCHANGED <<incident, offer, workshopVars, available, clock, crashes>>

CompleteIncident(h) ==
    LET j == job[h] IN
    /\ At(h, "complete_incident")
    /\ incident' = [incident EXCEPT ![j.incident] =
                      Flush(j.row, [j.row EXCEPT !.status = "completed"], @)]
    /\ Continue(h, [Idle EXCEPT !.pc = "release_load", !.offer = j.offer,
                                !.incident = j.incident])
    /\ UNCHANGED <<offer, workshopVars, available, clock, countVars>>

ReleaseLoad(h) ==
    LET t == incident[job[h].incident].technician IN
    /\ At(h, "release_load")
    /\ Continue(h, [job[h] EXCEPT
                      !.pc = IF t = None THEN "bonus_load" ELSE "release_commit",
                      !.technician = t,
                      !.free = t # None /\ available[t]])
    /\ UNCHANGED <<incident, offer, workshopVars, available, clock, countVars>>

ReleaseCommit(h) ==
    LET j == job[h] IN
    /\ At(h, "release_commit")
    /\ available' = [available EXCEPT ![j.technician] =
                       FlushValue(j.free, TRUE, @)]
    /\ Continue(h, [Idle EXCEPT !.pc = "bonus_load", !.offer = j.offer])
    /\ UNCHANGED <<incident, offer, workshopVars, clock, countVars>>

BonusLoad(h) ==
    LET w == offer[job[h].offer].workshop IN
    /\ At(h, "bonus_load")
    /\ Continue(h, [Idle EXCEPT !.pc = "bonus_commit", !.workshop = w,
                                !.pts = points[w]])
    /\ UNCHANGED <<incident, offer, workshopVars, available, clock, countVars>>

BonusCommit(h) ==
    LET j == job[h] IN
    /\ At(h, "bonus_commit")
    /\ points' = [points EXCEPT ![j.workshop] =
                    FlushValue(j.pts, SmallerOf(MaxPoints, j.pts + Bonus), @)]
    /\ Finish(h)
    /\ UNCHANGED <<incident, offer, rejections, available, clock, countVars>>

-----------------------------------------------------------------------------
(* Single-transaction requests, time and crashes.                          *)

UpdateTechnician(t, b) ==
    /\ Room
    /\ available' = [available EXCEPT ![t] = b]
    /\ UNCHANGED <<incident, offer, workshopVars, clock, job, countVars>>

ClearCooldown(w) ==
    /\ Room
    /\ offer' = [o \in OfferIds |->
                   IF o \in RejectionsOf(w) /\ ~offer[o].cooled
                   THEN [offer[o] EXCEPT !.rejectedAt = 0] ELSE offer[o]]
    /\ UNCHANGED <<incident, workshopVars, available, clock, job, countVars>>

OfferRunsOut(o) ==
    /\ offer[o].status = "notified"
    /\ ~offer[o].overdue
    /\ offer' = [offer EXCEPT ![o].overdue = TRUE]
    /\ UNCHANGED <<incident, workshopVars, available, clock, job, countVars>>

\* The shortest cooldown is half an hour, far more than a handler takes.
CooldownRunsOut(o) ==
    /\ Busy = {}
    /\ offer[o].status = "rejected"
    /\ offer[o].rejectedAt > 0
    /\ ~offer[o].cooled
    /\ offer' = [offer EXCEPT ![o].cooled = TRUE]
    /\ UNCHANGED <<incident, workshopVars, available, clock, job, countVars>>

\* The instance goes away: what the thread had not committed is lost, its
\* background task included.
Crash(h) ==
    /\ job[h].pc # "idle"
    /\ crashes < MaxCrashes
    /\ crashes' = crashes + 1
    /\ Finish(h)
    /\ UNCHANGED <<incident, offer, workshopVars, available, clock, completions>>

-----------------------------------------------------------------------------
(* The specification.                                                      *)

\* The requests of clients, owners and administrators.
Request(h) ==
    \/ \E i \in Incidents : \/ RequestHelp(h, i)
                            \/ AddEvidence(h, i)
                            \/ BeginCancel(h, i)
                            \/ BeginArrive(h, i)
    \/ \E o \in OfferIds : \/ \E t \in Technicians \cup {None} :
                                 BeginAccept(h, o, t)
                           \/ \E c \in Penalties : BeginReject(h, o, c)
                           \/ BeginComplete(h, o)

\* The next segment of a running handler.
Proceed(h) ==
    \/ RequestAnalyzing(h) \/ EvidenceCommit(h) \/ AiLoad(h)
    \/ \E near \in NearSets : AiSaveImages(h, near)
    \/ \E near \in NearSets \cup {job[h].row.near} :
          AiPendingInfo(h, near) \/ AiMatched(h, near) \/ AiError(h, near)
    \/ FindAndCreateOffer(h) \/ MarkNoOffers(h)
    \/ CreateOffer(h) \/ MarkMatched(h)
    \/ AcceptOffer(h) \/ AcceptLoad(h) \/ AcceptIncident(h)
    \/ RejectOffer(h) \/ PenaltyLoad(h) \/ PenaltyCommit(h)
    \/ CancelCommit(h) \/ ArriveCommit(h)
    \/ CompleteIncident(h) \/ ReleaseLoad(h) \/ ReleaseCommit(h)
    \/ BonusLoad(h) \/ BonusCommit(h)

Timeouts(o) == \E h \in Threads : ProcessTimeout(h, o)

Next ==
    \/ \E h \in Threads : Request(h) \/ Proceed(h) \/ Crash(h)
    \/ \E o \in OfferIds : Timeouts(o) \/ OfferRunsOut(o) \/ CooldownRunsOut(o)
    \/ \E t \in Technicians, b \in Toggles : UpdateTechnician(t, b)
    \/ \E w \in Workshops : ClearCooldown(w)

Spec == Init /\ [][Next]_vars

\* What the server does by itself: threads run, time passes, and the job
\* scheduled every ten seconds gets its turn again and again.  Nobody has to
\* send a request, and an instance need not crash.
Fairness ==
    /\ \A h \in Threads : WF_vars(Proceed(h))
    /\ \A o \in OfferIds : WF_vars(OfferRunsOut(o)) /\ SF_vars(Timeouts(o))

FairSpec == Spec /\ Fairness

-----------------------------------------------------------------------------
(* Properties.                                                             *)

(* Rows and threads keep their types; in particular activity_points stays  *)
(* between 0 and its ceiling, whatever stale value a penalty or a bonus is *)
(* computed from.                                                          *)
TypeOK ==
    /\ incident \in [Incidents -> IncidentRow]
    /\ offer \in [OfferIds -> OfferRow]
    /\ points \in [Workshops -> 0..MaxPoints]
    /\ rejections \in [Workshops -> Nat]
    /\ available \in [Technicians -> BOOLEAN]
    /\ clock \in Nat
    /\ job \in [Threads -> Jobs]
    /\ crashes \in 0..MaxCrashes
    /\ completions \in 0..MaxCompletions

(* A workshop is only ever assigned to an incident for which it accepted   *)
(* an offer, and an incident that is in service, or has a technician, has  *)
(* a workshop: no interleaving of accept_offer with cancellations, AI      *)
(* results and re-matches tears the row apart.                             *)
AssignmentBacked ==
    \A i \in Incidents :
        /\ incident[i].workshop # None =>
             \E o \in OfferIds : /\ offer[o].incident = i
                                 /\ offer[o].workshop = incident[i].workshop
                                 /\ offer[o].acceptedAt > 0
        /\ \/ incident[i].status \in {"assigned", "in_progress"}
           \/ incident[i].technician # None
           => incident[i].workshop # None

(* While no instance dies between the two commits of accept_offer, every   *)
(* acceptance ends in an assignment that no other handler takes back: the  *)
(* incident of an accepted offer has a workshop, or accept_offer is still  *)
(* on its way to write it.                                                 *)
AcceptanceNotLost ==
    crashes = 0 =>
        \A o \in OfferIds :
            \/ offer[o].acceptedAt = 0
            \/ \E h \in Threads : /\ job[h].offer = o
                                  /\ job[h].pc \in {"accept_load",
                                                    "accept_incident"}
            \/ incident[offer[o].incident].workshop # None

(* Until the first bonus is paid, a workshop has not lost more activity    *)
(* points than its rejection_count accounts for.  _penalize_workshop reads *)
(* both columns, computes and writes them back; overlapping penalties get  *)
(* lost, but none is charged and not counted.                              *)
ReputationExplained ==
    completions = 0 =>
        \A w \in Workshops :
            points[w] + MaxPenalty * rejections[w] >= InitPoints

(* find_and_create_offer promises a single exclusive offer.  It holds      *)
(* while handlers do not overlap.                                          *)
SingleExclusiveOffer ==
    \A i \in Incidents : Cardinality(LiveOffers(i)) <= 1

(* With no handler running, an incident is MATCHED only while a workshop   *)
(* is being asked, and only a matched incident has a live offer - unless   *)
(* complete_offer was called on it, which does not look at its status.     *)
OfferBookConsistent ==
    Busy = {} =>
        \A i \in Incidents :
            /\ incident[i].status = "matched" => LiveOffers(i) # {}
            /\ LiveOffers(i) # {} =>
                 incident[i].status \in {"matched", "completed"}

(* While handlers do not overlap, rejection_count agrees with the rejected *)
(* offers in the table, the timed-out ones included.                       *)
RejectionsCounted ==
    Busy = {} =>
        \A w \in Workshops :
            rejections[w] = Cardinality({o \in OfferIds :
                                           /\ offer[o].workshop = w
                                           /\ offer[o].status = "rejected"})

InService == {"assigned", "in_progress"}

(* While handlers do not overlap, no technician is left marked busy once   *)
(* the incidents assigned to the technician are over: cancellation and     *)
(* completion both give the technician back.                               *)
BusyTechnicianServes ==
    Busy = {} =>
        \A t \in Technicians :
            ~available[t] =>
                \E i \in Incidents : /\ incident[i].technician = t
                                     /\ incident[i].status \in InService

(* No offer waits for ever: the workshop answers, the client cancels, or   *)
(* the scheduler rejects it, even when an instance died on the way.        *)
OfferAnswered ==
    \A o \in OfferIds :
        offer[o].status = "notified" ~> offer[o].status # "notified"

Searching(i) == incident[i].status \in {"pending", "analyzing", "matched"}

(* The search for a workshop ends, with an acceptance or with NO_OFFERS,   *)
(* however many workshops let their offers run out - unless an instance    *)
(* dies, because nothing restarts a lost background task.                  *)
SearchEnds ==
    \A i \in Incidents : Searching(i) ~> ~Searching(i) \/ crashes > 0

(* cancel_incident's refusal: once the mechanic has arrived the incident   *)
(* can not be cancelled.  The status is checked before the arrival.        *)
NoCancelAfterArrival ==
    [][\A i \in Incidents : incident[i].status = "in_progress" =>
                              incident'[i].status # "cancelled"]_incident

(* accept_offer's comment: the technician is marked as busy.  With two     *)
(* incidents on one technician, completing one frees the technician.       *)
ServingTechnicianBusy ==
    Busy = {} =>
        \A i \in Incidents :
            /\ incident[i].status \in InService
            /\ incident[i].technician # None
            => ~available[incident[i].technician]
=============================================================================
