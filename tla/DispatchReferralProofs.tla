----------------------- MODULE DispatchReferralProofs -----------------------
(***************************************************************************)
(* What Dispatch promises as long as its handlers do not overlap, for any  *)
(* number of incidents, workshops, technicians and offers: it implements   *)
(* Referral, across crashes too, and, while no instance dies half way, its *)
(* tables agree with each other whenever no handler is running.            *)
(***************************************************************************)
EXTENDS DispatchReferral, DispatchProofs, FiniteSetTheorems

\* The offers of an incident that are being asked or were taken.
Standing(i) == LiveOffers(i) \cup AcceptedOffers(i)

Early == {"none", "pending", "analyzing", "pending_info", "no_offers", "error"}

Matching == {"matched", "completed"}

\* What the two tables say of each other after every commit: an incident has
\* at most one standing offer, and its status knows of it.
BookInv ==
    /\ \A i \in Incidents :
          /\ \A o, p \in Standing(i) : o = p
          /\ incident[i].status \in Early => Standing(i) = {}
          /\ LiveOffers(i) # {} => incident[i].status \in Matching
          /\ incident[i].status \in InService => AcceptedOffers(i) # {}
    /\ \A o \in OfferIds : offer[o].status # "none" =>
                              incident[offer[o].incident].status # "none"

\* What a handler's session holds is still true, since nobody else commits.
Fresh == {"ai_result", "ai_status", "evidence_commit", "mark_no_offers",
          "cancel_commit", "arrive_commit", "complete_incident"}

JobInv(j) ==
    /\ j.pc \in Fresh => j.row = incident[j.incident]
    /\ j.pc = "accept_incident" => j.row = incident[offer[j.offer].incident]
    /\ j.pc = "request_analyzing" => incident[j.incident].status = "pending"
    /\ j.pc \in {"ai_load", "ai_result", "ai_status"} =>
          incident[j.incident].status = "analyzing"
    /\ j.pc = "evidence_commit" => incident[j.incident].status = "pending_info"
    /\ j.pc = "arrive_commit" => incident[j.incident].status = "assigned"
    /\ j.pc = "cancel_commit" => /\ incident[j.incident].status \in Cancellable
                                 /\ j.live = LiveOffers(j.incident)
    /\ j.pc \in {"find", "create_offer", "mark_no_offers"} =>
          /\ incident[j.incident].status \in Matching
          /\ Standing(j.incident) = {}
    /\ j.pc = "mark_matched" => incident[j.incident].status \in Matching
    /\ j.pc \in {"accept_offer", "reject_offer"} =>
          offer[j.offer].status = "notified"
    /\ j.pc \in {"accept_load", "accept_incident"} =>
          /\ offer[j.offer].status = "accepted"
          /\ incident[offer[j.offer].incident].status \in Matching
    /\ j.pc \in {"penalty_load", "penalty_commit"} =>
          /\ incident[offer[j.offer].incident].status \in Matching
          /\ Standing(offer[j.offer].incident) = {}
    /\ j.pc = "complete_incident" => incident[j.incident].status # "none"

Alone == \A g, h \in Threads : job[g].pc # "idle" /\ job[h].pc # "idle" => g = h

SerialInv ==
    /\ Alone
    /\ BookInv
    /\ \A h \in Threads : JobInv(job[h])

-----------------------------------------------------------------------------
(* Threads.                                                                *)

OthersIdle(h) == \A g \in Threads \ {h} : job[g].pc = "idle"

LEMMA RoomMeansIdle ==
    ASSUME MaxInFlight = 1, Alone, Room
    PROVE  \A g \in Threads : job[g].pc = "idle"
<1> SUFFICES ASSUME NEW g \in Threads, job[g].pc # "idle" PROVE FALSE
  OBVIOUS
<1>1. Busy = {g}
  BY DEF Busy, Alone
<1>2. Cardinality(Busy) = 1
  BY <1>1, FS_Singleton
<1> QED
  BY <1>2 DEF Room

LEMMA JobsKeep ==
    ASSUME TypeInv, NEW h \in Threads, OthersIdle(h),
           \A g \in Threads \ {h} : job'[g] = job[g],
           JobInv(job[h])'
    PROVE  Alone' /\ \A g \in Threads : JobInv(job[g])'
<1>1. \A g \in Threads \ {h} : job'[g].pc = "idle"
  BY DEF OthersIdle
<1>2. ASSUME NEW g \in Threads, job'[g].pc = "idle" PROVE JobInv(job[g])'
  BY <1>2 DEF JobInv, Fresh
<1>3. Alone'
  BY <1>1 DEF Alone
<1> QED
  BY <1>1, <1>2, <1>3

-----------------------------------------------------------------------------
(* Books.                                                                  *)

LEMMA SameBooks ==
    ASSUME BookInv, incident' = incident, offer' = offer
    PROVE  /\ BookInv'
           /\ \A i : /\ LiveOffers(i)' = LiveOffers(i)
                     /\ AcceptedOffers(i)' = AcceptedOffers(i)
           /\ UNCHANGED <<Phase, Asked, Server>>
BY DEF BookInv, Standing, LiveOffers, AcceptedOffers, Phase, Asked, Server,
       WorkshopOf

\* Offers age, and nothing else.
LEMMA AgedOffers ==
    ASSUME TypeInv, BookInv, incident' = incident,
           \A o \in OfferIds : /\ offer'[o].status = offer[o].status
                               /\ offer'[o].incident = offer[o].incident
                               /\ offer'[o].workshop = offer[o].workshop
    PROVE  /\ BookInv'
           /\ \A i : /\ LiveOffers(i)' = LiveOffers(i)
                     /\ AcceptedOffers(i)' = AcceptedOffers(i)
           /\ UNCHANGED <<Phase, Asked, Server>>
<1>1. \A i : /\ LiveOffers(i)' = LiveOffers(i)
             /\ AcceptedOffers(i)' = AcceptedOffers(i)
  BY DEF LiveOffers, AcceptedOffers
<1>2. BookInv'
  BY <1>1 DEF BookInv, Standing
<1>3. ASSUME NEW i \in Incidents
      PROVE  /\ WorkshopOf(LiveOffers(i))' = WorkshopOf(LiveOffers(i))
             /\ WorkshopOf(AcceptedOffers(i))' = WorkshopOf(AcceptedOffers(i))
  <2>1. LiveOffers(i) \subseteq OfferIds /\ AcceptedOffers(i) \subseteq OfferIds
    BY DEF LiveOffers, AcceptedOffers
  <2>2. LiveOffers(i) # {} => (CHOOSE o \in LiveOffers(i) : TRUE) \in OfferIds
    BY <2>1
  <2>3. AcceptedOffers(i) # {} => (CHOOSE o \in AcceptedOffers(i) : TRUE) \in OfferIds
    BY <2>1
  <2> QED
    BY <1>1, <2>2, <2>3 DEF WorkshopOf
<1> QED
  BY <1>1, <1>2, <1>3 DEF Phase, Asked, Server

\* The commit of an incident's row.
LEMMA StatusStep ==
    ASSUME TypeInv, BookInv, NEW i \in Incidents,
           \A k \in Incidents \ {i} : incident'[k].status = incident[k].status,
           offer' = offer,
           incident'[i].status # "none",
           incident'[i].status \in Early => Standing(i) = {},
           LiveOffers(i) # {} => incident'[i].status \in Matching,
           incident'[i].status \in InService => AcceptedOffers(i) # {}
    PROVE  /\ BookInv'
           /\ \A k : /\ LiveOffers(k)' = LiveOffers(k)
                     /\ AcceptedOffers(k)' = AcceptedOffers(k)
           /\ Phase' = [Phase EXCEPT ![i] = PhaseOf(incident'[i].status)]
           /\ UNCHANGED <<Asked, Server>>
<1>1. \A k : /\ LiveOffers(k)' = LiveOffers(k)
             /\ AcceptedOffers(k)' = AcceptedOffers(k)
  BY DEF LiveOffers, AcceptedOffers
<1>3. UNCHANGED <<Asked, Server>>
  BY DEF Asked, Server, WorkshopOf, LiveOffers, AcceptedOffers
<1>4. Phase' = [Phase EXCEPT ![i] = PhaseOf(incident'[i].status)]
  BY DEF Phase, PhaseOf
<1>5. \A k \in Incidents : Standing(k)' = Standing(k)
  BY <1>1 DEF Standing
<1>6. ASSUME NEW k \in Incidents
      PROVE  /\ \A o, p \in Standing(k)' : o = p
             /\ incident'[k].status \in Early => Standing(k)' = {}
             /\ LiveOffers(k)' # {} => incident'[k].status \in Matching
             /\ incident'[k].status \in InService => AcceptedOffers(k)' # {}
  <2>1. CASE k = i
    BY <1>1, <1>5, <2>1 DEF BookInv
  <2>2. CASE k # i
    <3>1. incident'[k].status = incident[k].status
      BY <2>2
    <3> QED
      BY <1>1, <1>5, <3>1 DEF BookInv
  <2> QED
    BY <2>1, <2>2
<1>7. ASSUME NEW o \in OfferIds, offer[o].status # "none"
      PROVE  incident'[offer[o].incident].status # "none"
  BY <1>7 DEF BookInv, TypeInv, OffersBound
<1>8. BookInv'
  BY <1>6, <1>7 DEF BookInv
<1> QED
  BY <1>1, <1>3, <1>4, <1>8

-----------------------------------------------------------------------------
(* Steps that only move a thread.                                          *)

LEMMA Mine ==
    ASSUME SerialInv, NEW h \in Threads, job[h].pc # "idle"
    PROVE  OthersIdle(h)
BY DEF SerialInv, Alone, OthersIdle

LEMMA BeginsAlone ==
    ASSUME MaxInFlight = 1, SerialInv, NEW h \in Threads, NEW j, Begin(h, j)
    PROVE  OthersIdle(h) /\ job' = [job EXCEPT ![h] = j]
BY RoomMeansIdle DEF SerialInv, Begin, OthersIdle

LEMMA QuietStep ==
    ASSUME TypeInv, SerialInv, NEW h \in Threads, OthersIdle(h), NEW j,
           job' = [job EXCEPT ![h] = j], incident' = incident, offer' = offer,
           JobInv(j)
    PROVE  SerialInv' /\ UNCHANGED <<Phase, Asked, Server>>
<1>1. job'[h] = j /\ \A g \in Threads \ {h} : job'[g] = job[g]
  BY DEF TypeInv, TypeOK
<1>2. /\ BookInv'
      /\ \A i : LiveOffers(i)' = LiveOffers(i) /\ AcceptedOffers(i)' = AcceptedOffers(i)
      /\ UNCHANGED <<Phase, Asked, Server>>
  BY SameBooks DEF SerialInv
<1>3. \A i : Standing(i)' = Standing(i)
  BY <1>2 DEF Standing
<1>4. JobInv(job[h])'
  BY <1>1, <1>2, <1>3 DEF JobInv
<1> QED
  BY <1>1, <1>2, <1>4, JobsKeep DEF SerialInv

LEMMA QuietRequest ==
    ASSUME TypeInv, SerialInv, MaxInFlight = 1, NEW h \in Threads,
           \/ \E i \in Incidents : \/ AddEvidence(h, i)
                                   \/ BeginCancel(h, i)
                                   \/ BeginArrive(h, i)
           \/ \E o \in OfferIds : \E t : BeginAccept(h, o, t)
           \/ \E o \in OfferIds : \E c : BeginReject(h, o, c)
           \/ \E o \in OfferIds : BeginComplete(h, o)
    PROVE  SerialInv' /\ UNCHANGED <<Phase, Asked, Server>>
<1>1. ASSUME NEW i \in Incidents, AddEvidence(h, i)
      PROVE  SerialInv' /\ UNCHANGED <<Phase, Asked, Server>>
  <2> DEFINE j == [Idle EXCEPT !.pc = "evidence_commit", !.incident = i,
                               !.row = incident[i]]
  <2>1. JobInv(j)
    BY <1>1 DEF AddEvidence, JobInv, Fresh, Idle
  <2> QED
    BY <1>1, <2>1, BeginsAlone, QuietStep DEF AddEvidence
<1>2. ASSUME NEW i \in Incidents, BeginCancel(h, i)
      PROVE  SerialInv' /\ UNCHANGED <<Phase, Asked, Server>>
  <2> DEFINE t == incident[i].technician
             j == [Idle EXCEPT !.pc = "cancel_commit", !.incident = i,
                               !.technician = t, !.row = incident[i],
                               !.free = t # None /\ available[t],
                               !.live = LiveOffers(i)]
  <2>1. JobInv(j)
    BY <1>2 DEF BeginCancel, JobInv, Fresh, Idle
  <2> QED
    BY <1>2, <2>1, BeginsAlone, QuietStep DEF BeginCancel
<1>3. ASSUME NEW i \in Incidents, BeginArrive(h, i)
      PROVE  SerialInv' /\ UNCHANGED <<Phase, Asked, Server>>
  <2> DEFINE j == [Idle EXCEPT !.pc = "arrive_commit", !.incident = i,
                               !.row = incident[i]]
  <2>1. JobInv(j)
    BY <1>3 DEF BeginArrive, JobInv, Fresh, Idle
  <2> QED
    BY <1>3, <2>1, BeginsAlone, QuietStep DEF BeginArrive
<1>4. ASSUME NEW o \in OfferIds, NEW t, BeginAccept(h, o, t)
      PROVE  SerialInv' /\ UNCHANGED <<Phase, Asked, Server>>
  <2> DEFINE j == [Idle EXCEPT !.pc = "accept_offer", !.offer = o,
                               !.technician = t]
  <2>1. JobInv(j)
    BY <1>4 DEF BeginAccept, JobInv, Fresh, Idle
  <2> QED
    BY <1>4, <2>1, BeginsAlone, QuietStep DEF BeginAccept
<1>5. ASSUME NEW o \in OfferIds, NEW c, BeginReject(h, o, c)
      PROVE  SerialInv' /\ UNCHANGED <<Phase, Asked, Server>>
  <2> DEFINE j == [Idle EXCEPT !.pc = "reject_offer", !.offer = o, !.cost = c]
  <2>1. JobInv(j)
    BY <1>5 DEF BeginReject, JobInv, Fresh, Idle
  <2> QED
    BY <1>5, <2>1, BeginsAlone, QuietStep DEF BeginReject
<1>6. ASSUME NEW o \in OfferIds, BeginComplete(h, o)
      PROVE  SerialInv' /\ UNCHANGED <<Phase, Asked, Server>>
  <2> DEFINE i == offer[o].incident
             j == [Idle EXCEPT !.pc = "complete_incident", !.offer = o,
                               !.incident = i, !.row = incident[i]]
  <2>1. incident[i].status # "none"
    BY <1>6 DEF BeginComplete, SerialInv, BookInv
  <2>2. JobInv(j)
    BY <2>1 DEF JobInv, Fresh, Idle
  <2> QED
    BY <1>6, <2>2, BeginsAlone, QuietStep DEF BeginComplete
<1> QED
  BY <1>1, <1>2, <1>3, <1>4, <1>5, <1>6

LEMMA QuietHandler ==
    ASSUME TypeInv, SerialInv, NEW h \in Threads,
           \/ AiLoad(h) \/ FindAndCreateOffer(h) \/ AcceptLoad(h)
           \/ PenaltyLoad(h) \/ PenaltyCommit(h)
           \/ ReleaseLoad(h) \/ ReleaseCommit(h)
           \/ BonusLoad(h) \/ BonusCommit(h) \/ Crash(h)
    PROVE  SerialInv' /\ UNCHANGED <<Phase, Asked, Server>>
<1> USE DEF At, Continue, Finish
<1>1. /\ incident' = incident
      /\ offer' = offer
      /\ job[h].pc # "idle"
  BY DEF AiLoad, FindAndCreateOffer, AcceptLoad, PenaltyLoad, PenaltyCommit,
         ReleaseLoad, ReleaseCommit, BonusLoad, BonusCommit, Crash
<1>2. OthersIdle(h)
  BY <1>1, Mine
<1>3. JobInv(job[h]) /\ job[h] \in Jobs
  BY DEF SerialInv, TypeInv, TypeOK
<1> DEFINE Moved == \E j : job' = [job EXCEPT ![h] = j] /\ JobInv(j)
<1>4. Moved
  <2>1. CASE AiLoad(h)
    <3> DEFINE j == [job[h] EXCEPT !.pc = "ai_result",
                                   !.row = incident[job[h].incident]]
    <3>1. JobInv(j)
      BY <1>3, <2>1 DEF AiLoad, JobInv, Fresh, Jobs
    <3> QED
      BY <2>1, <3>1 DEF AiLoad
  <2>2. CASE FindAndCreateOffer(h)
    <3>1. JobInv([Idle EXCEPT !.pc = "mark_no_offers", !.incident = job[h].incident,
                              !.row = incident[job[h].incident]])
      BY <1>3, <2>2 DEF FindAndCreateOffer, JobInv, Fresh, Idle
    <3>2. ASSUME NEW w
          PROVE  JobInv([Idle EXCEPT !.pc = "create_offer",
                           !.incident = job[h].incident, !.workshop = w])
      BY <1>3, <2>2 DEF FindAndCreateOffer, JobInv, Fresh, Idle
    <3> QED
      BY <2>2, <3>1, <3>2 DEF FindAndCreateOffer
  <2>3. CASE AcceptLoad(h)
    <3> DEFINE j == [job[h] EXCEPT !.pc = "accept_incident",
                       !.row = incident[offer[job[h].offer].incident],
                       !.free = job[h].technician # None
                                /\ available[job[h].technician]]
    <3>1. JobInv(j)
      BY <1>3, <2>3 DEF AcceptLoad, JobInv, Fresh, Jobs
    <3> QED
      BY <2>3, <3>1 DEF AcceptLoad
  <2>4. CASE PenaltyLoad(h)
    <3> DEFINE w == offer[job[h].offer].workshop
               j == [job[h] EXCEPT !.pc = "penalty_commit", !.workshop = w,
                                   !.pts = points[w], !.rej = rejections[w]]
    <3>1. JobInv(j)
      BY <1>3, <2>4 DEF PenaltyLoad, JobInv, Fresh, Jobs
    <3> QED
      BY <2>4, <3>1 DEF PenaltyLoad
  <2>5. CASE PenaltyCommit(h)
    <3> DEFINE j == [Idle EXCEPT !.pc = "find",
                                 !.incident = offer[job[h].offer].incident]
    <3>1. JobInv(j)
      BY <1>3, <2>5 DEF PenaltyCommit, JobInv, Fresh, Idle
    <3> QED
      BY <2>5, <3>1 DEF PenaltyCommit
  <2>6. CASE ReleaseLoad(h)
    <3> DEFINE t == incident[job[h].incident].technician
               j == [job[h] EXCEPT
                       !.pc = IF t = None THEN "bonus_load" ELSE "release_commit",
                       !.technician = t,
                       !.free = t # None /\ available[t]]
    <3>1. j.pc \in {"bonus_load", "release_commit"}
      BY <1>3 DEF Jobs
    <3>2. JobInv(j)
      BY <3>1 DEF JobInv, Fresh
    <3> QED
      BY <2>6, <3>2 DEF ReleaseLoad
  <2>7. CASE ReleaseCommit(h)
    <3> DEFINE j == [Idle EXCEPT !.pc = "bonus_load", !.offer = job[h].offer]
    <3>1. JobInv(j)
      BY DEF JobInv, Fresh, Idle
    <3> QED
      BY <2>7, <3>1 DEF ReleaseCommit
  <2>8. CASE BonusLoad(h)
    <3> DEFINE w == offer[job[h].offer].workshop
               j == [Idle EXCEPT !.pc = "bonus_commit", !.workshop = w,
                                 !.pts = points[w]]
    <3>1. JobInv(j)
      BY DEF JobInv, Fresh, Idle
    <3> QED
      BY <2>8, <3>1 DEF BonusLoad
  <2>9. CASE BonusCommit(h) \/ Crash(h)
    <3>1. JobInv(Idle)
      BY DEF JobInv, Fresh, Idle
    <3> QED
      BY <2>9, <3>1 DEF BonusCommit, Crash
  <2> QED
    BY <2>1, <2>2, <2>3, <2>4, <2>5, <2>6, <2>7, <2>8, <2>9
<1>5. PICK j : job' = [job EXCEPT ![h] = j] /\ JobInv(j)
  BY <1>4
<1> QED
  BY <1>1, <1>2, <1>5, QuietStep

-----------------------------------------------------------------------------
(* Commits of an incident's row.                                           *)

\* Nobody wrote the row since it was loaded.
LEMMA FlushOwn ==
    ASSUME NEW row, NEW new
    PROVE  Flush(row, new, row).status = new.status
BY DEF Flush

LEMMA RowStep ==
    ASSUME TypeInv, SerialInv, NEW h \in Threads, OthersIdle(h), NEW i \in Incidents,
           \A g \in Threads \ {h} : job'[g] = job[g],
           \A k \in Incidents \ {i} : incident'[k].status = incident[k].status,
           offer' = offer,
           incident'[i].status # "none",
           incident'[i].status \in Early => Standing(i) = {},
           LiveOffers(i) # {} => incident'[i].status \in Matching,
           incident'[i].status \in InService => AcceptedOffers(i) # {},
           JobInv(job[h])'
    PROVE  /\ SerialInv'
           /\ Phase' = [Phase EXCEPT ![i] = PhaseOf(incident'[i].status)]
           /\ UNCHANGED <<Asked, Server>>
BY StatusStep, JobsKeep DEF SerialInv

\* A step of the abstract specification, or none.
Kept == SerialInv' /\ [Promise!Next]_(Promise!referralVars)

LEMMA QuietKeeps ==
    ASSUME SerialInv', UNCHANGED <<Phase, Asked, Server>>
    PROVE  Kept
BY DEF Kept, Promise!referralVars

LEMMA PhaseKept ==
    ASSUME NEW i \in Incidents, SerialInv', UNCHANGED <<Asked, Server>>,
           Phase' = [Phase EXCEPT ![i] = PhaseOf(incident'[i].status)],
           \/ PhaseOf(incident'[i].status) = PhaseOf(incident[i].status)
           \/ incident[i].status = "none" /\ PhaseOf(incident'[i].status) = "open"
           \/ /\ incident[i].status = "completed"
              /\ PhaseOf(incident'[i].status) = "open"
           \/ /\ incident[i].status # "none"
              /\ PhaseOf(incident'[i].status) = "done"
    PROVE  Kept
<1>1. Phase[i] = PhaseOf(incident[i].status) /\ Phase \in [Incidents -> {Phase[k] : k \in Incidents}]
  BY DEF Phase
<1>2. CASE PhaseOf(incident'[i].status) = PhaseOf(incident[i].status)
  <2>1. Phase' = Phase
    BY <1>1, <1>2
  <2> QED
    BY <2>1, QuietKeeps
<1>3. CASE incident[i].status = "none" /\ PhaseOf(incident'[i].status) = "open"
  <2>1. Promise!Report(i)
    BY <1>1, <1>3 DEF Promise!Report, PhaseOf
  <2> QED
    BY <2>1 DEF Kept, Promise!Next
<1>4. CASE incident[i].status = "completed" /\ PhaseOf(incident'[i].status) = "open"
  <2>1. Promise!Reopen(i)
    BY <1>1, <1>4 DEF Promise!Reopen, PhaseOf
  <2> QED
    BY <2>1 DEF Kept, Promise!Next
<1>5. CASE incident[i].status # "none" /\ PhaseOf(incident'[i].status) = "done"
  <2>1. PhaseOf(incident[i].status) # "none"
    BY <1>5 DEF PhaseOf
  <2>2. Promise!Complete(i)
    BY <1>1, <1>5, <2>1 DEF Promise!Complete
  <2> QED
    BY <2>2 DEF Kept, Promise!Next
<1> QED
  BY <1>2, <1>3, <1>4, <1>5

\* request_help and the triage of an incident that is not matched yet.
LEMMA RequestHelpKeeps ==
    ASSUME TypeInv, SerialInv, MaxInFlight = 1, NEW h \in Threads,
           NEW i \in Incidents, RequestHelp(h, i)
    PROVE  Kept
<1> DEFINE j == [Idle EXCEPT !.pc = "request_analyzing", !.incident = i]
<1>1. OthersIdle(h) /\ job' = [job EXCEPT ![h] = j]
  BY BeginsAlone DEF RequestHelp
<1>2. job'[h] = j /\ \A g \in Threads \ {h} : job'[g] = job[g]
  BY <1>1 DEF TypeInv, TypeOK
<1>3. /\ incident' = [incident EXCEPT ![i].status = "pending"]
      /\ offer' = offer
      /\ incident[i].status = "none"
  BY DEF RequestHelp
<1>4. /\ incident'[i].status = "pending"
      /\ \A k \in Incidents \ {i} : incident'[k].status = incident[k].status
  BY <1>3 DEF TypeInv, TypeOK, IncidentRow
<1>5. Standing(i) = {} /\ LiveOffers(i) = {}
  BY <1>3 DEF SerialInv, BookInv, Early, Standing
<1>6. JobInv(job[h])'
  BY <1>2, <1>4 DEF JobInv, Fresh, Idle
<1>7. /\ SerialInv'
      /\ Phase' = [Phase EXCEPT ![i] = PhaseOf(incident'[i].status)]
      /\ UNCHANGED <<Asked, Server>>
  BY <1>1, <1>2, <1>3, <1>4, <1>5, <1>6, RowStep DEF Early, InService
<1> QED
  BY <1>3, <1>4, <1>7, PhaseKept DEF PhaseOf

\* A handler writes the status of the incident it works on.
LEMMA WriteKeeps ==
    ASSUME TypeInv, SerialInv, NEW h \in Threads, job[h].pc # "idle",
           NEW i \in Incidents, NEW row \in IncidentRow, NEW j,
           incident' = [incident EXCEPT ![i] = row], offer' = offer,
           job' = [job EXCEPT ![h] = j],
           row.status # "none",
           row.status \in Early => Standing(i) = {},
           LiveOffers(i) # {} => row.status \in Matching,
           row.status \in InService => AcceptedOffers(i) # {},
           JobInv(job[h])',
           \/ PhaseOf(row.status) = PhaseOf(incident[i].status)
           \/ incident[i].status = "completed" /\ PhaseOf(row.status) = "open"
           \/ incident[i].status # "none" /\ PhaseOf(row.status) = "done"
    PROVE  Kept
<1>1. OthersIdle(h)
  BY Mine
<1>2. \A g \in Threads \ {h} : job'[g] = job[g]
  BY DEF TypeInv, TypeOK
<1>3. /\ incident'[i] = row
      /\ \A k \in Incidents \ {i} : incident'[k].status = incident[k].status
  BY DEF TypeInv, TypeOK
<1>4. /\ SerialInv'
      /\ Phase' = [Phase EXCEPT ![i] = PhaseOf(incident'[i].status)]
      /\ UNCHANGED <<Asked, Server>>
  BY <1>1, <1>2, <1>3, RowStep
<1> QED
  BY <1>3, <1>4, PhaseKept

\* What a running handler may rely on.
LEMMA HandlerFacts ==
    ASSUME TypeInv, SerialInv, NEW h \in Threads
    PROVE  /\ job[h] \in Jobs
           /\ JobInv(job[h])
           /\ job[h].pc \in OnIncident => /\ job[h].incident \in Incidents
                                          /\ incident[job[h].incident] \in IncidentRow
           /\ job[h].pc \in OnOffer =>
                 /\ job[h].offer \in OfferIds
                 /\ offer[job[h].offer].status # "none"
                 /\ offer[job[h].offer].incident \in Incidents
                 /\ offer[job[h].offer].workshop \in Workshops
                 /\ incident[offer[job[h].offer].incident] \in IncidentRow
BY DEF SerialInv, TypeInv, TypeOK, JobsBound, OffersBound

\* An incident still in triage has never been offered to anybody.
LEMMA NotOffered ==
    ASSUME SerialInv, NEW i \in Incidents, incident[i].status \in Early
    PROVE  Standing(i) = {} /\ LiveOffers(i) = {} /\ AcceptedOffers(i) = {}
BY DEF SerialInv, BookInv, Standing

LEMMA TriageKeeps ==
    ASSUME TypeInv, SerialInv, NEW h \in Threads,
           \/ RequestAnalyzing(h) \/ EvidenceCommit(h)
           \/ \E near \in NearSets : AiSaveImages(h, near)
           \/ \E near \in NearSets \cup {job[h].row.near} :
                 AiPendingInfo(h, near) \/ AiMatched(h, near) \/ AiError(h, near)
    PROVE  Kept
<1> DEFINE i == job[h].incident
<1>1. /\ job[h].pc \in {"request_analyzing", "evidence_commit", "ai_result", "ai_status"}
      /\ offer' = offer
  BY DEF RequestAnalyzing, EvidenceCommit, AiSaveImages, AiPendingInfo,
         AiMatched, AiError, Triaged, At
<1>2. /\ job[h] \in Jobs /\ JobInv(job[h])
      /\ i \in Incidents /\ incident[i] \in IncidentRow
  BY <1>1, HandlerFacts DEF OnIncident
<1>3. /\ incident[i].status \in {"pending", "pending_info", "analyzing"}
      /\ job[h].pc # "request_analyzing" => job[h].row = incident[i]
  BY <1>1, <1>2 DEF JobInv, Fresh
<1>4. /\ Standing(i) = {} /\ LiveOffers(i) = {}
      /\ \A k : Standing(k)' = Standing(k)
  <2>1. Standing(i) = {} /\ LiveOffers(i) = {}
    BY <1>2, <1>3, NotOffered DEF Early
  <2>2. \A k : Standing(k)' = Standing(k)
    BY <1>1 DEF Standing, LiveOffers, AcceptedOffers
  <2> QED
    BY <2>1, <2>2
<1>5. ASSUME NEW near \in SUBSET Workshops, NEW s \in IncidentStatus,
             job[h].pc # "request_analyzing"
      PROVE  /\ Flush(job[h].row, [job[h].row EXCEPT !.near = near, !.status = s],
                       incident[i]) \in IncidentRow
             /\ Flush(job[h].row, [job[h].row EXCEPT !.near = near, !.status = s],
                       incident[i]).status = s
  <2>1. [incident[i] EXCEPT !.near = near, !.status = s] \in IncidentRow
    BY <1>2 DEF IncidentRow
  <2>2. [incident[i] EXCEPT !.near = near, !.status = s].status = s
    BY <1>2 DEF IncidentRow
  <2>3. job[h].row = incident[i]
    BY <1>3, <1>5
  <2> QED
    BY <1>2, <2>1, <2>2, <2>3, FlushType, FlushOwn
<1>6. \A near \in NearSets : near \in SUBSET Workshops
  BY DispatchAssumption
<1>7. job[h].row.near \in SUBSET Workshops /\ job[h].row.status \in IncidentStatus
  BY <1>2 DEF Jobs, IncidentRow
<1>8. ASSUME NEW row \in IncidentRow, NEW j,
             incident' = [incident EXCEPT ![i] = row],
             job' = [job EXCEPT ![h] = j],
             \/ /\ row.status = "analyzing" /\ j.pc \in {"ai_load", "ai_status"}
                /\ j.incident = i
                /\ j.pc = "ai_status" => j.row = row
             \/ row.status \in {"pending_info", "error"} /\ j.pc = "idle"
             \/ row.status = "matched" /\ j.pc = "find" /\ j.incident = i
      PROVE  Kept
  <2>1. job'[h] = j /\ incident'[i] = row
    BY <1>2, <1>8 DEF TypeInv, TypeOK
  <2>2. JobInv(job[h])'
    BY <1>4, <1>8, <2>1 DEF JobInv, Fresh, Matching
  <2>3. row.status \in {"analyzing", "pending_info", "error", "matched"}
    BY <1>8
  <2>4. PhaseOf(row.status) = PhaseOf(incident[i].status) /\ row.status # "none"
        /\ row.status \notin InService
    BY <1>3, <2>3 DEF PhaseOf, InService
  <2> QED
    BY <1>1, <1>2, <1>4, <1>8, <2>2, <2>4, WriteKeeps
<1>9. CASE RequestAnalyzing(h)
  <2> DEFINE row == [incident[i] EXCEPT !.status = "analyzing"]
             j == [job[h] EXCEPT !.pc = "ai_load"]
  <2>1. row \in IncidentRow /\ row.status = "analyzing"
    BY <1>2 DEF IncidentRow, IncidentStatus
  <2>2. incident' = [incident EXCEPT ![i] = row] /\ job' = [job EXCEPT ![h] = j]
    BY <1>9 DEF RequestAnalyzing, Continue
  <2>3. j.pc = "ai_load" /\ j.incident = i
    BY <1>2 DEF Jobs
  <2> QED
    BY <2>1, <2>2, <2>3, <1>8
<1>10. CASE EvidenceCommit(h)
  <2> DEFINE row == Flush(job[h].row, [job[h].row EXCEPT !.status = "analyzing"],
                          incident[i])
             j == [Idle EXCEPT !.pc = "ai_load", !.incident = i]
  <2>1. [incident[i] EXCEPT !.status = "analyzing"] \in IncidentRow
    BY <1>2 DEF IncidentRow, IncidentStatus
  <2>2. job[h].row = incident[i]
    BY <1>3, <1>10 DEF EvidenceCommit, At
  <2>3. row \in IncidentRow /\ row.status = "analyzing"
    BY <1>2, <2>1, <2>2, FlushType, FlushOwn DEF IncidentRow
  <2>4. incident' = [incident EXCEPT ![i] = row] /\ job' = [job EXCEPT ![h] = j]
    BY <1>10 DEF EvidenceCommit, Continue
  <2>5. j.pc = "ai_load" /\ j.incident = i
    BY DEF Idle
  <2> QED
    BY <2>3, <2>4, <2>5, <1>8
<1>11. ASSUME NEW near \in NearSets, AiSaveImages(h, near)
       PROVE  Kept
  <2> DEFINE row == Flush(job[h].row, [job[h].row EXCEPT !.near = near,
                                         !.status = job[h].row.status], incident[i])
             j == [job[h] EXCEPT !.pc = "ai_status", !.row = incident'[i]]
  <2>1. job[h].row.status = "analyzing" /\ job[h].pc = "ai_result"
    BY <1>2, <1>3, <1>11 DEF AiSaveImages, At, JobInv
  <2>2. row \in IncidentRow /\ row.status = "analyzing"
    BY <1>5, <1>6, <1>7, <2>1
  <2>3. incident' = [incident EXCEPT ![i] = row] /\ job' = [job EXCEPT ![h] = j]
    BY <1>11 DEF AiSaveImages, SaveTriage, Continue
  <2>4. incident'[i] = row
    BY <1>2, <2>3 DEF TypeInv, TypeOK
  <2>5. j.pc = "ai_status" /\ j.incident = i /\ j.row = row
    BY <1>2, <2>4 DEF Jobs
  <2> QED
    BY <2>2, <2>3, <2>5, <1>8
<1>12. ASSUME NEW near \in NearSets \cup {job[h].row.near},
              NEW s \in {"pending_info", "matched", "error"},
              SaveTriage(job[h], near, s), job[h].pc # "request_analyzing",
              NEW j, job' = [job EXCEPT ![h] = j],
              \/ s # "matched" /\ j.pc = "idle"
              \/ s = "matched" /\ j.pc = "find" /\ j.incident = i
       PROVE  Kept
  <2> DEFINE row == Flush(job[h].row, [job[h].row EXCEPT !.near = near,
                                                         !.status = s],
                          incident[i])
  <2>0. near \in SUBSET Workshops /\ s \in IncidentStatus
    BY <1>6, <1>7, <1>12 DEF IncidentStatus
  <2>1. row \in IncidentRow /\ row.status = s
    BY <1>5, <1>12, <2>0
  <2>2. incident' = [incident EXCEPT ![i] = row]
    BY <1>12 DEF SaveTriage
  <2> QED
    BY <1>12, <2>1, <2>2, <1>8
<1>13. ASSUME NEW near \in NearSets \cup {job[h].row.near}, AiPendingInfo(h, near)
       PROVE  Kept
  BY <1>12, <1>13, IdleType DEF AiPendingInfo, Triaged, At, Finish
<1>14. ASSUME NEW near \in NearSets \cup {job[h].row.near}, AiError(h, near)
       PROVE  Kept
  BY <1>12, <1>14, IdleType DEF AiError, Triaged, At, Finish
<1>15. ASSUME NEW near \in NearSets \cup {job[h].row.near}, AiMatched(h, near)
       PROVE  Kept
  <2> DEFINE j == [Idle EXCEPT !.pc = "find", !.incident = i]
  <2>1. j.pc = "find" /\ j.incident = i
    BY DEF Idle
  <2> QED
    BY <1>12, <1>15, <2>1 DEF AiMatched, Triaged, At, Continue
<1> QED
  BY <1>9, <1>10, <1>11, <1>13, <1>14, <1>15

\* The mechanic's arrival at an incident that has a workshop.
LEMMA ArrivalKeeps ==
    ASSUME TypeInv, SerialInv, NEW h \in Threads, job[h].pc # "idle",
           NEW i \in Incidents, NEW row \in IncidentRow,
           incident[i].status = "assigned", row.status = "in_progress",
           incident' = [incident EXCEPT ![i] = row], offer' = offer,
           job' = [job EXCEPT ![h] = Idle],
           LiveOffers(i) = {}, AcceptedOffers(i) # {}
    PROVE  Kept
<1>1. OthersIdle(h)
  BY Mine
<1>2. job'[h] = Idle /\ \A g \in Threads \ {h} : job'[g] = job[g]
  BY DEF TypeInv, TypeOK
<1>3. /\ incident'[i] = row
      /\ \A k \in Incidents \ {i} : incident'[k].status = incident[k].status
  BY DEF TypeInv, TypeOK
<1>4. JobInv(job[h])'
  BY <1>2, IdleType DEF JobInv, Fresh
<1>5. /\ row.status \notin Early /\ row.status # "none"
      /\ PhaseOf(row.status) = "served" /\ PhaseOf(incident[i].status) = "open"
  BY DEF Early, PhaseOf
<1>6. /\ SerialInv'
      /\ Phase' = [Phase EXCEPT ![i] = PhaseOf(incident'[i].status)]
      /\ UNCHANGED <<Asked, Server>>
  BY <1>1, <1>2, <1>3, <1>4, <1>5, RowStep
<1>7. Server[i] # None
  <2>1. (CHOOSE o \in AcceptedOffers(i) : TRUE) \in AcceptedOffers(i)
    OBVIOUS
  <2>2. \A o \in AcceptedOffers(i) : offer[o].workshop \in Workshops
    BY DEF AcceptedOffers, TypeInv, OffersBound
  <2> QED
    BY <2>1, <2>2, DispatchAssumption DEF Server, WorkshopOf
<1>8. Promise!Serve(i)
  BY <1>3, <1>5, <1>6, <1>7 DEF Promise!Serve, Phase
<1> QED
  BY <1>6, <1>8 DEF Kept, Promise!Next

\* The remaining commits of a row: the search's outcome, the acceptance, the
\* arrival and the completion.
LEMMA OutcomeKeeps ==
    ASSUME TypeInv, SerialInv, NEW h \in Threads,
           \/ MarkNoOffers(h) \/ MarkMatched(h) \/ AcceptIncident(h)
           \/ ArriveCommit(h) \/ CompleteIncident(h)
    PROVE  Kept
<1>1. /\ job[h] \in Jobs /\ JobInv(job[h])
      /\ job[h].pc \in OnIncident => /\ job[h].incident \in Incidents
                                     /\ incident[job[h].incident] \in IncidentRow
  BY HandlerFacts
<1>2. /\ offer' = offer
      /\ job[h].pc \in {"mark_no_offers", "mark_matched", "accept_incident",
                        "arrive_commit", "complete_incident"}
  BY DEF MarkNoOffers, MarkMatched, AcceptIncident, ArriveCommit,
         CompleteIncident, At
<1>3. ASSUME NEW i \in Incidents, NEW row \in IncidentRow, NEW j,
             incident' = [incident EXCEPT ![i] = row],
             job' = [job EXCEPT ![h] = j], j.pc \in {"idle", "release_load"},
             row.status \in Early => Standing(i) = {},
             LiveOffers(i) # {} => row.status \in Matching,
             row.status \in InService => AcceptedOffers(i) # {},
             \/ PhaseOf(row.status) = PhaseOf(incident[i].status)
             \/ incident[i].status = "completed" /\ PhaseOf(row.status) = "open"
             \/ incident[i].status # "none" /\ PhaseOf(row.status) = "done",
             row.status # "none"
      PROVE  Kept
  <2>1. job'[h] = j
    BY <1>3 DEF TypeInv, TypeOK
  <2>2. JobInv(job[h])'
    BY <1>3, <2>1 DEF JobInv, Fresh
  <2> QED
    BY <1>2, <1>3, <2>2, WriteKeeps
<1>4. ASSUME NEW i \in Incidents, job[h].row = incident[i],
             incident[i] \in IncidentRow, NEW s \in IncidentStatus
      PROVE  /\ Flush(job[h].row, [job[h].row EXCEPT !.status = s], incident[i])
                   \in IncidentRow
             /\ Flush(job[h].row, [job[h].row EXCEPT !.status = s],
                      incident[i]).status = s
  <2>1. [incident[i] EXCEPT !.status = s] \in IncidentRow
    BY <1>4 DEF IncidentRow
  <2>2. [incident[i] EXCEPT !.status = s].status = s
    BY <1>4 DEF IncidentRow
  <2> QED
    BY <1>4, <2>1, <2>2, FlushType, FlushOwn
<1>5. Idle.pc = "idle"
  BY IdleType
<1>6. CASE MarkNoOffers(h)
  <2> DEFINE i == job[h].incident
             row == Flush(job[h].row, [job[h].row EXCEPT !.status = "no_offers"],
                          incident[i])
  <2>1. job[h].pc = "mark_no_offers"
    BY <1>6 DEF MarkNoOffers, At
  <2>2. /\ i \in Incidents /\ incident[i] \in IncidentRow
        /\ job[h].row = incident[i]
        /\ incident[i].status \in Matching /\ Standing(i) = {}
    BY <1>1, <2>1 DEF OnIncident, JobInv, Fresh
  <2>3. row \in IncidentRow /\ row.status = "no_offers"
    BY <1>4, <2>2 DEF IncidentStatus
  <2>4. incident' = [incident EXCEPT ![i] = row] /\ job' = [job EXCEPT ![h] = Idle]
    BY <1>6 DEF MarkNoOffers, Finish
  <2>5. LiveOffers(i) = {}
    BY <2>2 DEF Standing
  <2>6. \/ PhaseOf(row.status) = PhaseOf(incident[i].status)
        \/ incident[i].status = "completed" /\ PhaseOf(row.status) = "open"
    BY <2>2, <2>3 DEF PhaseOf, Matching
  <2> QED
    BY <1>3, <1>5, <2>2, <2>3, <2>4, <2>5, <2>6 DEF InService
<1>7. CASE MarkMatched(h)
  <2> DEFINE i == job[h].incident
             row == [incident[i] EXCEPT !.status = "matched"]
  <2>1. job[h].pc = "mark_matched"
    BY <1>7 DEF MarkMatched, At
  <2>2. /\ i \in Incidents /\ incident[i] \in IncidentRow
        /\ incident[i].status \in Matching
    BY <1>1, <2>1 DEF OnIncident, JobInv
  <2>3. row \in IncidentRow /\ row.status = "matched"
    BY <2>2 DEF IncidentRow, IncidentStatus
  <2>4. incident' = [incident EXCEPT ![i] = row] /\ job' = [job EXCEPT ![h] = Idle]
    BY <1>7 DEF MarkMatched, Finish
  <2>5. \/ PhaseOf(row.status) = PhaseOf(incident[i].status)
        \/ incident[i].status = "completed" /\ PhaseOf(row.status) = "open"
    BY <2>2, <2>3 DEF PhaseOf, Matching
  <2>6. row.status \notin Early \cup InService /\ row.status \in Matching
    BY <2>3 DEF Early, InService, Matching
  <2> QED
    BY <1>3, <1>5, <2>2, <2>3, <2>4, <2>5, <2>6
<1>8. CASE AcceptIncident(h)
  <2> DEFINE o == job[h].offer
             i == offer[o].incident
             t == job[h].technician
             new == [job[h].row EXCEPT !.status = "assigned",
                                       !.workshop = offer[o].workshop,
                                       !.technician = IF t = None THEN @ ELSE t]
             row == Flush(job[h].row, new, incident[i])
  <2>1. job[h].pc = "accept_incident"
    BY <1>8 DEF AcceptIncident, At
  <2>2. /\ o \in OfferIds /\ i \in Incidents /\ incident[i] \in IncidentRow
        /\ offer[o].workshop \in Workshops
    BY <2>1, HandlerFacts DEF OnOffer
  <2>3. /\ job[h].row = incident[i]
        /\ offer[o].status = "accepted" /\ incident[i].status \in Matching
    BY <1>1, <2>1 DEF JobInv
  <2>4. t \in Technicians \cup {None}
    BY <1>1 DEF Jobs
  <2>5. new \in IncidentRow /\ new.status = "assigned"
    <3>1. job[h].row.technician \in Technicians \cup {None}
      BY <2>2, <2>3 DEF IncidentRow
    <3>2. (IF t = None THEN job[h].row.technician ELSE t) \in Technicians \cup {None}
      BY <2>4, <3>1
    <3> QED
      BY <2>2, <2>3, <3>2 DEF IncidentRow, IncidentStatus
  <2>6. /\ incident' = [incident EXCEPT ![i] = row]
        /\ job' = [job EXCEPT ![h] = Idle]
    BY <1>8 DEF AcceptIncident, Finish
  <2> HIDE DEF new
  <2>7. row \in IncidentRow /\ row.status = "assigned"
    BY <2>2, <2>3, <2>5, FlushType, FlushOwn
  <2>8. o \in AcceptedOffers(i)
    BY <2>2, <2>3 DEF AcceptedOffers
  <2>9. LiveOffers(i) = {}
    BY <2>2, <2>3, <2>8 DEF SerialInv, BookInv, Standing, LiveOffers
  <2>10. \/ PhaseOf(row.status) = PhaseOf(incident[i].status)
         \/ incident[i].status = "completed" /\ PhaseOf(row.status) = "open"
    BY <2>3, <2>7 DEF PhaseOf, Matching
  <2>11. row.status \notin Early
    BY <2>7 DEF Early
  <2> HIDE DEF row, i
  <2> QED
    BY <1>3, <1>5, <2>2, <2>7, <2>6, <2>8, <2>9, <2>10, <2>11
<1>9. CASE ArriveCommit(h)
  <2> DEFINE i == job[h].incident
             row == Flush(job[h].row, [job[h].row EXCEPT !.status = "in_progress"],
                          incident[i])
  <2>1. job[h].pc = "arrive_commit"
    BY <1>9 DEF ArriveCommit, At
  <2>2. /\ i \in Incidents /\ incident[i] \in IncidentRow
        /\ job[h].row = incident[i] /\ incident[i].status = "assigned"
    BY <1>1, <2>1 DEF OnIncident, JobInv, Fresh
  <2>3. row \in IncidentRow /\ row.status = "in_progress"
    BY <1>4, <2>2 DEF IncidentStatus
  <2>4. incident' = [incident EXCEPT ![i] = row] /\ job' = [job EXCEPT ![h] = Idle]
    BY <1>9 DEF ArriveCommit, Finish
  <2>5. LiveOffers(i) = {} /\ AcceptedOffers(i) # {}
    BY <2>2 DEF SerialInv, BookInv, InService, Matching
  <2> QED
    BY <1>1, <1>2, <2>1, <2>2, <2>3, <2>4, <2>5, ArrivalKeeps
<1>10. CASE CompleteIncident(h)
  <2> DEFINE i == job[h].incident
             row == Flush(job[h].row, [job[h].row EXCEPT !.status = "completed"],
                          incident[i])
             j == [Idle EXCEPT !.pc = "release_load", !.offer = job[h].offer,
                               !.incident = i]
  <2>1. job[h].pc = "complete_incident"
    BY <1>10 DEF CompleteIncident, At
  <2>2. /\ i \in Incidents /\ incident[i] \in IncidentRow
        /\ job[h].row = incident[i] /\ incident[i].status # "none"
    BY <1>1, <2>1 DEF OnIncident, JobInv, Fresh
  <2>3. row \in IncidentRow /\ row.status = "completed"
    BY <1>4, <2>2 DEF IncidentStatus
  <2>4. incident' = [incident EXCEPT ![i] = row] /\ job' = [job EXCEPT ![h] = j]
    BY <1>10 DEF CompleteIncident, Continue
  <2>5. j.pc = "release_load"
    BY DEF Idle
  <2>6. /\ PhaseOf(row.status) = "done"
        /\ row.status \notin Early \cup InService /\ row.status \in Matching
    BY <2>3 DEF PhaseOf, Early, InService, Matching
  <2> QED
    BY <1>3, <2>2, <2>3, <2>4, <2>5, <2>6
<1> QED
  BY <1>6, <1>7, <1>8, <1>9, <1>10

-----------------------------------------------------------------------------
(* Commits of an offer's row.                                              *)

\* Named, so that the provers carry these two facts through unopened.
AskedBecomes(i, w) == Asked' = [Asked EXCEPT ![i] = w]
ServerBecomes(i, w) == Server' = [Server EXCEPT ![i] = w]

\* One offer of an incident in search changes, and no other row.
LEMMA OneOfferStep ==
    ASSUME TypeInv, SerialInv, NEW h \in Threads, job[h].pc # "idle",
           NEW i \in Incidents, NEW o \in OfferIds, NEW w \in Workshops, NEW j,
           incident' = incident,
           \A p \in OfferIds \ {o} : offer'[p] = offer[p],
           \/ offer[o].status = "none"
           \/ offer[o].incident = i /\ offer[o].workshop = w,
           offer'[o].incident = i, offer'[o].workshop = w,
           offer'[o].status # "none",
           incident[i].status \in Matching,
           Standing(i) \subseteq {o},
           job' = [job EXCEPT ![h] = j], JobInv(job[h])'
    PROVE  /\ SerialInv'
           /\ Phase' = Phase
           /\ offer'[o].status = "notified" => AskedBecomes(i, w)
           /\ offer'[o].status # "notified" => AskedBecomes(i, None)
           /\ offer'[o].status = "accepted" => ServerBecomes(i, w)
           /\ offer'[o].status # "accepted" => ServerBecomes(i, None)
<1>1. OthersIdle(h) /\ \A g \in Threads \ {h} : job'[g] = job[g]
  BY Mine DEF TypeInv, TypeOK
<1>2. ASSUME NEW k \in Incidents \ {i}
      PROVE  /\ LiveOffers(k)' = LiveOffers(k)
             /\ AcceptedOffers(k)' = AcceptedOffers(k)
             /\ o \notin LiveOffers(k) \cup AcceptedOffers(k)
  BY DEF LiveOffers, AcceptedOffers
<1>3. /\ LiveOffers(i)' = IF offer'[o].status = "notified" THEN {o} ELSE {}
      /\ AcceptedOffers(i)' = IF offer'[o].status = "accepted" THEN {o} ELSE {}
  <2>1. ASSUME NEW p \in OfferIds \ {o}, offer[p].incident = i
        PROVE  offer[p].status \notin {"notified", "accepted"}
    BY <2>1 DEF Standing, LiveOffers, AcceptedOffers
  <2> QED
    BY <2>1 DEF LiveOffers, AcceptedOffers
<1>4. BookInv'
  <2>1. ASSUME NEW k \in Incidents \ {i}
        PROVE  /\ \A q, p \in Standing(k)' : q = p
               /\ incident'[k].status \in Early => Standing(k)' = {}
               /\ LiveOffers(k)' # {} => incident'[k].status \in Matching
               /\ incident'[k].status \in InService => AcceptedOffers(k)' # {}
    BY <1>2 DEF SerialInv, BookInv, Standing
  <2>2. /\ \A q, p \in Standing(i)' : q = p
        /\ incident'[i].status \in Early => Standing(i)' = {}
        /\ LiveOffers(i)' # {} => incident'[i].status \in Matching
        /\ incident'[i].status \in InService => AcceptedOffers(i)' # {}
    BY <1>3 DEF Standing, Early, Matching, InService
  <2>3. ASSUME NEW p \in OfferIds, offer'[p].status # "none"
        PROVE  incident'[offer'[p].incident].status # "none"
    <3>1. CASE p = o
      BY <3>1 DEF Matching
    <3>2. CASE p # o
      BY <2>3, <3>2 DEF SerialInv, BookInv
    <3> QED
      BY <3>1, <3>2
  <2> QED
    BY <2>1, <2>2, <2>3 DEF BookInv
<1>5. SerialInv'
  BY <1>1, <1>4, JobsKeep DEF SerialInv
<1>6. Phase' = Phase
  BY DEF Phase, PhaseOf
<1>7. ASSUME NEW k \in Incidents \ {i}
      PROVE  WorkshopOf(LiveOffers(k))' = WorkshopOf(LiveOffers(k))
  <2>1. LiveOffers(k)' = LiveOffers(k) /\ o \notin LiveOffers(k)
    BY <1>2
  <2>2. \A p \in LiveOffers(k) : offer'[p] = offer[p]
    BY <2>1 DEF LiveOffers
  <2>3. CASE LiveOffers(k) = {}
    BY <2>1, <2>3 DEF WorkshopOf
  <2>4. CASE LiveOffers(k) # {}
    <3>1. (CHOOSE p \in LiveOffers(k) : TRUE) \in LiveOffers(k)
      BY <2>4
    <3> QED
      BY <2>1, <2>2, <2>4, <3>1 DEF WorkshopOf
  <2> QED
    BY <2>3, <2>4
<1>8. ASSUME NEW k \in Incidents \ {i}
      PROVE  WorkshopOf(AcceptedOffers(k))' = WorkshopOf(AcceptedOffers(k))
  <2>1. AcceptedOffers(k)' = AcceptedOffers(k) /\ o \notin AcceptedOffers(k)
    BY <1>2
  <2>2. \A p \in AcceptedOffers(k) : offer'[p] = offer[p]
    BY <2>1 DEF AcceptedOffers
  <2>3. CASE AcceptedOffers(k) = {}
    BY <2>1, <2>3 DEF WorkshopOf
  <2>4. CASE AcceptedOffers(k) # {}
    <3>1. (CHOOSE p \in AcceptedOffers(k) : TRUE) \in AcceptedOffers(k)
      BY <2>4
    <3> QED
      BY <2>1, <2>2, <2>4, <3>1 DEF WorkshopOf
  <2> QED
    BY <2>3, <2>4
<1>9. /\ WorkshopOf(LiveOffers(i))' =
            IF offer'[o].status = "notified" THEN w ELSE None
      /\ WorkshopOf(AcceptedOffers(i))' =
            IF offer'[o].status = "accepted" THEN w ELSE None
  <2>1. (CHOOSE p \in {o} : TRUE) = o
    OBVIOUS
  <2> QED
    BY <1>3, <2>1 DEF WorkshopOf
<1>10. /\ offer'[o].status = "notified" => AskedBecomes(i, w)
       /\ offer'[o].status # "notified" => AskedBecomes(i, None)
  BY <1>7, <1>9 DEF Asked, AskedBecomes
<1>11. /\ offer'[o].status = "accepted" => ServerBecomes(i, w)
       /\ offer'[o].status # "accepted" => ServerBecomes(i, None)
  BY <1>8, <1>9 DEF Server, ServerBecomes
<1> QED
  BY <1>5, <1>6, <1>10, <1>11

LEMMA CreateOfferKeeps ==
    ASSUME TypeInv, SerialInv, NEW h \in Threads, CreateOffer(h)
    PROVE  Kept
<1> DEFINE i == job[h].incident
           w == job[h].workshop
           j == [job[h] EXCEPT !.pc = "mark_matched", !.workshop = None]
<1>1. job[h].pc = "create_offer"
  BY DEF CreateOffer, At
<1>2. /\ i \in Incidents /\ w \in Workshops /\ job[h] \in Jobs
      /\ incident[i].status \in Matching /\ Standing(i) = {}
  BY <1>1, HandlerFacts DEF OnIncident, OnWorkshop, JobInv, TypeInv, JobsBound
<1>3. PICK o \in Unused :
         offer' = [offer EXCEPT ![o] = [NoOffer EXCEPT !.status = "notified",
                                                       !.incident = i,
                                                       !.workshop = w]]
  BY DEF CreateOffer
<1>4. /\ o \in OfferIds /\ offer[o].status = "none"
      /\ offer'[o].status = "notified" /\ offer'[o].incident = i
      /\ offer'[o].workshop = w
      /\ \A p \in OfferIds \ {o} : offer'[p] = offer[p]
  BY <1>3 DEF Unused, NoOffer, TypeInv, TypeOK
<1>5. job' = [job EXCEPT ![h] = j] /\ incident' = incident
  BY DEF CreateOffer, Continue
<1>6. job'[h] = j /\ j.pc = "mark_matched" /\ j.incident = i
  BY <1>2, <1>5 DEF TypeInv, TypeOK, Jobs
<1>7. JobInv(job[h])'
  BY <1>2, <1>5, <1>6 DEF JobInv, Fresh
<1>8. /\ SerialInv' /\ Phase' = Phase
      /\ AskedBecomes(i, w)
      /\ ServerBecomes(i, None)
  <2>1. /\ job[h].pc # "idle" /\ Standing(i) \subseteq {o}
        /\ offer'[o].status # "none" /\ offer'[o].status # "accepted"
    BY <1>1, <1>2, <1>4
  <2>2. /\ SerialInv' /\ Phase' = Phase
        /\ offer'[o].status = "notified" => AskedBecomes(i, w)
        /\ offer'[o].status # "accepted" => ServerBecomes(i, None)
    <3> HIDE DEF i, w, j
    <3> QED
      BY <1>2, <1>4, <1>5, <1>7, <2>1, OneOfferStep
  <2> QED
    BY <1>4, <2>1, <2>2, Zenon
<1>9. Asked[i] = None /\ Server[i] = None
  BY <1>2 DEF Asked, Server, WorkshopOf, Standing
<1>10. Server' = Server
  BY <1>8, <1>9 DEF Server, ServerBecomes
<1>11. Phase[i] \in {"open", "done"}
  BY <1>2 DEF Phase, PhaseOf, Matching
<1>12. Promise!Ask(i, w)
  BY <1>8, <1>9, <1>10, <1>11 DEF Promise!Ask, AskedBecomes
<1> QED
  BY <1>2, <1>8, <1>12 DEF Kept, Promise!Next

\* The workshop's answer to the offer it holds.
LEMMA AnswerKeeps ==
    ASSUME TypeInv, SerialInv, NEW h \in Threads, AcceptOffer(h) \/ RejectOffer(h)
    PROVE  Kept
<1> DEFINE o == job[h].offer
           i == offer[o].incident
           w == offer[o].workshop
<1>1. job[h].pc \in {"accept_offer", "reject_offer"}
  BY DEF AcceptOffer, RejectOffer, At
<1>2. /\ o \in OfferIds /\ i \in Incidents /\ w \in Workshops /\ job[h] \in Jobs
      /\ offer[o].status = "notified"
  BY <1>1, HandlerFacts DEF OnOffer, JobInv
<1>3. o \in LiveOffers(i)
  BY <1>2 DEF LiveOffers
<1>4. /\ incident[i].status \in Matching
      /\ LiveOffers(i) = {o} /\ AcceptedOffers(i) = {} /\ Standing(i) = {o}
  <2>1. Standing(i) = {o}
    BY <1>2, <1>3 DEF SerialInv, BookInv, Standing
  <2>2. AcceptedOffers(i) = {}
    BY <1>2, <2>1 DEF Standing, AcceptedOffers
  <2> QED
    BY <1>2, <1>3, <2>1, <2>2 DEF SerialInv, BookInv, Standing
<1>5. Asked[i] = w /\ Server[i] = None /\ w # None
  <2>1. (CHOOSE p \in {o} : TRUE) = o
    OBVIOUS
  <2> QED
    BY <1>2, <1>4, <2>1, DispatchAssumption DEF Asked, Server, WorkshopOf
<1>6. CASE AcceptOffer(h)
  <2> DEFINE j == [job[h] EXCEPT !.pc = "accept_load"]
  <2>1. /\ offer'[o].status = "accepted" /\ offer'[o].incident = i
        /\ offer'[o].workshop = w
        /\ \A p \in OfferIds \ {o} : offer'[p] = offer[p]
    BY <1>2, <1>6 DEF AcceptOffer, TypeInv, TypeOK, OfferRow
  <2>2. job' = [job EXCEPT ![h] = j] /\ incident' = incident
    BY <1>6 DEF AcceptOffer, Continue
  <2>3. job'[h] = j /\ j.pc = "accept_load" /\ j.offer = o
    BY <1>2, <2>2 DEF TypeInv, TypeOK, Jobs
  <2>4. JobInv(job[h])'
    BY <1>4, <2>1, <2>2, <2>3 DEF JobInv, Fresh
  <2>5. /\ SerialInv' /\ Phase' = Phase
        /\ AskedBecomes(i, None)
        /\ ServerBecomes(i, w)
    <3>1. /\ offer'[o].status # "none" /\ offer'[o].status # "notified"
          /\ job[h].pc # "idle" /\ Standing(i) \subseteq {o}
          /\ offer[o].incident = i /\ offer[o].workshop = w
      BY <1>1, <1>4, <2>1
    <3>2. /\ SerialInv' /\ Phase' = Phase
          /\ offer'[o].status # "notified" => AskedBecomes(i, None)
          /\ offer'[o].status = "accepted" => ServerBecomes(i, w)
      <4> HIDE DEF o, i, w, j
      <4> QED
        BY <1>2, <1>4, <2>1, <2>2, <2>4, <3>1, OneOfferStep
    <3> QED
      BY <2>1, <3>1, <3>2, Zenon
  <2>6. Promise!Take(i)
    BY <1>5, <2>5 DEF Promise!Take, AskedBecomes, ServerBecomes
  <2> QED
    BY <1>2, <2>5, <2>6 DEF Kept, Promise!Next
<1>7. CASE RejectOffer(h)
  <2> DEFINE j == [job[h] EXCEPT !.pc = "penalty_load"]
  <2>1. /\ offer'[o].status = "rejected" /\ offer'[o].incident = i
        /\ offer'[o].workshop = w
        /\ \A p \in OfferIds \ {o} : offer'[p] = offer[p]
    BY <1>2, <1>7 DEF RejectOffer, TypeInv, TypeOK, OfferRow
  <2>2. job' = [job EXCEPT ![h] = j] /\ incident' = incident
    BY <1>7 DEF RejectOffer, Continue
  <2>3. job'[h] = j /\ j.pc = "penalty_load" /\ j.offer = o
    BY <1>2, <2>2 DEF TypeInv, TypeOK, Jobs
  <2>4. LiveOffers(i) \subseteq {o} /\ AcceptedOffers(i) \subseteq {o}
    BY <1>4
  <2>5. \A k : k = i => Standing(k)' = {}
    BY <2>1, <2>4 DEF Standing, LiveOffers, AcceptedOffers
  <2>6. JobInv(job[h])'
    BY <1>4, <2>1, <2>2, <2>3, <2>5 DEF JobInv, Fresh
  <2>7. /\ SerialInv' /\ Phase' = Phase
        /\ AskedBecomes(i, None)
        /\ ServerBecomes(i, None)
    <3>1. /\ offer'[o].status \notin {"none", "notified", "accepted"}
          /\ job[h].pc # "idle" /\ Standing(i) \subseteq {o}
          /\ offer[o].incident = i /\ offer[o].workshop = w
      BY <1>1, <1>4, <2>1
    <3>2. /\ SerialInv' /\ Phase' = Phase
          /\ offer'[o].status # "notified" => AskedBecomes(i, None)
          /\ offer'[o].status # "accepted" => ServerBecomes(i, None)
      <4> HIDE DEF o, i, w, j
      <4> QED
        BY <1>2, <1>4, <2>1, <2>2, <2>6, <3>1, OneOfferStep
    <3>3. offer'[o].status # "notified" /\ offer'[o].status # "accepted"
      BY <3>1
    <3> QED
      BY <3>2, <3>3, Zenon
  <2>8. Server' = Server
    BY <1>5, <2>7 DEF Server, ServerBecomes
  <2>9. Promise!Decline(i)
    BY <1>5, <2>7, <2>8 DEF Promise!Decline, AskedBecomes
  <2> QED
    BY <1>2, <2>7, <2>9 DEF Kept, Promise!Next
<1> QED
  BY <1>6, <1>7

\* A cancellation changes the incident's row and withdraws its offer at once.
LEMMA CancelKeeps ==
    ASSUME TypeInv, SerialInv, NEW h \in Threads, CancelCommit(h)
    PROVE  Kept
<1>1. job[h].pc = "cancel_commit"
  BY DEF CancelCommit, At
<1>2. PICK i : i = job[h].incident
  OBVIOUS
<1>3. /\ i \in Incidents /\ incident[i] \in IncidentRow /\ job[h].row = incident[i]
      /\ incident[i].status \in Cancellable /\ job[h].live = LiveOffers(i)
  BY <1>1, <1>2, HandlerFacts DEF OnIncident, JobInv, Fresh
<1>4. [job[h].row EXCEPT !.status = "cancelled"].status = "cancelled"
  BY <1>3 DEF IncidentRow
<1>5. incident' = [incident EXCEPT ![i] =
                     Flush(job[h].row, [job[h].row EXCEPT !.status = "cancelled"], @)]
  BY <1>2 DEF CancelCommit
<1>6. /\ incident'[i].status = "cancelled"
      /\ \A k \in Incidents \ {i} : incident'[k] = incident[k]
  <2> DEFINE row == Flush(incident[i], [incident[i] EXCEPT !.status = "cancelled"],
                          incident[i])
  <2>0. [incident[i] EXCEPT !.status = "cancelled"].status = "cancelled"
    BY <1>3 DEF IncidentRow
  <2>1. row.status = "cancelled"
    BY <2>0, FlushOwn
  <2>2. incident' = [incident EXCEPT ![i] = row]
    BY <1>3, <1>5
  <2> HIDE DEF row
  <2> QED
    BY <1>3, <2>1, <2>2 DEF TypeInv, TypeOK
<1>7. offer' = [o \in OfferIds |-> IF o \in LiveOffers(i)
                                   THEN [offer[o] EXCEPT !.status = "expired",
                                                         !.overdue = FALSE]
                                   ELSE offer[o]]
  BY <1>3 DEF CancelCommit
<1>8. \A o \in OfferIds : /\ offer'[o].incident = offer[o].incident
                          /\ offer'[o].workshop = offer[o].workshop
                          /\ offer'[o].status = IF o \in LiveOffers(i)
                                                THEN "expired" ELSE offer[o].status
  BY <1>7 DEF TypeInv, TypeOK, OfferRow
<1>9. /\ LiveOffers(i)' = {}
      /\ \A k \in Incidents \ {i} : LiveOffers(k)' = LiveOffers(k)
      /\ \A k \in Incidents : AcceptedOffers(k)' = AcceptedOffers(k)
  BY <1>8 DEF LiveOffers, AcceptedOffers
<1>10. OthersIdle(h) /\ job'[h] = Idle /\ \A g \in Threads \ {h} : job'[g] = job[g]
  BY <1>1, Mine DEF CancelCommit, Finish, TypeInv, TypeOK
<1>11. JobInv(job[h])'
  BY <1>10, IdleType DEF JobInv, Fresh
<1>12. BookInv'
  <2>1. ASSUME NEW k \in Incidents \ {i}
        PROVE  /\ \A q, p \in Standing(k)' : q = p
               /\ incident'[k].status \in Early => Standing(k)' = {}
               /\ LiveOffers(k)' # {} => incident'[k].status \in Matching
               /\ incident'[k].status \in InService => AcceptedOffers(k)' # {}
    BY <1>6, <1>9 DEF SerialInv, BookInv, Standing
  <2>2. /\ \A q, p \in Standing(i)' : q = p
        /\ incident'[i].status \in Early => Standing(i)' = {}
        /\ LiveOffers(i)' # {} => incident'[i].status \in Matching
        /\ incident'[i].status \in InService => AcceptedOffers(i)' # {}
    BY <1>3, <1>6, <1>9 DEF SerialInv, BookInv, Standing, Early, InService
  <2>3. ASSUME NEW p \in OfferIds, offer'[p].status # "none"
        PROVE  incident'[offer'[p].incident].status # "none"
    <3>1. offer[p].status # "none"
      BY <1>8, <2>3 DEF LiveOffers
    <3>2. /\ offer[p].incident \in Incidents
          /\ incident[offer[p].incident].status # "none"
      BY <3>1 DEF SerialInv, BookInv, TypeInv, OffersBound
    <3> QED
      BY <1>6, <1>8, <3>2
  <2> QED
    BY <2>1, <2>2, <2>3 DEF BookInv
<1>13. SerialInv'
  BY <1>10, <1>11, <1>12, JobsKeep DEF SerialInv
<1>14. Phase' = [Phase EXCEPT ![i] = "cancelled"] /\ Phase[i] = "open"
  <2>1. PhaseOf(incident[i].status) = "open"
    BY <1>3 DEF PhaseOf, Cancellable
  <2> QED
    BY <1>3, <1>6, <2>1 DEF Phase, PhaseOf
<1>15. ASSUME NEW k \in Incidents \ {i}
       PROVE  WorkshopOf(LiveOffers(k))' = WorkshopOf(LiveOffers(k))
  <2>1. LiveOffers(k)' = LiveOffers(k)
    BY <1>9
  <2>2. \A p \in LiveOffers(k) : offer'[p].workshop = offer[p].workshop
    BY <1>8 DEF LiveOffers
  <2>3. CASE LiveOffers(k) = {}
    BY <2>1, <2>3 DEF WorkshopOf
  <2>4. CASE LiveOffers(k) # {}
    <3>1. (CHOOSE p \in LiveOffers(k) : TRUE) \in LiveOffers(k)
      BY <2>4
    <3> QED
      BY <2>1, <2>2, <2>4, <3>1 DEF WorkshopOf
  <2> QED
    BY <2>3, <2>4
<1>16. ASSUME NEW k \in Incidents
       PROVE  WorkshopOf(AcceptedOffers(k))' = WorkshopOf(AcceptedOffers(k))
  <2>1. AcceptedOffers(k)' = AcceptedOffers(k)
    BY <1>9
  <2>2. \A p \in AcceptedOffers(k) : offer'[p].workshop = offer[p].workshop
    BY <1>8 DEF AcceptedOffers
  <2>3. CASE AcceptedOffers(k) = {}
    BY <2>1, <2>3 DEF WorkshopOf
  <2>4. CASE AcceptedOffers(k) # {}
    <3>1. (CHOOSE p \in AcceptedOffers(k) : TRUE) \in AcceptedOffers(k)
      BY <2>4
    <3> QED
      BY <2>1, <2>2, <2>4, <3>1 DEF WorkshopOf
  <2> QED
    BY <2>3, <2>4
<1>17. Asked' = [Asked EXCEPT ![i] = None]
  <2>1. WorkshopOf(LiveOffers(i))' = None
    BY <1>9 DEF WorkshopOf
  <2> QED
    BY <1>15, <2>1 DEF Asked
<1>18. Server' = Server
  BY <1>16 DEF Server
<1>19. Promise!Cancel(i)
  BY <1>14, <1>17, <1>18 DEF Promise!Cancel
<1> QED
  BY <1>3, <1>13, <1>19 DEF Kept, Promise!Next

-----------------------------------------------------------------------------
(* Every step.                                                             *)

\* Time passes for an offer, or a workshop's cooldown is cleared.
LEMMA AgeKeeps ==
    ASSUME TypeInv, SerialInv,
           \/ \E o \in OfferIds : OfferRunsOut(o) \/ CooldownRunsOut(o)
           \/ \E w \in Workshops : ClearCooldown(w)
    PROVE  Kept
<1>1. incident' = incident /\ job' = job
  BY DEF OfferRunsOut, CooldownRunsOut, ClearCooldown
<1>2. \A o \in OfferIds : /\ offer'[o].status = offer[o].status
                          /\ offer'[o].incident = offer[o].incident
                          /\ offer'[o].workshop = offer[o].workshop
  BY DEF OfferRunsOut, CooldownRunsOut, ClearCooldown, TypeInv, TypeOK, OfferRow
<1>3. /\ BookInv'
      /\ \A i : LiveOffers(i)' = LiveOffers(i) /\ AcceptedOffers(i)' = AcceptedOffers(i)
      /\ UNCHANGED <<Phase, Asked, Server>>
  BY <1>1, <1>2, AgedOffers DEF SerialInv
<1>4. \A i : Standing(i)' = Standing(i)
  BY <1>3 DEF Standing
<1>5. ASSUME NEW h \in Threads PROVE JobInv(job[h])'
  <2>1. /\ JobInv(job[h])
        /\ job[h].pc \in OnOffer => job[h].offer \in OfferIds
    BY HandlerFacts
  <2>2. CASE job[h].pc \in OnOffer
    <3>1. /\ offer'[job[h].offer].status = offer[job[h].offer].status
          /\ offer'[job[h].offer].incident = offer[job[h].offer].incident
      BY <1>2, <2>1, <2>2
    <3> QED
      BY <1>1, <1>3, <1>4, <2>1, <3>1 DEF JobInv
  <2>3. CASE job[h].pc \notin OnOffer
    BY <1>1, <1>3, <1>4, <2>1, <2>3 DEF JobInv, OnOffer
  <2> QED
    BY <2>2, <2>3
<1>6. SerialInv'
  BY <1>1, <1>3, <1>5 DEF SerialInv, Alone
<1> QED
  BY <1>3, <1>6, QuietKeeps

LEMMA IdleKeeps ==
    ASSUME TypeInv, SerialInv, UNCHANGED <<incident, offer, job>>
    PROVE  Kept
<1>1. /\ BookInv'
      /\ \A i : LiveOffers(i)' = LiveOffers(i) /\ AcceptedOffers(i)' = AcceptedOffers(i)
      /\ UNCHANGED <<Phase, Asked, Server>>
  BY SameBooks DEF SerialInv
<1>2. \A i : Standing(i)' = Standing(i)
  BY <1>1 DEF Standing
<1>3. ASSUME NEW h \in Threads PROVE JobInv(job[h])'
  BY <1>1, <1>2 DEF SerialInv, JobInv
<1>4. SerialInv'
  BY <1>1, <1>3 DEF SerialInv, Alone
<1> QED
  BY <1>1, <1>4, QuietKeeps

LEMMA RequestKeeps ==
    ASSUME TypeInv, SerialInv, MaxInFlight = 1, NEW h \in Threads, Request(h)
    PROVE  Kept
<1>1. ASSUME NEW i \in Incidents, RequestHelp(h, i) PROVE Kept
  BY <1>1, RequestHelpKeeps
<1>2. ASSUME \/ \E i \in Incidents : \/ AddEvidence(h, i)
                                     \/ BeginCancel(h, i)
                                     \/ BeginArrive(h, i)
             \/ \E o \in OfferIds : \E t : BeginAccept(h, o, t)
             \/ \E o \in OfferIds : \E c : BeginReject(h, o, c)
             \/ \E o \in OfferIds : BeginComplete(h, o)
      PROVE  Kept
  BY <1>2, QuietRequest, QuietKeeps
<1> QED
  BY <1>1, <1>2 DEF Request

LEMMA ProceedKeeps ==
    ASSUME TypeInv, SerialInv, NEW h \in Threads, Proceed(h) \/ Crash(h)
    PROVE  Kept
<1>1. CASE \/ RequestAnalyzing(h) \/ EvidenceCommit(h)
           \/ \E near \in NearSets : AiSaveImages(h, near)
           \/ \E near \in NearSets \cup {job[h].row.near} :
                 AiPendingInfo(h, near) \/ AiMatched(h, near) \/ AiError(h, near)
  BY <1>1, TriageKeeps
<1>2. CASE \/ MarkNoOffers(h) \/ MarkMatched(h) \/ AcceptIncident(h)
           \/ ArriveCommit(h) \/ CompleteIncident(h)
  BY <1>2, OutcomeKeeps
<1>3. CASE \/ AiLoad(h) \/ FindAndCreateOffer(h) \/ AcceptLoad(h)
           \/ PenaltyLoad(h) \/ PenaltyCommit(h)
           \/ ReleaseLoad(h) \/ ReleaseCommit(h)
           \/ BonusLoad(h) \/ BonusCommit(h) \/ Crash(h)
  BY <1>3, QuietHandler, QuietKeeps
<1>4. CASE CreateOffer(h)
  BY <1>4, CreateOfferKeeps
<1>5. CASE AcceptOffer(h) \/ RejectOffer(h)
  BY <1>5, AnswerKeeps
<1>6. CASE CancelCommit(h)
  BY <1>6, CancelKeeps
<1> QED
  BY <1>1, <1>2, <1>3, <1>4, <1>5, <1>6 DEF Proceed

LEMMA NextKeeps ==
    ASSUME MaxInFlight = 1, TypeInv, SerialInv, [Next]_vars
    PROVE  Kept
<1>1. ASSUME NEW h \in Threads, Request(h) PROVE Kept
  BY <1>1, RequestKeeps
<1>2. ASSUME NEW h \in Threads, Proceed(h) \/ Crash(h) PROVE Kept
  BY <1>2, ProceedKeeps
<1>3. ASSUME NEW o \in OfferIds, Timeouts(o) PROVE Kept
  BY <1>3, QuietRequest, QuietKeeps DEF Timeouts, ProcessTimeout
<1>4. CASE \/ \E o \in OfferIds : OfferRunsOut(o) \/ CooldownRunsOut(o)
           \/ \E w \in Workshops : ClearCooldown(w)
  BY <1>4, AgeKeeps
<1>5. ASSUME NEW t \in Technicians, NEW b \in Toggles, UpdateTechnician(t, b)
      PROVE  Kept
  BY <1>5, IdleKeeps DEF UpdateTechnician
<1>6. CASE UNCHANGED vars
  BY <1>6, IdleKeeps DEF vars
<1> QED
  BY <1>1, <1>2, <1>3, <1>4, <1>5, <1>6 DEF Next

LEMMA InitKeeps == Init => SerialInv /\ Promise!Init
<1> SUFFICES ASSUME Init PROVE SerialInv /\ Promise!Init
  OBVIOUS
<1>1. \A i : LiveOffers(i) = {} /\ AcceptedOffers(i) = {}
  BY DEF Init, NoOffer, LiveOffers, AcceptedOffers
<1>2. BookInv
  BY <1>1 DEF Init, NewIncident, NoOffer, BookInv, Standing, InService
<1>3. SerialInv
  BY <1>2, IdleType DEF Init, SerialInv, Alone, JobInv, Fresh
<1>4. Promise!Init
  BY <1>1 DEF Init, NewIncident, Promise!Init, Phase, PhaseOf, Asked, Server,
              WorkshopOf
<1> QED
  BY <1>3, <1>4

(* Whatever the numbers of incidents, workshops, technicians and offers,   *)
(* and wherever an instance dies: while handlers do not overlap, every     *)
(* commit of request_help, the triage, find_and_create_offer, accept_offer,*)
(* reject_offer, cancel_incident, the arrival and complete_offer is a step *)
(* of Referral or invisible to it.                                         *)
THEOREM ReferralImplemented ==
    ASSUME MaxInFlight = 1
    PROVE  Spec => KeepsPromise
<1>1. Init => TypeInv /\ SerialInv /\ Promise!Init
  BY InitType, InitKeeps
<1>2. TypeInv /\ SerialInv /\ [Next]_vars =>
         TypeInv' /\ SerialInv' /\ [Promise!Next]_(Promise!referralVars)
  BY NextType, NextKeeps DEF Kept
<1> QED
  BY <1>1, <1>2, PTL DEF Spec, KeepsPromise, Promise!Spec

(* find_and_create_offer's promise of a single exclusive offer, under the  *)
(* same condition.                                                         *)
THEOREM OfferExclusive ==
    ASSUME MaxInFlight = 1
    PROVE  Spec => []SingleExclusiveOffer
<1>1. Init => TypeInv /\ SerialInv
  BY InitType, InitKeeps
<1>2. TypeInv /\ SerialInv /\ [Next]_vars => TypeInv' /\ SerialInv'
  BY NextType, NextKeeps DEF Kept
<1>3. SerialInv => SingleExclusiveOffer
  <2> SUFFICES ASSUME SerialInv, NEW i \in Incidents
               PROVE  Cardinality(LiveOffers(i)) <= 1
    BY DEF SingleExclusiveOffer
  <2>1. CASE LiveOffers(i) = {}
    BY <2>1, FS_EmptySet
  <2>2. CASE LiveOffers(i) # {}
    <3>1. PICK o : o \in LiveOffers(i)
      BY <2>2
    <3>2. LiveOffers(i) = {o}
      BY <3>1 DEF SerialInv, BookInv, Standing
    <3> QED
      BY <3>2, FS_Singleton
  <2> QED
    BY <2>1, <2>2
<1> QED
  BY <1>1, <1>2, <1>3, PTL DEF Spec

-----------------------------------------------------------------------------
(* What is left to do.                                                     *)

\* A thread that searches for a workshop, or will when it is done.
Caring(j, i) ==
    \/ j.pc \in {"find", "create_offer", "mark_no_offers"} /\ j.incident = i
    \/ /\ j.pc \in {"accept_load", "accept_incident", "penalty_load",
                    "penalty_commit"}
       /\ offer[j.offer].incident = i

CareOf(j) ==
    /\ \A i \in Incidents :
          incident[i].status = "matched" => LiveOffers(i) # {} \/ Caring(j, i)
    /\ j.pc = "mark_matched" => LiveOffers(j.incident) # {}

Rejected(w) ==
    {o \in OfferIds : offer[o].workshop = w /\ offer[o].status = "rejected"}

\* The offer is rejected, and the workshop's counter is still to follow.
Owing(j, w) ==
    /\ j.pc \in {"penalty_load", "penalty_commit"}
    /\ offer[j.offer].workshop = w

CountOf(j) ==
    /\ \A w \in Workshops :
          Cardinality(Rejected(w)) =
              IF Owing(j, w) THEN rejections[w] + 1 ELSE rejections[w]
    /\ j.pc = "penalty_commit" => /\ j.workshop = offer[j.offer].workshop
                                  /\ j.rej = rejections[j.workshop]

Served(t) ==
    \E i \in Incidents : /\ incident[i].technician = t
                         /\ incident[i].status \in InService

\* The incident is completed, and its technician is still to be given back.
Releasing(j, t) ==
    /\ j.pc \in {"release_load", "release_commit"}
    /\ incident[j.incident].technician = t

\* What the session remembers of a technician is still true.
FreeFits(j) ==
    /\ /\ j.pc \in {"accept_incident", "cancel_commit", "release_commit"}
       /\ j.technician # None
       => j.free = available[j.technician]
    /\ j.pc \in {"cancel_commit", "release_commit"} =>
          j.technician = incident[j.incident].technician
    /\ j.pc = "release_commit" => j.technician # None

StaffOf(j) ==
    /\ Toggles \subseteq {TRUE} =>
          \A t \in Technicians : ~available[t] => Served(t) \/ Releasing(j, t)
    /\ FreeFits(j)

DeskInv(j) == CareOf(j) /\ CountOf(j) /\ StaffOf(j)

\* The only busy thread accounts for everything the tables leave open.
OfficeInv ==
    /\ Busy = {} => DeskInv(Idle)
    /\ \A h \in Busy : DeskInv(job[h])

LEMMA IdleDesk ==
    ASSUME NEW j, j.pc = "idle"
    PROVE  DeskInv(j) <=> DeskInv(Idle)
BY IdleType DEF DeskInv, CareOf, CountOf, StaffOf, Caring, Owing, Releasing, FreeFits

LEMMA DeskBefore ==
    ASSUME OfficeInv, NEW h \in Threads, OthersIdle(h)
    PROVE  DeskInv(job[h])
<1>1. CASE job[h].pc = "idle"
  <2>1. Busy = {}
    BY <1>1 DEF Busy, OthersIdle
  <2> QED
    BY <1>1, <2>1, IdleDesk DEF OfficeInv
<1>2. CASE job[h].pc # "idle"
  BY <1>2 DEF OfficeInv, Busy
<1> QED
  BY <1>1, <1>2

LEMMA DeskAfter ==
    ASSUME NEW h \in Threads, OthersIdle(h),
           \A g \in Threads \ {h} : job'[g] = job[g],
           DeskInv(job[h])'
    PROVE  OfficeInv'
<1>1. \A g \in Threads \ {h} : job'[g].pc = "idle"
  BY DEF OthersIdle
<1>2. CASE job'[h].pc = "idle"
  <2>1. Busy' = {}
    BY <1>1, <1>2 DEF Busy
  <2>2. DeskInv(Idle)'
    BY <1>2, IdleType DEF DeskInv, CareOf, CountOf, StaffOf, Caring, Owing,
                          Releasing, FreeFits
  <2> QED
    BY <2>1, <2>2 DEF OfficeInv
<1>3. CASE job'[h].pc # "idle"
  <2>1. Busy' = {h}
    BY <1>1, <1>3 DEF Busy
  <2> QED
    BY <2>1 DEF OfficeInv
<1> QED
  BY <1>2, <1>3

-----------------------------------------------------------------------------
(* Steps that only move a thread.                                          *)

LEMMA QuietDesk ==
    ASSUME NEW h \in Threads, DeskInv(job[h]),
           UNCHANGED <<incident, offer, rejections, available>>,
           \A i \in Incidents : Caring(job[h], i) => Caring(job'[h], i),
           \A w \in Workshops : Owing(job'[h], w) <=> Owing(job[h], w),
           \A t \in Technicians : Releasing(job[h], t) => Releasing(job'[h], t),
           job'[h].pc # "mark_matched",
           job'[h].pc = "penalty_commit" =>
              /\ job'[h].workshop = offer[job'[h].offer].workshop
              /\ job'[h].rej = rejections[job'[h].workshop],
           FreeFits(job'[h])
    PROVE  DeskInv(job[h])'
<1>1. \A i : LiveOffers(i)' = LiveOffers(i)
  BY DEF LiveOffers
<1>2. \A w : Rejected(w)' = Rejected(w)
  BY DEF Rejected
<1>3. \A t : Served(t)' = Served(t)
  BY DEF Served
<1>4. CareOf(job[h])'
  BY <1>1 DEF DeskInv, CareOf, Caring
<1>5. CountOf(job[h])'
  BY <1>2 DEF DeskInv, CountOf, Owing
<1>6. StaffOf(job[h])'
  BY <1>3 DEF DeskInv, StaffOf, Releasing, FreeFits
<1> QED
  BY <1>4, <1>5, <1>6 DEF DeskInv

\* The labels at which a thread owes nothing to an offer, a counter or a
\* technician.
Carefree ==
    {"idle", "request_analyzing", "ai_load", "ai_result", "ai_status",
     "accept_offer", "reject_offer", "arrive_commit", "complete_incident",
     "evidence_commit", "bonus_load", "bonus_commit"}

LEMMA CarefreeLabels ==
    \A j : j.pc \in Carefree =>
        /\ j.pc # "mark_matched" /\ j.pc # "penalty_commit" /\ FreeFits(j)
        /\ \A i : ~Caring(j, i) /\ ~Owing(j, i) /\ ~Releasing(j, i)
BY DEF Carefree, FreeFits, Caring, Owing, Releasing

LEMMA CarefreeStep ==
    ASSUME NEW h \in Threads, OfficeInv, OthersIdle(h), 
           NEW j, job' = [job EXCEPT ![h] = j], TypeInv,
           UNCHANGED <<incident, offer, rejections, available>>,
           job[h].pc \in Carefree, j.pc \in Carefree
    PROVE  OfficeInv'
<1>1. job'[h] = j /\ \A g \in Threads \ {h} : job'[g] = job[g]
  BY DEF TypeInv, TypeOK
<1>2. DeskInv(job[h])
  BY DeskBefore
<1>3. DeskInv(job[h])'
  BY <1>1, <1>2, CarefreeLabels, QuietDesk
<1> QED
  BY <1>1, <1>3, DeskAfter

LEMMA RequestOffice ==
    ASSUME TypeInv, SerialInv, OfficeInv, MaxInFlight = 1, NEW h \in Threads,
           \/ \E i \in Incidents : \/ AddEvidence(h, i)
                                   \/ BeginCancel(h, i)
                                   \/ BeginArrive(h, i)
           \/ \E o \in OfferIds : \E t : BeginAccept(h, o, t)
           \/ \E o \in OfferIds : \E c : BeginReject(h, o, c)
           \/ \E o \in OfferIds : BeginComplete(h, o)
    PROVE  OfficeInv'
<1>1. /\ UNCHANGED <<incident, offer, rejections, available>>
      /\ job[h].pc = "idle"
  BY DEF AddEvidence, BeginCancel, BeginArrive, BeginAccept, BeginReject,
         BeginComplete, Begin, workshopVars
<1>2. job[h].pc \in Carefree
  BY <1>1 DEF Carefree
<1>3. ASSUME NEW j, Begin(h, j), j.pc \in Carefree
      PROVE  OfficeInv'
  BY <1>1, <1>2, <1>3, BeginsAlone, CarefreeStep
<1>4. ASSUME NEW i \in Incidents, AddEvidence(h, i)
      PROVE  OfficeInv'
  <2> DEFINE j == [Idle EXCEPT !.pc = "evidence_commit", !.incident = i,
                               !.row = incident[i]]
  <2>1. j.pc \in Carefree
    BY DEF Carefree, Idle
  <2> QED
    BY <1>3, <1>4, <2>1 DEF AddEvidence
<1>5. ASSUME NEW i \in Incidents, BeginArrive(h, i)
      PROVE  OfficeInv'
  <2> DEFINE j == [Idle EXCEPT !.pc = "arrive_commit", !.incident = i,
                               !.row = incident[i]]
  <2>1. j.pc \in Carefree
    BY DEF Carefree, Idle
  <2> QED
    BY <1>3, <1>5, <2>1 DEF BeginArrive
<1>6. ASSUME NEW o \in OfferIds, NEW t, BeginAccept(h, o, t)
      PROVE  OfficeInv'
  <2> DEFINE j == [Idle EXCEPT !.pc = "accept_offer", !.offer = o,
                               !.technician = t]
  <2>1. j.pc \in Carefree
    BY DEF Carefree, Idle
  <2> QED
    BY <1>3, <1>6, <2>1 DEF BeginAccept
<1>7. ASSUME NEW o \in OfferIds, NEW c, BeginReject(h, o, c)
      PROVE  OfficeInv'
  <2> DEFINE j == [Idle EXCEPT !.pc = "reject_offer", !.offer = o, !.cost = c]
  <2>1. j.pc \in Carefree
    BY DEF Carefree, Idle
  <2> QED
    BY <1>3, <1>7, <2>1 DEF BeginReject
<1>8. ASSUME NEW o \in OfferIds, BeginComplete(h, o)
      PROVE  OfficeInv'
  <2> DEFINE j == [Idle EXCEPT !.pc = "complete_incident", !.offer = o,
                               !.incident = offer[o].incident,
                               !.row = incident[offer[o].incident]]
  <2>1. j.pc \in Carefree
    BY DEF Carefree, Idle
  <2> QED
    BY <1>3, <1>8, <2>1 DEF BeginComplete
<1>9. ASSUME NEW i \in Incidents, BeginCancel(h, i)
      PROVE  OfficeInv'
  <2> DEFINE t == incident[i].technician
             j == [Idle EXCEPT !.pc = "cancel_commit", !.incident = i,
                               !.technician = t, !.row = incident[i],
                               !.free = t # None /\ available[t],
                               !.live = LiveOffers(i)]
  <2>1. OthersIdle(h) /\ job' = [job EXCEPT ![h] = j]
    BY <1>9, BeginsAlone DEF BeginCancel
  <2>2. job'[h] = j /\ \A g \in Threads \ {h} : job'[g] = job[g]
    BY <2>1 DEF TypeInv, TypeOK
  <2>3. /\ j.pc = "cancel_commit" /\ j.incident = i /\ j.technician = t
        /\ j.free = (t # None /\ available[t])
    BY DEF Idle
  <2>4. t # None => available[t] \in BOOLEAN
    BY DEF TypeInv, TypeOK, IncidentRow
  <2>5. FreeFits(j)
    BY <2>3, <2>4 DEF FreeFits
  <2>6. \A k : ~Owing(j, k) /\ ~Caring(job[h], k) /\ ~Owing(job[h], k)
               /\ ~Releasing(job[h], k)
    BY <1>1, <2>3 DEF Owing, Caring, Releasing
  <2>7. DeskInv(job[h])
    BY <2>1, DeskBefore
  <2>8. DeskInv(job[h])'
    <3> HIDE DEF j
    <3> QED
      BY <1>1, <2>2, <2>3, <2>5, <2>6, <2>7, QuietDesk
  <2> QED
    BY <2>1, <2>2, <2>8, DeskAfter
<1> QED
  BY <1>4, <1>5, <1>6, <1>7, <1>8, <1>9

\* A step of the busy thread that changes no table the desk depends on.
LEMMA QuietOffice ==
    ASSUME NEW h \in Threads, TypeInv, OfficeInv, OthersIdle(h),
           NEW j, job' = [job EXCEPT ![h] = j],
           UNCHANGED <<incident, offer, rejections, available>>,
           \A i \in Incidents : Caring(job[h], i) => Caring(j, i),
           \A w \in Workshops : Owing(j, w) <=> Owing(job[h], w),
           \A t \in Technicians : Releasing(job[h], t) => Releasing(j, t),
           j.pc # "mark_matched",
           j.pc = "penalty_commit" => /\ j.workshop = offer[j.offer].workshop
                                      /\ j.rej = rejections[j.workshop],
           FreeFits(j)
    PROVE  OfficeInv'
<1>1. job'[h] = j /\ \A g \in Threads \ {h} : job'[g] = job[g]
  BY DEF TypeInv, TypeOK
<1>2. DeskInv(job[h])
  BY DeskBefore
<1>3. DeskInv(job[h])'
  BY <1>1, <1>2, QuietDesk
<1> QED
  BY <1>1, <1>3, DeskAfter

LEMMA LoadOffice ==
    ASSUME TypeInv, SerialInv, OfficeInv, NEW h \in Threads,
           \/ AiLoad(h) \/ FindAndCreateOffer(h) \/ AcceptLoad(h)
           \/ PenaltyLoad(h) \/ ReleaseLoad(h) \/ BonusLoad(h) \/ BonusCommit(h)
    PROVE  OfficeInv'
<1> USE DEF At, Continue, Finish
<1>1. /\ UNCHANGED <<incident, offer, rejections, available>>
      /\ job[h].pc # "idle"
  BY DEF AiLoad, FindAndCreateOffer, AcceptLoad, PenaltyLoad, ReleaseLoad,
         BonusLoad, BonusCommit, workshopVars
<1>2. OthersIdle(h) /\ job[h] \in Jobs
  BY <1>1, Mine DEF TypeInv, TypeOK
<1>3. ASSUME NEW j, job' = [job EXCEPT ![h] = j], job[h].pc \in Carefree,
             j.pc \in Carefree
      PROVE  OfficeInv'
  BY <1>1, <1>2, <1>3, CarefreeStep
<1>4. CASE AiLoad(h)
  <2> DEFINE j == [job[h] EXCEPT !.pc = "ai_result",
                                 !.row = incident[job[h].incident]]
  <2>1. job[h].pc \in Carefree /\ j.pc \in Carefree
    BY <1>2, <1>4 DEF AiLoad, Carefree, Jobs
  <2> QED
    BY <1>3, <1>4, <2>1 DEF AiLoad
<1>5. CASE BonusLoad(h)
  <2> DEFINE w == offer[job[h].offer].workshop
             j == [Idle EXCEPT !.pc = "bonus_commit", !.workshop = w,
                               !.pts = points[w]]
  <2>1. job[h].pc \in Carefree /\ j.pc \in Carefree
    BY <1>5 DEF BonusLoad, Carefree, Idle
  <2> QED
    BY <1>3, <1>5, <2>1 DEF BonusLoad
<1>6. CASE BonusCommit(h)
  <2>1. job[h].pc \in Carefree /\ Idle.pc \in Carefree
    BY <1>6, IdleType DEF BonusCommit, Carefree
  <2> QED
    BY <1>3, <1>6, <2>1 DEF BonusCommit
<1>7. CASE FindAndCreateOffer(h)
  <2>1. ASSUME NEW j, job' = [job EXCEPT ![h] = j],
               j.pc \in {"mark_no_offers", "create_offer"},
               j.incident = job[h].incident
        PROVE  OfficeInv'
    <3>1. job[h].pc = "find"
      BY <1>7 DEF FindAndCreateOffer
    <3>2. /\ FreeFits(j) /\ j.pc # "mark_matched" /\ j.pc # "penalty_commit"
          /\ \A i : Caring(job[h], i) => Caring(j, i)
          /\ \A k : ~Owing(job[h], k) /\ ~Owing(j, k) /\ ~Releasing(job[h], k)
      BY <2>1, <3>1 DEF FreeFits, Caring, Owing, Releasing
    <3> QED
      BY <1>1, <1>2, <2>1, <3>2, QuietOffice
  <2> DEFINE none == [Idle EXCEPT !.pc = "mark_no_offers",
                                  !.incident = job[h].incident,
                                  !.row = incident[job[h].incident]]
             some(w) == [Idle EXCEPT !.pc = "create_offer",
                                     !.incident = job[h].incident, !.workshop = w]
  <2>2. none.pc = "mark_no_offers" /\ none.incident = job[h].incident
    BY DEF Idle
  <2>3. \A w : some(w).pc = "create_offer" /\ some(w).incident = job[h].incident
    BY DEF Idle
  <2>4. \/ job' = [job EXCEPT ![h] = none]
        \/ \E w : job' = [job EXCEPT ![h] = some(w)]
    BY <1>7 DEF FindAndCreateOffer
  <2> HIDE DEF none, some
  <2> QED
    BY <2>1, <2>2, <2>3, <2>4
<1>8. CASE AcceptLoad(h)
  <2> DEFINE j == [job[h] EXCEPT !.pc = "accept_incident",
                     !.row = incident[offer[job[h].offer].incident],
                     !.free = job[h].technician # None
                              /\ available[job[h].technician]]
  <2>1. job[h].pc = "accept_load" /\ job' = [job EXCEPT ![h] = j]
    BY <1>8 DEF AcceptLoad
  <2>2. /\ j.pc = "accept_incident" /\ j.technician = job[h].technician
        /\ j.offer = job[h].offer
        /\ j.free = (job[h].technician # None /\ available[job[h].technician])
    BY <1>2 DEF Jobs
  <2>3. job[h].technician # None => available[job[h].technician] \in BOOLEAN
    BY <1>2 DEF Jobs, TypeInv, TypeOK
  <2> HIDE DEF j
  <2>4. FreeFits(j)
    BY <2>2, <2>3 DEF FreeFits
  <2>5. /\ \A i : Caring(job[h], i) => Caring(j, i)
        /\ \A k : ~Owing(job[h], k) /\ ~Owing(j, k) /\ ~Releasing(job[h], k)
    BY <2>1, <2>2 DEF Caring, Owing, Releasing
  <2> QED
    BY <1>1, <1>2, <2>1, <2>2, <2>4, <2>5, QuietOffice
<1>9. CASE PenaltyLoad(h)
  <2> DEFINE w == offer[job[h].offer].workshop
             j == [job[h] EXCEPT !.pc = "penalty_commit", !.workshop = w,
                                 !.pts = points[w], !.rej = rejections[w]]
  <2>1. job[h].pc = "penalty_load" /\ job' = [job EXCEPT ![h] = j]
    BY <1>9 DEF PenaltyLoad
  <2>2. /\ j.pc = "penalty_commit" /\ j.offer = job[h].offer
        /\ j.workshop = w /\ j.rej = rejections[w]
    BY <1>2 DEF Jobs
  <2> HIDE DEF j
  <2>3. FreeFits(j)
    BY <2>2 DEF FreeFits
  <2>4. /\ \A i : Caring(job[h], i) => Caring(j, i)
        /\ \A k : Owing(j, k) <=> Owing(job[h], k)
        /\ \A k : ~Releasing(job[h], k)
    BY <2>1, <2>2 DEF Caring, Owing, Releasing
  <2>5. /\ j.workshop = offer[j.offer].workshop
        /\ j.rej = rejections[j.workshop]
    BY <2>2
  <2> QED
    BY <1>1, <1>2, <2>1, <2>2, <2>3, <2>4, <2>5, QuietOffice
<1>10. CASE ReleaseLoad(h)
  <2> DEFINE t == incident[job[h].incident].technician
             j == [job[h] EXCEPT
                     !.pc = IF t = None THEN "bonus_load" ELSE "release_commit",
                     !.technician = t,
                     !.free = t # None /\ available[t]]
  <2>1. job[h].pc = "release_load" /\ job' = [job EXCEPT ![h] = j]
    BY <1>10 DEF ReleaseLoad
  <2>2. /\ j.pc = IF t = None THEN "bonus_load" ELSE "release_commit"
        /\ j.incident = job[h].incident /\ j.technician = t
        /\ j.free = (t # None /\ available[t])
    BY <1>2 DEF Jobs
  <2>3. t # None => available[t] \in BOOLEAN
    BY <2>1, HandlerFacts DEF OnIncident, IncidentRow, TypeInv, TypeOK
  <2> HIDE DEF j
  <2>4. FreeFits(j)
    BY <2>2, <2>3 DEF FreeFits
  <2>5. /\ \A k : ~Caring(job[h], k) /\ ~Owing(j, k) /\ ~Owing(job[h], k)
        /\ \A k \in Technicians : Releasing(job[h], k) => Releasing(j, k)
        /\ j.pc # "mark_matched" /\ j.pc # "penalty_commit"
    BY <2>1, <2>2, DispatchAssumption DEF Caring, Owing, Releasing
  <2> QED
    BY <1>1, <1>2, <2>1, <2>4, <2>5, QuietOffice
<1> QED
  BY <1>4, <1>5, <1>6, <1>7, <1>8, <1>9, <1>10

\* The counter follows the rejected offer.
LEMMA PenaltyOffice ==
    ASSUME TypeInv, SerialInv, OfficeInv, NEW h \in Threads, PenaltyCommit(h)
    PROVE  OfficeInv'
<1> DEFINE j == [Idle EXCEPT !.pc = "find",
                             !.incident = offer[job[h].offer].incident]
           w == job[h].workshop
<1>1. /\ job[h].pc = "penalty_commit" /\ job' = [job EXCEPT ![h] = j]
      /\ rejections' = [rejections EXCEPT ![w] = job[h].rej + 1]
      /\ UNCHANGED <<incident, offer, available>>
  BY DEF PenaltyCommit, At, Continue
<1>2. j.pc = "find" /\ j.incident = offer[job[h].offer].incident
  BY DEF Idle
<1>3. OthersIdle(h) /\ w \in Workshops /\ rejections \in [Workshops -> Nat]
  <2>1. OthersIdle(h)
    BY <1>1, Mine
  <2>2. w \in Workshops
    BY <1>1 DEF TypeInv, JobsBound, OnWorkshop
  <2> QED
    BY <2>1, <2>2 DEF TypeInv, TypeOK
<1> HIDE DEF j
<1>4. job'[h] = j /\ \A g \in Threads \ {h} : job'[g] = job[g]
  BY <1>1 DEF TypeInv, TypeOK
<1>5. DeskInv(job[h])
  BY <1>3, DeskBefore
<1>6. CareOf(job[h])'
  <2>1. \A i : LiveOffers(i)' = LiveOffers(i)
    BY <1>1 DEF LiveOffers
  <2> QED
    BY <1>1, <1>2, <1>4, <1>5, <2>1 DEF DeskInv, CareOf, Caring
<1>7. CountOf(job[h])'
  <2>1. \A k : Rejected(k)' = Rejected(k)
    BY <1>1 DEF Rejected
  <2>2. \A k : ~Owing(job[h], k)'
    BY <1>2, <1>4 DEF Owing
  <2>3. w = offer[job[h].offer].workshop /\ job[h].rej = rejections[w]
    BY <1>1, <1>5 DEF DeskInv, CountOf
  <2>4. \A k : Owing(job[h], k) <=> k = w
    BY <1>1, <2>3 DEF Owing
  <2>5. \A k \in Workshops : Cardinality(Rejected(k)) = rejections'[k]
    <3> SUFFICES ASSUME NEW k \in Workshops
                 PROVE  Cardinality(Rejected(k)) = rejections'[k]
      OBVIOUS
    <3>1. Cardinality(Rejected(k)) = IF k = w THEN rejections[k] + 1 ELSE rejections[k]
      BY <1>5, <2>4 DEF DeskInv, CountOf
    <3>2. rejections'[k] = IF k = w THEN rejections[k] + 1 ELSE rejections[k]
      BY <1>1, <1>3, <2>3
    <3> QED
      BY <3>1, <3>2
  <2> QED
    BY <1>2, <1>4, <2>1, <2>2, <2>5 DEF CountOf
<1>8. StaffOf(job[h])'
  <2>1. \A t : Served(t)' = Served(t)
    BY <1>1 DEF Served
  <2>2. \A t : ~Releasing(job[h], t)
    BY <1>1 DEF Releasing
  <2>3. FreeFits(job[h])'
    BY <1>2, <1>4 DEF FreeFits
  <2> QED
    BY <1>1, <1>5, <2>1, <2>2, <2>3 DEF DeskInv, StaffOf
<1> QED
  BY <1>3, <1>4, <1>6, <1>7, <1>8, DeskAfter DEF DeskInv

\* A completed incident's technician is available again.
LEMMA ReleaseOffice ==
    ASSUME TypeInv, SerialInv, OfficeInv, NEW h \in Threads, ReleaseCommit(h)
    PROVE  OfficeInv'
<1> DEFINE j == [Idle EXCEPT !.pc = "bonus_load", !.offer = job[h].offer]
           t == job[h].technician
<1>1. /\ job[h].pc = "release_commit" /\ job' = [job EXCEPT ![h] = j]
      /\ available' = [available EXCEPT ![t] = FlushValue(job[h].free, TRUE, @)]
      /\ UNCHANGED <<incident, offer, rejections>>
  BY DEF ReleaseCommit, At, Continue, workshopVars
<1>2. j.pc = "bonus_load"
  BY DEF Idle
<1> HIDE DEF j
<1>3. OthersIdle(h) /\ job'[h] = j /\ \A g \in Threads \ {h} : job'[g] = job[g]
  BY <1>1, Mine DEF TypeInv, TypeOK
<1>4. DeskInv(job[h])
  BY <1>3, DeskBefore
<1>5. /\ t # None /\ t = incident[job[h].incident].technician
      /\ job[h].free = available[t]
  BY <1>1, <1>4 DEF DeskInv, StaffOf, FreeFits
<1>6. j.pc \in Carefree
  BY <1>2 DEF Carefree
<1>7. \A k : ~Caring(job[h], k) /\ ~Owing(job[h], k) /\ (Releasing(job[h], k) <=> k = t)
  BY <1>1, <1>5 DEF Caring, Owing, Releasing
<1>8. CareOf(job[h])'
  <2>1. \A i : LiveOffers(i)' = LiveOffers(i)
    BY <1>1 DEF LiveOffers
  <2> QED
    BY <1>1, <1>2, <1>3, <1>4, <1>7, <2>1 DEF DeskInv, CareOf
<1>9. CountOf(job[h])'
  <2>1. \A k : Rejected(k)' = Rejected(k)
    BY <1>1 DEF Rejected
  <2>2. \A k : ~Owing(job[h], k)'
    BY <1>2, <1>3 DEF Owing
  <2> QED
    BY <1>1, <1>2, <1>3, <1>4, <1>7, <2>1, <2>2 DEF DeskInv, CountOf
<1>10. StaffOf(job[h])'
  <2>1. \A k : Served(k)' = Served(k)
    BY <1>1 DEF Served
  <2>2. \A k \in Technicians : available'[k] = IF k = t THEN TRUE ELSE available[k]
    BY <1>1, <1>5 DEF FlushValue, TypeInv, TypeOK
  <2>3. FreeFits(job[h])'
    BY <1>2, <1>3 DEF FreeFits
  <2> QED
    BY <1>4, <1>7, <2>1, <2>2, <2>3 DEF DeskInv, StaffOf
<1> QED
  BY <1>3, <1>8, <1>9, <1>10, DeskAfter DEF DeskInv

-----------------------------------------------------------------------------
(* Commits of an incident's row.                                           *)

\* The row of an incident changes, and a technician in service stays in
\* service or is about to be given back.
LEMMA RowOffice ==
    ASSUME TypeInv, OfficeInv, NEW h \in Threads, OthersIdle(h),
           NEW i \in Incidents, NEW row, NEW j,
           incident' = [incident EXCEPT ![i] = row],
           UNCHANGED <<offer, rejections, available>>,
           job' = [job EXCEPT ![h] = j],
           job[h].pc \in Carefree \cup {"mark_no_offers", "mark_matched"},
           job[h].pc = "mark_no_offers" => job[h].incident = i,
           j.pc \in Carefree \cup {"find", "release_load"},
           row.status = "matched" =>
              LiveOffers(i) # {} \/ (j.pc = "find" /\ j.incident = i),
           incident[i].status \in InService =>
              /\ row.technician = incident[i].technician
              /\ \/ row.status \in InService
                 \/ j.pc = "release_load" /\ j.incident = i
    PROVE  OfficeInv'
<1>1. /\ job'[h] = j /\ \A g \in Threads \ {h} : job'[g] = job[g]
      /\ incident'[i] = row
      /\ \A k \in Incidents \ {i} : incident'[k] = incident[k]
  BY DEF TypeInv, TypeOK
<1>2. DeskInv(job[h])
  BY DeskBefore
<1>3. /\ \A k : Caring(job[h], k) => k = i
      /\ \A k : ~Owing(job[h], k) /\ ~Releasing(job[h], k)
  BY CarefreeLabels DEF Caring, Owing, Releasing
<1>4. /\ j.pc # "mark_matched" /\ j.pc # "penalty_commit"
      /\ FreeFits(job[h])' /\ \A k : ~Owing(job[h], k)'
  BY <1>1 DEF Carefree, FreeFits, Owing
<1>5. CareOf(job[h])'
  <2>1. \A k : LiveOffers(k)' = LiveOffers(k)
    BY DEF LiveOffers
  <2>2. ASSUME NEW k \in Incidents, incident'[k].status = "matched"
        PROVE  LiveOffers(k)' # {} \/ Caring(job[h], k)'
    <3>1. CASE k = i
      BY <1>1, <2>1, <2>2, <3>1 DEF Caring
    <3>2. CASE k # i
      BY <1>1, <1>2, <1>3, <2>1, <2>2, <3>2 DEF DeskInv, CareOf
    <3> QED
      BY <3>1, <3>2
  <2> QED
    BY <1>1, <1>4, <2>2 DEF CareOf
<1>6. CountOf(job[h])'
  <2>1. \A k : Rejected(k)' = Rejected(k)
    BY DEF Rejected
  <2> QED
    BY <1>1, <1>2, <1>3, <1>4, <2>1 DEF DeskInv, CountOf
<1>7. StaffOf(job[h])'
  <2>1. ASSUME NEW t, Served(t)
        PROVE  Served(t)' \/ Releasing(job[h], t)'
    <3>1. PICK k \in Incidents : /\ incident[k].technician = t
                                 /\ incident[k].status \in InService
      BY <2>1 DEF Served
    <3>2. CASE k = i
      <4>1. /\ incident'[i].technician = t
            /\ \/ incident'[i].status \in InService
               \/ j.pc = "release_load" /\ j.incident = i
        BY <1>1, <3>1, <3>2
      <4> QED
        BY <1>1, <4>1 DEF Served, Releasing
    <3>3. CASE k # i
      BY <1>1, <3>1, <3>3 DEF Served
    <3> QED
      BY <3>2, <3>3
  <2> QED
    BY <1>2, <1>3, <1>4, <2>1 DEF DeskInv, StaffOf
<1> QED
  BY <1>1, <1>5, <1>6, <1>7, DeskAfter DEF DeskInv

LEMMA RequestHelpOffice ==
    ASSUME TypeInv, SerialInv, OfficeInv, MaxInFlight = 1, NEW h \in Threads,
           NEW i \in Incidents, RequestHelp(h, i)
    PROVE  OfficeInv'
<1> DEFINE j == [Idle EXCEPT !.pc = "request_analyzing", !.incident = i]
           row == [incident[i] EXCEPT !.status = "pending"]
<1>1. OthersIdle(h) /\ job' = [job EXCEPT ![h] = j] /\ job[h].pc = "idle"
  BY BeginsAlone DEF RequestHelp, Begin
<1>2. /\ incident' = [incident EXCEPT ![i] = row]
      /\ UNCHANGED <<offer, rejections, available>>
      /\ incident[i].status = "none"
  BY DEF RequestHelp, workshopVars
<1>3. row.status = "pending"
  BY DEF TypeInv, TypeOK, IncidentRow
<1>4. job[h].pc \in Carefree /\ j.pc \in Carefree
  BY <1>1 DEF Carefree, Idle
<1>5. incident[i].status \notin InService /\ job[h].pc # "mark_no_offers"
  BY <1>1, <1>2 DEF InService
<1> HIDE DEF j, row
<1> QED
  BY <1>1, <1>2, <1>3, <1>4, <1>5, RowOffice

LEMMA TriageOffice ==
    ASSUME TypeInv, SerialInv, OfficeInv, NEW h \in Threads,
           \/ RequestAnalyzing(h) \/ EvidenceCommit(h)
           \/ \E near \in NearSets : AiSaveImages(h, near)
           \/ \E near \in NearSets \cup {job[h].row.near} :
                 AiPendingInfo(h, near) \/ AiMatched(h, near) \/ AiError(h, near)
    PROVE  OfficeInv'
<1> DEFINE i == job[h].incident
<1>1. /\ job[h].pc \in {"request_analyzing", "evidence_commit", "ai_result", "ai_status"}
      /\ UNCHANGED <<offer, rejections, available>>
  BY DEF RequestAnalyzing, EvidenceCommit, AiSaveImages, AiPendingInfo,
         AiMatched, AiError, Triaged, At, workshopVars
<1>2. /\ job[h] \in Jobs /\ JobInv(job[h])
      /\ i \in Incidents /\ incident[i] \in IncidentRow
  BY <1>1, HandlerFacts DEF OnIncident
<1>3. /\ incident[i].status \in {"pending", "pending_info", "analyzing"}
      /\ job[h].pc # "request_analyzing" => job[h].row = incident[i]
  BY <1>1, <1>2 DEF JobInv, Fresh
<1>4. OthersIdle(h)
  BY <1>1, Mine
<1>5. ASSUME NEW row, NEW j, incident' = [incident EXCEPT ![i] = row],
             job' = [job EXCEPT ![h] = j],
             \/ row.status # "matched" /\ j.pc \in Carefree
             \/ j.pc = "find" /\ j.incident = i
      PROVE  OfficeInv'
  <2>1. /\ job[h].pc \in Carefree /\ job[h].pc # "mark_no_offers"
        /\ incident[i].status \notin InService
        /\ j.pc \in Carefree \cup {"find"}
    BY <1>1, <1>3, <1>5 DEF Carefree, InService
  <2>2. row.status = "matched" => j.pc = "find" /\ j.incident = i
    BY <1>5
  <2> HIDE DEF i
  <2> QED
    BY <1>1, <1>2, <1>4, <1>5, <2>1, <2>2, RowOffice
<1>6. ASSUME NEW near, NEW s, job[h].pc # "request_analyzing"
      PROVE  Flush(job[h].row, [job[h].row EXCEPT !.near = near, !.status = s],
                   incident[i]).status = s
  <2> DEFINE new == [job[h].row EXCEPT !.near = near, !.status = s]
  <2>1. job[h].row = incident[i]
    BY <1>3, <1>6
  <2>2. new.status = s
    BY <1>2, <2>1 DEF IncidentRow
  <2> HIDE DEF new
  <2>3. Flush(incident[i], new, incident[i]).status = s
    BY <2>2, FlushOwn
  <2> QED
    BY <2>1, <2>3 DEF new
<1>7. CASE RequestAnalyzing(h)
  <2> DEFINE row == [incident[i] EXCEPT !.status = "analyzing"]
             j == [job[h] EXCEPT !.pc = "ai_load"]
  <2>1. row.status = "analyzing"
    BY <1>2 DEF IncidentRow
  <2>2. incident' = [incident EXCEPT ![i] = row] /\ job' = [job EXCEPT ![h] = j]
    BY <1>7 DEF RequestAnalyzing, Continue
  <2>3. j.pc \in Carefree
    BY <1>2 DEF Jobs, Carefree
  <2> QED
    BY <2>1, <2>2, <2>3, <1>5
<1>8. CASE EvidenceCommit(h)
  <2> DEFINE row == Flush(job[h].row, [job[h].row EXCEPT !.status = "analyzing"],
                          incident[i])
             j == [Idle EXCEPT !.pc = "ai_load", !.incident = i]
  <2>1. [incident[i] EXCEPT !.status = "analyzing"].status = "analyzing"
    BY <1>2 DEF IncidentRow
  <2>2. job[h].row = incident[i]
    BY <1>3, <1>8 DEF EvidenceCommit, At
  <2>3. row.status = "analyzing"
    BY <2>1, <2>2, FlushOwn
  <2>4. incident' = [incident EXCEPT ![i] = row] /\ job' = [job EXCEPT ![h] = j]
    BY <1>8 DEF EvidenceCommit, Continue
  <2>5. j.pc \in Carefree
    BY DEF Idle, Carefree
  <2> QED
    BY <2>3, <2>4, <2>5, <1>5
<1>9. ASSUME NEW near \in NearSets, AiSaveImages(h, near)
      PROVE  OfficeInv'
  <2> DEFINE row == Flush(job[h].row, [job[h].row EXCEPT !.near = near,
                                         !.status = job[h].row.status], incident[i])
             j == [job[h] EXCEPT !.pc = "ai_status", !.row = incident'[i]]
  <2>1. job[h].row.status = "analyzing" /\ job[h].pc = "ai_result"
    BY <1>2, <1>3, <1>9 DEF AiSaveImages, At, JobInv
  <2>2. row.status = "analyzing"
    BY <1>6, <2>1
  <2>3. incident' = [incident EXCEPT ![i] = row] /\ job' = [job EXCEPT ![h] = j]
    BY <1>9 DEF AiSaveImages, SaveTriage, Continue
  <2>4. j.pc \in Carefree
    BY <1>2 DEF Jobs, Carefree
  <2> QED
    BY <2>2, <2>3, <2>4, <1>5
<1>10. ASSUME NEW near, NEW s \in {"pending_info", "matched", "error"},
              SaveTriage(job[h], near, s),
              job[h].pc # "request_analyzing", NEW j, job' = [job EXCEPT ![h] = j],
              \/ s # "matched" /\ j.pc = "idle"
              \/ s = "matched" /\ j.pc = "find" /\ j.incident = i
       PROVE  OfficeInv'
  <2> DEFINE row == Flush(job[h].row, [job[h].row EXCEPT !.near = near,
                                                         !.status = s],
                          incident[i])
  <2>1. row.status = s
    BY <1>6, <1>10
  <2>2. incident' = [incident EXCEPT ![i] = row]
    BY <1>10 DEF SaveTriage
  <2>3. "idle" \in Carefree
    BY DEF Carefree
  <2> QED
    BY <1>10, <2>1, <2>2, <2>3, <1>5
<1>11. ASSUME NEW near, AiPendingInfo(h, near)
       PROVE  OfficeInv'
  <2> DEFINE j == Idle
  <2>1. j.pc = "idle"
    BY IdleType
  <2> QED
    BY <1>10, <1>11, <2>1 DEF AiPendingInfo, Triaged, At, Finish
<1>12. ASSUME NEW near, AiError(h, near)
       PROVE  OfficeInv'
  <2> DEFINE j == Idle
  <2>1. j.pc = "idle"
    BY IdleType
  <2> QED
    BY <1>10, <1>12, <2>1 DEF AiError, Triaged, At, Finish
<1>13. ASSUME NEW near, AiMatched(h, near)
       PROVE  OfficeInv'
  <2> DEFINE j == [Idle EXCEPT !.pc = "find", !.incident = i]
  <2>1. j.pc = "find" /\ j.incident = i
    BY DEF Idle
  <2> QED
    BY <1>10, <1>13, <2>1 DEF AiMatched, Triaged, At, Continue
<1> QED
  BY <1>7, <1>8, <1>9, <1>11, <1>12, <1>13

\* The search's outcome, the arrival and the completion.
LEMMA OutcomeOffice ==
    ASSUME TypeInv, SerialInv, OfficeInv, NEW h \in Threads,
           \/ MarkNoOffers(h) \/ MarkMatched(h)
           \/ ArriveCommit(h) \/ CompleteIncident(h)
    PROVE  OfficeInv'
<1> DEFINE i == job[h].incident
<1>1. /\ job[h].pc \in {"mark_no_offers", "mark_matched", "arrive_commit",
                        "complete_incident"}
      /\ UNCHANGED <<offer, rejections, available>>
  BY DEF MarkNoOffers, MarkMatched, ArriveCommit, CompleteIncident, At, workshopVars
<1>2. /\ job[h] \in Jobs /\ JobInv(job[h]) /\ OthersIdle(h)
      /\ i \in Incidents /\ incident[i] \in IncidentRow
  BY <1>1, HandlerFacts, Mine DEF OnIncident
<1>3. job[h].pc \in Carefree \cup {"mark_no_offers", "mark_matched"}
  BY <1>1 DEF Carefree
<1>4. DeskInv(job[h])
  BY <1>2, DeskBefore
<1>5. ASSUME job[h].row = incident[i], NEW s
      PROVE  LET row == Flush(job[h].row, [job[h].row EXCEPT !.status = s],
                              incident[i])
             IN  row.status = s /\ row.technician = incident[i].technician
  <2>1. [incident[i] EXCEPT !.status = s].status = s
    BY <1>2 DEF IncidentRow
  <2>2. [incident[i] EXCEPT !.status = s].technician = incident[i].technician
    BY <1>2 DEF IncidentRow
  <2> QED
    BY <1>5, <2>1, <2>2 DEF Flush
<1>6. CASE MarkNoOffers(h)
  <2> DEFINE row == Flush(job[h].row, [job[h].row EXCEPT !.status = "no_offers"],
                          incident[i])
  <2>1. job[h].row = incident[i] /\ incident[i].status \in Matching
    BY <1>2, <1>6 DEF MarkNoOffers, At, JobInv, Fresh
  <2>2. row.status = "no_offers"
    BY <1>5, <2>1
  <2>3. incident' = [incident EXCEPT ![i] = row] /\ job' = [job EXCEPT ![h] = Idle]
    BY <1>6 DEF MarkNoOffers, Finish
  <2>4. Idle.pc \in Carefree /\ incident[i].status \notin InService
    BY <2>1, IdleType DEF Carefree, Matching, InService
  <2> HIDE DEF row
  <2> QED
    BY <1>1, <1>2, <1>3, <2>2, <2>3, <2>4, RowOffice
<1>7. CASE MarkMatched(h)
  <2> DEFINE row == [incident[i] EXCEPT !.status = "matched"]
  <2>1. job[h].pc = "mark_matched" /\ incident[i].status \in Matching
    BY <1>2, <1>7 DEF MarkMatched, At, JobInv
  <2>2. LiveOffers(i) # {}
    BY <1>4, <2>1 DEF DeskInv, CareOf
  <2>3. incident' = [incident EXCEPT ![i] = row] /\ job' = [job EXCEPT ![h] = Idle]
    BY <1>7 DEF MarkMatched, Finish
  <2>4. Idle.pc \in Carefree /\ incident[i].status \notin InService
    BY <2>1, IdleType DEF Carefree, Matching, InService
  <2> HIDE DEF row
  <2> QED
    BY <1>1, <1>2, <1>3, <2>1, <2>2, <2>3, <2>4, RowOffice
<1>8. CASE ArriveCommit(h)
  <2> DEFINE row == Flush(job[h].row, [job[h].row EXCEPT !.status = "in_progress"],
                          incident[i])
  <2>1. job[h].row = incident[i] /\ job[h].pc = "arrive_commit"
    BY <1>2, <1>8 DEF ArriveCommit, At, JobInv, Fresh
  <2>2. row.status = "in_progress" /\ row.technician = incident[i].technician
    BY <1>5, <2>1
  <2>3. incident' = [incident EXCEPT ![i] = row] /\ job' = [job EXCEPT ![h] = Idle]
    BY <1>8 DEF ArriveCommit, Finish
  <2>4. Idle.pc \in Carefree /\ row.status \in InService
    BY <2>2, IdleType DEF Carefree, InService
  <2> HIDE DEF row
  <2> QED
    BY <1>1, <1>2, <1>3, <2>1, <2>2, <2>3, <2>4, RowOffice
<1>9. CASE CompleteIncident(h)
  <2> DEFINE row == Flush(job[h].row, [job[h].row EXCEPT !.status = "completed"],
                          incident[i])
             j == [Idle EXCEPT !.pc = "release_load", !.offer = job[h].offer,
                               !.incident = i]
  <2>1. job[h].row = incident[i] /\ job[h].pc = "complete_incident"
    BY <1>2, <1>9 DEF CompleteIncident, At, JobInv, Fresh
  <2>2. row.status = "completed" /\ row.technician = incident[i].technician
    BY <1>5, <2>1
  <2>3. incident' = [incident EXCEPT ![i] = row] /\ job' = [job EXCEPT ![h] = j]
    BY <1>9 DEF CompleteIncident, Continue
  <2>4. j.pc = "release_load" /\ j.incident = i
    BY DEF Idle
  <2> HIDE DEF row, j
  <2> QED
    BY <1>1, <1>2, <1>3, <2>1, <2>2, <2>3, <2>4, RowOffice
<1> QED
  BY <1>6, <1>7, <1>8, <1>9

\* The acceptance: the incident goes into service and its technician with it.
LEMMA AcceptIncidentOffice ==
    ASSUME TypeInv, SerialInv, OfficeInv, NEW h \in Threads, AcceptIncident(h)
    PROVE  OfficeInv'
<1> DEFINE o == job[h].offer
           i == offer[o].incident
           t == job[h].technician
           new == [job[h].row EXCEPT !.status = "assigned",
                                     !.workshop = offer[o].workshop,
                                     !.technician = IF t = None THEN @ ELSE t]
           row == Flush(job[h].row, new, incident[i])
<1>1. /\ job[h].pc = "accept_incident"
      /\ UNCHANGED <<offer, rejections>>
      /\ incident' = [incident EXCEPT ![i] = row]
      /\ job' = [job EXCEPT ![h] = Idle]
      /\ available' = IF t = None THEN available
                      ELSE [available EXCEPT ![t] = FlushValue(job[h].free, FALSE, @)]
  BY DEF AcceptIncident, At, Finish, workshopVars
<1>2. OthersIdle(h) /\ DeskInv(job[h])
  BY <1>1, Mine, DeskBefore
<1>3. /\ i \in Incidents /\ incident[i] \in IncidentRow
      /\ job[h].row = incident[i] /\ incident[i].status \in Matching
      /\ job[h] \in Jobs
  BY <1>1, HandlerFacts DEF OnOffer, JobInv
<1>4. row.status = "assigned" /\ (t # None => row.technician = t)
  <2>1. new.status = "assigned" /\ (t # None => new.technician = t)
    BY <1>3 DEF IncidentRow
  <2> HIDE DEF new
  <2> QED
    BY <1>3, <2>1 DEF Flush
<1> HIDE DEF row, i
<1>5. /\ job'[h] = Idle /\ \A g \in Threads \ {h} : job'[g] = job[g]
      /\ incident'[i] = row
      /\ \A k \in Incidents \ {i} : incident'[k] = incident[k]
  BY <1>1, <1>3 DEF TypeInv, TypeOK
<1>6. /\ \A k : Caring(job[h], k) => k = i
      /\ \A k : ~Owing(job[h], k) /\ ~Releasing(job[h], k)
  BY <1>1 DEF Caring, Owing, Releasing, i
<1>7. Idle.pc \in Carefree
  BY IdleType DEF Carefree
<1>8. CareOf(job[h])'
  <2>1. \A k : LiveOffers(k)' = LiveOffers(k)
    BY <1>1 DEF LiveOffers
  <2>2. ASSUME NEW k \in Incidents, incident'[k].status = "matched"
        PROVE  LiveOffers(k)' # {}
    <3>1. k # i
      BY <1>4, <1>5, <2>2
    <3> QED
      BY <1>2, <1>5, <1>6, <2>1, <2>2, <3>1 DEF DeskInv, CareOf
  <2> QED
    BY <1>5, <2>2, IdleType DEF CareOf
<1>9. CountOf(job[h])'
  <2>1. \A k : Rejected(k)' = Rejected(k) /\ ~Owing(job[h], k)'
    BY <1>1, <1>5, IdleType DEF Rejected, Owing
  <2> QED
    BY <1>1, <1>2, <1>5, <1>6, <2>1, IdleType DEF DeskInv, CountOf
<1>10. StaffOf(job[h])'
  <2>1. ASSUME Toggles \subseteq {TRUE}, NEW x \in Technicians, ~available'[x]
        PROVE  Served(x)'
    <3>1. CASE x = t
      <4>1. t # None
        BY <3>1, DispatchAssumption
      <4> QED
        BY <1>3, <1>4, <1>5, <3>1, <4>1 DEF Served, InService
    <3>2. CASE x # t
      <4>1. ~available[x]
        BY <1>1, <2>1, <3>2 DEF TypeInv, TypeOK
      <4>2. PICK k \in Incidents : /\ incident[k].technician = x
                                   /\ incident[k].status \in InService
        BY <1>2, <1>6, <2>1, <4>1 DEF DeskInv, StaffOf, Served
      <4>3. k # i
        BY <1>3, <4>2 DEF Matching, InService
      <4> QED
        BY <1>5, <4>2, <4>3 DEF Served
    <3> QED
      BY <3>1, <3>2
  <2>2. FreeFits(job[h])'
    BY <1>5, IdleType DEF FreeFits
  <2> QED
    BY <2>1, <2>2 DEF StaffOf
<1> QED
  BY <1>2, <1>5, <1>8, <1>9, <1>10, DeskAfter DEF DeskInv

-----------------------------------------------------------------------------
(* Commits of an offer's row.                                              *)

\* One offer changes, and the thread that changed it goes on caring for the
\* offer's incident.
LEMMA OfferOffice ==
    ASSUME TypeInv, OfficeInv, NEW h \in Threads, OthersIdle(h),
           UNCHANGED <<incident, available>>,
           NEW o \in OfferIds, NEW i \in Incidents, NEW j,
           job' = [job EXCEPT ![h] = j],
           \A p \in OfferIds \ {o} : offer'[p] = offer[p],
           offer[o].status = "notified" => offer[o].incident = i,
           \A k : Caring(job[h], k) => k = i,
           \A k : ~Releasing(job[h], k),
           LiveOffers(i)' # {} \/ Caring(job[h], i)',
           j.pc = "mark_matched" => j.incident = i /\ LiveOffers(i)' # {},
           j.pc \in {"mark_matched", "accept_load", "penalty_load"},
           CountOf(job[h])'
    PROVE  OfficeInv'
<1>1. job'[h] = j /\ \A g \in Threads \ {h} : job'[g] = job[g]
  BY DEF TypeInv, TypeOK
<1>2. DeskInv(job[h])
  BY DeskBefore
<1>3. ASSUME NEW k, k # i, NEW p \in LiveOffers(k)
      PROVE  p \in LiveOffers(k)'
  BY <1>3 DEF LiveOffers
<1>4. CareOf(job[h])'
  <2>1. ASSUME NEW k \in Incidents, incident'[k].status = "matched"
        PROVE  LiveOffers(k)' # {} \/ Caring(job[h], k)'
    <3>1. CASE k # i
      <4>1. LiveOffers(k) # {}
        BY <1>2, <2>1, <3>1 DEF DeskInv, CareOf
      <4> QED
        BY <1>3, <3>1, <4>1
    <3> QED
      BY <3>1
  <2> QED
    BY <1>1, <2>1 DEF CareOf
<1>5. StaffOf(job[h])'
  <2>1. \A t : Served(t)' = Served(t)
    BY DEF Served
  <2>2. FreeFits(job[h])'
    BY <1>1 DEF FreeFits
  <2> QED
    BY <1>2, <2>1, <2>2 DEF DeskInv, StaffOf
<1> QED
  BY <1>1, <1>4, <1>5, DeskAfter DEF DeskInv

LEMMA CreateOfferOffice ==
    ASSUME TypeInv, SerialInv, OfficeInv, NEW h \in Threads, CreateOffer(h)
    PROVE  OfficeInv'
<1>0. PICK i : i = job[h].incident
  OBVIOUS
<1> DEFINE j == [job[h] EXCEPT !.pc = "mark_matched", !.workshop = None]
<1>1. /\ job[h].pc = "create_offer" /\ job' = [job EXCEPT ![h] = j]
      /\ UNCHANGED <<incident, rejections, available>>
  BY DEF CreateOffer, At, Continue, workshopVars
<1>2. /\ OthersIdle(h) /\ i \in Incidents /\ DeskInv(job[h])
      /\ j.pc = "mark_matched" /\ j.incident = i
  BY <1>0, <1>1, Mine, HandlerFacts, DeskBefore DEF OnIncident, Jobs
<1>3. PICK o \in Unused :
         offer' = [offer EXCEPT ![o] =
                     [NoOffer EXCEPT !.status = "notified", !.incident = i,
                                     !.workshop = job[h].workshop]]
  BY <1>0 DEF CreateOffer
<1>4. /\ o \in OfferIds /\ offer[o].status = "none"
      /\ offer'[o].status = "notified" /\ offer'[o].incident = i
      /\ \A p \in OfferIds \ {o} : offer'[p] = offer[p]
  BY <1>3 DEF Unused, NoOffer, TypeInv, TypeOK
<1>5. LiveOffers(i)' # {}
  BY <1>4 DEF LiveOffers
<1> HIDE DEF j
<1>6. job'[h] = j
  BY <1>1 DEF TypeInv, TypeOK
<1>7. CountOf(job[h])'
  <2>1. \A k : Rejected(k)' = Rejected(k)
    BY <1>4 DEF Rejected
  <2>2. \A k : ~Owing(job[h], k) /\ ~Owing(job[h], k)'
    BY <1>1, <1>2, <1>6 DEF Owing
  <2> QED
    BY <1>1, <1>2, <1>6, <2>1, <2>2 DEF DeskInv, CountOf
<1>8. \A k : (Caring(job[h], k) => k = i) /\ ~Releasing(job[h], k)
  BY <1>0, <1>1 DEF Caring, Releasing
<1> QED
  BY <1>1, <1>2, <1>4, <1>5, <1>7, <1>8, OfferOffice

LEMMA RejectedFinite == \A w : IsFiniteSet(Rejected(w))
<1> SUFFICES ASSUME NEW w PROVE IsFiniteSet(Rejected(w))
  OBVIOUS
<1>1. IsFiniteSet(OfferIds)
  BY FS_Interval, DispatchAssumption DEF OfferIds
<1>2. Rejected(w) \subseteq OfferIds
  BY DEF Rejected
<1> QED
  BY <1>1, <1>2, FS_Subset

LEMMA AnswerOffice ==
    ASSUME TypeInv, SerialInv, OfficeInv, NEW h \in Threads,
           AcceptOffer(h) \/ RejectOffer(h)
    PROVE  OfficeInv'
<1>0. PICK o, i, w : /\ o = job[h].offer
                     /\ i = offer[o].incident
                     /\ w = offer[o].workshop
  OBVIOUS
<1>1. /\ job[h].pc \in {"accept_offer", "reject_offer"}
      /\ UNCHANGED <<incident, rejections, available>>
  BY DEF AcceptOffer, RejectOffer, At, workshopVars
<1>2. /\ OthersIdle(h) /\ DeskInv(job[h]) /\ job[h] \in Jobs
      /\ o \in OfferIds /\ offer[o].status = "notified"
      /\ i \in Incidents /\ w \in Workshops
  BY <1>0, <1>1, Mine, HandlerFacts, DeskBefore DEF OnOffer, JobInv
<1>3. \A k : ~Caring(job[h], k) /\ ~Owing(job[h], k) /\ ~Releasing(job[h], k)
  BY <1>1 DEF Caring, Owing, Releasing
<1>4. CASE AcceptOffer(h)
  <2> DEFINE j == [job[h] EXCEPT !.pc = "accept_load"]
  <2>1. /\ offer'[o].status = "accepted" /\ offer'[o].incident = i
        /\ \A p \in OfferIds \ {o} : offer'[p] = offer[p]
    BY <1>0, <1>2, <1>4 DEF AcceptOffer, TypeInv, TypeOK, OfferRow
  <2>2. job' = [job EXCEPT ![h] = j] /\ j.pc = "accept_load" /\ j.offer = o
    BY <1>0, <1>2, <1>4 DEF AcceptOffer, Continue, Jobs
  <2> HIDE DEF j
  <2>3. job'[h] = j
    BY <2>2 DEF TypeInv, TypeOK
  <2>4. Caring(job[h], i)'
    BY <2>1, <2>2, <2>3 DEF Caring
  <2>5. CountOf(job[h])'
    <3>1. \A k : Rejected(k)' = Rejected(k)
      BY <1>0, <1>2, <2>1 DEF Rejected
    <3>2. \A k : ~Owing(job[h], k)'
      BY <2>2, <2>3 DEF Owing
    <3> QED
      BY <1>1, <1>2, <1>3, <2>2, <2>3, <3>1, <3>2 DEF DeskInv, CountOf
  <2> QED
    BY <1>0, <1>1, <1>2, <1>3, <2>1, <2>2, <2>4, <2>5, OfferOffice
<1>5. CASE RejectOffer(h)
  <2> DEFINE j == [job[h] EXCEPT !.pc = "penalty_load"]
  <2>1. /\ offer'[o].status = "rejected" /\ offer'[o].incident = i
        /\ offer'[o].workshop = w
        /\ \A p \in OfferIds \ {o} : offer'[p] = offer[p]
    BY <1>0, <1>2, <1>5 DEF RejectOffer, TypeInv, TypeOK, OfferRow
  <2>2. job' = [job EXCEPT ![h] = j] /\ j.pc = "penalty_load" /\ j.offer = o
    BY <1>0, <1>2, <1>5 DEF RejectOffer, Continue, Jobs
  <2> HIDE DEF j
  <2>3. job'[h] = j
    BY <2>2 DEF TypeInv, TypeOK
  <2>4. Caring(job[h], i)'
    BY <2>1, <2>2, <2>3 DEF Caring
  <2>5. CountOf(job[h])'
    <3>1. Rejected(w)' = Rejected(w) \cup {o} /\ o \notin Rejected(w)
      BY <1>0, <1>2, <2>1 DEF Rejected
    <3>2. \A k : k # w => Rejected(k)' = Rejected(k)
      BY <1>0, <1>2, <2>1 DEF Rejected
    <3>3. \A k : Owing(job[h], k)' <=> k = w
      BY <2>1, <2>2, <2>3 DEF Owing
    <3>4. Cardinality(Rejected(w))' = Cardinality(Rejected(w)) + 1
      BY <3>1, RejectedFinite, FS_AddElement
    <3>5. \A k \in Workshops : Cardinality(Rejected(k)) = rejections[k]
      BY <1>2, <1>3 DEF DeskInv, CountOf
    <3>6. ASSUME NEW k \in Workshops
          PROVE  Cardinality(Rejected(k))' =
                    IF Owing(job[h], k)' THEN rejections'[k] + 1 ELSE rejections'[k]
      BY <1>1, <1>2, <3>2, <3>3, <3>4, <3>5
    <3> QED
      BY <2>2, <2>3, <3>6 DEF CountOf
  <2> QED
    BY <1>0, <1>1, <1>2, <1>3, <2>1, <2>2, <2>4, <2>5, OfferOffice
<1> QED
  BY <1>4, <1>5

\* A cancellation withdraws the incident's offers and gives its technician back.
LEMMA CancelOffice ==
    ASSUME TypeInv, SerialInv, OfficeInv, NEW h \in Threads, CancelCommit(h)
    PROVE  OfficeInv'
<1> DEFINE i == job[h].incident
           t == job[h].technician
           new == [job[h].row EXCEPT !.status = "cancelled"]
           row == Flush(job[h].row, new, incident[i])
<1>1. /\ job[h].pc = "cancel_commit"
      /\ rejections' = rejections
      /\ incident' = [incident EXCEPT ![i] = row]
      /\ job' = [job EXCEPT ![h] = Idle]
      /\ offer' = [o \in OfferIds |-> IF o \in job[h].live
                                      THEN [offer[o] EXCEPT !.status = "expired",
                                                            !.overdue = FALSE]
                                      ELSE offer[o]]
      /\ available' = IF t = None THEN available
                      ELSE [available EXCEPT ![t] = FlushValue(job[h].free, TRUE, @)]
  BY DEF CancelCommit, At, Finish, workshopVars
<1>2. /\ OthersIdle(h) /\ DeskInv(job[h]) /\ i \in Incidents
      /\ incident[i] \in IncidentRow /\ job[h].row = incident[i]
      /\ job[h].live = LiveOffers(i)
  BY <1>1, Mine, HandlerFacts, DeskBefore DEF OnIncident, JobInv, Fresh
<1>3. row.status = "cancelled"
  <2>1. new.status = "cancelled"
    BY <1>2 DEF IncidentRow
  <2> HIDE DEF new
  <2> QED
    BY <1>2, <2>1, FlushOwn
<1> HIDE DEF row
<1>4. /\ job'[h] = Idle /\ \A g \in Threads \ {h} : job'[g] = job[g]
      /\ incident'[i] = row
      /\ \A k \in Incidents \ {i} : incident'[k] = incident[k]
  BY <1>1, <1>2 DEF TypeInv, TypeOK
<1>5. \A k : ~Caring(job[h], k) /\ ~Owing(job[h], k) /\ ~Releasing(job[h], k)
  BY <1>1 DEF Caring, Owing, Releasing
<1>6. \A o \in OfferIds : /\ offer'[o].incident = offer[o].incident
                          /\ offer'[o].workshop = offer[o].workshop
                          /\ offer'[o].status = IF o \in LiveOffers(i)
                                                THEN "expired" ELSE offer[o].status
  BY <1>1, <1>2 DEF TypeInv, TypeOK, OfferRow
<1>7. CareOf(job[h])'
  <2>1. \A k : k # i => LiveOffers(k)' = LiveOffers(k)
    BY <1>6 DEF LiveOffers
  <2>2. ASSUME NEW k \in Incidents, incident'[k].status = "matched"
        PROVE  LiveOffers(k)' # {}
    <3>1. k # i
      BY <1>3, <1>4, <2>2
    <3> QED
      BY <1>2, <1>4, <1>5, <2>1, <2>2, <3>1 DEF DeskInv, CareOf
  <2> QED
    BY <1>4, <2>2, IdleType DEF CareOf
<1>8. CountOf(job[h])'
  <2>1. \A k : Rejected(k)' = Rejected(k) /\ ~Owing(job[h], k)'
    BY <1>4, <1>6, IdleType DEF Rejected, Owing, LiveOffers
  <2> QED
    BY <1>1, <1>2, <1>4, <1>5, <2>1, IdleType DEF DeskInv, CountOf
<1>9. StaffOf(job[h])'
  <2>1. t = incident[i].technician /\ (t # None => job[h].free = available[t])
    BY <1>1, <1>2 DEF DeskInv, StaffOf, FreeFits
  <2>2. \A x \in Technicians : available'[x] = IF x = t THEN TRUE ELSE available[x]
    BY <1>1, <2>1, DispatchAssumption DEF FlushValue, TypeInv, TypeOK
  <2>3. ASSUME Toggles \subseteq {TRUE}, NEW x \in Technicians, ~available'[x]
        PROVE  Served(x)'
    <3>1. x # t /\ ~available[x]
      BY <2>2, <2>3
    <3>2. PICK k \in Incidents : /\ incident[k].technician = x
                                 /\ incident[k].status \in InService
      BY <1>2, <1>5, <2>3, <3>1 DEF DeskInv, StaffOf, Served
    <3>3. k # i
      BY <2>1, <3>1, <3>2
    <3> QED
      BY <1>4, <3>2, <3>3 DEF Served
  <2>4. FreeFits(job[h])'
    BY <1>4, IdleType DEF FreeFits
  <2> QED
    BY <2>3, <2>4 DEF StaffOf
<1> QED
  BY <1>2, <1>4, <1>7, <1>8, <1>9, DeskAfter DEF DeskInv

-----------------------------------------------------------------------------
(* Every step.                                                             *)

\* Offers age; threads and the other tables rest.
LEMMA AgeOffice ==
    ASSUME TypeInv, OfficeInv,
           UNCHANGED <<incident, rejections, available, job>>,
           \A o \in OfferIds : /\ offer'[o].status = offer[o].status
                               /\ offer'[o].incident = offer[o].incident
                               /\ offer'[o].workshop = offer[o].workshop
    PROVE  OfficeInv'
<1>1. /\ \A i : LiveOffers(i)' = LiveOffers(i)
      /\ \A w : Rejected(w)' = Rejected(w)
      /\ \A t : Served(t)' = Served(t)
      /\ Busy' = Busy
  BY DEF LiveOffers, Rejected, Served, Busy
<1>2. ASSUME NEW j, DeskInv(j), j.pc \in OnOffer => j.offer \in OfferIds
      PROVE  DeskInv(j)'
  <2>1. /\ \A i : Caring(j, i)' <=> Caring(j, i)
        /\ \A w : Owing(j, w)' <=> Owing(j, w)
        /\ \A t : Releasing(j, t)' <=> Releasing(j, t)
    BY <1>2 DEF Caring, Owing, Releasing, OnOffer
  <2>2. j.pc = "penalty_commit" => offer'[j.offer].workshop = offer[j.offer].workshop
    BY <1>2 DEF OnOffer
  <2>3. CareOf(j)'
    BY <1>1, <1>2, <2>1 DEF DeskInv, CareOf
  <2>4. CountOf(j)'
    BY <1>1, <1>2, <2>1, <2>2 DEF DeskInv, CountOf
  <2>5. StaffOf(j)'
    BY <1>1, <1>2, <2>1 DEF DeskInv, StaffOf, FreeFits
  <2> QED
    BY <2>3, <2>4, <2>5 DEF DeskInv
<1>3. ASSUME NEW h \in Busy
      PROVE  DeskInv(job[h])'
  <2>1. PICK j : j = job[h]
    OBVIOUS
  <2>2. DeskInv(j) /\ (j.pc \in OnOffer => j.offer \in OfferIds)
    BY <2>1 DEF OfficeInv, Busy, TypeInv, JobsBound
  <2>3. DeskInv(j)'
    BY <1>2, <2>2
  <2>4. j = job'[h]
    BY <2>1
  <2> QED
    BY <2>3, <2>4
<1>4. ASSUME Busy = {}
      PROVE  DeskInv(Idle)'
  <2>1. Idle.pc \notin OnOffer
    BY IdleType DEF OnOffer
  <2> QED
    BY <1>2, <1>4, <2>1 DEF OfficeInv
<1> QED
  BY <1>1, <1>3, <1>4 DEF OfficeInv

\* Owners only ever switch a technician back on.
LEMMA ToggleOffice ==
    ASSUME TypeInv, SerialInv, OfficeInv, MaxInFlight = 1,
           NEW t \in Technicians, NEW b \in Toggles, UpdateTechnician(t, b)
    PROVE  OfficeInv'
<1>1. /\ available' = [available EXCEPT ![t] = b] /\ Room
      /\ UNCHANGED <<incident, offer, rejections, job>>
  BY DEF UpdateTechnician, workshopVars
<1>2. Busy = {} /\ Busy' = {}
  BY <1>1, RoomMeansIdle DEF SerialInv, Busy
<1>3. DeskInv(Idle)
  BY <1>2 DEF OfficeInv
<1>4. /\ \A i : LiveOffers(i)' = LiveOffers(i)
      /\ \A w : Rejected(w)' = Rejected(w)
      /\ \A k : Served(k)' = Served(k)
  BY <1>1 DEF LiveOffers, Rejected, Served
<1>5. \A k : /\ Caring(Idle, k)' <=> Caring(Idle, k)
             /\ Owing(Idle, k)' <=> Owing(Idle, k)
             /\ ~Releasing(Idle, k)
  BY IdleType DEF Caring, Owing, Releasing
<1>6. CareOf(Idle)'
  BY <1>1, <1>3, <1>4, <1>5, IdleType DEF DeskInv, CareOf
<1>7. CountOf(Idle)'
  BY <1>1, <1>3, <1>4, <1>5, IdleType DEF DeskInv, CountOf
<1>8. StaffOf(Idle)'
  <2>1. ASSUME Toggles \subseteq {TRUE}, NEW k \in Technicians, ~available'[k]
        PROVE  ~available[k]
    BY <1>1, <2>1 DEF TypeInv, TypeOK
  <2>2. FreeFits(Idle)'
    BY IdleType DEF FreeFits
  <2> QED
    BY <1>3, <1>4, <1>5, <2>1, <2>2 DEF DeskInv, StaffOf
<1> QED
  BY <1>2, <1>6, <1>7, <1>8 DEF OfficeInv, DeskInv

LEMMA NextOffice ==
    ASSUME MaxInFlight = 1, MaxCrashes = 0, TypeInv, SerialInv, OfficeInv,
           [Next]_vars
    PROVE  OfficeInv'
<1>1. ASSUME NEW h \in Threads, Request(h) PROVE OfficeInv'
  <2>1. ASSUME NEW i \in Incidents, RequestHelp(h, i) PROVE OfficeInv'
    BY <2>1, RequestHelpOffice
  <2> QED
    BY <1>1, <2>1, RequestOffice DEF Request
<1>2. ASSUME NEW h \in Threads, Proceed(h) PROVE OfficeInv'
  <2>1. CASE \/ RequestAnalyzing(h) \/ EvidenceCommit(h)
             \/ \E near \in NearSets : AiSaveImages(h, near)
             \/ \E near \in NearSets \cup {job[h].row.near} :
                   AiPendingInfo(h, near) \/ AiMatched(h, near) \/ AiError(h, near)
    BY <2>1, TriageOffice
  <2>2. CASE MarkNoOffers(h) \/ MarkMatched(h) \/ ArriveCommit(h) \/ CompleteIncident(h)
    BY <2>2, OutcomeOffice
  <2>3. CASE \/ AiLoad(h) \/ FindAndCreateOffer(h) \/ AcceptLoad(h)
             \/ PenaltyLoad(h) \/ ReleaseLoad(h) \/ BonusLoad(h) \/ BonusCommit(h)
    BY <2>3, LoadOffice
  <2>4. CASE CreateOffer(h) \/ AcceptOffer(h) \/ RejectOffer(h)
    BY <2>4, CreateOfferOffice, AnswerOffice
  <2>5. CASE AcceptIncident(h) \/ PenaltyCommit(h) \/ CancelCommit(h) \/ ReleaseCommit(h)
    BY <2>5, AcceptIncidentOffice, PenaltyOffice, CancelOffice, ReleaseOffice
  <2> QED
    BY <1>2, <2>1, <2>2, <2>3, <2>4, <2>5 DEF Proceed
<1>3. ASSUME NEW h \in Threads, Crash(h) PROVE OfficeInv'
  BY <1>3 DEF Crash, TypeInv, TypeOK
<1>4. ASSUME NEW o \in OfferIds, Timeouts(o) PROVE OfficeInv'
  BY <1>4, RequestOffice DEF Timeouts, ProcessTimeout
<1>5. CASE \/ \E o \in OfferIds : OfferRunsOut(o) \/ CooldownRunsOut(o)
           \/ \E w \in Workshops : ClearCooldown(w)
  <2>1. UNCHANGED <<incident, rejections, available, job>>
    BY <1>5 DEF OfferRunsOut, CooldownRunsOut, ClearCooldown, workshopVars
  <2>2. \A o \in OfferIds : /\ offer'[o].status = offer[o].status
                            /\ offer'[o].incident = offer[o].incident
                            /\ offer'[o].workshop = offer[o].workshop
    BY <1>5 DEF OfferRunsOut, CooldownRunsOut, ClearCooldown, TypeInv, TypeOK, OfferRow
  <2> QED
    BY <2>1, <2>2, AgeOffice
<1>6. ASSUME NEW t \in Technicians, NEW b \in Toggles, UpdateTechnician(t, b)
      PROVE  OfficeInv'
  BY <1>6, ToggleOffice
<1>7. CASE UNCHANGED vars
  BY <1>7, AgeOffice DEF vars
<1> QED
  BY <1>1, <1>2, <1>3, <1>4, <1>5, <1>6, <1>7 DEF Next

LEMMA InitOffice == Init => OfficeInv
<1> SUFFICES ASSUME Init PROVE OfficeInv
  OBVIOUS
<1>1. Busy = {}
  BY IdleType DEF Init, Busy
<1>2. \A w : Rejected(w) = {}
  BY DEF Init, NoOffer, Rejected
<1>3. CountOf(Idle)
  BY <1>2, IdleType, FS_EmptySet DEF Init, CountOf, Owing
<1>4. CareOf(Idle) /\ StaffOf(Idle)
  BY IdleType DEF Init, NewIncident, CareOf, StaffOf, FreeFits
<1> QED
  BY <1>1, <1>3, <1>4 DEF OfficeInv, DeskInv

LEMMA OfficeInvariant ==
    ASSUME MaxInFlight = 1, MaxCrashes = 0
    PROVE  Spec => [](SerialInv /\ OfficeInv)
<1>1. Init => TypeInv /\ SerialInv /\ OfficeInv
  BY InitType, InitKeeps, InitOffice
<1>2. TypeInv /\ SerialInv /\ OfficeInv /\ [Next]_vars =>
         TypeInv' /\ SerialInv' /\ OfficeInv'
  BY NextType, NextKeeps, NextOffice DEF Kept
<1> QED
  BY <1>1, <1>2, PTL DEF Spec

(* Between two handlers the incidents and the offers agree: a matched      *)
(* incident is asking a workshop, because every handler that takes its     *)
(* live offer away - reject_offer, the scheduler, cancel_incident - either *)
(* searches again or moves the incident on before it ends, and no offer is *)
(* live for an incident that is out of the search.                         *)
THEOREM BookConsistent ==
    ASSUME MaxInFlight = 1, MaxCrashes = 0
    PROVE  Spec => []OfferBookConsistent
<1>1. SerialInv /\ OfficeInv => OfferBookConsistent
  BY IdleType DEF SerialInv, BookInv, Matching, OfficeInv, DeskInv, CareOf,
                  Caring, OfferBookConsistent
<1> QED
  BY <1>1, OfficeInvariant, PTL

(* Between two handlers rejection_count is the number of rejected offers,  *)
(* the scheduler's included: _penalize_workshop's second commit always     *)
(* follows reject_offer's first, with the count it loaded still true.      *)
THEOREM RejectionsAddUp ==
    ASSUME MaxInFlight = 1, MaxCrashes = 0
    PROVE  Spec => []RejectionsCounted
<1>1. OfficeInv => RejectionsCounted
  BY IdleType DEF OfficeInv, DeskInv, CountOf, Owing, Rejected, RejectionsCounted
<1> QED
  BY <1>1, OfficeInvariant, PTL

(* Between two handlers a technician who is marked busy serves an          *)
(* incident, when owners only switch technicians back on: accept_offer     *)
(* books the technician in the commit that puts the incident in service,   *)
(* and cancel_incident and complete_offer give back the one they ended.    *)
THEOREM NoTechnicianForgotten ==
    ASSUME MaxInFlight = 1, MaxCrashes = 0, Toggles \subseteq {TRUE}
    PROVE  Spec => []BusyTechnicianServes
<1>1. OfficeInv => BusyTechnicianServes
  BY IdleType DEF OfficeInv, DeskInv, StaffOf, Served, Releasing,
                  BusyTechnicianServes
<1> QED
  BY <1>1, OfficeInvariant, PTL
=============================================================================
