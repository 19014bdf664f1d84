--------------------------- MODULE DispatchProofs ---------------------------
(***************************************************************************)
(* What Dispatch keeps for every number of incidents, workshops,           *)
(* technicians, threads and offers: its types, then its assignments, then  *)
(* its points.                                                             *)
(***************************************************************************)
EXTENDS Dispatch, TLAPS

(* Which field of a thread's state its label relies on.                    *)
OnIncident ==
    {"request_analyzing", "ai_load", "ai_result", "ai_status", "find",
     "create_offer", "mark_matched", "mark_no_offers", "cancel_commit",
     "complete_incident", "release_load", "release_commit", "arrive_commit",
     "evidence_commit"}

OnOffer ==
    {"accept_offer", "accept_load", "accept_incident", "reject_offer",
     "penalty_load", "penalty_commit", "complete_incident", "release_load",
     "release_commit", "bonus_load"}

OnWorkshop == {"create_offer", "penalty_commit", "bonus_commit"}

(* An offer that exists names its incident and its workshop, and a thread  *)
(* works on rows that exist.                                               *)
OffersBound ==
    \A o \in OfferIds :
        offer[o].status # "none" => /\ offer[o].incident \in Incidents
                                    /\ offer[o].workshop \in Workshops

LiveBound(j) ==
    \A o \in j.live : o \in OfferIds /\ offer[o].status # "none"

JobsBound ==
    \A h \in Threads :
        /\ job[h].pc \in OnIncident => job[h].incident \in Incidents
        /\ job[h].pc \in OnOffer => /\ job[h].offer \in OfferIds
                                    /\ offer[job[h].offer].status # "none"
        /\ job[h].pc \in OnWorkshop => job[h].workshop \in Workshops
        /\ job[h].pc = "release_commit" => job[h].technician \in Technicians
        /\ LiveBound(job[h])

TypeInv == TypeOK /\ OffersBound /\ JobsBound

LEMMA IdleType == Idle \in Jobs /\ Idle.pc = "idle" /\ Idle.live = {}
  BY DispatchAssumption DEF Idle, Jobs, Labels, NewIncident, IncidentRow,
     IncidentStatus

LEMMA NewRowTypes == NewIncident \in IncidentRow /\ NoOffer \in OfferRow
  BY DEF NewIncident, IncidentRow, IncidentStatus, NoOffer, OfferRow, OfferStatus

LEMMA FlushType ==
  ASSUME NEW loaded \in IncidentRow, NEW new \in IncidentRow,
         NEW now \in IncidentRow
  PROVE  Flush(loaded, new, now) \in IncidentRow
  BY DEF Flush, IncidentRow

LEMMA WriteStatus ==
  ASSUME NEW f \in [Incidents -> IncidentRow], NEW i \in Incidents,
         NEW s \in IncidentStatus
  PROVE  [f EXCEPT ![i].status = s] \in [Incidents -> IncidentRow]
<1>1. [f[i] EXCEPT !.status = s] \in IncidentRow
  BY DEF IncidentRow
<1> QED
  BY <1>1

LEMMA InitType == Init => TypeInv
<1> SUFFICES ASSUME Init PROVE TypeInv
  OBVIOUS
<1>1. TypeOK
  BY DispatchAssumption, IdleType, NewRowTypes DEF Init, TypeOK
<1>2. OffersBound
  BY DEF Init, OffersBound, NoOffer
<1>3. JobsBound
  BY IdleType DEF Init, JobsBound, LiveBound, OnIncident, OnOffer, OnWorkshop
<1> QED
  BY <1>1, <1>2, <1>3 DEF TypeInv

(* One thread moves to a well-formed local state, and no offer disappears. *)
LEMMA JobStep ==
  ASSUME TypeInv, NEW h \in Threads, NEW j \in Jobs,
         job' = [job EXCEPT ![h] = j],
         \A o \in OfferIds :
            offer[o].status # "none" => offer'[o].status # "none",
         j.pc \in OnIncident => j.incident \in Incidents,
         j.pc \in OnOffer => /\ j.offer \in OfferIds
                             /\ offer'[j.offer].status # "none",
         j.pc \in OnWorkshop => j.workshop \in Workshops,
         j.pc = "release_commit" => j.technician \in Technicians,
         LiveBound(j)
  PROVE  job' \in [Threads -> Jobs] /\ JobsBound'
  BY DEF TypeInv, TypeOK, JobsBound, LiveBound

LEMMA IdleStep ==
  ASSUME TypeInv, NEW h \in Threads, job' = [job EXCEPT ![h] = Idle],
         \A o \in OfferIds :
            offer[o].status # "none" => offer'[o].status # "none"
  PROVE  job' \in [Threads -> Jobs] /\ JobsBound'
<1>1. /\ Idle \in Jobs /\ LiveBound(Idle)
      /\ Idle.pc \notin OnIncident \cup OnOffer \cup OnWorkshop
      /\ Idle.pc # "release_commit"
  BY IdleType DEF LiveBound, OnIncident, OnOffer, OnWorkshop
<1> QED
  BY <1>1, JobStep

(* Two kinds of steps that change little: a thread that only reads, or     *)
(* that only writes an incident.                                           *)
LEMMA ReadStep ==
  ASSUME TypeInv, NEW h \in Threads, NEW j \in Jobs,
         job' = [job EXCEPT ![h] = j],
         UNCHANGED <<incident, offer, workshopVars, available, clock, countVars>>,
         j.pc \in OnIncident => j.incident \in Incidents,
         j.pc \in OnOffer => /\ j.offer \in OfferIds
                             /\ offer[j.offer].status # "none",
         j.pc \in OnWorkshop => j.workshop \in Workshops,
         j.pc = "release_commit" => j.technician \in Technicians,
         LiveBound(j)
  PROVE  TypeInv'
<1>1. job' \in [Threads -> Jobs] /\ JobsBound'
  BY JobStep
<1> QED
  BY <1>1 DEF TypeInv, TypeOK, OffersBound, workshopVars, countVars

LEMMA IncidentStep ==
  ASSUME TypeInv, NEW h \in Threads, NEW j \in Jobs,
         job' = [job EXCEPT ![h] = j],
         incident' \in [Incidents -> IncidentRow],
         UNCHANGED <<offer, workshopVars, available, clock, countVars>>,
         j.pc \in OnIncident => j.incident \in Incidents,
         j.pc \in OnOffer => /\ j.offer \in OfferIds
                             /\ offer[j.offer].status # "none",
         j.pc \in OnWorkshop => j.workshop \in Workshops,
         j.pc = "release_commit" => j.technician \in Technicians,
         LiveBound(j)
  PROVE  TypeInv'
<1>1. job' \in [Threads -> Jobs] /\ JobsBound'
  BY JobStep
<1> QED
  BY <1>1 DEF TypeInv, TypeOK, OffersBound, workshopVars, countVars

(* The row of an incident as a session commits it.                         *)
LEMMA CommitType ==
  ASSUME TypeInv, NEW i \in Incidents, NEW loaded \in IncidentRow,
         NEW new \in IncidentRow,
         incident' = [incident EXCEPT ![i] = Flush(loaded, new, @)]
  PROVE  incident' \in [Incidents -> IncidentRow]
<1>1. Flush(loaded, new, incident[i]) \in IncidentRow
  BY FlushType DEF TypeInv, TypeOK
<1> QED
  BY <1>1 DEF TypeInv, TypeOK

LEMMA TriageType ==
  ASSUME TypeInv, NEW h \in Threads, NEW near \in SUBSET Workshops
  PROVE  /\ RequestAnalyzing(h) => TypeInv'
         /\ AiLoad(h) => TypeInv'
         /\ EvidenceCommit(h) => TypeInv'
         /\ AiSaveImages(h, near) => TypeInv'
         /\ AiPendingInfo(h, near) => TypeInv'
         /\ AiMatched(h, near) => TypeInv'
         /\ AiError(h, near) => TypeInv'
<1> DEFINE i == job[h].incident
<1>0. /\ job[h] \in Jobs /\ job[h].row \in IncidentRow
      /\ job[h].pc \in OnIncident => i \in Incidents
      /\ LiveBound(job[h])
  BY DEF TypeInv, TypeOK, JobsBound, Jobs
<1>1. ASSUME RequestAnalyzing(h) PROVE TypeInv'
  <2> DEFINE j == [job[h] EXCEPT !.pc = "ai_load"]
  <2>1. i \in Incidents
    BY <1>0, <1>1 DEF RequestAnalyzing, At, OnIncident
  <2>2. incident' \in [Incidents -> IncidentRow]
    BY <1>1, <2>1, WriteStatus DEF RequestAnalyzing, IncidentStatus, TypeInv, TypeOK
  <2>3. j \in Jobs /\ LiveBound(j) /\ j.pc = "ai_load" /\ j.incident = i
    BY <1>0 DEF Jobs, Labels, LiveBound
  <2> QED
    BY <1>1, <2>1, <2>2, <2>3, IncidentStep
       DEF RequestAnalyzing, Continue, OnIncident, OnOffer, OnWorkshop
<1>2. ASSUME AiLoad(h) PROVE TypeInv'
  <2> DEFINE j == [job[h] EXCEPT !.pc = "ai_result", !.row = incident[i]]
  <2>1. i \in Incidents
    BY <1>0, <1>2 DEF AiLoad, At, OnIncident
  <2>2. j \in Jobs /\ LiveBound(j) /\ j.pc = "ai_result" /\ j.incident = i
    BY <1>0, <2>1 DEF Jobs, Labels, LiveBound, TypeInv, TypeOK
  <2> QED
    BY <1>2, <2>1, <2>2, ReadStep
       DEF AiLoad, Continue, OnIncident, OnOffer, OnWorkshop
<1>3. ASSUME EvidenceCommit(h) PROVE TypeInv'
  <2> DEFINE j == [Idle EXCEPT !.pc = "ai_load", !.incident = i]
  <2>1. i \in Incidents
    BY <1>0, <1>3 DEF EvidenceCommit, At, OnIncident
  <2>2. [job[h].row EXCEPT !.status = "analyzing"] \in IncidentRow
    BY <1>0 DEF IncidentRow, IncidentStatus
  <2>3. incident' \in [Incidents -> IncidentRow]
    BY <1>0, <1>3, <2>1, <2>2, CommitType DEF EvidenceCommit
  <2>4. j \in Jobs /\ LiveBound(j) /\ j.pc = "ai_load" /\ j.incident = i
    BY IdleType, <2>1 DEF Jobs, Labels, LiveBound
  <2> QED
    BY <1>3, <2>1, <2>3, <2>4, IncidentStep
       DEF EvidenceCommit, Continue, OnIncident, OnOffer, OnWorkshop
<1>4. ASSUME NEW s \in IncidentStatus, i \in Incidents,
             SaveTriage(job[h], near, s)
      PROVE  incident' \in [Incidents -> IncidentRow]
  <2>1. [job[h].row EXCEPT !.near = near, !.status = s] \in IncidentRow
    BY <1>0 DEF IncidentRow
  <2> QED
    BY <1>0, <1>4, <2>1, CommitType DEF SaveTriage
<1>5. ASSUME AiSaveImages(h, near) PROVE TypeInv'
  <2> DEFINE j == [job[h] EXCEPT !.pc = "ai_status", !.row = incident'[i]]
  <2>1. i \in Incidents /\ job[h].row.status \in IncidentStatus
    BY <1>0, <1>5 DEF AiSaveImages, At, OnIncident, IncidentRow
  <2>2. incident' \in [Incidents -> IncidentRow]
    BY <1>4, <1>5, <2>1 DEF AiSaveImages
  <2>3. j \in Jobs /\ LiveBound(j) /\ j.pc = "ai_status" /\ j.incident = i
    BY <1>0, <2>1, <2>2 DEF Jobs, Labels, LiveBound
  <2> QED
    BY <1>5, <2>1, <2>2, <2>3, IncidentStep
       DEF AiSaveImages, Continue, OnIncident, OnOffer, OnWorkshop
<1>6. /\ LiveBound(Idle)
      /\ Idle.pc \notin OnIncident \cup OnOffer \cup OnWorkshop
                          \cup {"release_commit"}
  BY IdleType DEF LiveBound, OnIncident, OnOffer, OnWorkshop
<1>7. ASSUME AiPendingInfo(h, near) \/ AiMatched(h, near) \/ AiError(h, near)
      PROVE  i \in Incidents
  BY <1>0, <1>7 DEF AiPendingInfo, AiMatched, AiError, Triaged, At, OnIncident
<1>8. ASSUME AiPendingInfo(h, near) PROVE TypeInv'
  <2>1. incident' \in [Incidents -> IncidentRow]
    BY <1>4, <1>7, <1>8 DEF AiPendingInfo, IncidentStatus
  <2> QED
    BY <1>6, <1>8, <2>1, IdleType, IncidentStep DEF AiPendingInfo, Finish
<1>9. ASSUME AiError(h, near) PROVE TypeInv'
  <2>1. incident' \in [Incidents -> IncidentRow]
    BY <1>4, <1>7, <1>9 DEF AiError, IncidentStatus
  <2> QED
    BY <1>6, <1>9, <2>1, IdleType, IncidentStep DEF AiError, Finish
<1>10. ASSUME AiMatched(h, near) PROVE TypeInv'
  <2> DEFINE j == [Idle EXCEPT !.pc = "find", !.incident = i]
  <2>1. incident' \in [Incidents -> IncidentRow]
    BY <1>4, <1>7, <1>10 DEF AiMatched, IncidentStatus
  <2>2. j \in Jobs /\ LiveBound(j) /\ j.pc = "find" /\ j.incident = i
    BY IdleType, <1>7, <1>10 DEF Jobs, Labels, LiveBound
  <2> QED
    BY <1>7, <1>10, <2>1, <2>2, IncidentStep
       DEF AiMatched, Continue, OnIncident, OnOffer, OnWorkshop
<1> QED
  BY <1>1, <1>2, <1>3, <1>5, <1>8, <1>9, <1>10
(* The requests that open a handler.                                       *)
LEMMA RequestType ==
  ASSUME TypeInv, NEW h \in Threads, NEW i \in Incidents
  PROVE  /\ RequestHelp(h, i) => TypeInv'
         /\ AddEvidence(h, i) => TypeInv'
         /\ BeginCancel(h, i) => TypeInv'
         /\ BeginArrive(h, i) => TypeInv'
<1>0. incident[i] \in IncidentRow
  BY DEF TypeInv, TypeOK
<1>1. ASSUME RequestHelp(h, i) PROVE TypeInv'
  <2> DEFINE j == [Idle EXCEPT !.pc = "request_analyzing", !.incident = i]
  <2>1. incident' \in [Incidents -> IncidentRow]
    BY <1>1, WriteStatus DEF RequestHelp, IncidentStatus, TypeInv, TypeOK
  <2>2. j \in Jobs /\ LiveBound(j) /\ j.pc = "request_analyzing" /\ j.incident = i
    BY IdleType DEF Jobs, Labels, LiveBound
  <2> QED
    BY <1>1, <2>1, <2>2, IncidentStep
       DEF RequestHelp, Begin, OnIncident, OnOffer, OnWorkshop
<1>2. ASSUME AddEvidence(h, i) PROVE TypeInv'
  <2> DEFINE j == [Idle EXCEPT !.pc = "evidence_commit", !.incident = i,
                               !.row = incident[i]]
  <2>1. j \in Jobs /\ LiveBound(j) /\ j.pc = "evidence_commit" /\ j.incident = i
    BY IdleType, <1>0 DEF Jobs, Labels, LiveBound
  <2> QED
    BY <1>2, <2>1, ReadStep
       DEF AddEvidence, Begin, OnIncident, OnOffer, OnWorkshop
<1>3. ASSUME BeginCancel(h, i) PROVE TypeInv'
  <2> DEFINE t == incident[i].technician
             free == t # None /\ available[t]
             j == [Idle EXCEPT !.pc = "cancel_commit", !.incident = i,
                               !.technician = t, !.row = incident[i],
                               !.free = free, !.live = LiveOffers(i)]
  <2>1. t \in Technicians \cup {None}
    BY <1>0 DEF IncidentRow
  <2>2. free \in BOOLEAN
    BY <2>1 DEF TypeInv, TypeOK
  <2>3. j \in Jobs /\ LiveBound(j) /\ j.pc = "cancel_commit" /\ j.incident = i
    <3>1. /\ LiveOffers(i) \subseteq OfferIds
          /\ \A p \in LiveOffers(i) : offer[p].status # "none"
      BY DEF LiveOffers
    <3> HIDE DEF t, free
    <3> QED
      BY IdleType, <1>0, <2>1, <2>2, <3>1 DEF Jobs, Labels, LiveBound
  <2> QED
    BY <1>3, <2>3, ReadStep
       DEF BeginCancel, Begin, OnIncident, OnOffer, OnWorkshop
<1>4. ASSUME BeginArrive(h, i) PROVE TypeInv'
  <2> DEFINE j == [Idle EXCEPT !.pc = "arrive_commit", !.incident = i,
                               !.row = incident[i]]
  <2>1. j \in Jobs /\ LiveBound(j) /\ j.pc = "arrive_commit" /\ j.incident = i
    BY IdleType, <1>0 DEF Jobs, Labels, LiveBound
  <2> QED
    BY <1>4, <2>1, ReadStep
       DEF BeginArrive, Begin, OnIncident, OnOffer, OnWorkshop
<1> QED
  BY <1>1, <1>2, <1>3, <1>4

LEMMA AnswerType ==
  ASSUME TypeInv, NEW h \in Threads, NEW o \in OfferIds
  PROVE  /\ \A t \in Technicians \cup {None} : BeginAccept(h, o, t) => TypeInv'
         /\ \A c \in 1..MaxPenalty : BeginReject(h, o, c) => TypeInv'
         /\ BeginComplete(h, o) => TypeInv'
<1>1. ASSUME NEW t \in Technicians \cup {None}, BeginAccept(h, o, t)
      PROVE  TypeInv'
  <2> DEFINE j == [Idle EXCEPT !.pc = "accept_offer", !.offer = o,
                               !.technician = t]
  <2>1. j \in Jobs /\ LiveBound(j) /\ j.pc = "accept_offer" /\ j.offer = o
    BY IdleType DEF Jobs, Labels, LiveBound
  <2> QED
    BY <1>1, <2>1, ReadStep
       DEF BeginAccept, Begin, OnIncident, OnOffer, OnWorkshop
<1>2. ASSUME NEW c \in 1..MaxPenalty, BeginReject(h, o, c) PROVE TypeInv'
  <2> DEFINE j == [Idle EXCEPT !.pc = "reject_offer", !.offer = o, !.cost = c]
  <2>1. j \in Jobs /\ LiveBound(j) /\ j.pc = "reject_offer" /\ j.offer = o
    <3>1. c \in 0..MaxPenalty
      BY DispatchAssumption
    <3> QED
      BY <3>1, IdleType DEF Jobs, Labels, LiveBound
  <2> QED
    BY <1>2, <2>1, ReadStep
       DEF BeginReject, Begin, OnIncident, OnOffer, OnWorkshop
<1>3. ASSUME BeginComplete(h, o) PROVE TypeInv'
  <2> DEFINE i == offer[o].incident
             j == [Idle EXCEPT !.pc = "complete_incident", !.offer = o,
                               !.incident = i, !.row = incident[i]]
  <2>1. i \in Incidents
    BY <1>3 DEF BeginComplete, TypeInv, OffersBound
  <2>2. incident[i] \in IncidentRow
    BY <2>1 DEF TypeInv, TypeOK
  <2>3. /\ j \in Jobs /\ LiveBound(j) /\ j.pc = "complete_incident"
        /\ j.offer = o /\ j.incident = i
    <3> HIDE DEF i
    <3> QED
      BY IdleType, <2>1, <2>2 DEF Jobs, Labels, LiveBound
  <2>4. job' \in [Threads -> Jobs] /\ JobsBound'
    BY <1>3, <2>1, <2>3, JobStep
       DEF BeginComplete, Begin, OnIncident, OnOffer, OnWorkshop
  <2>5. completions' \in 0..MaxCompletions
    BY <1>3, DispatchAssumption DEF BeginComplete, TypeInv, TypeOK
  <2> QED
    BY <1>3, <2>4, <2>5
       DEF BeginComplete, TypeInv, TypeOK, OffersBound, workshopVars
<1> QED
  BY <1>1, <1>2, <1>3

LEMMA MatchType ==
  ASSUME TypeInv, NEW h \in Threads
  PROVE  /\ FindAndCreateOffer(h) => TypeInv'
         /\ MarkNoOffers(h) => TypeInv'
         /\ CreateOffer(h) => TypeInv'
         /\ MarkMatched(h) => TypeInv'
<1> DEFINE i == job[h].incident
<1>0. /\ job[h] \in Jobs /\ job[h].row \in IncidentRow
      /\ job[h].pc \in OnIncident => i \in Incidents
      /\ job[h].pc \in OnWorkshop => job[h].workshop \in Workshops
      /\ LiveBound(job[h])
  BY DEF TypeInv, TypeOK, JobsBound, Jobs
<1>1. ASSUME FindAndCreateOffer(h) PROVE TypeInv'
  <2> DEFINE none == [Idle EXCEPT !.pc = "mark_no_offers", !.incident = i,
                                  !.row = incident[i]]
             won(w) == [Idle EXCEPT !.pc = "create_offer", !.incident = i,
                                    !.workshop = w]
  <2>1. i \in Incidents /\ incident[i] \in IncidentRow
    BY <1>0, <1>1 DEF FindAndCreateOffer, At, OnIncident, TypeInv, TypeOK
  <2>2. none \in Jobs /\ LiveBound(none) /\ none.pc = "mark_no_offers" /\ none.incident = i
    BY IdleType, <2>1 DEF Jobs, Labels, LiveBound
  <2>3. Candidates(i) \subseteq Workshops
    BY <2>1 DEF Candidates, IncidentRow
  <2>4. \A w \in Workshops : /\ won(w) \in Jobs /\ won(w).pc = "create_offer"
                             /\ LiveBound(won(w))
                             /\ won(w).incident = i /\ won(w).workshop = w
    BY IdleType, <2>1 DEF Jobs, Labels, LiveBound
  <2>5. CASE job' = [job EXCEPT ![h] = none]
    BY <1>1, <2>1, <2>2, <2>5, ReadStep
       DEF FindAndCreateOffer, OnIncident, OnOffer, OnWorkshop
  <2>6. ASSUME NEW w \in Candidates(i), job' = [job EXCEPT ![h] = won(w)]
        PROVE  TypeInv'
    BY <1>1, <2>1, <2>3, <2>4, <2>6, ReadStep
       DEF FindAndCreateOffer, OnIncident, OnOffer, OnWorkshop
  <2> QED
    BY <1>1, <2>5, <2>6 DEF FindAndCreateOffer, Continue
<1>2. /\ LiveBound(Idle)
      /\ Idle.pc \notin OnIncident \cup OnOffer \cup OnWorkshop
                          \cup {"release_commit"}
  BY IdleType DEF LiveBound, OnIncident, OnOffer, OnWorkshop
<1>3. ASSUME MarkNoOffers(h) PROVE TypeInv'
  <2>1. i \in Incidents
    BY <1>0, <1>3 DEF MarkNoOffers, At, OnIncident
  <2>2. [job[h].row EXCEPT !.status = "no_offers"] \in IncidentRow
    BY <1>0 DEF IncidentRow, IncidentStatus
  <2>3. incident' \in [Incidents -> IncidentRow]
    BY <1>0, <1>3, <2>1, <2>2, CommitType DEF MarkNoOffers
  <2> QED
    BY <1>2, <1>3, <2>3, IdleType, IncidentStep DEF MarkNoOffers, Finish
<1>4. ASSUME MarkMatched(h) PROVE TypeInv'
  <2>1. i \in Incidents
    BY <1>0, <1>4 DEF MarkMatched, At, OnIncident
  <2>2. incident' \in [Incidents -> IncidentRow]
    BY <1>4, <2>1, WriteStatus DEF MarkMatched, IncidentStatus, TypeInv, TypeOK
  <2> QED
    BY <1>2, <1>4, <2>2, IdleType, IncidentStep DEF MarkMatched, Finish
<1>5. ASSUME CreateOffer(h) PROVE TypeInv'
  <2> DEFINE j == [job[h] EXCEPT !.pc = "mark_matched", !.workshop = None]
             new == [NoOffer EXCEPT !.status = "notified", !.incident = i,
                                    !.workshop = job[h].workshop]
  <2>1. i \in Incidents /\ job[h].workshop \in Workshops
    BY <1>0, <1>5 DEF CreateOffer, At, OnIncident, OnWorkshop
  <2>2. PICK o \in Unused : offer' = [offer EXCEPT ![o] = new]
    BY <1>5 DEF CreateOffer
  <2>3. o \in OfferIds
    BY <2>2 DEF Unused
  <2>4. /\ new \in OfferRow /\ new.status = "notified"
        /\ new.incident = i /\ new.workshop = job[h].workshop
    BY <2>1, NewRowTypes DEF NoOffer, OfferRow, OfferStatus
  <2>5. offer' \in [OfferIds -> OfferRow] /\ OffersBound'
    BY <2>1, <2>2, <2>3, <2>4 DEF TypeInv, TypeOK, OffersBound
  <2>6. \A p \in OfferIds : offer[p].status # "none" => offer'[p].status # "none"
    BY <2>2, <2>3, <2>4 DEF TypeInv, TypeOK
  <2>7. j \in Jobs /\ LiveBound(j) /\ j.pc = "mark_matched" /\ j.incident = i
    BY <1>0 DEF Jobs, Labels, LiveBound
  <2>8. job' \in [Threads -> Jobs] /\ JobsBound'
    BY <1>5, <2>1, <2>6, <2>7, JobStep
       DEF CreateOffer, Continue, OnIncident, OnOffer, OnWorkshop
  <2> QED
    BY <1>5, <2>5, <2>8 DEF CreateOffer, TypeInv, TypeOK, workshopVars, countVars
<1> QED
  BY <1>1, <1>3, <1>4, <1>5
LEMMA OfferStep ==
  ASSUME TypeInv, NEW o \in OfferIds, NEW new \in OfferRow,
         offer' = [offer EXCEPT ![o] = new], new.status # "none",
         new.incident \in Incidents, new.workshop \in Workshops
  PROVE  /\ offer' \in [OfferIds -> OfferRow]
         /\ OffersBound'
         /\ \A p \in OfferIds :
               offer[p].status # "none" => offer'[p].status # "none"
  BY DEF TypeInv, TypeOK, OffersBound

LEMMA OfferType ==
  ASSUME TypeInv, NEW h \in Threads
  PROVE  /\ AcceptOffer(h) => TypeInv'
         /\ AcceptLoad(h) => TypeInv'
         /\ AcceptIncident(h) => TypeInv'
         /\ RejectOffer(h) => TypeInv'
         /\ PenaltyLoad(h) => TypeInv'
         /\ PenaltyCommit(h) => TypeInv'
<1> DEFINE o == job[h].offer
<1>0. /\ job[h] \in Jobs /\ job[h].row \in IncidentRow
      /\ job[h].technician \in Technicians \cup {None}
      /\ job[h].cost \in 0..MaxPenalty
      /\ job[h].pts \in 0..MaxPoints /\ job[h].rej \in Nat
      /\ job[h].free \in BOOLEAN
      /\ LiveBound(job[h])
  BY DEF TypeInv, TypeOK, JobsBound, Jobs
<1>1. ASSUME job[h].pc \in OnOffer
      PROVE  /\ o \in OfferIds /\ offer[o] \in OfferRow
             /\ offer[o].status # "none"
             /\ offer[o].incident \in Incidents
             /\ offer[o].workshop \in Workshops
  BY <1>1 DEF TypeInv, TypeOK, OffersBound, JobsBound
<1>2. ASSUME AcceptOffer(h) PROVE TypeInv'
  <2> DEFINE j == [job[h] EXCEPT !.pc = "accept_load"]
             new == [offer[o] EXCEPT !.status = "accepted",
                                     !.acceptedAt = clock + 1,
                                     !.overdue = FALSE]
  <2>1. /\ o \in OfferIds /\ offer[o] \in OfferRow
        /\ offer[o].incident \in Incidents /\ offer[o].workshop \in Workshops
    BY <1>1, <1>2 DEF AcceptOffer, At, OnOffer
  <2>2. /\ new \in OfferRow /\ new.status = "accepted"
        /\ new.incident = offer[o].incident /\ new.workshop = offer[o].workshop
    <3>1. clock + 1 \in Nat
      BY DEF TypeInv, TypeOK
    <3> QED
      BY <2>1, <3>1 DEF OfferRow, OfferStatus
  <2>3. offer' = [offer EXCEPT ![o] = new]
    BY <1>2, <2>1 DEF AcceptOffer, TypeInv, TypeOK
  <2>4. /\ offer' \in [OfferIds -> OfferRow] /\ OffersBound'
        /\ \A p \in OfferIds :
              offer[p].status # "none" => offer'[p].status # "none"
        /\ offer'[o].status = "accepted"
    BY <2>1, <2>2, <2>3, OfferStep DEF TypeInv, TypeOK
  <2>5. j \in Jobs /\ LiveBound(j) /\ j.pc = "accept_load" /\ j.offer = o
    BY <1>0 DEF Jobs, Labels, LiveBound
  <2>6. job' \in [Threads -> Jobs] /\ JobsBound'
    BY <1>2, <2>1, <2>4, <2>5, JobStep
       DEF AcceptOffer, Continue, OnIncident, OnOffer, OnWorkshop
  <2> QED
    BY <1>2, <2>4, <2>6 DEF AcceptOffer, TypeInv, TypeOK, workshopVars, countVars
<1>3. ASSUME AcceptLoad(h) PROVE TypeInv'
  <2> DEFINE free == job[h].technician # None /\ available[job[h].technician]
             row == incident[offer[o].incident]
             j == [job[h] EXCEPT !.pc = "accept_incident", !.row = row,
                                 !.free = free]
  <2>1. o \in OfferIds /\ offer[o].incident \in Incidents
        /\ offer[o].status # "none"
    BY <1>1, <1>3 DEF AcceptLoad, At, OnOffer
  <2>2. free \in BOOLEAN /\ row \in IncidentRow
    BY <1>0, <2>1 DEF TypeInv, TypeOK
  <2>3. j \in Jobs /\ LiveBound(j) /\ j.pc = "accept_incident" /\ j.offer = o
    <3> HIDE DEF free, row
    <3> QED
      BY <1>0, <2>2 DEF Jobs, Labels, LiveBound
  <2> QED
    BY <1>3, <2>1, <2>3, ReadStep
       DEF AcceptLoad, Continue, OnIncident, OnOffer, OnWorkshop
<1>4. ASSUME AcceptIncident(h) PROVE TypeInv'
  <2> DEFINE t == job[h].technician
             i == offer[o].incident
             new == [job[h].row EXCEPT !.status = "assigned",
                                       !.workshop = offer[o].workshop,
                                       !.technician = IF t = None THEN @ ELSE t]
  <2>1. i \in Incidents /\ offer[o].workshop \in Workshops
    BY <1>1, <1>4 DEF AcceptIncident, At, OnOffer
  <2>2. new \in IncidentRow
    BY <1>0, <2>1 DEF IncidentRow, IncidentStatus
  <2>3. incident' = [incident EXCEPT ![i] = Flush(job[h].row, new, @)]
    BY <1>4 DEF AcceptIncident
  <2>4. incident' \in [Incidents -> IncidentRow]
    <3> HIDE DEF new, i
    <3> QED
      BY <1>0, <2>1, <2>2, <2>3, CommitType
  <2>5. available' \in [Technicians -> BOOLEAN]
    BY <1>0, <1>4 DEF AcceptIncident, FlushValue, TypeInv, TypeOK
  <2>6. job' \in [Threads -> Jobs] /\ JobsBound'
    BY <1>4, IdleStep DEF AcceptIncident, Finish
  <2> QED
    BY <1>4, <2>4, <2>5, <2>6
       DEF AcceptIncident, TypeInv, TypeOK, OffersBound, workshopVars, countVars
<1>5. ASSUME RejectOffer(h) PROVE TypeInv'
  <2> DEFINE j == [job[h] EXCEPT !.pc = "penalty_load"]
             new == [offer[o] EXCEPT !.status = "rejected",
                                     !.rejectedAt = clock + 1,
                                     !.overdue = FALSE]
  <2>1. /\ o \in OfferIds /\ offer[o] \in OfferRow
        /\ offer[o].incident \in Incidents /\ offer[o].workshop \in Workshops
    BY <1>1, <1>5 DEF RejectOffer, At, OnOffer
  <2>2. /\ new \in OfferRow /\ new.status = "rejected"
        /\ new.incident = offer[o].incident /\ new.workshop = offer[o].workshop
    <3>1. clock + 1 \in Nat
      BY DEF TypeInv, TypeOK
    <3> QED
      BY <2>1, <3>1 DEF OfferRow, OfferStatus
  <2>3. offer' = [offer EXCEPT ![o] = new]
    BY <1>5, <2>1 DEF RejectOffer, TypeInv, TypeOK
  <2>4. /\ offer' \in [OfferIds -> OfferRow] /\ OffersBound'
        /\ \A p \in OfferIds :
              offer[p].status # "none" => offer'[p].status # "none"
        /\ offer'[o].status = "rejected"
    BY <2>1, <2>2, <2>3, OfferStep DEF TypeInv, TypeOK
  <2>5. j \in Jobs /\ LiveBound(j) /\ j.pc = "penalty_load" /\ j.offer = o
    BY <1>0 DEF Jobs, Labels, LiveBound
  <2>6. job' \in [Threads -> Jobs] /\ JobsBound'
    BY <1>5, <2>1, <2>4, <2>5, JobStep
       DEF RejectOffer, Continue, OnIncident, OnOffer, OnWorkshop
  <2> QED
    BY <1>5, <2>4, <2>6 DEF RejectOffer, TypeInv, TypeOK, workshopVars, countVars
<1>6. ASSUME PenaltyLoad(h) PROVE TypeInv'
  <2> DEFINE w == offer[o].workshop
             j == [job[h] EXCEPT !.pc = "penalty_commit", !.workshop = w,
                                 !.pts = points[w], !.rej = rejections[w]]
  <2>1. o \in OfferIds /\ w \in Workshops /\ offer[o].status # "none"
    BY <1>1, <1>6 DEF PenaltyLoad, At, OnOffer
  <2>2. points[w] \in 0..MaxPoints /\ rejections[w] \in Nat
    BY <2>1 DEF TypeInv, TypeOK
  <2>3. j \in Jobs /\ LiveBound(j) /\ j.pc = "penalty_commit" /\ j.offer = o /\ j.workshop = w
    <3> HIDE DEF w
    <3> QED
      BY <1>0, <2>1, <2>2 DEF Jobs, Labels, LiveBound
  <2> QED
    BY <1>6, <2>1, <2>3, ReadStep
       DEF PenaltyLoad, Continue, OnIncident, OnOffer, OnWorkshop
<1>7. ASSUME PenaltyCommit(h) PROVE TypeInv'
  <2> DEFINE i == offer[o].incident
             j == [Idle EXCEPT !.pc = "find", !.incident = i]
  <2>1. i \in Incidents
    BY <1>1, <1>7 DEF PenaltyCommit, At, OnOffer
  <2>2. points' \in [Workshops -> 0..MaxPoints]
    <3>1. LargerOf(0, job[h].pts - job[h].cost) \in 0..MaxPoints
      BY <1>0, DispatchAssumption DEF LargerOf
    <3> QED
      BY <1>7, <3>1 DEF PenaltyCommit, FlushValue, TypeInv, TypeOK
  <2>3. rejections' \in [Workshops -> Nat]
    <3>1. job[h].rej + 1 \in Nat
      BY <1>0
    <3> QED
      BY <1>7, <3>1 DEF PenaltyCommit, TypeInv, TypeOK
  <2>4. j \in Jobs /\ LiveBound(j) /\ j.pc = "find" /\ j.incident = i
    <3> HIDE DEF i
    <3> QED
      BY IdleType, <2>1 DEF Jobs, Labels, LiveBound
  <2>5. job' \in [Threads -> Jobs] /\ JobsBound'
    BY <1>7, <2>1, <2>4, JobStep
       DEF PenaltyCommit, Continue, OnIncident, OnOffer, OnWorkshop
  <2> QED
    BY <1>7, <2>2, <2>3, <2>5
       DEF PenaltyCommit, TypeInv, TypeOK, OffersBound, countVars
<1> QED
  BY <1>2, <1>3, <1>4, <1>5, <1>6, <1>7
LEMMA EndingType ==
  ASSUME TypeInv, NEW h \in Threads
  PROVE  /\ CancelCommit(h) => TypeInv'
         /\ ArriveCommit(h) => TypeInv'
         /\ CompleteIncident(h) => TypeInv'
         /\ ReleaseLoad(h) => TypeInv'
         /\ ReleaseCommit(h) => TypeInv'
         /\ BonusLoad(h) => TypeInv'
         /\ BonusCommit(h) => TypeInv'
<1> DEFINE i == job[h].incident
           o == job[h].offer
<1>0. /\ job[h] \in Jobs /\ job[h].row \in IncidentRow
      /\ job[h].technician \in Technicians \cup {None}
      /\ job[h].pts \in 0..MaxPoints /\ job[h].free \in BOOLEAN
      /\ LiveBound(job[h])
      /\ job[h].pc \in OnIncident => i \in Incidents
  BY DEF TypeInv, TypeOK, JobsBound, Jobs
<1>1. ASSUME job[h].pc \in OnOffer
      PROVE  /\ o \in OfferIds /\ offer[o].status # "none"
             /\ offer[o].workshop \in Workshops
  BY <1>1 DEF TypeInv, OffersBound, JobsBound
<1>2. ASSUME NEW s \in IncidentStatus
      PROVE  [job[h].row EXCEPT !.status = s] \in IncidentRow
  BY <1>0 DEF IncidentRow
<1>3. /\ LiveBound(Idle)
      /\ Idle.pc \notin OnIncident \cup OnOffer \cup OnWorkshop
                          \cup {"release_commit"}
  BY IdleType DEF LiveBound, OnIncident, OnOffer, OnWorkshop
<1>4. ASSUME CancelCommit(h) PROVE TypeInv'
  <2> DEFINE gone(p) == [offer[p] EXCEPT !.status = "expired",
                                         !.overdue = FALSE]
  <2>1. i \in Incidents
    BY <1>0, <1>4 DEF CancelCommit, At, OnIncident
  <2>2. incident' \in [Incidents -> IncidentRow]
    BY <1>0, <1>2, <1>4, <2>1, CommitType DEF CancelCommit, IncidentStatus
  <2>3. \A p \in OfferIds :
           /\ gone(p) \in OfferRow /\ gone(p).status = "expired"
           /\ gone(p).incident = offer[p].incident
           /\ gone(p).workshop = offer[p].workshop
    <3>1. \A p \in OfferIds : offer[p] \in OfferRow
      BY DEF TypeInv, TypeOK
    <3> QED
      BY <3>1 DEF OfferRow, OfferStatus
  <2>4. \A p \in OfferIds :
           offer'[p] = IF p \in job[h].live THEN gone(p) ELSE offer[p]
    BY <1>4 DEF CancelCommit
  <2>5. offer' \in [OfferIds -> OfferRow]
    <3>1. offer' = [p \in OfferIds |-> IF p \in job[h].live
                                       THEN gone(p) ELSE offer[p]]
      BY <1>4 DEF CancelCommit
    <3> HIDE DEF gone
    <3> QED
      BY <2>3, <3>1 DEF TypeInv, TypeOK
  <2>6. /\ OffersBound'
        /\ \A p \in OfferIds :
              offer[p].status # "none" => offer'[p].status # "none"
    <3> HIDE DEF gone
    <3> QED
      BY <1>0, <2>3, <2>4 DEF TypeInv, OffersBound, LiveBound
  <2>7. available' \in [Technicians -> BOOLEAN]
    BY <1>0, <1>4 DEF CancelCommit, FlushValue, TypeInv, TypeOK
  <2>8. job' \in [Threads -> Jobs] /\ JobsBound'
    BY <1>4, <2>6, IdleStep DEF CancelCommit, Finish
  <2> QED
    BY <1>4, <2>2, <2>5, <2>6, <2>7, <2>8
       DEF CancelCommit, TypeInv, TypeOK, workshopVars, countVars
<1>5. ASSUME ArriveCommit(h) PROVE TypeInv'
  <2>1. i \in Incidents
    BY <1>0, <1>5 DEF ArriveCommit, At, OnIncident
  <2>2. incident' \in [Incidents -> IncidentRow]
    BY <1>0, <1>2, <1>5, <2>1, CommitType DEF ArriveCommit, IncidentStatus
  <2> QED
    BY <1>3, <1>5, <2>2, IdleType, IncidentStep DEF ArriveCommit, Finish
<1>6. ASSUME CompleteIncident(h) PROVE TypeInv'
  <2> DEFINE j == [Idle EXCEPT !.pc = "release_load", !.offer = o,
                               !.incident = i]
  <2>1. i \in Incidents /\ o \in OfferIds /\ offer[o].status # "none"
    BY <1>0, <1>1, <1>6 DEF CompleteIncident, At, OnIncident, OnOffer
  <2>2. incident' \in [Incidents -> IncidentRow]
    BY <1>0, <1>2, <1>6, <2>1, CommitType DEF CompleteIncident, IncidentStatus
  <2>3. /\ j \in Jobs /\ LiveBound(j) /\ j.pc = "release_load"
        /\ j.offer = o /\ j.incident = i
    BY IdleType, <2>1 DEF Jobs, Labels, LiveBound
  <2> QED
    BY <1>6, <2>1, <2>2, <2>3, IncidentStep
       DEF CompleteIncident, Continue, OnIncident, OnOffer, OnWorkshop
<1>7. ASSUME ReleaseLoad(h) PROVE TypeInv'
  <2> DEFINE t == incident[i].technician
             free == t # None /\ available[t]
             label == IF t = None THEN "bonus_load" ELSE "release_commit"
             j == [job[h] EXCEPT !.pc = label, !.technician = t, !.free = free]
  <2>1. i \in Incidents /\ o \in OfferIds /\ offer[o].status # "none"
    BY <1>0, <1>1, <1>7 DEF ReleaseLoad, At, OnIncident, OnOffer
  <2>2. t \in Technicians \cup {None}
    BY <2>1 DEF TypeInv, TypeOK, IncidentRow
  <2>3. free \in BOOLEAN
    BY <2>2 DEF TypeInv, TypeOK
  <2>4. label \in {"bonus_load", "release_commit"}
        /\ (label = "release_commit" => t \in Technicians)
    BY <2>2
  <2>5. /\ j \in Jobs /\ LiveBound(j) /\ j.pc = label /\ j.technician = t
        /\ j.offer = o /\ j.incident = i
    <3> HIDE DEF t, free, label
    <3> QED
      BY <1>0, <2>2, <2>3, <2>4 DEF Jobs, Labels, LiveBound
  <2>6. job' = [job EXCEPT ![h] = j]
    BY <1>7 DEF ReleaseLoad, Continue
  <2> QED
    <3> HIDE DEF j, label
    <3> QED
      BY <1>7, <2>1, <2>4, <2>5, <2>6, ReadStep
         DEF ReleaseLoad, OnIncident, OnOffer, OnWorkshop
<1>8. ASSUME ReleaseCommit(h) PROVE TypeInv'
  <2> DEFINE j == [Idle EXCEPT !.pc = "bonus_load", !.offer = o]
  <2>1. o \in OfferIds /\ offer[o].status # "none"
    BY <1>1, <1>8 DEF ReleaseCommit, At, OnOffer
  <2>2. available' \in [Technicians -> BOOLEAN]
    BY <1>0, <1>8 DEF ReleaseCommit, FlushValue, TypeInv, TypeOK
  <2>3. j \in Jobs /\ LiveBound(j) /\ j.pc = "bonus_load" /\ j.offer = o
    BY IdleType, <2>1 DEF Jobs, Labels, LiveBound
  <2>4. job' \in [Threads -> Jobs] /\ JobsBound'
    BY <1>8, <2>1, <2>3, JobStep
       DEF ReleaseCommit, Continue, OnIncident, OnOffer, OnWorkshop, LiveBound
  <2> QED
    BY <1>8, <2>2, <2>4
       DEF ReleaseCommit, TypeInv, TypeOK, OffersBound, workshopVars, countVars
<1>9. ASSUME BonusLoad(h) PROVE TypeInv'
  <2> DEFINE w == offer[o].workshop
             j == [Idle EXCEPT !.pc = "bonus_commit", !.workshop = w,
                               !.pts = points[w]]
  <2>1. w \in Workshops
    BY <1>1, <1>9 DEF BonusLoad, At, OnOffer
  <2>2. points[w] \in 0..MaxPoints
    BY <2>1 DEF TypeInv, TypeOK
  <2>3. j \in Jobs /\ LiveBound(j) /\ j.pc = "bonus_commit" /\ j.workshop = w
    <3> HIDE DEF w
    <3> QED
      BY IdleType, <2>1, <2>2 DEF Jobs, Labels, LiveBound
  <2> QED
    BY <1>9, <2>1, <2>3, ReadStep
       DEF BonusLoad, Continue, OnIncident, OnOffer, OnWorkshop
<1>10. ASSUME BonusCommit(h) PROVE TypeInv'
  <2>1. SmallerOf(MaxPoints, job[h].pts + Bonus) \in 0..MaxPoints
    BY <1>0, DispatchAssumption DEF SmallerOf
  <2>2. points' \in [Workshops -> 0..MaxPoints]
    BY <1>10, <2>1 DEF BonusCommit, FlushValue, TypeInv, TypeOK
  <2>3. job' \in [Threads -> Jobs] /\ JobsBound'
    BY <1>10, IdleStep DEF BonusCommit, Finish
  <2> QED
    BY <1>10, <2>2, <2>3
       DEF BonusCommit, TypeInv, TypeOK, OffersBound, countVars
<1> QED
  BY <1>4, <1>5, <1>6, <1>7, <1>8, <1>9, <1>10

(* Owners and administrators, time, and the death of an instance.          *)
LEMMA OutsideType ==
  ASSUME TypeInv
  PROVE  /\ \A t \in Technicians, b \in Toggles : UpdateTechnician(t, b) => TypeInv'
         /\ \A w \in Workshops : ClearCooldown(w) => TypeInv'
         /\ \A o \in OfferIds : OfferRunsOut(o) \/ CooldownRunsOut(o) => TypeInv'
         /\ \A h \in Threads : Crash(h) => TypeInv'
<1>0. ASSUME NEW f, f \in [OfferIds -> OfferRow], offer' = f,
             \A o \in OfferIds : /\ f[o].status = offer[o].status
                                 /\ f[o].incident = offer[o].incident
                                 /\ f[o].workshop = offer[o].workshop,
             UNCHANGED <<incident, workshopVars, available, clock, job,
                         countVars>>
      PROVE  TypeInv'
  BY <1>0 DEF TypeInv, TypeOK, OffersBound, JobsBound, LiveBound,
              workshopVars, countVars
<1>1. ASSUME NEW t \in Technicians, NEW b \in Toggles, UpdateTechnician(t, b)
      PROVE  TypeInv'
  BY <1>1, DispatchAssumption
     DEF UpdateTechnician, TypeInv, TypeOK, OffersBound, JobsBound, LiveBound,
         workshopVars, countVars
<1>2. ASSUME NEW w \in Workshops, ClearCooldown(w) PROVE TypeInv'
  <2> DEFINE clear(o) == [offer[o] EXCEPT !.rejectedAt = 0]
             f == [o \in OfferIds |-> IF o \in RejectionsOf(w) /\ ~offer[o].cooled
                                      THEN clear(o) ELSE offer[o]]
  <2>1. \A o \in OfferIds : /\ clear(o) \in OfferRow
                            /\ clear(o).status = offer[o].status
                            /\ clear(o).incident = offer[o].incident
                            /\ clear(o).workshop = offer[o].workshop
                            /\ offer[o] \in OfferRow
    <3>1. \A o \in OfferIds : offer[o] \in OfferRow
      BY DEF TypeInv, TypeOK
    <3> QED
      BY <3>1 DEF OfferRow
  <2>2. offer' = f
    BY <1>2 DEF ClearCooldown
  <2>3. f \in [OfferIds -> OfferRow]
        /\ \A o \in OfferIds : /\ f[o].status = offer[o].status
                               /\ f[o].incident = offer[o].incident
                               /\ f[o].workshop = offer[o].workshop
    <3> HIDE DEF clear
    <3> QED
      BY <2>1
  <2> HIDE DEF f
  <2> QED
    BY <1>0, <1>2, <2>2, <2>3 DEF ClearCooldown
<1>3. ASSUME NEW o \in OfferIds, OfferRunsOut(o) \/ CooldownRunsOut(o)
      PROVE  TypeInv'
  <2> DEFINE late == [offer[o] EXCEPT !.overdue = TRUE]
             cool == [offer[o] EXCEPT !.cooled = TRUE]
  <2>1. \A new \in {late, cool} :
           /\ new \in OfferRow /\ new.status = offer[o].status
           /\ new.incident = offer[o].incident
           /\ new.workshop = offer[o].workshop
    <3>1. offer[o] \in OfferRow
      BY DEF TypeInv, TypeOK
    <3> QED
      BY <3>1 DEF OfferRow
  <2>2. PICK new \in {late, cool} : offer' = [offer EXCEPT ![o] = new]
    BY <1>3 DEF OfferRunsOut, CooldownRunsOut
  <2>3. /\ offer' \in [OfferIds -> OfferRow]
        /\ \A p \in OfferIds : /\ offer'[p].status = offer[p].status
                               /\ offer'[p].incident = offer[p].incident
                               /\ offer'[p].workshop = offer[p].workshop
    <3> HIDE DEF late, cool
    <3> QED
      BY <2>1, <2>2 DEF TypeInv, TypeOK
  <2> QED
    BY <1>0, <1>3, <2>3 DEF OfferRunsOut, CooldownRunsOut
<1>4. ASSUME NEW h \in Threads, Crash(h) PROVE TypeInv'
  <2>1. job' \in [Threads -> Jobs] /\ JobsBound'
    BY <1>4, IdleStep DEF Crash, Finish
  <2>2. crashes' \in 0..MaxCrashes
    BY <1>4, DispatchAssumption DEF Crash, TypeInv, TypeOK
  <2> QED
    BY <1>4, <2>1, <2>2 DEF Crash, TypeInv, TypeOK, OffersBound, workshopVars
<1> QED
  BY <1>1, <1>2, <1>3, <1>4

LEMMA NextType == TypeInv /\ [Next]_vars => TypeInv'
<1> SUFFICES ASSUME TypeInv, [Next]_vars PROVE TypeInv'
  OBVIOUS
<1>1. ASSUME NEW h \in Threads, Request(h) PROVE TypeInv'
  BY <1>1, RequestType, AnswerType, DispatchAssumption DEF Request
<1>2. ASSUME NEW h \in Threads, Proceed(h) PROVE TypeInv'
  <2>1. NearSets \cup {job[h].row.near} \subseteq SUBSET Workshops
    BY DispatchAssumption DEF TypeInv, TypeOK, Jobs, IncidentRow
  <2> QED
    BY <1>2, <2>1, TriageType, MatchType, OfferType, EndingType DEF Proceed
<1>3. ASSUME NEW o \in OfferIds, Timeouts(o) PROVE TypeInv'
  BY <1>3, AnswerType, DispatchAssumption DEF Timeouts, ProcessTimeout
<1>4. CASE UNCHANGED vars
  BY <1>4 DEF vars, workshopVars, countVars, TypeInv, TypeOK, OffersBound,
              JobsBound, LiveBound
<1> QED
  BY <1>1, <1>2, <1>3, <1>4, OutsideType DEF Next

(* Every reachable state is well typed: rows, sessions and counters, and   *)
(* activity_points within 0..MaxPoints, for any number of overlapping      *)
(* handlers.                                                               *)
THEOREM TypeCorrect == Spec => []TypeOK
<1>1. Spec => []TypeInv
  BY InitType, NextType, PTL DEF Spec
<1>2. TypeInv => TypeOK
  BY DEF TypeInv
<1> QED
  BY <1>1, <1>2, PTL

-----------------------------------------------------------------------------
(***************************************************************************)
(* Assignments in Dispatch: a workshop is assigned only after it accepted, *)
(* and no acceptance is lost, however many handlers overlap.               *)
(*                                                                         *)
(* The argument: only accept_offer's last commit touches the columns       *)
(* assigned_workshop_id and assigned_technician_id, because a commit       *)
(* writes no column the session did not change.  Every other step keeps    *)
(* them, and keeps what an acceptance left in the offer.                   *)
(***************************************************************************)

Accepting == {"accept_load", "accept_incident"}

(* What a thread's session may rely on.                                    *)
SessionSound(j) ==
    /\ j.pc \in Accepting => offer[j.offer].acceptedAt > 0
    /\ j.pc = "accept_incident" /\ j.row.workshop # None =>
          incident[offer[j.offer].incident].workshop # None
    /\ j.pc = "arrive_commit" => incident[j.incident].workshop # None

AssignmentInv ==
    /\ AssignmentBacked
    /\ AcceptanceNotLost
    /\ \A h \in Threads : SessionSound(job[h])
    /\ \A o \in OfferIds : offer[o].status = "none" => offer[o].acceptedAt = 0

(* What all the other steps leave alone.                                   *)
RowsKept ==
    \A i \in Incidents :
        /\ incident'[i].workshop = incident[i].workshop
        /\ incident'[i].technician = incident[i].technician
        /\ incident'[i].status \in {"assigned", "in_progress"} =>
              \/ incident[i].status \in {"assigned", "in_progress"}
              \/ incident[i].workshop # None

OffersKept ==
    \A o \in OfferIds :
        /\ offer[o].status # "none" =>
              /\ offer'[o].incident = offer[o].incident
              /\ offer'[o].workshop = offer[o].workshop
              /\ offer'[o].acceptedAt = offer[o].acceptedAt
        /\ offer[o].status = "none" => offer'[o].acceptedAt = 0
        /\ offer'[o].status = "none" => offer[o].status = "none"

LEMMA KeepBacked ==
  ASSUME AssignmentInv, TypeInv, RowsKept, OffersKept
  PROVE  AssignmentBacked'
<1>1. ASSUME NEW i \in Incidents, incident'[i].workshop # None
      PROVE  \E o \in OfferIds : /\ offer'[o].incident = i
                                 /\ offer'[o].workshop = incident'[i].workshop
                                 /\ offer'[o].acceptedAt > 0
  <2>1. PICK o \in OfferIds : /\ offer[o].incident = i
                              /\ offer[o].workshop = incident[i].workshop
                              /\ offer[o].acceptedAt > 0
    BY <1>1 DEF AssignmentInv, AssignmentBacked, RowsKept
  <2>2. offer[o].status # "none"
    BY <2>1 DEF AssignmentInv
  <2> QED
    BY <1>1, <2>1, <2>2 DEF RowsKept, OffersKept
<1>2. ASSUME NEW i \in Incidents,
             \/ incident'[i].status \in {"assigned", "in_progress"}
             \/ incident'[i].technician # None
      PROVE  incident'[i].workshop # None
  BY <1>2 DEF AssignmentInv, AssignmentBacked, RowsKept
<1> QED
  BY <1>1, <1>2 DEF AssignmentBacked

(* A step of one thread that is not accepting, and does not start to.      *)
LEMMA KeepInv ==
  ASSUME AssignmentInv, TypeInv, RowsKept, OffersKept, NEW h \in Threads,
         \A g \in Threads \ {h} : job'[g] = job[g],
         crashes' = 0 => crashes = 0 /\ job[h].pc \notin Accepting,
         SessionSound(job[h])'
  PROVE  AssignmentInv'
<1>1. AssignmentBacked'
  BY KeepBacked
<1>2. AcceptanceNotLost'
  <2> SUFFICES ASSUME crashes' = 0, NEW o \in OfferIds, offer'[o].acceptedAt # 0
               PROVE  \/ \E g \in Threads : /\ job'[g].offer = o
                                            /\ job'[g].pc \in Accepting
                      \/ incident'[offer'[o].incident].workshop # None
    BY DEF AcceptanceNotLost, Accepting
  <2>1. /\ offer[o].status # "none"
        /\ offer[o].acceptedAt # 0 /\ offer'[o].incident = offer[o].incident
        /\ offer[o].incident \in Incidents
    BY DEF OffersKept, TypeInv, OffersBound
  <2>2. CASE incident[offer[o].incident].workshop # None
    BY <2>1, <2>2 DEF RowsKept
  <2>3. ASSUME NEW g \in Threads, job[g].offer = o, job[g].pc \in Accepting
        PROVE  job'[g].offer = o /\ job'[g].pc \in Accepting
    BY <2>3
  <2> QED
    BY <2>1, <2>2, <2>3 DEF AssignmentInv, AcceptanceNotLost, Accepting
<1>3. \A g \in Threads : SessionSound(job[g])'
  <2>1. ASSUME NEW g \in Threads \ {h} PROVE SessionSound(job[g])'
    <3>1. job'[g] = job[g] /\ SessionSound(job[g])
      BY DEF AssignmentInv
    <3>2. job[g].pc \in Accepting =>
             /\ offer[job[g].offer].incident \in Incidents
             /\ offer'[job[g].offer].incident = offer[job[g].offer].incident
             /\ offer'[job[g].offer].acceptedAt = offer[job[g].offer].acceptedAt
      BY DEF TypeInv, JobsBound, OffersBound, OffersKept, OnOffer, Accepting
    <3>3. job[g].pc = "arrive_commit" => job[g].incident \in Incidents
      BY DEF TypeInv, JobsBound, OnIncident
    <3> QED
      BY <3>1, <3>2, <3>3 DEF SessionSound, RowsKept, Accepting
  <2> QED
    BY <2>1
<1>4. (\A o \in OfferIds : offer[o].status = "none" => offer[o].acceptedAt = 0)'
  BY DEF OffersKept
<1> QED
  BY <1>1, <1>2, <1>3, <1>4 DEF AssignmentInv

(* The same for the steps of nobody's thread.                              *)
LEMMA KeepInvOutside ==
  ASSUME AssignmentInv, TypeInv, OffersKept, UNCHANGED <<incident, job, crashes>>
  PROVE  AssignmentInv'
<1>1. RowsKept
  BY DEF RowsKept
<1>2. AssignmentBacked'
  BY <1>1, KeepBacked
<1>3. AcceptanceNotLost'
  BY DEF AssignmentInv, AcceptanceNotLost, OffersKept, TypeInv, OffersBound
<1>4. ASSUME NEW g \in Threads PROVE SessionSound(job[g])'
  BY <1>4 DEF AssignmentInv, SessionSound, TypeInv, JobsBound, OffersBound,
              OffersKept, OnOffer, Accepting
<1>5. (\A o \in OfferIds : offer[o].status = "none" => offer[o].acceptedAt = 0)'
  BY DEF OffersKept
<1> QED
  BY <1>2, <1>3, <1>4, <1>5 DEF AssignmentInv

LEMMA FlushKeeps ==
  ASSUME TypeInv, NEW i \in Incidents, NEW loaded, NEW new,
         new.workshop = loaded.workshop, new.technician = loaded.technician,
         \/ new.status \notin {"assigned", "in_progress"}
         \/ new.status = loaded.status
         \/ incident[i].workshop # None,
         incident' = [incident EXCEPT ![i] = Flush(loaded, new, @)]
  PROVE  RowsKept
<1> DEFINE row == Flush(loaded, new, incident[i])
<1>1. /\ row.workshop = incident[i].workshop
      /\ row.technician = incident[i].technician
      /\ row.status \in {new.status, incident[i].status}
      /\ new.status = loaded.status => row.status = incident[i].status
  BY DEF Flush
<1>2. \A k \in Incidents : incident'[k] = IF k = i THEN row ELSE incident[k]
  BY DEF TypeInv, TypeOK
<1> HIDE DEF row
<1> QED
  BY <1>1, <1>2 DEF RowsKept

LEMMA StatusKeeps ==
  ASSUME TypeInv, NEW i \in Incidents,
         NEW s \in IncidentStatus \ {"assigned", "in_progress"},
         incident' = [incident EXCEPT ![i].status = s]
  PROVE  RowsKept
<1>1. incident[i] \in IncidentRow
  BY DEF TypeInv, TypeOK
<1>2. /\ incident'[i].workshop = incident[i].workshop
      /\ incident'[i].technician = incident[i].technician
      /\ incident'[i].status = s
  BY <1>1 DEF TypeInv, TypeOK, IncidentRow
<1>3. \A k \in Incidents \ {i} : incident'[k] = incident[k]
  BY DEF TypeInv, TypeOK
<1> QED
  BY <1>2, <1>3 DEF RowsKept
(* Thread h moves, does not accept, and no instance dies.                  *)
PlainStep(h) ==
    /\ \A g \in Threads \ {h} : job'[g] = job[g]
    /\ job[h].pc \notin Accepting
    /\ job'[h].pc \notin Accepting \cup {"arrive_commit"}
    /\ crashes' = crashes

LEMMA PlainKeepsInv ==
  ASSUME AssignmentInv, TypeInv, RowsKept, OffersKept, NEW h \in Threads,
         PlainStep(h)
  PROVE  AssignmentInv'
<1>1. SessionSound(job[h])'
  BY DEF PlainStep, SessionSound, Accepting
<1> QED
  BY <1>1, KeepInv DEF PlainStep

LEMMA SameOffers == ASSUME AssignmentInv, offer' = offer PROVE OffersKept
  BY DEF OffersKept, AssignmentInv

LEMMA SameRows == ASSUME incident' = incident PROVE RowsKept
  BY DEF RowsKept

(* Every label a plain step can leave its thread with.                     *)
LEMMA PlainBegin ==
  ASSUME TypeInv, NEW h \in Threads, NEW j,
         job[h].pc \notin Accepting, crashes' = crashes,
         job' = [job EXCEPT ![h] = j],
         j.pc \notin Accepting \cup {"arrive_commit"}
  PROVE  PlainStep(h)
  BY DEF PlainStep, TypeInv, TypeOK

LEMMA RequestKeepsAssigned ==
  ASSUME AssignmentInv, TypeInv, NEW h \in Threads, NEW i \in Incidents
  PROVE  /\ RequestHelp(h, i) => AssignmentInv'
         /\ AddEvidence(h, i) => AssignmentInv'
         /\ BeginCancel(h, i) => AssignmentInv'
         /\ BeginArrive(h, i) => AssignmentInv'
<1>1. ASSUME RequestHelp(h, i) PROVE AssignmentInv'
  <2>1. RowsKept
    BY <1>1, StatusKeeps DEF RequestHelp, IncidentStatus
  <2>2. PlainStep(h)
    BY <1>1, PlainBegin DEF RequestHelp, Begin, Idle, Accepting, countVars
  <2> QED
    BY <1>1, <2>1, <2>2, SameOffers, PlainKeepsInv DEF RequestHelp
<1>2. ASSUME AddEvidence(h, i) PROVE AssignmentInv'
  <2>1. PlainStep(h)
    BY <1>2, PlainBegin DEF AddEvidence, Begin, Idle, Accepting, countVars
  <2> QED
    BY <1>2, <2>1, SameRows, SameOffers, PlainKeepsInv DEF AddEvidence
<1>3. ASSUME BeginCancel(h, i) PROVE AssignmentInv'
  <2>1. PlainStep(h)
    BY <1>3, PlainBegin DEF BeginCancel, Begin, Idle, Accepting, countVars
  <2> QED
    BY <1>3, <2>1, SameRows, SameOffers, PlainKeepsInv DEF BeginCancel
<1>4. ASSUME BeginArrive(h, i) PROVE AssignmentInv'
  <2>1. /\ job'[h].pc = "arrive_commit" /\ job'[h].incident = i
        /\ job[h].pc = "idle" /\ crashes' = crashes
        /\ \A g \in Threads \ {h} : job'[g] = job[g]
    BY <1>4 DEF BeginArrive, Begin, Idle, TypeInv, TypeOK, countVars
  <2>2. incident'[i].workshop # None
    BY <1>4 DEF BeginArrive, AssignmentInv, AssignmentBacked
  <2>3. SessionSound(job[h])'
    BY <2>1, <2>2 DEF SessionSound, Accepting
  <2> QED
    BY <1>4, <2>1, <2>3, SameRows, SameOffers, KeepInv DEF BeginArrive, Accepting
<1> QED
  BY <1>1, <1>2, <1>3, <1>4

LEMMA AnswerKeepsAssigned ==
  ASSUME AssignmentInv, TypeInv, NEW h \in Threads, NEW o \in OfferIds
  PROVE  /\ \A t \in Technicians \cup {None} : BeginAccept(h, o, t) => AssignmentInv'
         /\ \A c \in 1..MaxPenalty : BeginReject(h, o, c) => AssignmentInv'
         /\ BeginComplete(h, o) => AssignmentInv'
<1>1. ASSUME NEW t \in Technicians \cup {None}, BeginAccept(h, o, t)
      PROVE  AssignmentInv'
  <2>1. PlainStep(h)
    BY <1>1, PlainBegin DEF BeginAccept, Begin, Idle, Accepting, countVars
  <2> QED
    BY <1>1, <2>1, SameRows, SameOffers, PlainKeepsInv DEF BeginAccept
<1>2. ASSUME NEW c \in 1..MaxPenalty, BeginReject(h, o, c) PROVE AssignmentInv'
  <2>1. PlainStep(h)
    BY <1>2, PlainBegin DEF BeginReject, Begin, Idle, Accepting, countVars
  <2> QED
    BY <1>2, <2>1, SameRows, SameOffers, PlainKeepsInv DEF BeginReject
<1>3. ASSUME BeginComplete(h, o) PROVE AssignmentInv'
  <2>1. PlainStep(h)
    BY <1>3, PlainBegin DEF BeginComplete, Begin, Idle, Accepting
  <2> QED
    BY <1>3, <2>1, SameRows, SameOffers, PlainKeepsInv DEF BeginComplete
<1> QED
  BY <1>1, <1>2, <1>3

LEMMA TriageKeepsAssigned ==
  ASSUME AssignmentInv, TypeInv, NEW h \in Threads, NEW near
  PROVE  /\ RequestAnalyzing(h) => AssignmentInv'
         /\ AiLoad(h) => AssignmentInv'
         /\ EvidenceCommit(h) => AssignmentInv'
         /\ AiSaveImages(h, near) => AssignmentInv'
         /\ AiPendingInfo(h, near) => AssignmentInv'
         /\ AiMatched(h, near) => AssignmentInv'
         /\ AiError(h, near) => AssignmentInv'
<1> DEFINE i == job[h].incident
<1>0. job[h].row \in IncidentRow
      /\ (job[h].pc \in OnIncident => i \in Incidents)
  BY DEF TypeInv, TypeOK, JobsBound, Jobs
<1>1. ASSUME RequestAnalyzing(h) PROVE AssignmentInv'
  <2>1. RowsKept
    BY <1>0, <1>1, StatusKeeps
       DEF RequestAnalyzing, At, OnIncident, IncidentStatus
  <2>2. PlainStep(h)
    BY <1>1, PlainBegin
       DEF RequestAnalyzing, At, Continue, Accepting, countVars, TypeInv, TypeOK, Jobs
  <2> QED
    BY <1>1, <2>1, <2>2, SameOffers, PlainKeepsInv DEF RequestAnalyzing
<1>2. ASSUME AiLoad(h) PROVE AssignmentInv'
  <2>1. PlainStep(h)
    BY <1>2, PlainBegin
       DEF AiLoad, At, Continue, Accepting, countVars, TypeInv, TypeOK, Jobs
  <2> QED
    BY <1>2, <2>1, SameRows, SameOffers, PlainKeepsInv DEF AiLoad
<1>3. ASSUME EvidenceCommit(h) PROVE AssignmentInv'
  <2>1. RowsKept
    <3> DEFINE new == [job[h].row EXCEPT !.status = "analyzing"]
    <3>1. /\ new.workshop = job[h].row.workshop
          /\ new.technician = job[h].row.technician /\ new.status = "analyzing"
      BY <1>0 DEF IncidentRow
    <3>2. i \in Incidents /\ incident' = [incident EXCEPT ![i] =
                                            Flush(job[h].row, new, @)]
      BY <1>0, <1>3 DEF EvidenceCommit, At, OnIncident
    <3> QED
      BY <3>1, <3>2, FlushKeeps
  <2>2. PlainStep(h)
    BY <1>3, PlainBegin
       DEF EvidenceCommit, At, Continue, Idle, Accepting, countVars
  <2> QED
    BY <1>3, <2>1, <2>2, SameOffers, PlainKeepsInv DEF EvidenceCommit
<1>4. ASSUME NEW s, i \in Incidents, SaveTriage(job[h], near, s),
             s \notin {"assigned", "in_progress"} \/ s = job[h].row.status
      PROVE  RowsKept
  <2> DEFINE new == [job[h].row EXCEPT !.near = near, !.status = s]
  <2>1. /\ new.workshop = job[h].row.workshop
        /\ new.technician = job[h].row.technician /\ new.status = s
    BY <1>0 DEF IncidentRow
  <2>2. incident' = [incident EXCEPT ![i] = Flush(job[h].row, new, @)]
    BY <1>4 DEF SaveTriage
  <2> QED
    BY <1>4, <2>1, <2>2, FlushKeeps
<1>5. ASSUME AiSaveImages(h, near) PROVE AssignmentInv'
  <2>1. RowsKept
    BY <1>0, <1>4, <1>5 DEF AiSaveImages, At, OnIncident
  <2>2. PlainStep(h)
    BY <1>5, PlainBegin
       DEF AiSaveImages, At, Continue, Accepting, countVars, TypeInv, TypeOK, Jobs
  <2> QED
    BY <1>5, <2>1, <2>2, SameOffers, PlainKeepsInv DEF AiSaveImages
<1>6. ASSUME AiPendingInfo(h, near) \/ AiMatched(h, near) \/ AiError(h, near)
      PROVE  i \in Incidents /\ job[h].pc \notin Accepting
  BY <1>0, <1>6 DEF AiPendingInfo, AiMatched, AiError, Triaged, At, OnIncident,
                    Accepting
<1>7. ASSUME AiPendingInfo(h, near) PROVE AssignmentInv'
  <2>1. RowsKept
    BY <1>4, <1>6, <1>7 DEF AiPendingInfo
  <2>2. PlainStep(h)
    BY <1>6, <1>7, PlainBegin DEF AiPendingInfo, Finish, Idle, Accepting, countVars
  <2> QED
    BY <1>7, <2>1, <2>2, SameOffers, PlainKeepsInv DEF AiPendingInfo
<1>8. ASSUME AiMatched(h, near) PROVE AssignmentInv'
  <2>1. RowsKept
    BY <1>4, <1>6, <1>8 DEF AiMatched
  <2>2. PlainStep(h)
    BY <1>6, <1>8, PlainBegin DEF AiMatched, Continue, Idle, Accepting, countVars
  <2> QED
    BY <1>8, <2>1, <2>2, SameOffers, PlainKeepsInv DEF AiMatched
<1>9. ASSUME AiError(h, near) PROVE AssignmentInv'
  <2>1. RowsKept
    BY <1>4, <1>6, <1>9 DEF AiError
  <2>2. PlainStep(h)
    BY <1>6, <1>9, PlainBegin DEF AiError, Finish, Idle, Accepting, countVars
  <2> QED
    BY <1>9, <2>1, <2>2, SameOffers, PlainKeepsInv DEF AiError
<1> QED
  BY <1>1, <1>2, <1>3, <1>5, <1>7, <1>8, <1>9
LEMMA MatchKeeps ==
  ASSUME AssignmentInv, TypeInv, NEW h \in Threads
  PROVE  /\ FindAndCreateOffer(h) => AssignmentInv'
         /\ MarkNoOffers(h) => AssignmentInv'
         /\ CreateOffer(h) => AssignmentInv'
         /\ MarkMatched(h) => AssignmentInv'
<1> DEFINE i == job[h].incident
<1>0. job[h].row \in IncidentRow
      /\ (job[h].pc \in OnIncident => i \in Incidents)
  BY DEF TypeInv, TypeOK, JobsBound, Jobs
<1>1. ASSUME FindAndCreateOffer(h) PROVE AssignmentInv'
  <2>1. PlainStep(h)
    BY <1>1, PlainBegin
       DEF FindAndCreateOffer, At, Continue, Idle, Accepting, countVars
  <2> QED
    BY <1>1, <2>1, SameRows, SameOffers, PlainKeepsInv DEF FindAndCreateOffer
<1>2. ASSUME MarkNoOffers(h) PROVE AssignmentInv'
  <2> DEFINE new == [job[h].row EXCEPT !.status = "no_offers"]
  <2>1. /\ new.workshop = job[h].row.workshop
        /\ new.technician = job[h].row.technician /\ new.status = "no_offers"
    BY <1>0 DEF IncidentRow
  <2>2. i \in Incidents /\ incident' = [incident EXCEPT ![i] =
                                          Flush(job[h].row, new, @)]
    BY <1>0, <1>2 DEF MarkNoOffers, At, OnIncident
  <2>3. RowsKept
    BY <2>1, <2>2, FlushKeeps
  <2>4. PlainStep(h)
    BY <1>2, PlainBegin DEF MarkNoOffers, At, Finish, Idle, Accepting, countVars
  <2> QED
    BY <1>2, <2>3, <2>4, SameOffers, PlainKeepsInv DEF MarkNoOffers
<1>3. ASSUME MarkMatched(h) PROVE AssignmentInv'
  <2>1. RowsKept
    BY <1>0, <1>3, StatusKeeps DEF MarkMatched, At, OnIncident, IncidentStatus
  <2>2. PlainStep(h)
    BY <1>3, PlainBegin DEF MarkMatched, At, Finish, Idle, Accepting, countVars
  <2> QED
    BY <1>3, <2>1, <2>2, SameOffers, PlainKeepsInv DEF MarkMatched
<1>4. ASSUME CreateOffer(h) PROVE AssignmentInv'
  <2> DEFINE new == [NoOffer EXCEPT !.status = "notified", !.incident = i,
                                    !.workshop = job[h].workshop]
  <2>1. PICK o \in Unused : offer' = [offer EXCEPT ![o] = new]
    BY <1>4 DEF CreateOffer
  <2>2. new.status = "notified" /\ new.acceptedAt = 0
    BY DEF NoOffer
  <2>3. OffersKept
    <3> HIDE DEF new
    <3> QED
      BY <2>1, <2>2 DEF Unused, OffersKept, AssignmentInv, TypeInv, TypeOK
  <2>4. PlainStep(h)
    BY <1>4, PlainBegin
       DEF CreateOffer, At, Continue, Accepting, countVars, TypeInv, TypeOK, Jobs
  <2> QED
    BY <1>4, <2>3, <2>4, SameRows, PlainKeepsInv DEF CreateOffer
<1> QED
  BY <1>1, <1>2, <1>3, <1>4

LEMMA AcceptKeeps ==
  ASSUME AssignmentInv, TypeInv, NEW h \in Threads, AcceptOffer(h)
  PROVE  AssignmentInv'
<1> DEFINE o == job[h].offer
           new == [offer[o] EXCEPT !.status = "accepted",
                                   !.acceptedAt = clock + 1,
                                   !.overdue = FALSE]
<1>1. /\ o \in OfferIds /\ offer[o].status # "none" /\ offer[o] \in OfferRow
      /\ job[h] \in Jobs
  BY DEF AcceptOffer, At, OnOffer, TypeInv, TypeOK, JobsBound
<1>2. /\ new.status = "accepted" /\ new.acceptedAt > 0
      /\ new.incident = offer[o].incident /\ new.workshop = offer[o].workshop
  <2>1. clock + 1 > 0
    BY DEF TypeInv, TypeOK
  <2> QED
    BY <1>1, <2>1 DEF OfferRow
<1>3. /\ offer'[o] = new
      /\ \A p \in OfferIds \ {o} : offer'[p] = offer[p]
  BY <1>1 DEF AcceptOffer, TypeInv, TypeOK
<1>4. /\ job'[h].pc = "accept_load" /\ job'[h].offer = o
      /\ \A g \in Threads \ {h} : job'[g] = job[g]
      /\ job[h].pc = "accept_offer" /\ crashes' = crashes /\ incident' = incident
  BY <1>1 DEF AcceptOffer, At, Continue, TypeInv, TypeOK, Jobs, countVars
<1> HIDE DEF new
<1>5. AssignmentBacked'
  <2>1. \A p \in OfferIds : offer[p].acceptedAt > 0 =>
           /\ offer'[p].acceptedAt > 0 /\ offer'[p].incident = offer[p].incident
           /\ offer'[p].workshop = offer[p].workshop
    BY <1>2, <1>3
  <2> QED
    BY <1>4, <2>1 DEF AssignmentInv, AssignmentBacked
<1>6. AcceptanceNotLost'
  <2> SUFFICES ASSUME crashes' = 0, NEW p \in OfferIds, offer'[p].acceptedAt # 0
               PROVE  \/ \E g \in Threads : /\ job'[g].offer = p
                                            /\ job'[g].pc \in Accepting
                      \/ incident'[offer'[p].incident].workshop # None
    BY DEF AcceptanceNotLost, Accepting
  <2>1. CASE p = o
    BY <1>4, <2>1 DEF Accepting
  <2>2. CASE p # o
    <3>1. offer'[p] = offer[p]
      BY <1>3, <2>2
    <3>2. ASSUME NEW g \in Threads, job[g].offer = p, job[g].pc \in Accepting
          PROVE  job'[g].offer = p /\ job'[g].pc \in Accepting
      BY <1>4, <3>2 DEF Accepting
    <3> QED
      BY <1>4, <3>1, <3>2 DEF AssignmentInv, AcceptanceNotLost, Accepting
  <2> QED
    BY <2>1, <2>2
<1>7. ASSUME NEW g \in Threads PROVE SessionSound(job[g])'
  <2>1. CASE g = h
    BY <1>2, <1>3, <1>4, <2>1 DEF SessionSound
  <2>2. CASE g # h
    <3>1. job'[g] = job[g] /\ SessionSound(job[g])
      BY <1>4, <2>2 DEF AssignmentInv
    <3>2. job[g].pc \in Accepting =>
             /\ offer[job[g].offer].acceptedAt > 0
             /\ offer'[job[g].offer].acceptedAt > 0
             /\ offer'[job[g].offer].incident = offer[job[g].offer].incident
      BY <1>2, <1>3, <3>1 DEF SessionSound, TypeInv, JobsBound, OnOffer, Accepting
    <3> QED
      BY <1>4, <3>1, <3>2 DEF SessionSound, Accepting
  <2> QED
    BY <2>1, <2>2
<1>8. (\A p \in OfferIds : offer[p].status = "none" => offer[p].acceptedAt = 0)'
  BY <1>2, <1>3 DEF AssignmentInv
<1> QED
  BY <1>5, <1>6, <1>7, <1>8 DEF AssignmentInv

LEMMA AcceptLoadKeeps ==
  ASSUME AssignmentInv, TypeInv, NEW h \in Threads, AcceptLoad(h)
  PROVE  AssignmentInv'
<1> DEFINE o == job[h].offer
<1>1. /\ job'[h].pc = "accept_incident" /\ job'[h].offer = o
      /\ job'[h].row = incident[offer[o].incident]
      /\ \A g \in Threads \ {h} : job'[g] = job[g]
      /\ job[h].pc = "accept_load" /\ crashes' = crashes
      /\ incident' = incident /\ offer' = offer
  BY DEF AcceptLoad, At, Continue, TypeInv, TypeOK, Jobs, countVars
<1>2. AssignmentBacked'
  BY <1>1 DEF AssignmentInv, AssignmentBacked
<1>3. AcceptanceNotLost'
  <2>1. \A g \in Threads : /\ job'[g].offer = job[g].offer
                           /\ job[g].pc \in Accepting => job'[g].pc \in Accepting
    BY <1>1 DEF Accepting
  <2> QED
    BY <1>1, <2>1 DEF AssignmentInv, AcceptanceNotLost, Accepting
<1>4. ASSUME NEW g \in Threads PROVE SessionSound(job[g])'
  BY <1>1 DEF AssignmentInv, SessionSound, Accepting
<1> QED
  BY <1>1, <1>2, <1>3, <1>4 DEF AssignmentInv

LEMMA AcceptIncidentKeeps ==
  ASSUME AssignmentInv, TypeInv, NEW h \in Threads, AcceptIncident(h)
  PROVE  AssignmentInv'
<1> DEFINE o == job[h].offer
           i == offer[o].incident
           t == job[h].technician
           loaded == job[h].row
           new == [loaded EXCEPT !.status = "assigned",
                                 !.workshop = offer[o].workshop,
                                 !.technician = IF t = None THEN @ ELSE t]
           row == Flush(loaded, new, incident[i])
<1>1. /\ o \in OfferIds /\ i \in Incidents /\ offer[o].workshop \in Workshops
      /\ loaded \in IncidentRow /\ offer[o].acceptedAt > 0
      /\ loaded.workshop # None => incident[i].workshop # None
  BY DEF AcceptIncident, At, OnOffer, TypeInv, TypeOK, JobsBound, OffersBound, Jobs,
         AssignmentInv, SessionSound, Accepting
<1>2. /\ new.workshop = offer[o].workshop /\ new.workshop # None
  BY <1>1, DispatchAssumption DEF IncidentRow
<1>3. /\ row.workshop \in {incident[i].workshop, offer[o].workshop}
      /\ row.workshop # None
  <2> HIDE DEF new
  <2> QED
    BY <1>1, <1>2 DEF Flush
<1>4. /\ incident'[i] = row
      /\ \A k \in Incidents \ {i} : incident'[k] = incident[k]
  BY <1>1 DEF AcceptIncident, TypeInv, TypeOK
<1>5. /\ job'[h] = Idle /\ offer' = offer /\ crashes' = crashes
      /\ \A g \in Threads \ {h} : job'[g] = job[g]
  BY DEF AcceptIncident, Finish, TypeInv, TypeOK, countVars
<1> HIDE DEF row, new
<1>6. AssignmentBacked'
  <2>1. ASSUME NEW k \in Incidents, incident'[k].workshop # None
        PROVE  \E p \in OfferIds : /\ offer'[p].incident = k
                                   /\ offer'[p].workshop = incident'[k].workshop
                                   /\ offer'[p].acceptedAt > 0
    <3>1. CASE k = i /\ row.workshop = offer[o].workshop
      BY <1>1, <1>4, <1>5, <3>1
    <3>2. CASE incident'[k].workshop = incident[k].workshop
      BY <1>5, <2>1, <3>2 DEF AssignmentInv, AssignmentBacked
    <3> QED
      BY <1>3, <1>4, <3>1, <3>2
  <2>2. ASSUME NEW k \in Incidents,
               \/ incident'[k].status \in {"assigned", "in_progress"}
               \/ incident'[k].technician # None
        PROVE  incident'[k].workshop # None
    BY <1>3, <1>4, <2>2 DEF AssignmentInv, AssignmentBacked
  <2> QED
    BY <2>1, <2>2 DEF AssignmentBacked
<1>7. \A k \in Incidents : incident[k].workshop # None =>
                              incident'[k].workshop # None
  BY <1>3, <1>4
<1>8. AcceptanceNotLost'
  <2> SUFFICES ASSUME crashes' = 0, NEW p \in OfferIds, offer'[p].acceptedAt # 0
               PROVE  \/ \E g \in Threads : /\ job'[g].offer = p
                                            /\ job'[g].pc \in Accepting
                      \/ incident'[offer'[p].incident].workshop # None
    BY DEF AcceptanceNotLost, Accepting
  <2>1. offer[p].status # "none" /\ offer[p].incident \in Incidents
    BY <1>5 DEF AssignmentInv, TypeInv, OffersBound
  <2>2. CASE p = o
    BY <1>3, <1>4, <1>5, <2>2
  <2>3. CASE incident[offer[p].incident].workshop # None
    BY <1>5, <1>7, <2>1, <2>3
  <2>4. ASSUME p # o, NEW g \in Threads, job[g].offer = p, job[g].pc \in Accepting
        PROVE  job'[g].offer = p /\ job'[g].pc \in Accepting
    BY <1>5, <2>4
  <2> QED
    BY <1>5, <2>2, <2>3, <2>4 DEF AssignmentInv, AcceptanceNotLost, Accepting
<1>9. ASSUME NEW g \in Threads PROVE SessionSound(job[g])'
  <2>1. CASE g = h
    BY <1>5, <2>1, IdleType DEF SessionSound, Accepting
  <2>2. CASE g # h
    <3>1. job'[g] = job[g] /\ SessionSound(job[g])
      BY <1>5, <2>2 DEF AssignmentInv
    <3>2. /\ job[g].pc \in Accepting => offer[job[g].offer].incident \in Incidents
          /\ job[g].pc = "arrive_commit" => job[g].incident \in Incidents
      BY DEF TypeInv, JobsBound, OffersBound, OnOffer, OnIncident, Accepting
    <3> QED
      BY <1>5, <1>7, <3>1, <3>2 DEF SessionSound, Accepting
  <2> QED
    BY <2>1, <2>2
<1> QED
  BY <1>5, <1>6, <1>8, <1>9 DEF AssignmentInv
LEMMA RejectKeeps ==
  ASSUME AssignmentInv, TypeInv, NEW h \in Threads
  PROVE  /\ RejectOffer(h) => AssignmentInv'
         /\ PenaltyLoad(h) => AssignmentInv'
         /\ PenaltyCommit(h) => AssignmentInv'
<1>1. ASSUME RejectOffer(h) PROVE AssignmentInv'
  <2> DEFINE o == job[h].offer
             new == [offer[o] EXCEPT !.status = "rejected",
                                     !.rejectedAt = clock + 1,
                                     !.overdue = FALSE]
  <2>1. o \in OfferIds /\ offer[o].status # "none" /\ offer[o] \in OfferRow
    BY <1>1 DEF RejectOffer, At, OnOffer, TypeInv, TypeOK, JobsBound
  <2>2. /\ new.status = "rejected" /\ new.acceptedAt = offer[o].acceptedAt
        /\ new.incident = offer[o].incident /\ new.workshop = offer[o].workshop
    BY <2>1 DEF OfferRow
  <2>3. offer'[o] = new /\ \A p \in OfferIds \ {o} : offer'[p] = offer[p]
    BY <1>1, <2>1 DEF RejectOffer, TypeInv, TypeOK
  <2>4. OffersKept
    <3> HIDE DEF new
    <3> QED
      BY <2>1, <2>2, <2>3 DEF OffersKept, AssignmentInv
  <2>5. PlainStep(h)
    BY <1>1, PlainBegin
       DEF RejectOffer, At, Continue, Accepting, countVars, TypeInv, TypeOK, Jobs
  <2> QED
    BY <1>1, <2>4, <2>5, SameRows, PlainKeepsInv DEF RejectOffer
<1>2. ASSUME PenaltyLoad(h) PROVE AssignmentInv'
  <2>1. PlainStep(h)
    BY <1>2, PlainBegin
       DEF PenaltyLoad, At, Continue, Accepting, countVars, TypeInv, TypeOK, Jobs
  <2> QED
    BY <1>2, <2>1, SameRows, SameOffers, PlainKeepsInv DEF PenaltyLoad
<1>3. ASSUME PenaltyCommit(h) PROVE AssignmentInv'
  <2>1. PlainStep(h)
    BY <1>3, PlainBegin DEF PenaltyCommit, At, Continue, Idle, Accepting, countVars
  <2> QED
    BY <1>3, <2>1, SameRows, SameOffers, PlainKeepsInv DEF PenaltyCommit
<1> QED
  BY <1>1, <1>2, <1>3

LEMMA EndingKeeps ==
  ASSUME AssignmentInv, TypeInv, NEW h \in Threads
  PROVE  /\ CancelCommit(h) => AssignmentInv'
         /\ ArriveCommit(h) => AssignmentInv'
         /\ CompleteIncident(h) => AssignmentInv'
         /\ ReleaseLoad(h) => AssignmentInv'
         /\ ReleaseCommit(h) => AssignmentInv'
         /\ BonusLoad(h) => AssignmentInv'
         /\ BonusCommit(h) => AssignmentInv'
<1> DEFINE i == job[h].incident
           loaded == job[h].row
           new(s) == [loaded EXCEPT !.status = s]
<1>0. /\ loaded \in IncidentRow
      /\ job[h].pc \in OnIncident => i \in Incidents
      /\ LiveBound(job[h])
      /\ SessionSound(job[h])
  BY DEF TypeInv, TypeOK, JobsBound, Jobs, AssignmentInv
<1>1. ASSUME NEW s, i \in Incidents,
             incident' = [incident EXCEPT ![i] = Flush(loaded, new(s), @)],
             s \notin {"assigned", "in_progress"} \/ incident[i].workshop # None
      PROVE  RowsKept
  <2>1. /\ new(s).workshop = loaded.workshop
        /\ new(s).technician = loaded.technician /\ new(s).status = s
    BY <1>0 DEF IncidentRow
  <2> HIDE DEF new
  <2> QED
    BY <1>1, <2>1, FlushKeeps
<1>2. ASSUME CancelCommit(h) PROVE AssignmentInv'
  <2>1. RowsKept
    <3>1. i \in Incidents /\ incident' = [incident EXCEPT ![i] =
                                            Flush(loaded, new("cancelled"), @)]
      BY <1>0, <1>2 DEF CancelCommit, At, OnIncident
    <3>2. "cancelled" \notin {"assigned", "in_progress"}
      OBVIOUS
    <3> QED
      BY <1>1, <3>1, <3>2, Zenon
  <2>2. OffersKept
    <3> DEFINE gone(p) == [offer[p] EXCEPT !.status = "expired",
                                           !.overdue = FALSE]
    <3>1. \A p \in OfferIds : /\ gone(p).incident = offer[p].incident
                              /\ gone(p).workshop = offer[p].workshop
                              /\ gone(p).acceptedAt = offer[p].acceptedAt
                              /\ gone(p).status = "expired"
      BY DEF TypeInv, TypeOK, OfferRow
    <3>2. \A p \in OfferIds :
             offer'[p] = IF p \in job[h].live THEN gone(p) ELSE offer[p]
      BY <1>2 DEF CancelCommit
    <3> HIDE DEF gone
    <3> QED
      BY <1>0, <3>1, <3>2 DEF OffersKept, LiveBound, AssignmentInv
  <2>3. PlainStep(h)
    BY <1>2, PlainBegin DEF CancelCommit, At, Finish, Idle, Accepting, countVars
  <2> QED
    BY <2>1, <2>2, <2>3, PlainKeepsInv
<1>3. ASSUME ArriveCommit(h) PROVE AssignmentInv'
  <2>1. RowsKept
    BY <1>0, <1>1, <1>3 DEF ArriveCommit, At, OnIncident, SessionSound
  <2>2. PlainStep(h)
    BY <1>3, PlainBegin DEF ArriveCommit, At, Finish, Idle, Accepting, countVars
  <2> QED
    BY <1>3, <2>1, <2>2, SameOffers, PlainKeepsInv DEF ArriveCommit
<1>4. ASSUME CompleteIncident(h) PROVE AssignmentInv'
  <2>1. RowsKept
    <3>1. i \in Incidents /\ incident' = [incident EXCEPT ![i] =
                                            Flush(loaded, new("completed"), @)]
      BY <1>0, <1>4 DEF CompleteIncident, At, OnIncident
    <3>2. "completed" \notin {"assigned", "in_progress"}
      OBVIOUS
    <3> QED
      BY <1>1, <3>1, <3>2, Zenon
  <2>2. PlainStep(h)
    BY <1>4, PlainBegin
       DEF CompleteIncident, At, Continue, Idle, Accepting, countVars
  <2> QED
    BY <1>4, <2>1, <2>2, SameOffers, PlainKeepsInv DEF CompleteIncident
<1>5. ASSUME ReleaseLoad(h) PROVE AssignmentInv'
  <2>1. /\ job[h].pc = "release_load" /\ crashes' = crashes
        /\ job'[h].pc \in {"bonus_load", "release_commit"}
        /\ \A g \in Threads \ {h} : job'[g] = job[g]
    BY <1>5 DEF ReleaseLoad, At, Continue, countVars, TypeInv, TypeOK, Jobs
  <2>2. PlainStep(h)
    BY <2>1 DEF PlainStep, Accepting
  <2> QED
    BY <1>5, <2>2, SameRows, SameOffers, PlainKeepsInv DEF ReleaseLoad
<1>6. ASSUME ReleaseCommit(h) PROVE AssignmentInv'
  <2>1. PlainStep(h)
    BY <1>6, PlainBegin DEF ReleaseCommit, At, Continue, Idle, Accepting, countVars
  <2> QED
    BY <1>6, <2>1, SameRows, SameOffers, PlainKeepsInv DEF ReleaseCommit
<1>7. ASSUME BonusLoad(h) PROVE AssignmentInv'
  <2>1. PlainStep(h)
    BY <1>7, PlainBegin DEF BonusLoad, At, Continue, Idle, Accepting, countVars
  <2> QED
    BY <1>7, <2>1, SameRows, SameOffers, PlainKeepsInv DEF BonusLoad
<1>8. ASSUME BonusCommit(h) PROVE AssignmentInv'
  <2>1. PlainStep(h)
    BY <1>8, PlainBegin DEF BonusCommit, At, Finish, Idle, Accepting, countVars
  <2> QED
    BY <1>8, <2>1, SameRows, SameOffers, PlainKeepsInv DEF BonusCommit
<1> QED
  BY <1>2, <1>3, <1>4, <1>5, <1>6, <1>7, <1>8

LEMMA OutsideKeeps ==
  ASSUME AssignmentInv, TypeInv
  PROVE  /\ \A t \in Technicians, b \in Toggles :
               UpdateTechnician(t, b) => AssignmentInv'
         /\ \A w \in Workshops : ClearCooldown(w) => AssignmentInv'
         /\ \A o \in OfferIds :
               OfferRunsOut(o) \/ CooldownRunsOut(o) => AssignmentInv'
         /\ \A h \in Threads : Crash(h) => AssignmentInv'
<1>0. \A o \in OfferIds : offer[o] \in OfferRow
  BY DEF TypeInv, TypeOK
<1>1. ASSUME NEW t \in Technicians, NEW b \in Toggles, UpdateTechnician(t, b)
      PROVE  AssignmentInv'
  BY <1>1, SameOffers, KeepInvOutside DEF UpdateTechnician, countVars
<1>2. ASSUME NEW w \in Workshops, ClearCooldown(w) PROVE AssignmentInv'
  <2> DEFINE clear(o) == [offer[o] EXCEPT !.rejectedAt = 0]
  <2>1. \A o \in OfferIds : /\ clear(o).incident = offer[o].incident
                            /\ clear(o).workshop = offer[o].workshop
                            /\ clear(o).acceptedAt = offer[o].acceptedAt
                            /\ clear(o).status = offer[o].status
    BY <1>0 DEF OfferRow
  <2>2. \A o \in OfferIds : offer'[o] \in {clear(o), offer[o]}
    BY <1>2 DEF ClearCooldown
  <2>3. OffersKept
    <3> HIDE DEF clear
    <3> QED
      BY <2>1, <2>2 DEF OffersKept, AssignmentInv
  <2> QED
    BY <1>2, <2>3, KeepInvOutside DEF ClearCooldown, countVars
<1>3. ASSUME NEW o \in OfferIds, OfferRunsOut(o) \/ CooldownRunsOut(o)
      PROVE  AssignmentInv'
  <2> DEFINE late == [offer[o] EXCEPT !.overdue = TRUE]
             cool == [offer[o] EXCEPT !.cooled = TRUE]
  <2>1. \A new \in {late, cool} :
           /\ new.incident = offer[o].incident
           /\ new.workshop = offer[o].workshop
           /\ new.acceptedAt = offer[o].acceptedAt
           /\ new.status = offer[o].status
    BY <1>0 DEF OfferRow
  <2>2. PICK new \in {late, cool} : offer' = [offer EXCEPT ![o] = new]
    BY <1>3 DEF OfferRunsOut, CooldownRunsOut
  <2>3. OffersKept
    <3> HIDE DEF late, cool
    <3> QED
      BY <2>1, <2>2 DEF OffersKept, AssignmentInv, TypeInv, TypeOK
  <2> QED
    BY <1>3, <2>3, KeepInvOutside DEF OfferRunsOut, CooldownRunsOut, countVars
<1>4. ASSUME NEW h \in Threads, Crash(h) PROVE AssignmentInv'
  <2>1. /\ job'[h] = Idle /\ \A g \in Threads \ {h} : job'[g] = job[g]
        /\ crashes' # 0 /\ incident' = incident /\ offer' = offer
    BY <1>4, DispatchAssumption DEF Crash, Finish, TypeInv, TypeOK
  <2>2. SessionSound(job[h])'
    BY <2>1, IdleType DEF SessionSound, Accepting
  <2> QED
    BY <2>1, <2>2, SameRows, SameOffers, KeepInv
<1> QED
  BY <1>1, <1>2, <1>3, <1>4

LEMMA InitKeepsAssigned == Init => AssignmentInv
  BY IdleType DEF Init, AssignmentInv, AssignmentBacked, AcceptanceNotLost,
     SessionSound, NewIncident, NoOffer, Accepting

LEMMA NextKeepsAssigned == TypeInv /\ AssignmentInv /\ [Next]_vars => AssignmentInv'
<1> SUFFICES ASSUME TypeInv, AssignmentInv, [Next]_vars PROVE AssignmentInv'
  OBVIOUS
<1>1. ASSUME NEW h \in Threads, Request(h) PROVE AssignmentInv'
  BY <1>1, RequestKeepsAssigned, AnswerKeepsAssigned, DispatchAssumption DEF Request
<1>2. ASSUME NEW h \in Threads, Proceed(h) PROVE AssignmentInv'
  BY <1>2, TriageKeepsAssigned, MatchKeeps, AcceptKeeps, AcceptLoadKeeps,
     AcceptIncidentKeeps, RejectKeeps, EndingKeeps DEF Proceed
<1>3. ASSUME NEW o \in OfferIds, Timeouts(o) PROVE AssignmentInv'
  BY <1>3, AnswerKeepsAssigned, DispatchAssumption DEF Timeouts, ProcessTimeout
<1>4. CASE UNCHANGED vars
  BY <1>4, SameOffers, KeepInvOutside DEF vars
<1> QED
  BY <1>1, <1>2, <1>3, <1>4, OutsideKeeps DEF Next

LEMMA AssignmentInvariant == Spec => []AssignmentInv
<1>1. Init => TypeInv /\ AssignmentInv
  BY InitType, InitKeepsAssigned
<1>2. TypeInv /\ AssignmentInv /\ [Next]_vars => (TypeInv /\ AssignmentInv)'
  BY NextType, NextKeepsAssigned
<1> QED
  BY <1>1, <1>2, PTL DEF Spec

(* A workshop is assigned only to an incident whose offer it accepted, and *)
(* an incident in service has a workshop, for any number of overlapping    *)
(* handlers and crashed instances.                                         *)
THEOREM AssignmentCorrect == Spec => []AssignmentBacked
<1>1. AssignmentInv => AssignmentBacked
  BY DEF AssignmentInv
<1> QED
  BY <1>1, AssignmentInvariant, PTL

(* While no instance dies, no acceptance is lost: the incident has, or its *)
(* accept_offer is still about to write, an assigned workshop.             *)
THEOREM AcceptanceKept == Spec => []AcceptanceNotLost
<1>1. AssignmentInv => AcceptanceNotLost
  BY DEF AssignmentInv
<1> QED
  BY <1>1, AssignmentInvariant, PTL

-----------------------------------------------------------------------------
(***************************************************************************)
(* Activity points and rejection counts in Dispatch: until the first bonus *)
(* is paid, no workshop has lost more than its rejections account for,     *)
(* even though overlapping penalties overwrite each other.                 *)
(*                                                                         *)
(* The argument: a pending penalty holds a pair (points, rejections) that  *)
(* satisfied the bound when it was loaded, and the pair it writes, taken   *)
(* from the one it loaded, satisfies it again.                             *)
(***************************************************************************)

Penalizing == {"reject_offer", "penalty_load", "penalty_commit"}

Completing ==
    {"complete_incident", "release_load", "release_commit", "bonus_load",
     "bonus_commit"}

PenaltySound(j) ==
    /\ j.pc \in Penalizing => j.cost \in 1..MaxPenalty
    /\ j.pc = "penalty_commit" => j.pts + MaxPenalty * j.rej >= InitPoints
    /\ j.pc \notin Completing

ReputationInv ==
    /\ ReputationExplained
    /\ completions = 0 => \A h \in Threads : PenaltySound(job[h])

(* A thread moves and neither column is written.                           *)
QuietForPoints(h) ==
    /\ UNCHANGED <<points, rejections, completions>>
    /\ \A g \in Threads \ {h} : job'[g] = job[g]
    /\ completions = 0 => PenaltySound(job'[h])

LEMMA QuietKeepsPoints ==
  ASSUME ReputationInv, NEW h \in Threads, QuietForPoints(h)
  PROVE  ReputationInv'
<1>1. ReputationExplained'
  BY DEF ReputationInv, ReputationExplained, QuietForPoints
<1>2. ASSUME completions' = 0, NEW g \in Threads PROVE PenaltySound(job'[g])
  BY <1>2 DEF ReputationInv, QuietForPoints
<1> QED
  BY <1>1, <1>2 DEF ReputationInv, PenaltySound

(* Most steps leave their thread with a label that promises nothing.       *)
LEMMA PlainQuiet ==
  ASSUME TypeInv, NEW h \in Threads, NEW j, job' = [job EXCEPT ![h] = j],
         j.pc \notin Penalizing \cup Completing,
         UNCHANGED <<points, rejections, completions>>
  PROVE  QuietForPoints(h)
<1>1. job'[h] = j /\ \A g \in Threads \ {h} : job'[g] = job[g]
  BY DEF TypeInv, TypeOK
<1> QED
  BY <1>1 DEF QuietForPoints, PenaltySound, Penalizing

LEMMA RequestQuiet ==
  ASSUME ReputationInv, TypeInv, NEW h \in Threads
  PROVE  /\ \A i \in Incidents : \/ RequestHelp(h, i) \/ AddEvidence(h, i)
                                 \/ BeginCancel(h, i) \/ BeginArrive(h, i)
                                 => QuietForPoints(h)
         /\ \A o \in OfferIds, t \in Technicians \cup {None} :
               BeginAccept(h, o, t) => QuietForPoints(h)
         /\ \A o \in OfferIds, c \in 1..MaxPenalty :
               BeginReject(h, o, c) => QuietForPoints(h)
<1> USE DEF Begin, Idle, Penalizing, Completing, workshopVars, countVars
<1>1. ASSUME NEW i \in Incidents,
             \/ RequestHelp(h, i) \/ AddEvidence(h, i)
             \/ BeginCancel(h, i) \/ BeginArrive(h, i)
      PROVE  QuietForPoints(h)
  <2>1. CASE RequestHelp(h, i)
    BY <2>1, PlainQuiet DEF RequestHelp
  <2>2. CASE AddEvidence(h, i)
    BY <2>2, PlainQuiet DEF AddEvidence
  <2>3. CASE BeginCancel(h, i)
    BY <2>3, PlainQuiet DEF BeginCancel
  <2>4. CASE BeginArrive(h, i)
    BY <2>4, PlainQuiet DEF BeginArrive
  <2> QED
    BY <1>1, <2>1, <2>2, <2>3, <2>4
<1>2. ASSUME NEW o \in OfferIds, NEW t \in Technicians \cup {None},
             BeginAccept(h, o, t)
      PROVE  QuietForPoints(h)
  BY <1>2, PlainQuiet DEF BeginAccept
<1>3. ASSUME NEW o \in OfferIds, NEW c \in 1..MaxPenalty, BeginReject(h, o, c)
      PROVE  QuietForPoints(h)
  <2>1. /\ job'[h].pc = "reject_offer" /\ job'[h].cost = c
        /\ \A g \in Threads \ {h} : job'[g] = job[g]
    BY <1>3 DEF BeginReject, TypeInv, TypeOK
  <2> QED
    BY <1>3, <2>1 DEF BeginReject, QuietForPoints, PenaltySound
<1> QED
  BY <1>1, <1>2, <1>3

LEMMA ProceedQuiet ==
  ASSUME ReputationInv, TypeInv, NEW h \in Threads, NEW near
  PROVE  \/ RequestAnalyzing(h) \/ EvidenceCommit(h) \/ AiLoad(h)
         \/ AiSaveImages(h, near) \/ AiPendingInfo(h, near)
         \/ AiMatched(h, near) \/ AiError(h, near)
         \/ FindAndCreateOffer(h) \/ MarkNoOffers(h)
         \/ CreateOffer(h) \/ MarkMatched(h)
         \/ AcceptOffer(h) \/ AcceptLoad(h) \/ AcceptIncident(h)
         \/ CancelCommit(h) \/ ArriveCommit(h)
         => QuietForPoints(h)
<1> USE DEF Continue, Finish, Idle, Penalizing, Completing, workshopVars, countVars
<1>0. job[h] \in Jobs
  BY DEF TypeInv, TypeOK
<1>1. CASE RequestAnalyzing(h)
  BY <1>0, <1>1, PlainQuiet DEF RequestAnalyzing, Jobs
<1>2. CASE EvidenceCommit(h)
  BY <1>2, PlainQuiet DEF EvidenceCommit
<1>3. CASE AiLoad(h)
  BY <1>0, <1>3, PlainQuiet DEF AiLoad, Jobs
<1>4. CASE AiSaveImages(h, near)
  BY <1>0, <1>4, PlainQuiet DEF AiSaveImages, Jobs
<1>5. CASE AiPendingInfo(h, near) \/ AiError(h, near)
  BY <1>5, PlainQuiet DEF AiPendingInfo, AiError
<1>6. CASE AiMatched(h, near)
  BY <1>6, PlainQuiet DEF AiMatched
<1>7. CASE FindAndCreateOffer(h)
  BY <1>7, PlainQuiet DEF FindAndCreateOffer
<1>8. CASE MarkNoOffers(h) \/ MarkMatched(h)
  BY <1>8, PlainQuiet DEF MarkNoOffers, MarkMatched
<1>9. CASE CreateOffer(h)
  BY <1>0, <1>9, PlainQuiet DEF CreateOffer, Jobs
<1>10. CASE AcceptOffer(h)
  BY <1>0, <1>10, PlainQuiet DEF AcceptOffer, Jobs
<1>11. CASE AcceptLoad(h)
  <2>1. /\ job'[h].pc = "accept_incident"
        /\ \A g \in Threads \ {h} : job'[g] = job[g]
    BY <1>0, <1>11 DEF AcceptLoad, Jobs, TypeInv, TypeOK
  <2> QED
    BY <1>11, <2>1 DEF AcceptLoad, QuietForPoints, PenaltySound
<1>12. CASE AcceptIncident(h)
  BY <1>12, PlainQuiet DEF AcceptIncident
<1>13. CASE CancelCommit(h)
  BY <1>13, PlainQuiet DEF CancelCommit
<1>14. CASE ArriveCommit(h)
  BY <1>14, PlainQuiet DEF ArriveCommit
<1> QED
  BY <1>1, <1>2, <1>3, <1>4, <1>5, <1>6, <1>7, <1>8, <1>9, <1>10, <1>11, <1>12,
     <1>13, <1>14

LEMMA PenaltyKeeps ==
  ASSUME ReputationInv, TypeInv, NEW h \in Threads
  PROVE  /\ RejectOffer(h) => ReputationInv'
         /\ PenaltyLoad(h) => ReputationInv'
         /\ PenaltyCommit(h) => ReputationInv'
<1>0. /\ job[h] \in Jobs /\ job[h].pts \in 0..MaxPoints /\ job[h].rej \in Nat
      /\ completions = 0 => PenaltySound(job[h])
  BY DEF TypeInv, TypeOK, Jobs, ReputationInv
<1>1. ASSUME RejectOffer(h) PROVE ReputationInv'
  <2>1. /\ job'[h].pc = "penalty_load" /\ job'[h].cost = job[h].cost
        /\ job[h].pc = "reject_offer"
        /\ \A g \in Threads \ {h} : job'[g] = job[g]
    BY <1>0, <1>1 DEF RejectOffer, At, Continue, Jobs, TypeInv, TypeOK
  <2>2. QuietForPoints(h)
    BY <1>0, <1>1, <2>1 DEF RejectOffer, QuietForPoints, PenaltySound, Penalizing,
                            Completing, workshopVars, countVars
  <2> QED
    BY <2>2, QuietKeepsPoints
<1>2. ASSUME PenaltyLoad(h) PROVE ReputationInv'
  <2> DEFINE w == offer[job[h].offer].workshop
  <2>1. w \in Workshops
    BY <1>2 DEF PenaltyLoad, At, TypeInv, JobsBound, OffersBound, OnOffer
  <2>2. /\ job'[h].pc = "penalty_commit" /\ job'[h].cost = job[h].cost
        /\ job'[h].pts = points[w] /\ job'[h].rej = rejections[w]
        /\ job[h].pc = "penalty_load"
        /\ \A g \in Threads \ {h} : job'[g] = job[g]
    BY <1>0, <1>2 DEF PenaltyLoad, At, Continue, Jobs, TypeInv, TypeOK
  <2>3. completions = 0 => points[w] + MaxPenalty * rejections[w] >= InitPoints
    BY <2>1 DEF ReputationInv, ReputationExplained
  <2>4. UNCHANGED <<points, rejections, completions>>
    BY <1>2 DEF PenaltyLoad, workshopVars, countVars
  <2>5. QuietForPoints(h)
    BY <1>0, <2>2, <2>3, <2>4 DEF QuietForPoints, PenaltySound, Penalizing, Completing
  <2> QED
    BY <2>5, QuietKeepsPoints
<1>3. ASSUME PenaltyCommit(h) PROVE ReputationInv'
  <2> DEFINE pts == job[h].pts
             rej == job[h].rej
             cost == job[h].cost
             w == job[h].workshop
             left == LargerOf(0, pts - cost)
  <2>1. /\ w \in Workshops /\ job[h].pc = "penalty_commit"
        /\ completions' = completions
    BY <1>3 DEF PenaltyCommit, At, TypeInv, JobsBound, OnWorkshop, countVars
  <2>2. /\ job'[h].pc = "find"
        /\ \A g \in Threads \ {h} : job'[g] = job[g]
    BY <1>3 DEF PenaltyCommit, Continue, Idle, TypeInv, TypeOK
  <2>3. SUFFICES ASSUME completions = 0 PROVE ReputationInv'
    BY <2>1 DEF ReputationInv, ReputationExplained
  <2>4. cost \in 1..MaxPenalty /\ pts + MaxPenalty * rej >= InitPoints
    BY <1>0, <2>1, <2>3 DEF PenaltySound, Penalizing
  <2>5. MaxPenalty * (rej + 1) = MaxPenalty * rej + MaxPenalty
    BY <1>0, DispatchAssumption
  <2>6. MaxPenalty * rej \in Nat
    BY <1>0, DispatchAssumption
  <2>7. left + MaxPenalty * (rej + 1) >= InitPoints /\ left \in Nat
    BY <1>0, <2>4, <2>5, <2>6, DispatchAssumption DEF LargerOf
  <2>8. left = pts => MaxPenalty * (rej + 1) >= InitPoints
    BY <1>0, <2>4, <2>5, <2>6, DispatchAssumption DEF LargerOf
  <2>9. /\ points'[w] \in Nat /\ rejections'[w] = rej + 1
        /\ points'[w] = left \/ left = pts
        /\ \A v \in Workshops \ {w} : /\ points'[v] = points[v]
                                      /\ rejections'[v] = rejections[v]
    BY <1>3, <2>1, <2>7 DEF PenaltyCommit, FlushValue, TypeInv, TypeOK
  <2>10. points'[w] + MaxPenalty * rejections'[w] >= InitPoints
    <3>1. CASE points'[w] = left
      BY <2>7, <2>9, <3>1
    <3>2. CASE left = pts
      BY <2>5, <2>6, <2>8, <2>9, <3>2, DispatchAssumption
    <3> QED
      BY <2>9, <3>1, <3>2
  <2>11. ReputationExplained'
    BY <2>3, <2>9, <2>10 DEF ReputationInv, ReputationExplained
  <2>12. ASSUME NEW g \in Threads PROVE PenaltySound(job'[g])
    BY <2>2, <2>3 DEF ReputationInv, PenaltySound, Penalizing, Completing
  <2> QED
    BY <2>11, <2>12 DEF ReputationInv, PenaltySound
<1> QED
  BY <1>1, <1>2, <1>3

(* Once complete_offer has been called the invariant promises nothing.     *)
LEMMA CompletionKeeps ==
  ASSUME ReputationInv, TypeInv, NEW h \in Threads
  PROVE  /\ \A o \in OfferIds : BeginComplete(h, o) => ReputationInv'
         /\ CompleteIncident(h) \/ ReleaseLoad(h) \/ ReleaseCommit(h)
            \/ BonusLoad(h) \/ BonusCommit(h) => ReputationInv'
<1>1. ASSUME NEW o \in OfferIds, BeginComplete(h, o) PROVE ReputationInv'
  <2>1. completions' # 0
    BY <1>1 DEF BeginComplete, TypeInv, TypeOK
  <2> QED
    BY <2>1 DEF ReputationInv, ReputationExplained
<1>2. ASSUME \/ CompleteIncident(h) \/ ReleaseLoad(h) \/ ReleaseCommit(h)
             \/ BonusLoad(h) \/ BonusCommit(h)
      PROVE  ReputationInv'
  <2>1. job[h].pc \in Completing /\ completions' = completions
    BY <1>2 DEF CompleteIncident, ReleaseLoad, ReleaseCommit, BonusLoad,
                BonusCommit, At, Completing, countVars
  <2>2. completions' # 0
    BY <2>1 DEF ReputationInv, PenaltySound
  <2> QED
    BY <2>2 DEF ReputationInv, ReputationExplained
<1> QED
  BY <1>1, <1>2

LEMMA OutsideQuiet ==
  ASSUME ReputationInv, TypeInv
  PROVE  /\ \A t \in Technicians, b \in Toggles :
               UpdateTechnician(t, b) => ReputationInv'
         /\ \A w \in Workshops : ClearCooldown(w) => ReputationInv'
         /\ \A o \in OfferIds :
               OfferRunsOut(o) \/ CooldownRunsOut(o) => ReputationInv'
         /\ \A h \in Threads : Crash(h) => ReputationInv'
         /\ UNCHANGED vars => ReputationInv'
<1>1. ASSUME UNCHANGED <<points, rejections, completions, job>>
      PROVE  ReputationInv'
  BY <1>1 DEF ReputationInv, ReputationExplained, PenaltySound
<1>2. ASSUME NEW h \in Threads, Crash(h) PROVE ReputationInv'
  <2>1. QuietForPoints(h)
    BY <1>2, PlainQuiet
       DEF Crash, Finish, Idle, Penalizing, Completing, workshopVars
  <2> QED
    BY <2>1, QuietKeepsPoints
<1> QED
  BY <1>1, <1>2 DEF UpdateTechnician, ClearCooldown, OfferRunsOut,
                    CooldownRunsOut, vars, workshopVars, countVars

LEMMA InitReputation == Init => ReputationInv
<1> SUFFICES ASSUME Init PROVE ReputationInv
  OBVIOUS
<1>1. MaxPenalty * 0 = 0
  BY DispatchAssumption
<1>2. ReputationExplained
  BY <1>1, DispatchAssumption DEF Init, ReputationExplained
<1>3. \A h \in Threads : PenaltySound(job[h])
  BY IdleType DEF Init, PenaltySound, Penalizing, Completing
<1> QED
  BY <1>2, <1>3 DEF ReputationInv

LEMMA NextReputation ==
  TypeInv /\ ReputationInv /\ [Next]_vars => ReputationInv'
<1> SUFFICES ASSUME TypeInv, ReputationInv, [Next]_vars PROVE ReputationInv'
  OBVIOUS
<1>1. ASSUME NEW h \in Threads, Request(h) PROVE ReputationInv'
  BY <1>1, RequestQuiet, QuietKeepsPoints, CompletionKeeps, DispatchAssumption
     DEF Request
<1>2. ASSUME NEW h \in Threads, Proceed(h) PROVE ReputationInv'
  BY <1>2, ProceedQuiet, QuietKeepsPoints, PenaltyKeeps, CompletionKeeps DEF Proceed
<1>3. ASSUME NEW o \in OfferIds, Timeouts(o) PROVE ReputationInv'
  BY <1>3, RequestQuiet, QuietKeepsPoints, DispatchAssumption
     DEF Timeouts, ProcessTimeout
<1> QED
  BY <1>1, <1>2, <1>3, OutsideQuiet DEF Next

(* Until complete_offer pays its first bonus, each workshop's lost points  *)
(* are covered by its rejection_count, whatever penalties overlap.         *)
THEOREM ReputationCovered == Spec => []ReputationExplained
<1>1. Init => TypeInv /\ ReputationInv
  BY InitType, InitReputation
<1>2. TypeInv /\ ReputationInv /\ [Next]_vars => (TypeInv /\ ReputationInv)'
  BY NextType, NextReputation
<1>3. ReputationInv => ReputationExplained
  BY DEF ReputationInv
<1> QED
  BY <1>1, <1>2, <1>3, PTL DEF Spec
=============================================================================
