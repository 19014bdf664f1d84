----------------------------- MODULE MCServices -----------------------------
(***************************************************************************)
(* The seed at every start, the audit log, the live location and the       *)
(* evidence with its transcription.  They share no state in their models,  *)
(* so that a behaviour here is one of a single component, the part, while  *)
(* the others stay at their initial states.                                *)
(***************************************************************************)
EXTENDS Startup, AuditTrail, Tracking, Evidence

VARIABLE part

ServicesInit ==
    /\ StartupInit /\ AuditInit /\ TrackInit /\ EvidenceInit
    /\ part \in {"startup", "audit", "tracking", "evidence"}

NotStartup == UNCHANGED <<auditVars, trackVars, evidenceVars>>
NotAudit == UNCHANGED <<startupVars, trackVars, evidenceVars>>
NotTracking == UNCHANGED <<startupVars, auditVars, evidenceVars>>
NotEvidence == UNCHANGED <<startupVars, auditVars, trackVars>>

ServicesNext ==
    /\ UNCHANGED part
    /\ \/ part = "startup" /\ StartupNext /\ NotStartup
       \/ part = "audit" /\ AuditNext /\ NotAudit
       \/ part = "tracking" /\ TrackNext /\ NotTracking
       \/ part = "evidence" /\ EvidenceNext /\ NotEvidence

\* The fairness of the components' own specifications, each for its part.
ServicesFairness ==
    /\ \A s \in Instances : /\ WF_startupVars(part = "startup" /\ StartInstance(s))
                            /\ WF_startupVars(part = "startup" /\ SeedStep(s))
    /\ \A r \in Requests : WF_auditVars(part = "audit" /\ ServeRequest(r))
    /\ WF_auditVars(part = "audit" /\ RetryStep)
    /\ WF_trackVars(Send) /\ WF_trackVars(EndBroadcast)
    /\ \A v \in Viewers : WF_trackVars(link[v] = "stalled" /\ LinkTurns(v, "dead"))
    /\ \A f \in Files : WF_evidenceVars(TranscriptionStep(f))

ServicesSpec ==
    /\ ServicesInit
    /\ [][ServicesNext]_<<startupVars, auditVars, trackVars, evidenceVars, part>>
    /\ ServicesFairness
=============================================================================
