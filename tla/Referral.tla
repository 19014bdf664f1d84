------------------------------ MODULE Referral ------------------------------
(***************************************************************************)
(* What the platform promises about an incident, without handlers, rows or *)
(* commits: one workshop at a time is asked, whoever is asked may take the *)
(* incident or let it go, and nobody is asked again once it is taken.      *)
(***************************************************************************)
CONSTANTS Incidents, Workshops, None

VARIABLES
    phase,   \* of each incident
    asked,   \* the workshop that holds its exclusive offer
    server   \* the workshop that took it

referralVars == <<phase, asked, server>>

Phases == {"none", "open", "served", "cancelled", "done"}

Init ==
    /\ phase = [i \in Incidents |-> "none"]
    /\ asked = [i \in Incidents |-> None]
    /\ server = [i \in Incidents |-> None]

\* The client asks for help.
Report(i) ==
    /\ phase[i] = "none"
    /\ phase' = [phase EXCEPT ![i] = "open"]
    /\ UNCHANGED <<asked, server>>

\* Nobody holds the offer and nobody has taken the incident.
Ask(i, w) ==
    /\ phase[i] \in {"open", "done"} /\ asked[i] = None /\ server[i] = None
    /\ asked' = [asked EXCEPT ![i] = w]
    /\ UNCHANGED <<phase, server>>

\* The workshop declines, or lets the offer run out.
Decline(i) ==
    /\ asked[i] # None
    /\ asked' = [asked EXCEPT ![i] = None]
    /\ UNCHANGED <<phase, server>>

Take(i) ==
    /\ asked[i] # None /\ server[i] = None
    /\ server' = [server EXCEPT ![i] = asked[i]]
    /\ asked' = [asked EXCEPT ![i] = None]
    /\ UNCHANGED phase

\* The mechanic arrives.
Serve(i) ==
    /\ phase[i] = "open" /\ server[i] # None
    /\ phase' = [phase EXCEPT ![i] = "served"]
    /\ UNCHANGED <<asked, server>>

\* Nobody is still asked about an incident that was cancelled, and none is
\* cancelled while it is served.
Cancel(i) ==
    /\ phase[i] = "open"
    /\ phase' = [phase EXCEPT ![i] = "cancelled"]
    /\ asked' = [asked EXCEPT ![i] = None]
    /\ UNCHANGED server

\* A workshop that was ever asked may call the service complete, whatever
\* became of the incident.
Complete(i) ==
    /\ phase[i] # "none"
    /\ phase' = [phase EXCEPT ![i] = "done"]
    /\ UNCHANGED <<asked, server>>

\* An offer that outlived such a call can still be taken or declined: either
\* puts the incident back, with its workshop or in search of one.
Reopen(i) ==
    /\ phase[i] = "done"
    /\ phase' = [phase EXCEPT ![i] = "open"]
    /\ UNCHANGED <<asked, server>>

Next ==
    \E i \in Incidents :
        \/ Report(i) \/ Decline(i) \/ Take(i) \/ Serve(i)
        \/ Cancel(i) \/ Complete(i) \/ Reopen(i)
        \/ \E w \in Workshops : Ask(i, w)

Spec == Init /\ [][Next]_referralVars
=============================================================================
