-------------------------- MODULE DispatchReferral --------------------------
(***************************************************************************)
(* Dispatch implements Referral while its handlers do not overlap.         *)
(***************************************************************************)
EXTENDS Dispatch

\* An acceptance counts from the commit of the offer's row, before the
\* incident's row shows it.
AcceptedOffers(i) ==
    {o \in OfferIds : offer[o].incident = i /\ offer[o].status = "accepted"}

WorkshopOf(offers) ==
    IF offers = {} THEN None ELSE offer[CHOOSE o \in offers : TRUE].workshop

PhaseOf(status) ==
    IF status \in {"none", "cancelled"} THEN status
    ELSE IF status = "in_progress" THEN "served"
    ELSE IF status = "completed" THEN "done" ELSE "open"

Phase == [i \in Incidents |-> PhaseOf(incident[i].status)]
Asked == [i \in Incidents |-> WorkshopOf(LiveOffers(i))]
Server == [i \in Incidents |-> WorkshopOf(AcceptedOffers(i))]

Promise == INSTANCE Referral WITH
               phase <- Phase, asked <- Asked, server <- Server

(* However requests, AI results, timeouts and completions follow each      *)
(* other, while handlers do not overlap every commit is a step of Referral *)
(* or invisible to it: one workshop is asked at a time, only the workshop  *)
(* that was asked takes the incident, nobody is asked again afterwards,    *)
(* and a cancellation withdraws the offer in the same commit.              *)
KeepsPromise == Promise!Spec
=============================================================================
