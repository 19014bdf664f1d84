-------------------------- MODULE MCAdministration --------------------------
(***************************************************************************)
(* Accounts, permissions, reports and notifications.  They share no state  *)
(* in their models, so that a behaviour here is one of a single component, *)
(* the part, while the others stay at their initial states.                *)
(***************************************************************************)
EXTENDS Accounts, Access, Reports, Bell

VARIABLE part

AdministrationInit ==
    /\ AccountsInit /\ AccessInit /\ ReportsInit /\ BellInit
    /\ part \in {"accounts", "access", "queries", "templates", "bell"}

NotAccounts == UNCHANGED <<accessVars, reportVars, bellVars>>
NotAccess == UNCHANGED <<accountsVars, reportVars, bellVars>>
NotReports == UNCHANGED <<accountsVars, accessVars, bellVars>>
NotBell == UNCHANGED <<accountsVars, accessVars, reportVars>>

AdministrationNext ==
    /\ UNCHANGED part
    /\ \/ part = "accounts" /\ AccountsNext /\ NotAccounts
       \/ part = "access" /\ AccessNext /\ NotAccess
       \/ part = "queries" /\ QueryNext /\ NotReports
       \/ part = "templates" /\ TemplateNext /\ NotReports
       \/ part = "bell" /\ BellNext /\ NotBell

AdministrationSpec ==
    /\ AdministrationInit
    /\ [][AdministrationNext]_<<accountsVars, accessVars, reportVars, bellVars, part>>
=============================================================================
