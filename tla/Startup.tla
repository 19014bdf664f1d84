------------------------------- MODULE Startup -------------------------------
(***************************************************************************)
(* What every instance does before it serves: the entry point runs the     *)
(* seed, which first commits the deletion of the "reports:*" permissions   *)
(* and their links, and then restores them, with everything else it        *)
(* seeds, in one transaction of its own.                                   *)
(*                                                                         *)
(* Several instances start at once; one may die at any step, and the       *)
(* orchestrator starts it again.                                           *)
(***************************************************************************)
EXTENDS Naturals, FiniteSets

CONSTANTS
    Instances,
    Reports, Others,   \* actions of permissions: "reports:*", and the rest
    AdminRole, OtherRoles,
    Seeded,            \* users, workshops, vehicles: rows found by a unique name
    MaxStarts,         \* bound: starts
    MaxRevocations,    \* bound: links that administrators delete
    MaxSeedErrors      \* bound: seeds that the database fails

ASSUME StartupAssumption ==
    /\ Reports \cap Others = {} /\ AdminRole \notin OtherRoles
    /\ {MaxStarts, MaxRevocations, MaxSeedErrors} \subseteq Nat

VARIABLES
    permission,   \* each action's row: 0 is none, and a new row has a new id
    lastId,       \* of the permissions
    role,         \* roles that exist
    grant,        \* rows of permission_role: role, action, id of the permission
    seeded,       \* rows of Seeded that exist
    boot,         \* what each instance is doing
    revoked,      \* actions that administrators have revoked
    starts, revocations, seedErrors

startupVars == <<permission, lastId, role, grant, seeded, boot, revoked,
                 starts, revocations, seedErrors>>

Actions == Reports \cup Others
SeedRoles == {AdminRole} \cup OtherRoles

\* ROLES: "*" for the administrator; of the other roles, the workshop owner's
\* has the report actions.
SeedActions(r) == IF r = AdminRole THEN Actions ELSE Reports

Ids == 0..(MaxStarts * Cardinality(Actions))
Grants == SeedRoles \X Actions \X Ids

Boots == [at     : {"down", "purge", "permissions", "roles", "commit",
                    "serving"},
          found  : [Actions -> Ids],    \* perm_map
          roles  : SUBSET SeedRoles,    \* those that existed
          loaded : SUBSET Grants,       \* their collections
          rows   : SUBSET Seeded]       \* those that existed

Down == [at |-> "down", found |-> [a \in Actions |-> 0], roles |-> {},
         loaded |-> {}, rows |-> {}]

StartupInit ==
    /\ permission = [a \in Actions |-> 0] /\ lastId = 0
    /\ role = {} /\ grant = {} /\ seeded = {}
    /\ boot = [s \in Instances |-> Down]
    /\ revoked = {}
    /\ starts = 0 /\ revocations = 0 /\ seedErrors = 0

-----------------------------------------------------------------------------
(* One start.                                                              *)

\* After the database answered, or 30 attempts, and the migrations.
StartInstance(s) ==
    /\ boot[s].at = "down" /\ starts < MaxStarts
    /\ starts' = starts + 1
    /\ boot' = [boot EXCEPT ![s].at = "purge"]
    /\ UNCHANGED <<permission, lastId, role, grant, seeded, revoked,
                   revocations, seedErrors>>

PurgeReports(s) ==
    /\ boot[s].at = "purge"
    /\ grant' = {g \in grant : g[2] \notin Reports}
    /\ permission' = [a \in Actions |-> IF a \in Reports THEN 0 ELSE permission[a]]
    /\ boot' = [boot EXCEPT ![s].at = "permissions"]
    /\ UNCHANGED <<lastId, role, seeded, revoked, starts, revocations, seedErrors>>

LookPermissions(s) ==
    /\ boot[s].at = "permissions"
    /\ boot' = [boot EXCEPT ![s].at = "roles", ![s].found = permission]
    /\ UNCHANGED <<permission, lastId, role, grant, seeded, revoked, starts,
                   revocations, seedErrors>>

LookRoles(s) ==
    /\ boot[s].at = "roles"
    /\ boot' = [boot EXCEPT ![s].at = "commit", ![s].roles = role,
                            ![s].loaded = grant, ![s].rows = seeded]
    /\ UNCHANGED <<permission, lastId, role, grant, seeded, revoked, starts,
                   revocations, seedErrors>>

Missing(s) == {a \in Actions : boot[s].found[a] = 0}

\* The links of a role are replaced by those to the rows found and created.
SeedGrants(s, created) ==
    {<<link[1], link[2], created[link[2]]>> :
        link \in {l \in SeedRoles \X Actions : l[2] \in SeedActions(l[1])}}

Withdrawn(s, created) == boot[s].loaded \ SeedGrants(s, created)
Restored(s, created) == SeedGrants(s, created) \ boot[s].loaded

\* A name that exists by now, a link to be deleted that is gone or to be
\* inserted that is there, and a permission that is gone refuse the commit.
SeedRefused(s, created) ==
    LET b == boot[s] IN
    \/ \E a \in Missing(s) : permission[a] # 0
    \/ role # b.roles \/ ~(seeded \subseteq b.rows)
    \/ ~(Withdrawn(s, created) \subseteq grant)
    \/ Restored(s, created) \cap grant # {}
    \/ \E g \in Restored(s, created) :
          g[2] \notin Missing(s) /\ permission[g[2]] # g[3]

Created(s) ==
    [a \in Actions |-> IF a \in Missing(s) THEN lastId + 1 ELSE boot[s].found[a]]

InsertPermissions(s) ==
    /\ permission' = [a \in Actions |-> IF a \in Missing(s) THEN lastId + 1
                                        ELSE permission[a]]
    /\ lastId' = IF Missing(s) = {} THEN lastId ELSE lastId + 1

InsertRows(s) == role' = SeedRoles /\ seeded' = seeded \cup (Seeded \ boot[s].rows)

\* Fault: the permissions are committed before the roles are looked at.
CommitSeedTwice(s) ==
    LET created == Created(s) IN
    /\ boot[s].at = "commit"
    /\ IF SeedRefused(s, created)
       THEN /\ boot' = [boot EXCEPT ![s] = [Down EXCEPT !.at = "serving"]]
            /\ UNCHANGED <<permission, lastId, role, grant, seeded>>
       ELSE IF Missing(s) # {}
       THEN /\ InsertPermissions(s)
            /\ boot' = [boot EXCEPT ![s].found = created]
            /\ UNCHANGED <<role, grant, seeded>>
       ELSE /\ grant' = (grant \ Withdrawn(s, created)) \cup Restored(s, created)
            /\ InsertRows(s)
            /\ boot' = [boot EXCEPT ![s] = [Down EXCEPT !.at = "serving"]]
            /\ UNCHANGED <<permission, lastId>>
    /\ UNCHANGED <<revoked, starts, revocations, seedErrors>>

\* Fault: a role that exists keeps the links it has.
CommitSeedNewRoles(s) ==
    LET created == Created(s) IN
    /\ boot[s].at = "commit"
    /\ boot' = [boot EXCEPT ![s] = [Down EXCEPT !.at = "serving"]]
    /\ IF SeedRefused(s, created)
       THEN UNCHANGED <<permission, lastId, role, grant, seeded>>
       ELSE /\ InsertPermissions(s)
            /\ grant' = grant \cup {g \in Restored(s, created) : g[1] \notin role}
            /\ InsertRows(s)
    /\ UNCHANGED <<revoked, starts, revocations, seedErrors>>

CommitSeed(s) ==
    LET created == Created(s) IN
    /\ boot[s].at = "commit"
    /\ boot' = [boot EXCEPT ![s] = [Down EXCEPT !.at = "serving"]]
    /\ IF SeedRefused(s, created)
       THEN UNCHANGED <<permission, lastId, role, grant, seeded>>
       ELSE /\ InsertPermissions(s)
            /\ grant' = (grant \ Withdrawn(s, created)) \cup Restored(s, created)
            /\ InsertRows(s)
    /\ UNCHANGED <<revoked, starts, revocations, seedErrors>>

\* "Seed failed, continuing...": the instance serves.
SeedFails(s) ==
    /\ boot[s].at \in {"purge", "permissions", "roles", "commit"}
    /\ seedErrors < MaxSeedErrors /\ seedErrors' = seedErrors + 1
    /\ boot' = [boot EXCEPT ![s] = [Down EXCEPT !.at = "serving"]]
    /\ UNCHANGED <<permission, lastId, role, grant, seeded, revoked, starts,
                   revocations>>

InstanceDies(s) ==
    /\ boot[s].at # "down" /\ starts < MaxStarts
    /\ boot' = [boot EXCEPT ![s] = Down]
    /\ UNCHANGED <<permission, lastId, role, grant, seeded, revoked, starts,
                   revocations, seedErrors>>

-----------------------------------------------------------------------------
(* Administrators, while instances start.                                  *)

RevokeGrant(g) ==
    /\ revocations < MaxRevocations /\ g \in grant
    /\ revocations' = revocations + 1
    /\ grant' = grant \ {g} /\ revoked' = revoked \cup {g[2]}
    /\ UNCHANGED <<permission, lastId, role, seeded, boot, starts, seedErrors>>

DeleteSeeded(x) ==
    /\ revocations < MaxRevocations /\ x \in seeded
    /\ revocations' = revocations + 1
    /\ seeded' = seeded \ {x}
    /\ UNCHANGED <<permission, lastId, role, grant, boot, revoked, starts,
                   seedErrors>>

SeedStep(s) ==
    PurgeReports(s) \/ LookPermissions(s) \/ LookRoles(s) \/ CommitSeed(s)

StartupNext ==
    \/ \E s \in Instances : \/ StartInstance(s) \/ SeedStep(s)
                            \/ SeedFails(s) \/ InstanceDies(s)
    \/ \E g \in grant : RevokeGrant(g)
    \/ \E x \in Seeded : DeleteSeeded(x)

StartupSpec == StartupInit /\ [][StartupNext]_startupVars

(* Instances that are down are started while there are starts left, and a  *)
(* seed that runs goes on.                                                 *)
StartupFairness ==
    \A s \in Instances : WF_startupVars(StartInstance(s)) /\ WF_startupVars(SeedStep(s))

-----------------------------------------------------------------------------
(* Properties.                                                             *)

\* Rows and boots keep their types.
StartupTypeOK ==
    /\ permission \in [Actions -> Ids] /\ lastId \in Ids
    /\ role \subseteq SeedRoles /\ grant \subseteq Grants
    /\ seeded \subseteq Seeded
    /\ boot \in [Instances -> Boots]
    /\ revoked \subseteq Actions

Granted(a) ==
    \A r \in SeedRoles :
        a \in SeedActions(r) => <<r, a, permission[a]>> \in grant

\* A permission is never there without its roles: another instance's purge,
\* a seed that is refused and one that dies half way leave both or neither.
GrantsWhole ==
    \A a \in Actions : permission[a] # 0 /\ a \notin revoked => Granted(a)

\* Once an instance has started, the purged permissions are in the end back,
\* with their roles, however many instances seed at once and wherever some of
\* them die; only an error of the database or an administrator's edit excuses
\* their absence.
PermissionsReturn ==
    <>[](\/ starts = 0 \/ seedErrors > 0 \/ revocations > 0
         \/ \A a \in Actions : permission[a] # 0 /\ Granted(a))
=============================================================================
