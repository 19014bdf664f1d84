---------------------------- MODULE ServicesProofs ----------------------------
(***************************************************************************)
(* What Startup, Tracking and Evidence promise, for any number of          *)
(* instances, permissions and roles, of viewers and positions, of files    *)
(* and chunks.                                                             *)
(***************************************************************************)
EXTENDS Startup, Tracking, Evidence, SequenceTheorems, TLAPS

-----------------------------------------------------------------------------
(* Startup: the rows and what an instance remembers of them.               *)

Links == SeedRoles \X Actions \X Nat

\* Ids are never given twice.
RowsInv ==
    /\ permission \in [Actions -> Nat] /\ lastId \in Nat
    /\ \A a \in Actions : permission[a] <= lastId

\* A link leads to the row its action has now.
LinksInv ==
    /\ grant \subseteq Links
    /\ \A g \in grant : g[3] = permission[g[2]] /\ g[3] # 0

\* The links that a boot has loaded were of one moment: an action has one id
\* in all of them, and it is one that was given.
BootInv(s) ==
    /\ DOMAIN boot[s] = {"at", "found", "roles", "loaded", "rows"}
    /\ boot[s].found \in [Actions -> Nat]
    /\ boot[s].loaded \subseteq Links
    /\ \A g \in boot[s].loaded : g[3] <= lastId
    /\ \A g, h \in boot[s].loaded : g[2] = h[2] => g[3] = h[3]

StartupInv ==
    /\ RowsInv /\ LinksInv /\ GrantsWhole
    /\ DOMAIN boot = Instances
    /\ \A s \in Instances : BootInv(s)

LEMMA DownIsFresh ==
    /\ Down.found \in [Actions -> Nat] /\ Down.loaded = {}
    /\ DOMAIN Down = {"at", "found", "roles", "loaded", "rows"}
BY DEF Down

LEMMA InitStartup == StartupInit => StartupInv
<1> SUFFICES ASSUME StartupInit PROVE StartupInv
  OBVIOUS
<1>1. RowsInv /\ LinksInv /\ GrantsWhole
  BY DEF StartupInit, RowsInv, LinksInv, GrantsWhole
<1>2. DOMAIN boot = Instances /\ \A s \in Instances : BootInv(s)
  BY DownIsFresh DEF StartupInit, BootInv
<1> QED
  BY <1>1, <1>2 DEF StartupInv

\* A step of one boot that leaves the tables alone.
LEMMA OneBoot ==
    ASSUME StartupInv, NEW s \in Instances, NEW b, boot' = [boot EXCEPT ![s] = b],
           DOMAIN b = {"at", "found", "roles", "loaded", "rows"},
           b.found \in [Actions -> Nat], b.loaded \subseteq Links,
           \A g \in b.loaded : g[3] <= lastId',
           \A g, h \in b.loaded : g[2] = h[2] => g[3] = h[3],
           lastId <= lastId', lastId' \in Nat,
           RowsInv', LinksInv', GrantsWhole'
    PROVE  StartupInv'
<1>1. DOMAIN boot' = Instances
  BY DEF StartupInv
<1>2. boot'[s] = b /\ \A i \in Instances \ {s} : boot'[i] = boot[i]
  BY DEF StartupInv
<1>3. ASSUME NEW i \in Instances
      PROVE  BootInv(i)'
  <2>1. CASE i = s
    BY <1>2, <2>1 DEF BootInv
  <2>2. CASE i # s
    <3>1. BootInv(i) /\ boot'[i] = boot[i]
      BY <1>2, <2>2 DEF StartupInv
    <3>2. \A g \in boot[i].loaded : g[3] <= lastId'
      <4> SUFFICES ASSUME NEW g \in boot[i].loaded PROVE g[3] <= lastId'
        OBVIOUS
      <4>1. g[3] \in Nat /\ g[3] <= lastId /\ lastId \in Nat
        BY <3>1 DEF BootInv, Links, StartupInv, RowsInv
      <4> QED
        BY <4>1
    <3> QED
      BY <3>1, <3>2 DEF BootInv
  <2> QED
    BY <2>1, <2>2
<1> QED
  BY <1>1, <1>3 DEF StartupInv

\* A boot that goes on with the links it has loaded.
LEMMA BootGoesOn ==
    ASSUME StartupInv, NEW s \in Instances, NEW b, boot' = [boot EXCEPT ![s] = b],
           DOMAIN b = DOMAIN boot[s], b.found \in [Actions -> Nat],
           b.loaded = boot[s].loaded, UNCHANGED lastId,
           RowsInv', LinksInv', GrantsWhole'
    PROVE  StartupInv'
<1>1. lastId' = lastId /\ lastId <= lastId' /\ lastId' \in Nat
  BY DEF StartupInv, RowsInv
<1>2. BootInv(s)
  BY DEF StartupInv
<1>3. DOMAIN b = {"at", "found", "roles", "loaded", "rows"} /\ b.loaded \subseteq Links
  BY <1>2 DEF BootInv
<1>4. \A g \in b.loaded : g[3] <= lastId'
  BY <1>1, <1>2 DEF BootInv
<1>5. \A g, h \in b.loaded : g[2] = h[2] => g[3] = h[3]
  BY <1>2 DEF BootInv
<1> QED
  BY <1>1, <1>3, <1>4, <1>5, OneBoot

\* A boot that is over, or started again.
LEMMA BootEnds ==
    ASSUME StartupInv, NEW s \in Instances, NEW at,
           boot' = [boot EXCEPT ![s] = [Down EXCEPT !.at = at]],
           lastId <= lastId', lastId' \in Nat,
           RowsInv', LinksInv', GrantsWhole'
    PROVE  StartupInv'
<1>1. PICK b : b = [Down EXCEPT !.at = at]
  OBVIOUS
<1>2. DOMAIN b = DOMAIN Down /\ b.found = Down.found /\ b.loaded = {}
  BY <1>1, DownIsFresh
<1> QED
  BY <1>1, <1>2, DownIsFresh, OneBoot

-----------------------------------------------------------------------------
(* Startup: the commit of a seed.                                          *)

\* What a seed asks for, and where its commit leads when it is not refused.
LEMMA SeedCommits ==
    ASSUME StartupInv, NEW s \in Instances, NEW created, created = Created(s),
           ~SeedRefused(s, created), InsertPermissions(s),
           grant' = (grant \ Withdrawn(s, created)) \cup Restored(s, created),
           UNCHANGED revoked
    PROVE  /\ RowsInv' /\ LinksInv' /\ GrantsWhole'
           /\ lastId <= lastId' /\ lastId' \in Nat
<1> DEFINE wanted == SeedGrants(s, created)
<1>1. /\ permission \in [Actions -> Nat] /\ lastId \in Nat
      /\ \A a \in Actions : permission[a] <= lastId
  BY DEF StartupInv, RowsInv
<1>2. BootInv(s)
  BY DEF StartupInv
<1>3. created \in [Actions -> Nat]
  BY <1>1, <1>2 DEF Created, BootInv
<1>4. \A a \in Actions : created[a] = IF a \in Missing(s) THEN lastId + 1
                                                          ELSE boot[s].found[a]
  BY DEF Created
<1>5. \A a \in Actions : a \in Missing(s) <=> boot[s].found[a] = 0
  BY DEF Missing
<1>6. \A a \in Actions : created[a] # 0
  BY <1>1, <1>4, <1>5
<1>7. \A g : g \in wanted <=> \E r \in SeedRoles : \E a \in SeedActions(r) :
                                  g = <<r, a, created[a]>>
  <2>1. \A r \in SeedRoles : SeedActions(r) \subseteq Actions
    BY DEF SeedActions, Actions
  <2>2. ASSUME NEW g \in wanted
        PROVE  \E r \in SeedRoles : \E a \in SeedActions(r) : g = <<r, a, created[a]>>
    BY <2>2 DEF SeedGrants
  <2>3. ASSUME NEW r \in SeedRoles, NEW a \in SeedActions(r)
        PROVE  <<r, a, created[a]>> \in wanted
    <3>1. PICK l : l = <<r, a>>
      OBVIOUS
    <3>2. l \in SeedRoles \X Actions /\ l[1] = r /\ l[2] = a
      BY <2>1, <2>3, <3>1
    <3>3. l[2] \in SeedActions(l[1]) /\ <<l[1], l[2], created[l[2]]>> = <<r, a, created[a]>>
      BY <2>3, <3>2
    <3> QED
      BY <3>2, <3>3 DEF SeedGrants
  <2> QED
    BY <2>2, <2>3
<1>8. wanted \subseteq Links
  <2>1. \A r \in SeedRoles : SeedActions(r) \subseteq Actions
    BY DEF SeedActions, Actions
  <2> QED
    BY <1>3, <1>7, <2>1 DEF Links
<1>9. /\ \A a \in Missing(s) : permission[a] = 0
      /\ Withdrawn(s, created) \subseteq grant
      /\ \A g \in Restored(s, created) :
             g[2] \notin Missing(s) => permission[g[2]] = g[3]
  BY <1>1, <1>5 DEF SeedRefused, Missing
<1>10. permission' = [a \in Actions |-> IF a \in Missing(s) THEN lastId + 1
                                        ELSE permission[a]]
  BY DEF InsertPermissions
<1>11. /\ lastId' \in {lastId, lastId + 1}
       /\ Missing(s) # {} => lastId' = lastId + 1
  BY DEF InsertPermissions
<1>12. RowsInv'
  BY <1>1, <1>10, <1>11 DEF RowsInv
<1>13. LinksInv'
  <2>1. grant' \subseteq Links
    BY <1>8 DEF Restored, StartupInv, LinksInv
  <2>2. ASSUME NEW g \in grant, g \notin Withdrawn(s, created)
        PROVE  g[3] = permission'[g[2]] /\ g[3] # 0
    <3>1. g[2] \in Actions /\ g[3] = permission[g[2]] /\ g[3] # 0
      BY DEF StartupInv, LinksInv, Links
    <3> QED
      BY <1>9, <1>10, <3>1
  <2>3. ASSUME NEW g \in Restored(s, created)
        PROVE  g[3] = permission'[g[2]] /\ g[3] # 0
    <3>1. g \in wanted
      BY DEF Restored
    <3>2. PICK r \in SeedRoles : \E a \in SeedActions(r) : g = <<r, a, created[a]>>
      BY <1>7, <3>1
    <3>3. PICK a \in SeedActions(r) : g = <<r, a, created[a]>>
      BY <3>2
    <3>4. a \in Actions /\ g[2] = a /\ g[3] = created[a]
      BY <3>3 DEF SeedActions, Actions
    <3>5. CASE a \in Missing(s)
      BY <1>1, <1>4, <1>10, <3>4, <3>5
    <3>6. CASE a \notin Missing(s)
      BY <1>6, <1>9, <1>10, <3>4, <3>6
    <3> QED
      BY <3>5, <3>6
  <2>4. ASSUME NEW g \in grant'
        PROVE  g[3] = permission'[g[2]] /\ g[3] # 0
    BY <2>2, <2>3
  <2> QED
    BY <2>1, <2>4 DEF LinksInv
<1>14. GrantsWhole'
  <2> SUFFICES ASSUME NEW a \in Actions, permission'[a] # 0, a \notin revoked,
                      NEW r \in SeedRoles, a \in SeedActions(r)
               PROVE  <<r, a, permission'[a]>> \in grant'
    BY DEF GrantsWhole, Granted
  <2>1. <<r, a, created[a]>> \in wanted
    BY <1>7
  <2>2. CASE a \in Missing(s)
    <3>1. PICK g : g = <<r, a, created[a]>>
      OBVIOUS
    <3>2. permission'[a] = created[a] /\ created[a] = lastId + 1 /\ g[3] = lastId + 1
      BY <1>4, <1>10, <2>2, <3>1
    <3>3. g \notin boot[s].loaded
      BY <1>1, <1>2, <3>2 DEF BootInv
    <3> QED
      BY <2>1, <3>1, <3>2, <3>3 DEF Restored
  <2>3. CASE a \notin Missing(s)
    <3>1. PICK g : g = <<r, a, permission[a]>>
      OBVIOUS
    <3>2. permission'[a] = permission[a] /\ g \in grant /\ g[2] = a /\ g[3] = permission[a]
      BY <1>10, <2>3, <3>1 DEF StartupInv, GrantsWhole, Granted
    <3>3. g \notin Withdrawn(s, created)
      <4> SUFFICES ASSUME g \in boot[s].loaded, created[a] # permission[a]
                   PROVE  FALSE
        BY <2>1, <3>1 DEF Withdrawn
      <4>1. PICK h : h = <<r, a, created[a]>>
        OBVIOUS
      <4>2. h[2] = a /\ h[3] = created[a]
        BY <4>1
      <4>3. h \notin boot[s].loaded
        BY <1>2, <3>2, <4>2 DEF BootInv
      <4>4. h \in Restored(s, created)
        BY <2>1, <4>1, <4>3 DEF Restored
      <4> QED
        BY <1>9, <2>3, <4>2, <4>4
    <3> QED
      BY <3>1, <3>2, <3>3
  <2> QED
    BY <2>2, <2>3
<1> QED
  BY <1>1, <1>11, <1>12, <1>13, <1>14

LEMMA CommitKeeps ==
    ASSUME StartupInv, NEW s \in Instances, CommitSeed(s)
    PROVE  StartupInv'
<1>1. PICK created : created = Created(s)
  OBVIOUS
<1>2. boot' = [boot EXCEPT ![s] = [Down EXCEPT !.at = "serving"]] /\ UNCHANGED revoked
  BY DEF CommitSeed
<1>3. CASE SeedRefused(s, created)
  <2>1. UNCHANGED <<permission, lastId, grant>>
    BY <1>1, <1>3 DEF CommitSeed
  <2>2. RowsInv' /\ LinksInv' /\ GrantsWhole' /\ lastId <= lastId' /\ lastId' \in Nat
    BY <1>2, <2>1 DEF StartupInv, RowsInv, LinksInv, GrantsWhole, Granted
  <2> QED
    BY <1>2, <2>2, BootEnds
<1>4. CASE ~SeedRefused(s, created)
  <2>1. /\ InsertPermissions(s)
        /\ grant' = (grant \ Withdrawn(s, created)) \cup Restored(s, created)
    BY <1>1, <1>4 DEF CommitSeed
  <2> QED
    BY <1>1, <1>2, <1>4, <2>1, SeedCommits, BootEnds
<1> QED
  BY <1>3, <1>4

-----------------------------------------------------------------------------
(* Startup: the other steps.                                               *)

LEMMA PurgeKeeps ==
    ASSUME StartupInv, NEW s \in Instances, PurgeReports(s)
    PROVE  StartupInv'
<1>1. /\ permission \in [Actions -> Nat] /\ lastId \in Nat
      /\ \A a \in Actions : permission[a] <= lastId
  BY DEF StartupInv, RowsInv
<1>2. /\ grant' = {g \in grant : g[2] \notin Reports}
      /\ permission' = [a \in Actions |-> IF a \in Reports THEN 0 ELSE permission[a]]
      /\ UNCHANGED <<lastId, revoked>>
  BY DEF PurgeReports
<1>3. RowsInv'
  BY <1>1, <1>2 DEF RowsInv
<1>4. LinksInv'
  BY <1>2 DEF StartupInv, LinksInv, Links
<1>5. GrantsWhole'
  <2> SUFFICES ASSUME NEW a \in Actions, permission'[a] # 0, a \notin revoked,
                      NEW r \in SeedRoles, a \in SeedActions(r)
               PROVE  <<r, a, permission'[a]>> \in grant'
    BY <1>2 DEF GrantsWhole, Granted
  <2>1. a \notin Reports /\ permission'[a] = permission[a]
    BY <1>2
  <2>2. <<r, a, permission[a]>> \in grant
    BY <2>1 DEF StartupInv, GrantsWhole, Granted
  <2> QED
    BY <1>2, <2>1, <2>2
<1>6. PICK b : b = [boot[s] EXCEPT !.at = "permissions"]
  OBVIOUS
<1>7. BootInv(s)
  BY DEF StartupInv
<1>8. /\ DOMAIN b = DOMAIN boot[s]
      /\ b.found = boot[s].found /\ b.loaded = boot[s].loaded
  BY <1>6, <1>7 DEF BootInv
<1>9. boot' = [boot EXCEPT ![s] = b]
  BY <1>6 DEF PurgeReports
<1>10. b.found \in [Actions -> Nat]
  BY <1>7, <1>8 DEF BootInv
<1> QED
  BY <1>2, <1>3, <1>4, <1>5, <1>8, <1>9, <1>10, BootGoesOn

\* The tables do not change.
LEMMA TablesStay ==
    ASSUME StartupInv, UNCHANGED <<permission, lastId, grant, revoked>>
    PROVE  /\ RowsInv' /\ LinksInv' /\ GrantsWhole'
           /\ lastId <= lastId' /\ lastId' \in Nat
BY DEF StartupInv, RowsInv, LinksInv, GrantsWhole, Granted

LEMMA ReadsKeep ==
    ASSUME StartupInv, NEW s \in Instances,
           StartInstance(s) \/ LookPermissions(s) \/ LookRoles(s)
    PROVE  StartupInv'
<1>1. UNCHANGED <<permission, lastId, grant, revoked>>
  BY DEF StartInstance, LookPermissions, LookRoles
<1>2. BootInv(s)
  BY DEF StartupInv
<1>3. CASE StartInstance(s)
  <2>1. PICK b : b = [boot[s] EXCEPT !.at = "purge"]
    OBVIOUS
  <2>2. DOMAIN b = DOMAIN boot[s] /\ b.found = boot[s].found /\ b.loaded = boot[s].loaded
    BY <1>2, <2>1 DEF BootInv
  <2>3. boot' = [boot EXCEPT ![s] = b]
    BY <1>3, <2>1 DEF StartInstance
  <2>4. b.found \in [Actions -> Nat]
    BY <1>2, <2>2 DEF BootInv
  <2> QED
    BY <1>1, <2>2, <2>3, <2>4, TablesStay, BootGoesOn
<1>4. CASE LookPermissions(s)
  <2>1. PICK b : b = [boot[s] EXCEPT !.at = "roles", !.found = permission]
    OBVIOUS
  <2>2. /\ DOMAIN b = DOMAIN boot[s]
        /\ b.found \in [Actions -> Nat] /\ b.loaded = boot[s].loaded
    BY <1>2, <2>1 DEF StartupInv, RowsInv, BootInv
  <2>3. boot' = [boot EXCEPT ![s] = b]
    BY <1>4, <2>1 DEF LookPermissions
  <2>4. b.found \in [Actions -> Nat]
    BY <1>2, <2>2 DEF BootInv
  <2> QED
    BY <1>1, <2>2, <2>3, <2>4, TablesStay, BootGoesOn
<1>5. CASE LookRoles(s)
  <2>1. PICK b : b = [boot[s] EXCEPT !.at = "commit", !.roles = role,
                                     !.loaded = grant, !.rows = seeded]
    OBVIOUS
  <2>2. DOMAIN b = DOMAIN boot[s] /\ b.found = boot[s].found /\ b.loaded = grant
    BY <1>2, <2>1 DEF BootInv
  <2>3. boot' = [boot EXCEPT ![s] = b]
    BY <1>5, <2>1 DEF LookRoles
  <2>4. /\ grant \subseteq Links /\ \A g \in grant : g[3] = permission[g[2]]
        /\ \A a \in Actions : permission[a] <= lastId
    BY DEF StartupInv, LinksInv, RowsInv
  <2>5. /\ \A g \in grant : g[3] <= lastId
        /\ \A g, h \in grant : g[2] = h[2] => g[3] = h[3]
    BY <2>4 DEF Links
  <2>6. /\ DOMAIN b = {"at", "found", "roles", "loaded", "rows"}
        /\ b.found \in [Actions -> Nat] /\ b.loaded \subseteq Links
    BY <1>2, <2>2, <2>4 DEF BootInv
  <2>7. \A g \in b.loaded : g[3] <= lastId'
    BY <1>1, <2>2, <2>5
  <2>8. \A g, h \in b.loaded : g[2] = h[2] => g[3] = h[3]
    BY <2>2, <2>5
  <2> QED
    BY <1>1, <2>3, <2>6, <2>7, <2>8, TablesStay, OneBoot
<1> QED
  BY <1>3, <1>4, <1>5

LEMMA RevokeKeeps ==
    ASSUME StartupInv, NEW g \in grant, RevokeGrant(g)
    PROVE  StartupInv'
<1>1. /\ grant' = grant \ {g} /\ revoked' = revoked \cup {g[2]}
      /\ UNCHANGED <<permission, lastId, boot>>
  BY DEF RevokeGrant
<1>2. RowsInv' /\ LinksInv'
  BY <1>1 DEF StartupInv, RowsInv, LinksInv
<1>3. GrantsWhole'
  <2> SUFFICES ASSUME NEW a \in Actions, permission[a] # 0, a \notin revoked, a # g[2],
                      NEW r \in SeedRoles, a \in SeedActions(r)
               PROVE  <<r, a, permission[a]>> \in grant \ {g}
    BY <1>1 DEF GrantsWhole, Granted
  <2>1. <<r, a, permission[a]>> \in grant
    BY DEF StartupInv, GrantsWhole, Granted
  <2>2. PICK k : k = <<r, a, permission[a]>>
    OBVIOUS
  <2>3. k[2] = a
    BY <2>2
  <2> QED
    BY <2>1, <2>2, <2>3
<1>4. DOMAIN boot' = Instances /\ \A s \in Instances : BootInv(s)'
  BY <1>1 DEF StartupInv, BootInv
<1> QED
  BY <1>2, <1>3, <1>4 DEF StartupInv

LEMMA StartupInvariant == StartupSpec => []StartupInv
<1>1. StartupInv /\ [StartupNext]_startupVars => StartupInv'
  <2> SUFFICES ASSUME StartupInv, [StartupNext]_startupVars
               PROVE  StartupInv'
    OBVIOUS
  <2>1. ASSUME NEW s \in Instances,
               StartInstance(s) \/ SeedStep(s) \/ SeedFails(s) \/ InstanceDies(s)
        PROVE  StartupInv'
    <3>1. CASE SeedFails(s)
      <4>1. /\ boot' = [boot EXCEPT ![s] = [Down EXCEPT !.at = "serving"]]
            /\ UNCHANGED <<permission, lastId, grant, revoked>>
        BY <3>1 DEF SeedFails
      <4> QED
        BY <4>1, TablesStay, BootEnds
    <3>2. CASE InstanceDies(s)
      <4>1. /\ boot' = [boot EXCEPT ![s] = Down]
            /\ UNCHANGED <<permission, lastId, grant, revoked>>
        BY <3>2 DEF InstanceDies
      <4> QED
        BY <4>1, DownIsFresh, TablesStay, OneBoot
    <3> QED
      BY <2>1, <3>1, <3>2, ReadsKeep, PurgeKeeps, CommitKeeps DEF SeedStep
  <2>2. ASSUME UNCHANGED <<permission, lastId, grant, revoked, boot>>
        PROVE  StartupInv'
    <3>1. DOMAIN boot' = Instances /\ \A s \in Instances : BootInv(s)'
      BY <2>2 DEF StartupInv, BootInv
    <3> QED
      BY <2>2, <3>1, TablesStay DEF StartupInv
  <2>3. ASSUME NEW x \in Seeded, DeleteSeeded(x)
        PROVE  StartupInv'
    BY <2>2, <2>3 DEF DeleteSeeded
  <2>4. CASE UNCHANGED startupVars
    BY <2>2, <2>4 DEF startupVars
  <2> QED
    BY <2>1, <2>3, <2>4, RevokeKeeps DEF StartupNext
<1> QED
  BY <1>1, InitStartup, PTL DEF StartupSpec

(* A permission that is there is linked to the roles of the seed, unless   *)
(* an administrator has revoked it: however many instances purge and       *)
(* restore it at once, whichever of them die, and with whatever links they *)
(* have loaded; a seed that would leave it half linked is refused.         *)
THEOREM GrantsStayWhole == StartupSpec => []GrantsWhole
BY StartupInvariant, PTL DEF StartupInv

-----------------------------------------------------------------------------
(* Tracking: the room and its broadcast.                                   *)

Senders == [at : {"closed", "idle", "arrived", "location"},
            left : SUBSET Viewers, waits : SUBSET Viewers,
            dead : SUBSET Viewers, triggered : BOOLEAN]

RoomTypes ==
    /\ position \in Nat /\ onWire \in Nat /\ heard \in Nat /\ told \in Nat
    /\ sender \in Senders
    /\ viewer \in [Viewers -> {"new", "joined", "watching", "gone"}]
    /\ link \in [Viewers -> {"ok", "stalled", "dead"}]
    /\ room \subseteq Viewers /\ witnesses \subseteq Viewers
    /\ shown \in [Viewers -> Nat]

\* The table is never behind what a broadcast has told, and never ahead of
\* the next position; during a broadcast it holds the one that is told.
PlaceInv ==
    /\ told <= position /\ position <= heard + 1 /\ heard <= onWire
    /\ Broadcasting => position = heard

\* A handler in progress has its socket in the room, unless the connection
\* is dead: a broadcast takes only those out.  It waits for one it has left.
RoomInv ==
    /\ \A v \in Viewers :
          viewer[v] \in {"joined", "watching"} => v \in room \/ link[v] = "dead"
    /\ \A v \in sender.dead : link[v] = "dead"
    /\ sender.waits \subseteq sender.left
    /\ ~Broadcasting => sender.left = {}

\* Who is still to be written to by the broadcast under way.
Pending == sender.left \ sender.waits

\* Everybody else who watches has been written what it tells.
LocationInv ==
    sender.at = "location" =>
        \A v \in Viewers : viewer[v] = "watching" /\ link[v] # "dead"
            => v \in Pending \/ shown[v] >= heard

ArrivedInv ==
    sender.at = "arrived" =>
        \A v \in witnesses : v \in notice \/ link[v] = "dead" \/ v \in Pending

TrackInv ==
    /\ RoomTypes /\ PlaceInv /\ RoomInv /\ LocationInv /\ ArrivedInv
    /\ ViewersTold /\ ArrivalTold

LEMMA ClosedSender ==
    /\ Closed \in Senders
    /\ Closed.at = "closed" /\ Closed.left = {} /\ Closed.waits = {} /\ Closed.dead = {}
BY DEF Closed, Senders

LEMMA InitTracking == TrackInit => TrackInv
<1> SUFFICES ASSUME TrackInit PROVE TrackInv
  OBVIOUS
<1>1. RoomTypes
  BY ClosedSender DEF TrackInit, RoomTypes
<1>2. PlaceInv
  BY ClosedSender DEF TrackInit, PlaceInv, Broadcasting
<1>3. RoomInv
  BY ClosedSender DEF TrackInit, RoomInv
<1>4. LocationInv /\ ArrivedInv /\ ViewersTold /\ ArrivalTold
  BY ClosedSender DEF TrackInit, LocationInv, ArrivedInv, ViewersTold, ArrivalTold
<1> QED
  BY <1>1, <1>2, <1>3, <1>4 DEF TrackInv

-----------------------------------------------------------------------------
(* Tracking: the technician's handler between two broadcasts.              *)

LEMMA ConnectKeeps ==
    ASSUME TrackInv, ConnectTechnician
    PROVE  TrackInv'
<1>1. PICK r : r = [sender EXCEPT !.at = "idle"]
  OBVIOUS
<1>2. /\ r \in Senders /\ r.at = "idle" /\ r.left = sender.left
      /\ r.waits = sender.waits /\ r.dead = sender.dead
  BY <1>1 DEF TrackInv, RoomTypes, Senders
<1>3. /\ sender' = r /\ heard' = onWire /\ sender.at = "closed"
      /\ UNCHANGED <<position, onWire, viewer, link, room, shown, notice,
                     witnesses, told>>
  BY <1>1 DEF ConnectTechnician
<1>4. RoomTypes'
  BY <1>2, <1>3 DEF TrackInv, RoomTypes
<1>5. PlaceInv'
  BY <1>2, <1>3 DEF TrackInv, RoomTypes, PlaceInv, Broadcasting
<1>6. RoomInv'
  BY <1>2, <1>3 DEF TrackInv, RoomInv, Broadcasting
<1>7. LocationInv' /\ ArrivedInv' /\ ViewersTold' /\ ArrivalTold'
  BY <1>2, <1>3 DEF TrackInv, LocationInv, ArrivedInv, ViewersTold, ArrivalTold
<1> QED
  BY <1>4, <1>5, <1>6, <1>7 DEF TrackInv

\* The handler ends: its client is gone, or an error.
LEMMA HandlerEnds ==
    ASSUME TrackInv, DisconnectTechnician \/ ReceiveFails
    PROVE  TrackInv'
<1>1. /\ sender' = Closed /\ sender.at = "idle"
      /\ UNCHANGED <<onWire, heard, viewer, link, room, shown, notice,
                     witnesses, told>>
      /\ position' \in {position, heard + 1}
  BY DEF DisconnectTechnician, ReceiveFails
<1>2. RoomTypes'
  BY <1>1, ClosedSender DEF TrackInv, RoomTypes
<1>3. PlaceInv'
  BY <1>1, ClosedSender DEF TrackInv, RoomTypes, PlaceInv, Broadcasting
<1>4. RoomInv'
  BY <1>1, ClosedSender DEF TrackInv, RoomInv
<1>5. LocationInv' /\ ArrivedInv' /\ ViewersTold' /\ ArrivalTold'
  BY <1>1, ClosedSender
     DEF TrackInv, LocationInv, ArrivedInv, ViewersTold, ArrivalTold
<1> QED
  BY <1>2, <1>3, <1>4, <1>5 DEF TrackInv

\* A broadcast starts with everybody in the room before it.
LEMMA BroadcastStarts ==
    ASSUME sender \in Senders, sender.waits = {}, NEW what \in {"arrived", "location"},
           NEW to \in SUBSET Viewers, Broadcast(what, to)
    PROVE  /\ sender' \in Senders /\ sender'.at = what /\ sender'.left = to
           /\ sender'.waits = {} /\ sender'.dead = {}
BY DEF Broadcast, Senders

LEMMA ReceiveKeeps ==
    ASSUME TrackInv, Receive
    PROVE  TrackInv'
<1>1. sender \in Senders /\ sender.at = "idle" /\ sender.waits = {}
  BY DEF Receive, TrackInv, RoomTypes, RoomInv, Broadcasting
<1>2. PICK what \in {"arrived", "location"} :
          /\ Broadcast(what, room)
          /\ witnesses' = IF what = "arrived" THEN room ELSE witnesses
  BY DEF Receive
<1>3. /\ sender' \in Senders /\ sender'.at = what /\ sender'.left = room
      /\ sender'.waits = {} /\ sender'.dead = {}
  BY <1>1, <1>2, BroadcastStarts DEF TrackInv, RoomTypes
<1>4. /\ heard < onWire /\ heard' = heard + 1 /\ position' = heard + 1
      /\ UNCHANGED <<onWire, viewer, link, room, shown, notice, told>>
  BY DEF Receive
<1>5. RoomTypes'
  BY <1>2, <1>3, <1>4 DEF TrackInv, RoomTypes
<1>6. PlaceInv'
  BY <1>4 DEF TrackInv, RoomTypes, PlaceInv
<1>7. RoomInv'
  BY <1>3, <1>4 DEF TrackInv, RoomInv, Broadcasting
<1>8. LocationInv'
  BY <1>3, <1>4 DEF TrackInv, RoomInv, LocationInv, Pending
<1>9. ArrivedInv'
  BY <1>2, <1>3 DEF ArrivedInv, Pending
<1>10. ViewersTold'
  BY <1>4 DEF TrackInv, ViewersTold
<1>11. ArrivalTold'
  BY <1>1, <1>2, <1>3, <1>4 DEF TrackInv, ArrivalTold
<1> QED
  BY <1>5, <1>6, <1>7, <1>8, <1>9, <1>10, <1>11 DEF TrackInv

-----------------------------------------------------------------------------
(* Tracking: the broadcast.                                                *)

LEMMA SendKeeps ==
    ASSUME TrackInv, Send
    PROVE  TrackInv'
<1>1. /\ Broadcasting /\ sender.waits = {} /\ sender \in Senders
      /\ UNCHANGED <<position, onWire, heard, viewer, link, room, witnesses, told>>
  BY DEF Send, TrackInv, RoomTypes
<1>2. PICK v \in sender.left :
          \/ link[v] # "dead" /\ SendTo(v)
          \/ /\ link[v] = "dead"
             /\ sender' = [sender EXCEPT !.left = @ \ {v}, !.dead = @ \cup {v}]
             /\ UNCHANGED <<shown, notice>>
  BY DEF Send
<1>3. v \in Viewers
  BY <1>1 DEF Senders
<1>4. /\ sender' \in Senders /\ sender'.at = sender.at
      /\ sender'.left \ sender'.waits = sender.left \ {v}
      /\ sender'.waits \subseteq sender'.left
      /\ \A w \in sender'.dead : link[w] = "dead"
  <2>1. \A w \in sender.dead : link[w] = "dead"
    BY DEF TrackInv, RoomInv
  <2>2. CASE sender' = [sender EXCEPT !.waits = {v}]
    BY <1>1, <1>2, <1>3, <2>1, <2>2 DEF Senders
  <2>3. CASE sender' = [sender EXCEPT !.left = @ \ {v}]
    BY <1>1, <1>2, <1>3, <2>1, <2>3 DEF Senders
  <2>4. CASE /\ link[v] = "dead"
             /\ sender' = [sender EXCEPT !.left = @ \ {v}, !.dead = @ \cup {v}]
    BY <1>1, <1>2, <1>3, <2>1, <2>4 DEF Senders
  <2> QED
    BY <1>2, <2>2, <2>3, <2>4 DEF SendTo
<1>5. /\ shown' \in [Viewers -> Nat]
      /\ \A w \in Viewers : shown'[w] = shown[w] \/ shown'[w] = heard
      /\ sender.at = "location" /\ link[v] # "dead" => shown'[v] = heard
      /\ notice \subseteq notice'
      /\ sender.at = "arrived" /\ link[v] # "dead" => v \in notice'
  BY <1>1, <1>2, <1>3 DEF SendTo, Write, Broadcasting, TrackInv, RoomTypes
<1>6. RoomTypes'
  BY <1>1, <1>4, <1>5 DEF TrackInv, RoomTypes
<1>7. PlaceInv'
  BY <1>1, <1>4 DEF TrackInv, PlaceInv, Broadcasting
<1>8. RoomInv'
  BY <1>1, <1>4 DEF TrackInv, RoomInv, Broadcasting
<1>9. LocationInv'
  <2> SUFFICES ASSUME sender.at = "location", NEW w \in Viewers,
                      viewer[w] = "watching", link[w] # "dead"
               PROVE  w \in sender.left \ {v} \/ shown'[w] >= heard
    BY <1>1, <1>4 DEF LocationInv, Pending
  <2>1. heard \in Nat /\ heard >= heard
    BY DEF TrackInv, RoomTypes
  <2>2. CASE w = v
    BY <1>5, <2>1, <2>2
  <2>3. CASE w # v
    <3>1. w \in sender.left \/ shown[w] >= heard
      BY DEF TrackInv, LocationInv, Pending
    <3> QED
      BY <1>5, <2>1, <2>3, <3>1
  <2> QED
    BY <2>2, <2>3
<1>10. ArrivedInv'
  BY <1>1, <1>4, <1>5 DEF TrackInv, ArrivedInv, Pending
<1>11. ViewersTold'
  <2> SUFFICES ASSUME NEW w \in Viewers, viewer[w] = "watching", link[w] # "dead"
               PROVE  shown'[w] >= told
    BY <1>1 DEF ViewersTold
  <2>1. shown[w] >= told /\ heard >= told
    BY <1>1 DEF TrackInv, ViewersTold, PlaceInv, RoomTypes
  <2> QED
    BY <1>5, <2>1
<1>12. ArrivalTold'
  BY <1>1, <1>4, <1>5 DEF TrackInv, ArrivalTold
<1> QED
  BY <1>6, <1>7, <1>8, <1>9, <1>10, <1>11, <1>12 DEF TrackInv

LEMMA EndBroadcastKeeps ==
    ASSUME TrackInv, EndBroadcast
    PROVE  TrackInv'
<1>1. /\ Broadcasting /\ sender.left = {} /\ sender.waits = {} /\ sender \in Senders
      /\ room' = room \ sender.dead
      /\ UNCHANGED <<position, onWire, heard, viewer, link, shown, notice, witnesses>>
  BY DEF EndBroadcast, TrackInv, RoomTypes, RoomInv
<1>2. Pending = {}
  BY <1>1 DEF Pending
<1>3. \A v \in Viewers :
          viewer[v] \in {"joined", "watching"} => v \in room' \/ link[v] = "dead"
  BY <1>1 DEF TrackInv, RoomInv
<1>4. room' \subseteq Viewers
  BY <1>1 DEF TrackInv, RoomTypes
<1>5. CASE sender.at = "arrived"
  <2>1. Broadcast("location", room') /\ UNCHANGED told
    BY <1>1, <1>5 DEF EndBroadcast
  <2>2. /\ sender' \in Senders /\ sender'.at = "location" /\ sender'.left = room'
        /\ sender'.waits = {} /\ sender'.dead = {}
    <3>1. PICK to \in SUBSET Viewers : to = room'
      BY <1>4
    <3>2. Broadcast("location", to)
      BY <2>1, <3>1
    <3> QED
      BY <1>1, <3>1, <3>2, BroadcastStarts
  <2>3. RoomTypes'
    BY <1>1, <1>4, <2>1, <2>2 DEF TrackInv, RoomTypes
  <2>4. PlaceInv'
    BY <1>1, <2>1 DEF TrackInv, PlaceInv
  <2>5. RoomInv'
    BY <1>1, <1>3, <2>2 DEF RoomInv, Broadcasting
  <2>6. LocationInv'
    BY <1>1, <1>3, <2>2 DEF LocationInv, Pending
  <2>7. ArrivedInv' /\ ViewersTold'
    BY <1>1, <2>1, <2>2 DEF TrackInv, ArrivedInv, ViewersTold
  <2>8. ArrivalTold'
    BY <1>1, <1>2, <1>5 DEF TrackInv, ArrivedInv, ArrivalTold
  <2> QED
    BY <2>3, <2>4, <2>5, <2>6, <2>7, <2>8 DEF TrackInv
<1>6. CASE sender.at = "location"
  <2>1. sender' = [sender EXCEPT !.at = "idle", !.dead = {}] /\ told' = heard
    BY <1>6 DEF EndBroadcast
  <2>2. /\ sender' \in Senders /\ sender'.at = "idle" /\ sender'.left = {}
        /\ sender'.waits = {} /\ sender'.dead = {}
    BY <1>1, <2>1 DEF Senders
  <2>3. RoomTypes'
    BY <1>1, <1>4, <2>1, <2>2 DEF TrackInv, RoomTypes
  <2>4. PlaceInv'
    BY <1>1, <2>1, <2>2 DEF TrackInv, PlaceInv, RoomTypes, Broadcasting
  <2>5. RoomInv'
    BY <1>1, <1>3, <2>2 DEF RoomInv
  <2>6. LocationInv' /\ ArrivedInv'
    BY <2>2 DEF LocationInv, ArrivedInv
  <2>7. ViewersTold'
    BY <1>1, <1>2, <1>6, <2>1 DEF TrackInv, LocationInv, ViewersTold
  <2>8. ArrivalTold'
    BY <1>1, <1>6 DEF TrackInv, ArrivalTold
  <2> QED
    BY <2>3, <2>4, <2>5, <2>6, <2>7, <2>8 DEF TrackInv
<1> QED
  BY <1>1, <1>5, <1>6 DEF Broadcasting

-----------------------------------------------------------------------------
(* Tracking: the viewers and their connections.                            *)

\* A step of a viewer that leaves the technician's handler alone.
LEMMA ViewerKeeps ==
    ASSUME TrackInv, NEW v \in Viewers,
           JoinRoom(v) \/ SendLastKnown(v) \/ SendLastKnownFails(v)
               \/ LeaveRoom(v) \/ Stall(v)
    PROVE  TrackInv'
<1> USE DEF TrackInv
<1>1. /\ UNCHANGED <<position, onWire, heard, sender, notice, witnesses, told>>
      /\ Pending' = Pending
  BY DEF JoinRoom, SendLastKnown, SendLastKnownFails, LeaveRoom, Stall, Pending
<1>2. /\ viewer' \in [Viewers -> {"new", "joined", "watching", "gone"}]
      /\ link' \in [Viewers -> {"ok", "stalled", "dead"}]
      /\ room' \subseteq Viewers
      /\ \A w \in Viewers \ {v} : viewer'[w] = viewer[w] /\ link'[w] = link[w]
                                  /\ (w \in room' <=> w \in room)
      /\ link[v] = "dead" => link'[v] = "dead"
      /\ viewer'[v] \in {"joined", "watching"} => v \in room' \/ link'[v] = "dead"
  BY DEF JoinRoom, SendLastKnown, SendLastKnownFails, LeaveRoom, Stall, RoomTypes, RoomInv
<1>3. /\ shown' \in [Viewers -> Nat]
      /\ \A w \in Viewers : \/ shown'[w] = shown[w]
                            \/ w = v /\ shown'[w] = position
  <2>1. shown \in [Viewers -> Nat] /\ position \in Nat
    BY DEF RoomTypes
  <2>2. shown' = shown \/ shown' = [shown EXCEPT ![v] = position]
    BY DEF JoinRoom, SendLastKnown, SendLastKnownFails, LeaveRoom, Stall
  <2>3. CASE shown' = shown
    BY <2>1, <2>3
  <2>4. CASE shown' = [shown EXCEPT ![v] = position]
    BY <2>1, <2>4
  <2> QED
    BY <2>2, <2>3, <2>4
<1>4. viewer'[v] = "watching" /\ link'[v] # "dead" =>
          \/ viewer[v] = "watching" /\ link[v] # "dead" /\ shown'[v] = shown[v]
          \/ shown'[v] >= position
  BY DEF JoinRoom, SendLastKnown, SendLastKnownFails, LeaveRoom, Stall, RoomTypes
<1>5. RoomTypes' /\ PlaceInv'
  BY <1>1, <1>2, <1>3 DEF RoomTypes, PlaceInv, Broadcasting
<1>6. RoomInv'
  BY <1>1, <1>2 DEF RoomTypes, RoomInv, Broadcasting, Senders
<1>7. LocationInv'
  BY <1>1, <1>2, <1>3, <1>4 DEF RoomTypes, LocationInv, PlaceInv, Broadcasting
<1>8. ArrivedInv'
  BY <1>1, <1>2 DEF RoomTypes, ArrivedInv
<1>9. ViewersTold'
  BY <1>1, <1>2, <1>3, <1>4 DEF RoomTypes, ViewersTold, PlaceInv
<1>10. ArrivalTold'
  BY <1>1, <1>2 DEF RoomTypes, ArrivalTold
<1> QED
  BY <1>5, <1>6, <1>7, <1>8, <1>9, <1>10

\* The send that waits for the peer has written already.
LEMMA LinkKeeps ==
    ASSUME TrackInv, NEW v \in Viewers, NEW to \in {"ok", "dead"}, LinkTurns(v, to)
    PROVE  TrackInv'
<1> USE DEF TrackInv
<1>1. /\ UNCHANGED <<position, onWire, heard, viewer, room, shown, notice,
                     witnesses, told>>
      /\ link[v] # "dead" /\ link' = [link EXCEPT ![v] = to]
  BY DEF LinkTurns
<1>2. /\ sender' \in Senders /\ sender'.at = sender.at
      /\ Pending \ {v} \subseteq sender'.left \ sender'.waits
      /\ sender'.waits \subseteq sender'.left /\ sender'.left \subseteq sender.left
      /\ sender'.dead \subseteq sender.dead \cup (IF to = "dead" THEN {v} ELSE {})
      /\ v \in Pending => v \in sender'.left \ sender'.waits
  <2>1. sender \in Senders /\ sender.waits \subseteq sender.left
    BY DEF RoomTypes, RoomInv
  <2>2. CASE v \in sender.waits
    <3>1. PICK gone \in SUBSET Viewers :
              /\ sender' = [sender EXCEPT !.waits = {}, !.left = @ \ {v}, !.dead = gone]
              /\ gone \subseteq sender.dead \cup (IF to = "dead" THEN {v} ELSE {})
      <4>1. PICK gone : gone = IF to = "dead" THEN sender.dead \cup {v} ELSE sender.dead
        OBVIOUS
      <4>2. gone \in SUBSET Viewers
        BY <2>1, <4>1 DEF Senders
      <4>3. sender' = [sender EXCEPT !.waits = {}, !.left = @ \ {v}, !.dead = gone]
        BY <2>2, <4>1 DEF LinkTurns
      <4> QED
        BY <4>1, <4>2, <4>3
    <3> QED
      BY <2>1, <2>2, <3>1 DEF Senders, Pending
  <2>3. CASE v \notin sender.waits
    BY <2>1, <2>3 DEF LinkTurns, Pending
  <2> QED
    BY <2>2, <2>3
<1>3. /\ link' \in [Viewers -> {"ok", "stalled", "dead"}] /\ link'[v] = to
      /\ \A w \in Viewers \ {v} : link'[w] = link[w]
  BY <1>1 DEF RoomTypes
<1>4. \A w \in Viewers : w \in Pending => w \in Pending'
  BY <1>2 DEF Pending
<1>5. \A w \in Viewers : link[w] = "dead" => link'[w] = "dead"
  BY <1>1, <1>3
<1>6. \A w \in Viewers : link'[w] # "dead" => link[w] # "dead"
  BY <1>5
<1>7. RoomTypes' /\ PlaceInv'
  BY <1>1, <1>2, <1>3 DEF RoomTypes, PlaceInv, Broadcasting
<1>8. RoomInv'
  <2>1. \A w \in sender'.dead : link'[w] = "dead"
    BY <1>2, <1>3, <1>5 DEF RoomTypes, RoomInv, Senders
  <2> QED
    BY <1>1, <1>2, <1>5, <2>1 DEF RoomInv, Broadcasting
<1>9. LocationInv'
  BY <1>1, <1>2, <1>4, <1>6 DEF LocationInv
<1>10. ArrivedInv'
  BY <1>1, <1>2, <1>4, <1>5 DEF RoomTypes, ArrivedInv
<1>11. ViewersTold' /\ ArrivalTold'
  BY <1>1, <1>2, <1>5, <1>6 DEF RoomTypes, ViewersTold, ArrivalTold
<1> QED
  BY <1>7, <1>8, <1>9, <1>10, <1>11

LEMMA TrackInvariant == TrackSpec => []TrackInv
<1>1. TrackInv /\ [TrackNext]_trackVars => TrackInv'
  <2> SUFFICES ASSUME TrackInv, [TrackNext]_trackVars
               PROVE  TrackInv'
    OBVIOUS
  <2>1. ASSUME UNCHANGED <<position, heard, sender, viewer, link, room, shown,
                           notice, witnesses, told>>,
               onWire' \in {onWire, onWire + 1}
        PROVE  TrackInv'
    <3>1. RoomTypes' /\ PlaceInv' /\ RoomInv'
      BY <2>1 DEF TrackInv, RoomTypes, PlaceInv, RoomInv, Broadcasting
    <3>2. LocationInv' /\ ArrivedInv' /\ ViewersTold' /\ ArrivalTold'
      BY <2>1 DEF TrackInv, LocationInv, ArrivedInv, Pending, ViewersTold, ArrivalTold
    <3> QED
      BY <3>1, <3>2 DEF TrackInv
  <2>2. CASE SendPosition \/ LeaveDuty
    BY <2>1, <2>2 DEF SendPosition, LeaveDuty
  <2>3. CASE UNCHANGED trackVars
    BY <2>1, <2>3 DEF trackVars
  <2> QED
    BY <2>2, <2>3, ConnectKeeps, HandlerEnds, ReceiveKeeps, SendKeeps,
       EndBroadcastKeeps, ViewerKeeps, LinkKeeps DEF TrackNext
<1> QED
  BY <1>1, InitTracking, PTL DEF TrackSpec

(* Nobody who watches misses a position that a broadcast has told to the   *)
(* end: not who joined in its middle and read the table, not who stalled,  *)
(* and whoever died or left; the table and the room are read in the turn   *)
(* of the event loop that writes them.                                     *)
THEOREM ViewersAreTold == TrackSpec => []ViewersTold
BY TrackInvariant, PTL DEF TrackInv

(* Everybody who was in the room when the arrival was committed is written *)
(* the notice, unless the connection dies.                                 *)
THEOREM ArrivalIsTold == TrackSpec => []ArrivalTold
BY TrackInvariant, PTL DEF TrackInv

-----------------------------------------------------------------------------
(* Evidence: sequences of chunks.                                          *)

Increasing(q) == \A i, j \in DOMAIN q : i < j => q[i] < q[j]

\* What is left of an increasing sequence has not got its first any more.
LEMMA TailOfIncreasing ==
    ASSUME NEW q \in Seq(Nat), q # <<>>, Increasing(q)
    PROVE  /\ Tail(q) \in Seq(Nat) /\ Increasing(Tail(q))
           /\ Head(q) \in Nat /\ Head(q) \in ToSet(q)
           /\ ToSet(Tail(q)) = ToSet(q) \ {Head(q)}
<1>1. PICK n \in Nat : n = Len(q) /\ DOMAIN q = 1..n /\ n # 0
  BY EmptySeq
<1>2. /\ Tail(q) \in Seq(Nat) /\ Len(Tail(q)) = n - 1
      /\ DOMAIN Tail(q) = 1..(n - 1)
      /\ \A i \in 1..(n - 1) : Tail(q)[i] = q[i + 1]
  BY <1>1, HeadTailProperties
<1>3. Head(q) = q[1] /\ 1 \in 1..n /\ Head(q) \in Nat
  BY <1>1, HeadTailProperties
<1>4. \A i \in 1..n : q[i] \in Nat
  BY <1>1
<1>5. Increasing(Tail(q))
  <2> SUFFICES ASSUME NEW i \in 1..(n - 1), NEW j \in 1..(n - 1), i < j
               PROVE  q[i + 1] < q[j + 1]
    BY <1>2 DEF Increasing
  <2>1. i + 1 \in 1..n /\ j + 1 \in 1..n /\ i + 1 < j + 1
    BY <1>1
  <2> QED
    BY <1>1, <2>1 DEF Increasing
<1>6. ToSet(q) = {q[i] : i \in 1..n}
  BY <1>1 DEF ToSet
<1>7. ToSet(Tail(q)) = {q[i + 1] : i \in 1..(n - 1)}
  BY <1>2 DEF ToSet
<1>8. \A j \in 1..n : j = 1 \/ (j - 1 \in 1..(n - 1) /\ (j - 1) + 1 = j)
  BY <1>1
<1>9. \A i \in 1..(n - 1) : i + 1 \in 1..n /\ 1 < i + 1
  BY <1>1
<1>10. \A i \in 1..(n - 1) : q[1] < q[i + 1]
  BY <1>1, <1>3, <1>9 DEF Increasing
<1>11. ToSet(Tail(q)) \subseteq ToSet(q) \ {Head(q)}
  BY <1>3, <1>4, <1>6, <1>7, <1>9, <1>10
<1>12. ToSet(q) \ {Head(q)} \subseteq ToSet(Tail(q))
  <2> SUFFICES ASSUME NEW j \in 1..n, q[j] # q[1]
               PROVE  \E i \in 1..(n - 1) : q[j] = q[i + 1]
    BY <1>3, <1>6, <1>7
  <2>1. j - 1 \in 1..(n - 1) /\ (j - 1) + 1 = j
    BY <1>8
  <2> QED
    BY <2>1
<1> QED
  BY <1>2, <1>3, <1>5, <1>6, <1>11, <1>12

\* A chunk at its place among smaller and larger ones.
LEMMA InsertInOrder ==
    ASSUME NEW q \in Seq(Nat), NEW c \in Nat, Increasing(q), c \notin ToSet(q),
           NEW k \in 1..(Len(q) + 1), \A i \in DOMAIN q : i < k <=> q[i] < c
    PROVE  /\ InsertAt(q, k, c) \in Seq(Nat) /\ Increasing(InsertAt(q, k, c))
           /\ ToSet(InsertAt(q, k, c)) = ToSet(q) \cup {c}
<1>1. PICK n \in Nat : n = Len(q) /\ DOMAIN q = 1..n
  OBVIOUS
<1>2. /\ k \in 1..(n + 1)
      /\ \A i \in 1..n : q[i] \in Nat /\ q[i] # c /\ (i < k <=> q[i] < c)
      /\ \A i, j \in 1..n : i < j => q[i] < q[j]
  <2>1. k \in 1..(n + 1) /\ \A i \in 1..n : i < k <=> q[i] < c
    BY <1>1
  <2>2. \A i \in 1..n : q[i] \in Nat /\ q[i] # c
    BY <1>1 DEF ToSet
  <2>3. \A i, j \in 1..n : i < j => q[i] < q[j]
    BY <1>1 DEF Increasing
  <2> QED
    BY <2>1, <2>2, <2>3
<1>3. PICK t : t = InsertAt(q, k, c)
  OBVIOUS
<1>4. /\ t \in Seq(Nat) /\ DOMAIN t = 1..(n + 1)
      /\ \A i \in 1..(n + 1) : t[i] = IF i < k THEN q[i] ELSE
                                      IF i = k THEN c ELSE q[i - 1]
  <2>1. PICK a : a = SubSeq(q, 1, k - 1)
    OBVIOUS
  <2>2. /\ a \in Seq(Nat) /\ Len(a) = k - 1
        /\ \A i \in 1..(k - 1) : a[i] = q[i]
    BY <1>1, <2>1
  <2>3. PICK b : b = SubSeq(q, k, n)
    OBVIOUS
  <2>4. /\ b \in Seq(Nat) /\ Len(b) = n - k + 1
        /\ \A i \in 1..(n - k + 1) : b[i] = q[k + i - 1]
    BY <1>1, <2>3
  <2>5. t = (a \o <<c>>) \o b
    BY <1>1, <1>3, <2>1, <2>3 DEF InsertAt
  <2>6. PICK d : d = a \o <<c>>
    OBVIOUS
  <2>7. /\ d \in Seq(Nat) /\ Len(d) = k /\ d[k] = c
        /\ \A i \in 1..(k - 1) : d[i] = q[i]
    <3>1. <<c>> \in Seq(Nat) /\ Len(<<c>>) = 1 /\ <<c>>[1] = c
      OBVIOUS
    <3>2. /\ d \in Seq(Nat) /\ Len(d) = (k - 1) + 1
          /\ \A i \in 1..((k - 1) + 1) : d[i] = IF i <= k - 1 THEN a[i]
                                                ELSE <<c>>[i - (k - 1)]
      BY <2>2, <2>6, <3>1, ConcatProperties
    <3>3. k \in 1..((k - 1) + 1) /\ ~(k <= k - 1) /\ k - (k - 1) = 1 /\ (k - 1) + 1 = k
      BY <1>2
    <3>4. d[k] = c
      BY <3>1, <3>2, <3>3
    <3>5. ASSUME NEW i \in 1..(k - 1)
          PROVE  d[i] = q[i]
      <4>1. i \in 1..((k - 1) + 1) /\ i <= k - 1
        BY <1>2
      <4> QED
        BY <2>2, <3>2, <4>1
    <3> QED
      BY <3>2, <3>3, <3>4, <3>5
  <2>8. /\ t \in Seq(Nat) /\ Len(t) = n + 1
        /\ \A i \in 1..k : t[i] = d[i]
        /\ \A i \in (k + 1)..(n + 1) : t[i] = b[i - k]
    <3>1. /\ t \in Seq(Nat) /\ Len(t) = k + (n - k + 1)
          /\ \A i \in 1..(k + (n - k + 1)) : t[i] = IF i <= k THEN d[i] ELSE b[i - k]
      <4>1. t = d \o b
        BY <2>5, <2>6
      <4>2. /\ t \in Seq(Nat) /\ Len(t) = Len(d) + Len(b)
            /\ \A i \in 1..(Len(d) + Len(b)) : t[i] = IF i <= Len(d) THEN d[i]
                                                      ELSE b[i - Len(d)]
        BY <2>4, <2>7, <4>1, ConcatProperties
      <4> QED
        BY <2>4, <2>7, <4>2
    <3>2. k + (n - k + 1) = n + 1
      BY <1>2
    <3>3. \A i \in 1..k : i \in 1..(n + 1) /\ i <= k
      BY <1>2
    <3>4. \A i \in (k + 1)..(n + 1) : i \in 1..(n + 1) /\ ~(i <= k)
      BY <1>2
    <3> QED
      BY <3>1, <3>2, <3>3, <3>4
  <2>9. DOMAIN t = 1..(n + 1)
    BY <1>1, <2>8
  <2>10. ASSUME NEW i \in (k + 1)..(n + 1)
         PROVE  t[i] = q[i - 1]
    <3>1. i - k \in 1..(n - k + 1) /\ k + (i - k) - 1 = i - 1
      BY <1>1
    <3> QED
      BY <2>4, <2>8, <3>1
  <2> QED
    BY <1>1, <2>7, <2>8, <2>9, <2>10
<1>5. Increasing(t)
  <2> SUFFICES ASSUME NEW i \in 1..(n + 1), NEW j \in 1..(n + 1), i < j
               PROVE  t[i] < t[j]
    BY <1>4 DEF Increasing
  <2>1. CASE j < k
    <3>1. i \in 1..n /\ j \in 1..n /\ i < k
      BY <1>2, <2>1
    <3> QED
      BY <1>2, <1>4, <2>1, <3>1
  <2>2. CASE j = k
    <3>1. i \in 1..n /\ i < k /\ ~(j < k)
      BY <1>2, <2>2
    <3> QED
      BY <1>2, <1>4, <2>2, <3>1
  <2>3. CASE j > k
    <3>1. j - 1 \in 1..n /\ ~(j - 1 < k) /\ t[j] = q[j - 1]
      BY <1>2, <1>4, <2>3
    <3>2. c < q[j - 1]
      BY <1>2, <3>1
    <3>3. CASE i < k
      <4>1. i \in 1..n /\ i < j - 1 /\ t[i] = q[i]
        BY <1>2, <1>4, <2>3, <3>3
      <4> QED
        BY <1>2, <3>1, <4>1
    <3>4. CASE i = k
      BY <1>4, <3>1, <3>2, <3>4
    <3>5. CASE i > k
      <4>1. i - 1 \in 1..n /\ i - 1 < j - 1 /\ t[i] = q[i - 1]
        BY <1>2, <1>4, <3>5
      <4> QED
        BY <1>2, <3>1, <4>1
    <3> QED
      BY <3>3, <3>4, <3>5
  <2> QED
    BY <2>1, <2>2, <2>3
<1>6. ToSet(t) = ToSet(q) \cup {c}
  <2>1. ToSet(t) = {t[i] : i \in 1..(n + 1)} /\ ToSet(q) = {q[i] : i \in 1..n}
    BY <1>1, <1>4 DEF ToSet
  <2>2. ASSUME NEW i \in 1..(n + 1)
        PROVE  t[i] \in ToSet(q) \cup {c}
    <3>1. CASE i < k
      <4>1. i \in 1..n /\ t[i] = q[i]
        BY <1>2, <1>4, <3>1
      <4> QED
        BY <2>1, <4>1
    <3>2. CASE i = k
      BY <1>4, <3>2
    <3>3. CASE i > k
      <4>1. i - 1 \in 1..n /\ t[i] = q[i - 1]
        BY <1>2, <1>4, <3>3
      <4> QED
        BY <2>1, <4>1
    <3> QED
      BY <1>2, <3>1, <3>2, <3>3
  <2>3. ASSUME NEW i \in 1..n
        PROVE  q[i] \in ToSet(t)
    <3>1. CASE i < k
      <4>1. i \in 1..(n + 1) /\ t[i] = q[i]
        BY <1>2, <1>4, <3>1
      <4> QED
        BY <2>1, <4>1
    <3>2. CASE i >= k
      <4>1. i + 1 \in 1..(n + 1) /\ ~(i + 1 < k) /\ i + 1 # k /\ (i + 1) - 1 = i
        BY <1>2, <3>2
      <4>2. t[i + 1] = q[i]
        BY <1>4, <4>1
      <4> QED
        BY <2>1, <4>1, <4>2
    <3> QED
      BY <1>2, <3>1, <3>2
  <2>4. c \in ToSet(t)
    <3>1. k \in 1..(n + 1) /\ t[k] = c
      BY <1>1, <1>4
    <3> QED
      BY <2>1, <3>1
  <2> QED
    BY <2>1, <2>2, <2>3, <2>4
<1> QED
  BY <1>3, <1>4, <1>5, <1>6

-----------------------------------------------------------------------------
(* Evidence: one transcription.                                            *)

Transcribing ==
    [at        : {"none", "download", "workers", "exit", "text", "nothing"},
     queued    : Seq(Nat), running : SUBSET Nat, finished : SUBSET Nat,
     heard     : SUBSET Nat, left : SUBSET Nat, text : Seq(Nat)]

\* A chunk waits, runs or is finished, and is left until it is collected; the
\* text has what was heard of the chunks that are not left, in order.
TextInv(r) ==
    /\ r \in Transcribing
    /\ Increasing(r.text) /\ Increasing(r.queued)
    /\ ToSet(r.queued) \cap (r.running \cup r.finished) = {}
    /\ r.running \cap r.finished = {}
    /\ r.at \in {"none", "download"} =>
          r.heard = {} /\ r.text = <<>> /\ r.running = {} /\ r.finished = {}
    /\ r.at = "workers" => /\ ToSet(r.text) = r.heard \ r.left
                           /\ ToSet(r.queued) \cup r.running \subseteq r.left
    /\ r.at = "text" => ToSet(r.text) = r.heard

TranscriptsInv == DOMAIN stt = Files /\ \A f \in Files : TextInv(stt[f])

LEMMA EmptyText == ToSet(<<>>) = {} /\ Increasing(<<>>) /\ <<>> \in Seq(Nat)
BY DEF ToSet, Increasing

LEMMA NewTranscriptions == TextInv(NoTranscription) /\ TextInv(Recording)
<1>1. PICK r : r = NoTranscription
  OBVIOUS
<1>2. /\ r \in Transcribing /\ r.at = "none" /\ r.queued = <<>> /\ r.running = {}
      /\ r.finished = {} /\ r.heard = {} /\ r.left = {} /\ r.text = <<>>
  BY <1>1, EmptyText DEF NoTranscription, Transcribing
<1>3. PICK q : q = [r EXCEPT !.at = "download"]
  OBVIOUS
<1>4. /\ q \in Transcribing /\ q.at = "download" /\ q.queued = <<>> /\ q.running = {}
      /\ q.finished = {} /\ q.heard = {} /\ q.left = {} /\ q.text = <<>>
  BY <1>2, <1>3 DEF Transcribing
<1>5. TextInv(r)
  BY <1>2, EmptyText DEF TextInv
<1>6. TextInv(q)
  BY <1>4, EmptyText DEF TextInv
<1> QED
  BY <1>1, <1>3, <1>5, <1>6 DEF Recording

\* A step of one transcription.
LEMMA OneTranscription ==
    ASSUME TranscriptsInv, NEW f \in Files, NEW r, TextInv(r),
           stt' = [stt EXCEPT ![f] = r]
    PROVE  TranscriptsInv'
BY DEF TranscriptsInv

LEMMA DownloadKeeps ==
    ASSUME TranscriptsInv, NEW f \in Files, NEW n \in Nat, Download(f, n)
    PROVE  TranscriptsInv'
<1>1. TextInv(stt[f]) /\ stt[f].at = "download"
  BY DEF TranscriptsInv, Download
<1>2. stt[f] \in Transcribing
  BY <1>1 DEF TextInv
<1>3. CASE n = 0 \/ upload[f].url = "disk"
  <2>1. PICK r : r = [stt[f] EXCEPT !.at = "nothing"]
    OBVIOUS
  <2>2. stt' = [stt EXCEPT ![f] = r]
    BY <1>3, <2>1 DEF Download, TranscriptsInv
  <2>3. /\ r \in Transcribing /\ r.at = "nothing" /\ r.queued = stt[f].queued
        /\ r.running = stt[f].running /\ r.finished = stt[f].finished
        /\ r.heard = stt[f].heard /\ r.left = stt[f].left /\ r.text = stt[f].text
    BY <1>2, <2>1 DEF Transcribing
  <2>4. TextInv(r)
    BY <1>1, <2>3 DEF TextInv
  <2> QED
    BY <2>2, <2>4, OneTranscription
<1>4. CASE ~(n = 0 \/ upload[f].url = "disk")
  <2>1. PICK waiting : waiting = [c \in 1..n |-> c]
    OBVIOUS
  <2>2. /\ waiting \in Seq(Nat) /\ Increasing(waiting) /\ ToSet(waiting) = 1..n
    <3>1. waiting \in [1..n -> Nat] /\ DOMAIN waiting = 1..n
      BY <2>1
    <3>2. waiting \in Seq(Nat)
      BY <3>1, SeqDef
    <3>3. Increasing(waiting)
      BY <2>1 DEF Increasing
    <3>4. ToSet(waiting) = 1..n
      BY <2>1 DEF ToSet
    <3> QED
      BY <3>2, <3>3, <3>4
  <2>3. PICK r : r = [stt[f] EXCEPT !.at = "workers", !.left = 1..n, !.queued = waiting]
    OBVIOUS
  <2>4. stt' = [stt EXCEPT ![f] = r]
    BY <1>4, <2>1, <2>3 DEF Download, TranscriptsInv
  <2>5. 1..n \in SUBSET Nat
    OBVIOUS
  <2>6. PICK all \in SUBSET Nat : all = 1..n
    BY <2>5
  <2>7. r = [stt[f] EXCEPT !.at = "workers", !.left = all, !.queued = waiting]
    BY <2>3, <2>6
  <2>8. /\ r \in Transcribing /\ r.at = "workers" /\ r.queued = waiting
        /\ r.running = stt[f].running /\ r.finished = stt[f].finished
        /\ r.heard = stt[f].heard /\ r.left = all /\ r.text = stt[f].text
    BY <1>2, <2>2, <2>7 DEF Transcribing
  <2>9. /\ stt[f].heard = {} /\ stt[f].text = <<>>
        /\ stt[f].running = {} /\ stt[f].finished = {}
    BY <1>1 DEF TextInv
  <2>10. TextInv(r)
    BY <2>2, <2>6, <2>8, <2>9, EmptyText DEF TextInv
  <2> QED
    BY <2>4, <2>10, OneTranscription
<1> QED
  BY <1>3, <1>4

LEMMA StartChunkKeeps ==
    ASSUME TranscriptsInv, NEW f \in Files, StartChunk(f)
    PROVE  TranscriptsInv'
<1>1. TextInv(stt[f]) /\ stt[f].at \in {"workers", "exit"} /\ stt[f].queued # <<>>
  BY DEF TranscriptsInv, StartChunk, InPool
<1>2. /\ stt[f] \in Transcribing
      /\ stt[f].queued \in Seq(Nat) /\ Increasing(stt[f].queued)
  BY <1>1 DEF TextInv, Transcribing
<1>3. PICK q : q = Tail(stt[f].queued)
  OBVIOUS
<1>4. PICK c : c = Head(stt[f].queued)
  OBVIOUS
<1>5. /\ q \in Seq(Nat) /\ Increasing(q) /\ c \in Nat /\ c \in ToSet(stt[f].queued)
      /\ ToSet(q) = ToSet(stt[f].queued) \ {c}
  BY <1>1, <1>2, <1>3, <1>4, TailOfIncreasing
<1>6. PICK r : r = [stt[f] EXCEPT !.running = @ \cup {c}, !.queued = q]
  OBVIOUS
<1>7. stt' = [stt EXCEPT ![f] = r]
  BY <1>3, <1>4, <1>6 DEF StartChunk, TranscriptsInv
<1>8. /\ r \in Transcribing /\ r.at = stt[f].at /\ r.queued = q
      /\ r.running = stt[f].running \cup {c} /\ r.finished = stt[f].finished
      /\ r.heard = stt[f].heard /\ r.left = stt[f].left /\ r.text = stt[f].text
  BY <1>2, <1>5, <1>6 DEF Transcribing
<1>9. TextInv(r)
  BY <1>1, <1>5, <1>8 DEF TextInv
<1> QED
  BY <1>7, <1>9, OneTranscription

LEMMA ChunkEndsKeeps ==
    ASSUME TranscriptsInv, NEW f \in Files, NEW c, NEW words \in BOOLEAN,
           ChunkEnds(f, c, words)
    PROVE  TranscriptsInv'
<1>1. /\ TextInv(stt[f]) /\ stt[f].at \in {"workers", "exit"}
      /\ c \in stt[f].running
  BY DEF TranscriptsInv, ChunkEnds, InPool
<1>2. stt[f] \in Transcribing /\ c \in Nat
  BY <1>1 DEF TextInv, Transcribing
<1>3. PICK h \in {stt[f].heard, stt[f].heard \cup {c}} :
          h = IF words THEN stt[f].heard \cup {c} ELSE stt[f].heard
  OBVIOUS
<1>4. PICK r : r = [stt[f] EXCEPT !.running = @ \ {c}, !.finished = @ \cup {c},
                                  !.heard = h]
  OBVIOUS
<1>5. stt' = [stt EXCEPT ![f] = r]
  BY <1>3, <1>4 DEF ChunkEnds, TranscriptsInv
<1>6. /\ r \in Transcribing /\ r.at = stt[f].at /\ r.queued = stt[f].queued
      /\ r.running = stt[f].running \ {c} /\ r.finished = stt[f].finished \cup {c}
      /\ r.heard = h /\ r.left = stt[f].left /\ r.text = stt[f].text
  BY <1>2, <1>3, <1>4 DEF Transcribing
<1>7. TextInv(r)
  BY <1>1, <1>3, <1>6 DEF TextInv
<1> QED
  BY <1>5, <1>7, OneTranscription

LEMMA CollectKeeps ==
    ASSUME TranscriptsInv, NEW f \in Files, NEW c, Collect(f, c)
    PROVE  TranscriptsInv'
<1> DEFINE text == stt[f].text
<1>1. /\ TextInv(stt[f]) /\ stt[f].at = "workers"
      /\ c \in stt[f].finished \cap stt[f].left
  BY DEF TranscriptsInv, Collect
<1>2. /\ stt[f] \in Transcribing /\ c \in Nat /\ text \in Seq(Nat) /\ Increasing(text)
      /\ ToSet(text) = stt[f].heard \ stt[f].left
  BY <1>1 DEF TextInv, Transcribing
<1>3. PICK k \in 1..(Len(text) + 1) :
          /\ \A i \in DOMAIN text : i < k <=> text[i] < c
          /\ stt' = [stt EXCEPT ![f].left = @ \ {c},
                                ![f].text = IF c \in stt[f].heard
                                            THEN InsertAt(text, k, c) ELSE text]
  BY DEF Collect
<1>4. /\ InsertAt(text, k, c) \in Seq(Nat) /\ Increasing(InsertAt(text, k, c))
      /\ ToSet(InsertAt(text, k, c)) = ToSet(text) \cup {c}
  BY <1>1, <1>2, <1>3, InsertInOrder
<1>5. PICK t : t = IF c \in stt[f].heard THEN InsertAt(text, k, c) ELSE text
  OBVIOUS
<1>6. /\ t \in Seq(Nat) /\ Increasing(t)
      /\ ToSet(t) = stt[f].heard \ (stt[f].left \ {c})
  BY <1>1, <1>2, <1>4, <1>5
<1>7. PICK r : r = [stt[f] EXCEPT !.left = @ \ {c}, !.text = t]
  OBVIOUS
<1>8. stt' = [stt EXCEPT ![f] = r]
  BY <1>3, <1>5, <1>7 DEF TranscriptsInv
<1>9. /\ r \in Transcribing /\ r.at = "workers" /\ r.queued = stt[f].queued
      /\ r.running = stt[f].running /\ r.finished = stt[f].finished
      /\ r.heard = stt[f].heard /\ r.left = stt[f].left \ {c} /\ r.text = t
  BY <1>1, <1>2, <1>6, <1>7 DEF Transcribing
<1>10. TextInv(r)
  BY <1>1, <1>6, <1>9 DEF TextInv
<1> QED
  BY <1>8, <1>10, OneTranscription

\* The task's thread: joining, the deadline, and the pool's exit.
LEMMA ThreadKeeps ==
    ASSUME TranscriptsInv, NEW f \in Files, JoinTexts(f) \/ Deadline(f) \/ LeavePool(f)
    PROVE  TranscriptsInv'
<1>1. TextInv(stt[f]) /\ stt[f] \in Transcribing
  BY DEF TranscriptsInv, TextInv
<1>2. ASSUME NEW at \in {"exit", "text", "nothing"}, NEW t \in {stt[f].text, <<>>},
             at = "text" => t = stt[f].text /\ ToSet(t) = stt[f].heard,
             stt' = [stt EXCEPT ![f] = [stt[f] EXCEPT !.at = at, !.text = t]]
      PROVE  TranscriptsInv'
  <2>1. PICK r : r = [stt[f] EXCEPT !.at = at, !.text = t]
    OBVIOUS
  <2>2. t \in Seq(Nat) /\ Increasing(t)
    BY <1>1, EmptyText DEF TextInv, Transcribing
  <2>3. /\ r \in Transcribing /\ r.at = at /\ r.queued = stt[f].queued
        /\ r.running = stt[f].running /\ r.finished = stt[f].finished
        /\ r.heard = stt[f].heard /\ r.left = stt[f].left /\ r.text = t
    BY <1>1, <2>1, <2>2 DEF Transcribing
  <2>4. TextInv(r)
    BY <1>1, <1>2, <2>2, <2>3 DEF TextInv
  <2> QED
    BY <1>2, <2>1, <2>4, OneTranscription
<1>3. [stt[f] EXCEPT !.text = stt[f].text] = stt[f]
  BY <1>1 DEF Transcribing
<1>4. CASE JoinTexts(f)
  <2>1. PICK at \in {"text", "nothing"} :
            stt' = [stt EXCEPT ![f].at = at]
    BY <1>4 DEF JoinTexts
  <2>2. stt' = [stt EXCEPT ![f] = [stt[f] EXCEPT !.at = at, !.text = stt[f].text]]
    BY <1>1, <2>1 DEF TranscriptsInv, Transcribing
  <2>3. ToSet(stt[f].text) = stt[f].heard
    BY <1>1, <1>4 DEF JoinTexts, TextInv
  <2> QED
    BY <1>2, <2>2, <2>3
<1>5. CASE Deadline(f)
  <2>1. stt' = [stt EXCEPT ![f] = [stt[f] EXCEPT !.at = "exit", !.text = stt[f].text]]
    BY <1>1, <1>5 DEF Deadline, TranscriptsInv, Transcribing
  <2> QED
    BY <1>2, <2>1
<1>6. CASE LeavePool(f)
  <2>1. stt' = [stt EXCEPT ![f] = [stt[f] EXCEPT !.at = "nothing", !.text = <<>>]]
    BY <1>6 DEF LeavePool, TranscriptsInv
  <2> QED
    BY <1>2, <2>1
<1> QED
  BY <1>4, <1>5, <1>6

LEMMA UploadKeeps ==
    ASSUME TranscriptsInv, NEW f \in Files,
           \/ \E route \in {"evidence", "audio", "async"}, bucket \in BOOLEAN :
                  UploadFile(f, route, bucket)
           \/ CloudStores(f) \/ CloudFails(f) \/ LocalStores(f) \/ LocalFails(f)
           \/ AskTranscription(f)
    PROVE  TranscriptsInv'
<1>1. stt' = stt \/ stt' = [stt EXCEPT ![f] = Recording]
  BY DEF UploadFile, CloudStores, QueueJob, CloudFails, LocalStores, LocalFails,
         AskTranscription
<1>2. CASE stt' = stt
  BY <1>2 DEF TranscriptsInv
<1>3. CASE stt' = [stt EXCEPT ![f] = Recording]
  BY <1>3, NewTranscriptions, OneTranscription
<1> QED
  BY <1>1, <1>2, <1>3

LEMMA EvidenceInvariant == EvidenceSpec => []TranscriptsInv
<1>1. EvidenceInit => TranscriptsInv
  BY NewTranscriptions DEF EvidenceInit, TranscriptsInv
<1>2. TranscriptsInv /\ [EvidenceNext]_evidenceVars => TranscriptsInv'
  <2> SUFFICES ASSUME TranscriptsInv, [EvidenceNext]_evidenceVars
               PROVE  TranscriptsInv'
    OBVIOUS
  <2>1. ASSUME NEW f \in Files, TranscriptionStep(f)
        PROVE  TranscriptsInv'
    <3>1. \A n \in 0..Chunks : n \in Nat
      BY EvidenceAssumption
    <3> QED
      BY <2>1, <3>1, DownloadKeeps, StartChunkKeeps, ChunkEndsKeeps, CollectKeeps,
         ThreadKeeps DEF TranscriptionStep
  <2>2. CASE UNCHANGED evidenceVars
    BY <2>2 DEF evidenceVars, TranscriptsInv
  <2> QED
    BY <2>1, <2>2, UploadKeeps, ThreadKeeps DEF EvidenceNext
<1> QED
  BY <1>1, <1>2, PTL DEF EvidenceSpec

(* A transcript has the words of every chunk that had any, in the order of *)
(* the recording, in whatever order the workers took and ended them: a     *)
(* text is joined only when no chunk is left, and each is collected once.  *)
THEOREM TranscriptsInOrder == EvidenceSpec => []TranscriptInOrder
<1>1. TranscriptsInv => TranscriptInOrder
  BY DEF TranscriptsInv, TextInv, Increasing, TranscriptInOrder
<1> QED
  BY <1>1, EvidenceInvariant, PTL
=============================================================================
