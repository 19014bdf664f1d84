------------------------------- MODULE Access -------------------------------
(***************************************************************************)
(* Users have roles and roles have permissions: the tables role_user and   *)
(* permission_role, edited through the collections User.roles and          *)
(* Role.permissions of a session.                                          *)
(*                                                                         *)
(* A request loads a collection, changes it, and commits the difference;   *)
(* other requests commit in between.                                       *)
(***************************************************************************)
EXTENDS Naturals, FiniteSets

CONSTANTS
    Users, Roles, Permissions,
    Manage,       \* the permission that role_controller and user_controller ask for
    Editors,      \* threads
    Nobody,
    MaxEdits      \* bound: requests

ASSUME AccessAssumption ==
    /\ Manage \in Permissions
    /\ Users \cap Roles = {} /\ Roles \cap Permissions = {}
    /\ Users \cap Permissions = {}
    /\ Nobody \notin Users \cup Roles \cup Permissions
    /\ MaxEdits \in Nat

VARIABLES
    rows,   \* the users, roles and permissions that exist
    gone,   \* those that were deleted: ids are not used again
    links,  \* rows of role_user and permission_role
    edit,   \* what each thread is doing
    edits

accessVars == <<rows, gone, links, edit, edits>>

-----------------------------------------------------------------------------
Everything == Users \cup Roles \cup Permissions

Items(x) == IF x \in Users THEN Roles
            ELSE IF x \in Roles THEN Permissions ELSE {}

Links == (Users \X Roles) \cup (Roles \X Permissions)

Collection(x) == {y \in Items(x) : <<x, y>> \in links}

Touching(x) == {l \in links : x \in {l[1], l[2]}}

\* require_permission, which looks at the rows and not at the token.
Authorized(u) ==
    u \in rows /\ \E r \in Collection(u) : Manage \in Collection(r)

Edits ==
    [kind   : {"none", "create", "replace", "assign", "remove", "other",
               "delete"},
     of     : Everything \cup {Nobody},
     loaded : SUBSET Links,          \* the collections the session holds
     wanted : SUBSET Everything,     \* what the collection is set to
     named  : SUBSET Everything]     \* the items the request names

NoEdit == [kind |-> "none", of |-> Nobody, loaded |-> {}, wanted |-> {},
           named |-> {}]

AccessInit ==
    /\ links \in {l \in SUBSET Links :
                     \E u \in Users, r \in Roles :
                         {<<u, r>>, <<r, Manage>>} = l}
    /\ rows = {x \in Everything : x \notin Roles \/ Touching(x) # {}}
    /\ gone = {}
    /\ edit = [h \in Editors |-> NoEdit]
    /\ edits = 0

-----------------------------------------------------------------------------
(* Requests, up to their commit.                                           *)

BeginEdit(h, kind, x, wanted, named) ==
    /\ edit[h] = NoEdit /\ edits < MaxEdits
    /\ \E u \in Users : Authorized(u)
    /\ edits' = edits + 1
    /\ edit' = [edit EXCEPT ![h] =
           [kind |-> kind, of |-> x,
            loaded |-> IF kind = "delete" THEN Touching(x)
                       ELSE {x} \X Collection(x),
            wanted |-> wanted, named |-> named]]
    /\ UNCHANGED <<rows, gone, links>>

\* update_role and update_user with ids: those of rows that exist.
Replace(h, x, items) ==
    /\ x \in rows /\ items \subseteq rows \cap Items(x)
    /\ BeginEdit(h, "replace", x, items, items)

\* create_role and create_user.
CreateRow(h, x, items) ==
    /\ x \notin rows \cup gone /\ items \subseteq rows \cap Items(x)
    /\ BeginEdit(h, "create", x, items, items)

Assign(h, x, y) ==
    /\ {x, y} \subseteq rows /\ y \in Items(x) \ Collection(x)
    /\ BeginEdit(h, "assign", x, Collection(x) \cup {y}, {y})

Unassign(h, x, y) ==
    /\ {x, y} \subseteq rows /\ y \in Collection(x)
    /\ BeginEdit(h, "remove", x, Collection(x) \ {y}, {y})

\* update_role and update_user without ids: a name, a description, a phone.
UpdateOther(h, x) ==
    /\ x \in rows
    /\ BeginEdit(h, "other", x, Collection(x), {})

DeleteRow(h, x) ==
    /\ x \in rows
    /\ BeginEdit(h, "delete", x, {}, {})

-----------------------------------------------------------------------------
(* Commits.                                                                *)

Added(e) == ({e.of} \X e.wanted) \ e.loaded

Dropped(e) == IF e.kind = "delete" THEN e.loaded
              ELSE e.loaded \ ({e.of} \X e.wanted)

\* A link to be deleted that is gone already, one to be inserted that is
\* there already, or one whose row is gone, makes the transaction fail.
Refused(e) ==
    \/ e.of \notin rows /\ e.kind # "create"
    \/ e.of \in rows \cup gone /\ e.kind = "create"
    \/ ~(Dropped(e) \subseteq links)
    \/ Added(e) \cap links # {}
    \/ ~(e.wanted \subseteq rows)

\* Fault: the collection is written as a whole.
WriteCollection(e) ==
    {l \in links : l[1] # e.of} \cup ({e.of} \X e.wanted)

\* Fault: only the links that the session knows of are deleted.
WriteLoaded(e) == (links \ Dropped(e)) \cup Added(e)

\* The foreign keys cascade to the links inserted since.
WriteDifference(e) ==
    IF e.kind = "delete" THEN links \ Touching(e.of)
    ELSE (links \ Dropped(e)) \cup Added(e)

CommitEdit(h) ==
    LET e == edit[h] IN
    /\ e # NoEdit
    /\ IF Refused(e) THEN UNCHANGED <<rows, gone, links>>
       ELSE /\ links' = WriteDifference(e)
            /\ rows' = IF e.kind = "delete" THEN rows \ {e.of}
                       ELSE IF e.kind = "create" THEN rows \cup {e.of}
                       ELSE rows
            /\ gone' = IF e.kind = "delete" THEN gone \cup {e.of} ELSE gone
    /\ edit' = [edit EXCEPT ![h] = NoEdit]
    /\ UNCHANGED edits

AccessRequest(h) ==
    \E x \in Everything :
        \/ \E items \in SUBSET Items(x) : Replace(h, x, items)
                                          \/ CreateRow(h, x, items)
        \/ \E y \in Items(x) : Assign(h, x, y) \/ Unassign(h, x, y)
        \/ UpdateOther(h, x)
        \/ DeleteRow(h, x)

AccessNext == \E h \in Editors : AccessRequest(h) \/ CommitEdit(h)

AccessSpec == AccessInit /\ [][AccessNext]_accessVars

-----------------------------------------------------------------------------
(* Properties.                                                             *)

\* Rows, links and edits keep their types.
AccessTypeOK ==
    /\ rows \cup gone \subseteq Everything
    /\ links \subseteq Links
    /\ edit \in [Editors -> Edits]
    /\ edits \in 0..MaxEdits

\* A request gives only what it names and takes only what it names, leaves
\* out of a full list, or deletes: one that loaded a collection before a
\* revocation does not bring the revoked link back, and one that loaded it
\* before an assignment does not take the new link away.
OnlyNamed ==
    [][\E h \in Editors :
          LET e == edit[h] IN
          /\ \A l \in links' \ links : l[1] = e.of /\ l[2] \in e.named
          /\ \A l \in links \ links' :
                \/ e.kind = "delete" /\ e.of \in {l[1], l[2]}
                \/ e.kind = "remove" /\ l[1] = e.of /\ l[2] \in e.named
                \/ e.kind = "replace" /\ l \in e.loaded \ ({e.of} \X e.named)
      ]_<<rows, links>>

\* A link joins two rows that exist, whatever is deleted while a request
\* that names it is on its way.
LinksWhole == \A l \in links : {l[1], l[2]} \subseteq rows
=============================================================================
