-------------------------------- MODULE Bell --------------------------------
(***************************************************************************)
(* Notifications: the rows behind the bell of the web application, and the *)
(* pushes to phones.                                                       *)
(*                                                                         *)
(* A background task serves its recipients one after the other with the    *)
(* session of its caller: it commits a row, reads it back, and pushes.     *)
(* Users read, are deleted, and a daily job removes what was read.         *)
(***************************************************************************)
EXTENDS Naturals, Sequences, FiniteSets, SequencesExt

CONSTANTS
    People,      \* users
    Admins,      \* those with the role "admin"
    Owner,       \* the owner of the workshop an offer is for
    Notices,     \* background tasks that notify
    MaxFailures  \* bound: commits that fail, and crashes

ASSUME BellAssumption ==
    /\ Admins \subseteq People /\ IsFiniteSet(Admins) /\ Owner \in People
    /\ MaxFailures \in Nat

VARIABLES
    here,      \* the users that exist
    phones,    \* those with a fcm_token
    bell,      \* the notifications rows; "removed" by the cleanup
    pushed,    \* what was sent to a phone
    task,      \* what each background task is doing
    failures

bellVars == <<here, phones, bell, pushed, task, failures>>

Tasks == [at     : {"new", "save", "push", "over", "killed"},
          queue  : Seq(People),
          served : BOOLEAN,              \* the first of the queue is done
          usable : BOOLEAN]              \* its session

NewTask == [at |-> "new", queue |-> <<>>, served |-> FALSE, usable |-> TRUE]

BellInit ==
    /\ here = People /\ phones = {}
    /\ bell = [n \in Notices |-> [u \in People |-> "none"]]
    /\ pushed = {}
    /\ task = [n \in Notices |-> NewTask]
    /\ failures = 0

-----------------------------------------------------------------------------
(* A task.                                                                 *)

Notify(n, queue) ==
    /\ task[n].at = "new"
    /\ task' = [task EXCEPT ![n].at = "save", ![n].queue = queue]
    /\ UNCHANGED <<here, phones, bell, pushed, failures>>

\* A copy to every administrator but the owner, and the owner last.
NotifyWorkshopNewOffer(n) ==
    Owner \in here /\ Notify(n, SetToSeq((Admins \cap here) \ {Owner}) \o <<Owner>>)

\* A client, a technician, or the owner of an expired offer.
NotifyUser(n) == \E u \in here : Notify(n, <<u>>)

IsCopy(n) == Len(task[n].queue) > 1

\* Fault: the administrators' copies are not in a try of their own.
AfterErrorOver(n, usable) ==
    task' = [task EXCEPT ![n].usable = usable, ![n].at = "over"]

\* An error of a copy ends the copies, any other the task.
AfterError(n, usable) ==
    task' = [task EXCEPT
                ![n].usable = usable, ![n].served = TRUE,
                ![n].at = IF IsCopy(n) THEN "save" ELSE "over",
                ![n].queue = IF IsCopy(n) THEN <<Last(@)>> ELSE @]

NextRecipient(n) ==
    task' = [task EXCEPT
                ![n].served = TRUE,
                ![n].at = IF IsCopy(n) THEN "save" ELSE "over",
                ![n].queue = IF IsCopy(n) THEN Tail(@) ELSE @]

\* Fault: the row is added to the session and not committed.
SaveWithoutCommit(n) ==
    /\ task[n].at = "save" /\ task[n].usable /\ Head(task[n].queue) \in here
    /\ task' = [task EXCEPT ![n].at = "push"]
    /\ UNCHANGED <<here, phones, bell, pushed, failures>>

Save(n) ==
    LET u == Head(task[n].queue) IN
    /\ task[n].at = "save" /\ task[n].usable /\ u \in here
    /\ bell' = [bell EXCEPT ![n][u] = "unread"]
    /\ task' = [task EXCEPT ![n].at = "push"]
    /\ UNCHANGED <<here, phones, pushed, failures>>

\* A commit expires what the session has loaded: reading the recipient's id,
\* or the owner's from the workshop, finds the deletion, and the session is
\* still usable.  The first administrator's id was loaded by the query.
RecipientGone(n) ==
    /\ task[n].at = "save" /\ task[n].usable
    /\ Head(task[n].queue) \notin here \/ Last(task[n].queue) \notin here
    /\ IsCopy(n) => task[n].served
    /\ AfterError(n, TRUE)
    /\ UNCHANGED <<here, phones, bell, pushed, failures>>

\* The foreign key, or an error of the database; nobody rolls back, so that
\* every later use of the session fails too.
SaveFails(n) ==
    /\ task[n].at = "save" /\ task[n].usable
    /\ \/ Head(task[n].queue) \notin here /\ UNCHANGED failures
       \/ failures < MaxFailures /\ failures' = failures + 1
    /\ AfterError(n, FALSE)
    /\ UNCHANGED <<here, phones, bell, pushed>>

SaveOnDeadSession(n) ==
    /\ task[n].at = "save" /\ ~task[n].usable
    /\ AfterError(n, FALSE)
    /\ UNCHANGED <<here, phones, bell, pushed, failures>>

\* The row is read back before the push, and may be gone with its user.
RefreshFails(n) ==
    /\ task[n].at = "push" /\ Head(task[n].queue) \notin here
    /\ AfterError(n, TRUE)
    /\ UNCHANGED <<here, phones, bell, pushed, failures>>

\* send_to_user raises nothing: no phone, no service, or an error of FCM.
Push(n, arrives) ==
    LET u == Head(task[n].queue) IN
    /\ task[n].at = "push"
    /\ pushed' = IF arrives /\ u \in here \cap phones
                 THEN pushed \cup {<<n, u>>} ELSE pushed
    /\ NextRecipient(n)
    /\ UNCHANGED <<here, phones, bell, failures>>

CrashTasks ==
    /\ failures < MaxFailures /\ failures' = failures + 1
    /\ task' = [n \in Notices |-> IF task[n].at \in {"save", "push"}
                                  THEN [task[n] EXCEPT !.at = "killed"]
                                  ELSE task[n]]
    /\ UNCHANGED <<here, phones, bell, pushed>>

-----------------------------------------------------------------------------
(* Users and the daily job.                                                *)

RegisterFcmToken(u) ==
    /\ u \in here \ phones
    /\ phones' = phones \cup {u}
    /\ UNCHANGED <<here, bell, pushed, task, failures>>

MarkAsRead(u, n) ==
    /\ u \in here /\ bell[n][u] = "unread"
    /\ bell' = [bell EXCEPT ![n][u] = "read"]
    /\ UNCHANGED <<here, phones, pushed, task, failures>>

\* Fault: age alone decides.
CleanupOld(old) ==
    /\ bell' = [n \in Notices |-> [u \in People |->
           IF u \in old /\ bell[n][u] \in {"read", "unread"}
           THEN "removed" ELSE bell[n][u]]]
    /\ UNCHANGED <<here, phones, pushed, task, failures>>

\* The rows older than 30 days, here those of some users.
CleanupOldNotifications(old) ==
    /\ bell' = [n \in Notices |-> [u \in People |->
           IF u \in old /\ bell[n][u] = "read"
           THEN "removed" ELSE bell[n][u]]]
    /\ UNCHANGED <<here, phones, pushed, task, failures>>

\* The rows go with the user.
RemoveUser(u) ==
    /\ u \in here
    /\ here' = here \ {u} /\ phones' = phones \ {u}
    /\ bell' = [n \in Notices |-> [bell[n] EXCEPT ![u] = "none"]]
    /\ UNCHANGED <<pushed, task, failures>>

TaskStep(n) ==
    \/ Save(n) \/ SaveFails(n) \/ SaveOnDeadSession(n) \/ RecipientGone(n)
    \/ RefreshFails(n)
    \/ \E arrives \in BOOLEAN : Push(n, arrives)

BellNext ==
    \/ \E n \in Notices : NotifyWorkshopNewOffer(n) \/ NotifyUser(n)
                          \/ TaskStep(n)
    \/ CrashTasks
    \/ \E u \in People : \/ RegisterFcmToken(u) \/ RemoveUser(u)
                         \/ \E n \in Notices : MarkAsRead(u, n)
    \/ \E old \in SUBSET People : CleanupOldNotifications(old)

BellSpec == BellInit /\ [][BellNext]_bellVars

-----------------------------------------------------------------------------
(* Properties.                                                             *)

\* Users, rows and tasks keep their types.
BellTypeOK ==
    /\ here \subseteq People /\ phones \subseteq here
    /\ bell \in [Notices -> [People -> {"none", "unread", "read", "removed"}]]
    /\ pushed \subseteq Notices \X People
    /\ task \in [Notices -> Tasks]
    /\ failures \in 0..MaxFailures

\* "Persistir SIEMPRE en BD": what was pushed to a phone is in the list of
\* the application too, unless its user has read it since or is gone.
PushedIsKept ==
    \A n \in Notices, u \in here :
        <<n, u>> \in pushed => bell[n][u] # "none"

\* A notification nobody has read disappears with its user only.
UnreadStays ==
    [][\A n \in Notices, u \in People :
          bell[n][u] = "unread" /\ bell'[n][u] \notin {"unread", "read"}
              => u \notin here']_bellVars

\* A copy that cannot be delivered silences nobody: the last recipient has
\* the row when the task is over, unless the session died or that user is
\* gone.
LastIsServed ==
    \A n \in Notices :
        LET u == Last(task[n].queue) IN
        task[n].at = "over" /\ task[n].usable /\ u \in here
            => bell[n][u] # "none"
=============================================================================
