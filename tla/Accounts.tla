------------------------------ MODULE Accounts ------------------------------
(***************************************************************************)
(* Verification codes, registrations, passwords and activation.            *)
(*                                                                         *)
(* A handler reads a code from the memory of its server instance, loads    *)
(* rows, commits, and deletes the code; other handlers run between these   *)
(* steps.  A commit writes the attributes whose value differs from what    *)
(* the handler's session loaded.                                           *)
(***************************************************************************)
EXTENDS Naturals, Sequences

CONSTANTS
    Emails,
    Servers,
    Handlers,
    Absent,       \* SQL NULL, and a field a request leaves out
    MaxCodes,     \* bound: codes sent
    MaxCalls,     \* bound: requests that change accounts
    MaxRemovals,  \* bound: accounts deleted
    MaxRestarts   \* bound: restarts of an instance

ASSUME AccountsAssumption ==
    /\ Absent \notin Emails \cup BOOLEAN
    /\ {MaxCodes, MaxCalls, MaxRemovals, MaxRestarts} \subseteq Nat

VARIABLES
    account,     \* users, with the clients or technicians row that joins it
    shop,        \* workshops.is_verified, by the owner's email
    codes,       \* code_store of each instance; 0 is no code
    issued,      \* the keys codes were stored for so far; a code is an index
    call,        \* what each handler is doing
    spent,       \* how many commits relied on each code
    removed,     \* how many accounts of each email were deleted
    calls, restartsDone

accountsVars == <<account, shop, codes, issued, call, spent, removed,
                  calls, restartsDone>>

-----------------------------------------------------------------------------
(* Rows.  An id tells a row from a later one with the same email;          *)
(* password stands for every personal column.                              *)

Passwords == {"old", "new"}

AccountRow ==
    [type     : {"none", "client", "owner", "technician"},
     id       : 0..MaxRemovals,
     active   : BOOLEAN,
     password : Passwords,
     employer : Emails \cup {Absent}]

NoAccount == [type |-> "none", id |-> 0, active |-> FALSE,
              password |-> "old", employer |-> Absent]

Exists(e) == account[e].type # "none"

\* An owner is a technician of the workshop and waits to be verified.
NewAccount(type, e, employer) ==
    [type |-> type, id |-> removed[e], active |-> type # "owner",
     password |-> "old", employer |-> employer]

Wants == [active : BOOLEAN \cup {Absent}, password : Passwords \cup {Absent}]

NoWish == [active |-> Absent, password |-> Absent]

Purposes == {"verification", "recovery"}
Keys == Purposes \X Emails
Codes == 1..MaxCodes

NoCodes == [k \in Keys |-> 0]

Calls ==
    [step     : {"idle", "register", "reset", "forget", "update", "admin",
                 "owner"},
     email    : Emails \cup {Absent},
     server   : Servers \cup {Absent},
     key      : Keys \cup {Absent},
     code     : 0..MaxCodes,
     type     : {"none", "client", "owner", "technician"},
     employer : Emails \cup {Absent},
     loaded   : AccountRow,
     verified : BOOLEAN \cup {Absent},
     wants    : Wants]

Resting == [step |-> "idle", email |-> Absent, server |-> Absent,
            key |-> Absent, code |-> 0, type |-> "none", employer |-> Absent,
            loaded |-> NoAccount, verified |-> Absent, wants |-> NoWish]

AccountsInit ==
    /\ account = [e \in Emails |-> NoAccount]
    /\ shop = [e \in Emails |-> Absent]
    /\ codes = [s \in Servers |-> NoCodes]
    /\ issued = <<>>
    /\ call = [h \in Handlers |-> Resting]
    /\ spent = [c \in Codes |-> 0]
    /\ removed = [e \in Emails |-> 0]
    /\ calls = 0 /\ restartsDone = 0

-----------------------------------------------------------------------------
(* Codes.                                                                  *)

StoreCode(s, key) ==
    /\ Len(issued) < MaxCodes
    /\ issued' = Append(issued, key)
    /\ codes' = [codes EXCEPT ![s][key] = Len(issued) + 1]
    /\ UNCHANGED <<account, shop, call, spent, removed, calls, restartsDone>>

SendVerificationCode(s, e) == StoreCode(s, <<"verification", e>>)

SendRecoveryCode(s, e) == Exists(e) /\ StoreCode(s, <<"recovery", e>>)

CodeExpires(s, key) ==
    /\ codes[s][key] # 0
    /\ codes' = [codes EXCEPT ![s][key] = 0]
    /\ UNCHANGED <<account, shop, issued, call, spent, removed, calls, restartsDone>>

-----------------------------------------------------------------------------
(* Handlers.                                                               *)

StartCall(h, c) ==
    /\ call[h].step = "idle" /\ calls < MaxCalls
    /\ calls' = calls + 1
    /\ call' = [call EXCEPT ![h] = c]
    /\ UNCHANGED <<account, shop, codes, issued, spent, removed, restartsDone>>

\* What every request starts from, of the user with email e.
CallFor(s, e, step) ==
    [Resting EXCEPT !.step = step, !.email = e, !.server = s]

\* An update of a row that the session has loaded.
UpdateOf(s, e, step, wish) ==
    [CallFor(s, e, step) EXCEPT !.loaded = account[e], !.wants = wish]

EndCall(h) == call' = [call EXCEPT ![h] = Resting]

\* create_client and register_public ask for a stored code, not which one.
RegisterWithCode(h, s, e, type) ==
    LET key == <<"verification", e>> IN
    /\ codes[s][key] # 0 /\ ~Exists(e)
    /\ StartCall(h, [CallFor(s, e, "register") EXCEPT
           !.key = key, !.code = codes[s][key], !.type = type,
           !.employer = IF type = "owner" THEN e ELSE Absent])

\* The owner's request is answered for the workshop it was loaded with.
CreateTechnician(h, s, e, w) ==
    /\ shop[w] # Absent /\ ~Exists(e)
    /\ StartCall(h, [CallFor(s, e, "register") EXCEPT
           !.type = "technician", !.employer = w])

ResetPassword(h, s, e) ==
    LET key == <<"recovery", e>> IN
    /\ codes[s][key] # 0 /\ Exists(e)
    /\ StartCall(h, [UpdateOf(s, e, "reset", [NoWish EXCEPT !.password = "new"])
           EXCEPT !.key = key, !.code = codes[s][key]])

\* PUT /profile by the user, and PUT of a technician or a client.
UpdateProfile(h, s, e) ==
    /\ Exists(e) /\ account[e].active
    /\ StartCall(h, UpdateOf(s, e, "update", [NoWish EXCEPT !.password = "new"]))

\* update_user of an administrator.
UpdateUser(h, s, e, active) ==
    /\ Exists(e)
    /\ StartCall(h, UpdateOf(s, e, "update", [NoWish EXCEPT !.active = active]))

\* A technician is deleted by clearing is_active.
DeleteTechnician(h, s, e) ==
    /\ account[e].employer # Absent
    /\ StartCall(h, UpdateOf(s, e, "update", [NoWish EXCEPT !.active = FALSE]))

\* Of the workshop's row, then of its owner's.
UpdateAdmin(h, s, e, verified) ==
    /\ shop[e] # Absent
    /\ StartCall(h, [CallFor(s, e, "admin") EXCEPT
           !.verified = shop[e], !.wants = [NoWish EXCEPT !.active = verified]])

-----------------------------------------------------------------------------
(* Commits.                                                                *)

Same(h) == LET c == call[h] IN
    Exists(c.email) /\ account[c.email].id = c.loaded.id

Chosen(wish, otherwise) == IF wish = Absent THEN otherwise ELSE wish

Wanted(h) == LET c == call[h] IN
    [c.loaded EXCEPT !.active = Chosen(c.wants.active, c.loaded.active),
                     !.password = Chosen(c.wants.password, c.loaded.password)]

\* Fault: every column of the loaded row is written.
WriteWholeRow(now, loaded, new) == new

WriteChanges(now, loaded, new) ==
    [f \in DOMAIN now |-> IF new[f] # loaded[f] THEN new[f] ELSE now[f]]

Spend(code) ==
    spent' = [c \in Codes |-> IF c = code THEN spent[c] + 1 ELSE spent[c]]

\* Fault: the workshop and its owner are committed one after the other.
CommitRegistrationTwice(h) ==
    LET c == call[h] IN
    /\ c.step = "register"
    /\ IF c.type = "owner" /\ shop[c.email] = Absent
       THEN /\ shop' = [shop EXCEPT ![c.email] = FALSE]
            /\ UNCHANGED <<account, spent, call>>
       ELSE /\ account' = [account EXCEPT ![c.email] =
                               NewAccount(c.type, c.email, c.employer)]
            /\ Spend(c.code)
            /\ IF c.code = 0 THEN EndCall(h)
               ELSE call' = [call EXCEPT ![h].step = "forget"]
            /\ UNCHANGED shop
    /\ UNCHANGED <<codes, issued, removed, calls, restartsDone>>

\* Fault: nothing makes the email unique.
CommitRegistrationAnyway(h) ==
    LET c == call[h] IN
    /\ c.step = "register"
    /\ account' = [account EXCEPT ![c.email] =
                       NewAccount(c.type, c.email, c.employer)]
    /\ shop' = IF c.type = "owner"
               THEN [shop EXCEPT ![c.email] = FALSE] ELSE shop
    /\ Spend(c.code)
    /\ IF c.code = 0 THEN EndCall(h)
       ELSE call' = [call EXCEPT ![h].step = "forget"]
    /\ UNCHANGED <<codes, issued, removed, calls, restartsDone>>

\* The email is unique, and a technician's workshop must still be there.
CommitRegistration(h) ==
    LET c == call[h]
        refused == \/ Exists(c.email)
                   \/ c.type = "technician" /\ shop[c.employer] = Absent IN
    /\ c.step = "register"
    /\ IF refused
       THEN EndCall(h) /\ UNCHANGED <<account, shop, spent>>
       ELSE /\ account' = [account EXCEPT ![c.email] =
                               NewAccount(c.type, c.email, c.employer)]
            /\ shop' = IF c.type = "owner"
                       THEN [shop EXCEPT ![c.email] = FALSE] ELSE shop
            /\ Spend(c.code)
            /\ IF c.code = 0 THEN EndCall(h)
               ELSE call' = [call EXCEPT ![h].step = "forget"]
    /\ UNCHANGED <<codes, issued, removed, calls, restartsDone>>

\* A row that is gone makes the commit fail.
CommitUpdate(h) ==
    LET c == call[h] IN
    /\ c.step \in {"update", "reset"}
    /\ IF ~Same(h)
       THEN EndCall(h) /\ UNCHANGED <<account, spent>>
       ELSE /\ Spend(c.code)
            /\ account' = [account EXCEPT ![c.email] =
                               WriteChanges(@, c.loaded, Wanted(h))]
            /\ IF c.step = "update" THEN EndCall(h)
               ELSE call' = [call EXCEPT ![h].step = "forget"]
    /\ UNCHANGED <<shop, codes, issued, removed, calls, restartsDone>>

\* Fault: only a registration deletes its code.
ForgetCodeOfRegistration(h) ==
    LET c == call[h] IN
    /\ c.step = "forget"
    /\ codes' = IF c.type = "none" THEN codes
                ELSE [codes EXCEPT ![c.server][c.key] = 0]
    /\ EndCall(h)
    /\ UNCHANGED <<account, shop, issued, spent, removed, calls, restartsDone>>

\* Whatever code is stored by now.
ForgetCode(h) ==
    LET c == call[h] IN
    /\ c.step = "forget"
    /\ codes' = [codes EXCEPT ![c.server][c.key] = 0]
    /\ EndCall(h)
    /\ UNCHANGED <<account, shop, issued, spent, removed, calls, restartsDone>>

LoadOwner(h) ==
    LET c == call[h] IN
    /\ c.step = "admin"
    /\ call' = [call EXCEPT ![h].step = "owner",
                            ![h].loaded = account[c.email]]
    /\ UNCHANGED <<account, shop, codes, issued, spent, removed, calls, restartsDone>>

\* One transaction for both rows.
CommitAdmin(h) ==
    LET c == call[h]
        gone == shop[c.email] = Absent \/ ~Same(h) IN
    /\ c.step = "owner"
    /\ IF gone THEN UNCHANGED <<account, shop>>
       ELSE /\ shop' = IF c.wants.active = c.verified THEN shop
                       ELSE [shop EXCEPT ![c.email] = c.wants.active]
            /\ account' = [account EXCEPT ![c.email] =
                               WriteChanges(@, c.loaded, Wanted(h))]
    /\ EndCall(h)
    /\ UNCHANGED <<codes, issued, spent, removed, calls, restartsDone>>

\* The owner's workshop goes with the row, and so do the technicians rows of
\* that workshop; the users rows of these technicians stay.
DeleteUser(e) ==
    /\ Exists(e) /\ removed[e] < MaxRemovals
    /\ account' = [a \in Emails |->
           IF a = e THEN NoAccount
           ELSE IF account[a].employer = e
                THEN [account[a] EXCEPT !.employer = Absent]
                ELSE account[a]]
    /\ shop' = [shop EXCEPT ![e] = Absent]
    /\ removed' = [removed EXCEPT ![e] = @ + 1]
    /\ UNCHANGED <<codes, issued, call, spent, calls, restartsDone>>

RestartServer(s) ==
    /\ restartsDone < MaxRestarts
    /\ restartsDone' = restartsDone + 1
    /\ codes' = [codes EXCEPT ![s] = NoCodes]
    /\ call' = [h \in Handlers |-> IF call[h].server = s
                                   THEN Resting ELSE call[h]]
    /\ UNCHANGED <<account, shop, issued, spent, removed, calls>>

AccountsRequest(h, s, e) ==
    \/ \E type \in {"client", "owner"} : RegisterWithCode(h, s, e, type)
    \/ \E w \in Emails : CreateTechnician(h, s, e, w)
    \/ ResetPassword(h, s, e)
    \/ UpdateProfile(h, s, e)
    \/ \E active \in BOOLEAN : UpdateUser(h, s, e, active)
    \/ DeleteTechnician(h, s, e)
    \/ \E verified \in BOOLEAN : UpdateAdmin(h, s, e, verified)

AccountsStep(h) ==
    \/ CommitRegistration(h) \/ CommitUpdate(h) \/ ForgetCode(h)
    \/ LoadOwner(h) \/ CommitAdmin(h)

AccountsNext ==
    \/ \E s \in Servers : \/ \E e \in Emails : \/ SendVerificationCode(s, e)
                                               \/ SendRecoveryCode(s, e)
                          \/ \E key \in Keys : CodeExpires(s, key)
                          \/ RestartServer(s)
    \/ \E h \in Handlers : \/ \E s \in Servers, e \in Emails :
                                  AccountsRequest(h, s, e)
                           \/ AccountsStep(h)
    \/ \E e \in Emails : DeleteUser(e)

AccountsSpec == AccountsInit /\ [][AccountsNext]_accountsVars

-----------------------------------------------------------------------------
(* Properties.                                                             *)

\* Rows, codes and calls keep their types.
AccountsTypeOK ==
    /\ account \in [Emails -> AccountRow]
    /\ shop \in [Emails -> BOOLEAN \cup {Absent}]
    /\ codes \in [Servers -> [Keys -> 0..MaxCodes]]
    /\ issued \in Seq(Keys) /\ Len(issued) <= MaxCodes
    /\ call \in [Handlers -> Calls]
    /\ spent \in [Codes -> Nat]
    /\ removed \in [Emails -> 0..MaxRemovals]
    /\ calls \in 0..MaxCalls /\ restartsDone \in 0..MaxRestarts

\* "uso unico": a verification code creates one account, even when several
\* registrations read it before the first of them deletes it; a late one
\* succeeds only if that account was deleted meanwhile.
RegisteredOnce ==
    \A c \in 1..Len(issued) :
        issued[c][1] = "verification" => spent[c] <= 1 + removed[issued[c][2]]

\* Once the handlers that rely on a code have ended, the code is stored
\* nowhere: neither a failed commit, nor a newer code under the same key, nor
\* a restart leaves a spent code in use.
SpentCodeDies ==
    \A c \in Codes :
        spent[c] > 0 /\ (\A h \in Handlers : call[h].code # c) =>
            \A s \in Servers, key \in Keys : codes[s][key] # c

\* A workshop is registered with its owner or not at all, whatever fails or
\* overlaps, and goes with it; a technician's workshop exists.
RegistrationWhole ==
    \A e \in Emails :
        /\ shop[e] # Absent <=> account[e].type = "owner"
        /\ account[e].employer # Absent => shop[account[e].employer] # Absent

\* No interleaving gives back what a request did not ask for: a deactivated
\* account stays so, and a new password stays, however old the row is that
\* another handler has loaded.
OnlyAsked ==
    [][\A e \in Emails :
          LET old == account[e] new == account'[e]
              asked(h) == call[h].step # "idle" /\ call[h].email = e IN
          old.type # "none" /\ new.type # "none" =>
              /\ old.active # new.active =>
                     \E h \in Handlers : asked(h)
                                         /\ call[h].wants.active = new.active
              /\ old.password # new.password =>
                     \E h \in Handlers : asked(h)
                                         /\ call[h].wants.password = new.password
      ]_accountsVars
=============================================================================
