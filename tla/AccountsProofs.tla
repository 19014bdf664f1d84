--------------------------- MODULE AccountsProofs ---------------------------
(***************************************************************************)
(* That a code creates one account, that a workshop and its owner are      *)
(* registered together, and that no commit changes what its request did    *)
(* not ask for: for any number of handlers, servers and accounts.          *)
(*                                                                         *)
(* The argument: a registration holds a code that was stored for its own   *)
(* email, and commits only if no account has that email.  So an account,   *)
(* present or deleted, stands behind every use of a code.                  *)
(***************************************************************************)
EXTENDS Accounts, TLAPS

\* What a handler may rely on at each of its steps.
CallFits(c) ==
    /\ c.step # "idle" => c.email \in Emails
    /\ c.code # 0 =>
          /\ c.step \in {"register", "reset", "forget"}
          /\ c.code \in 1..Len(issued)
          /\ c.key \in Keys
          /\ issued[c.code] = c.key
    /\ c.step = "register" =>
          /\ c.code # 0 => c.key = <<"verification", c.email>>
          /\ \/ c.type = "client" /\ c.employer = Absent
             \/ c.type = "owner" /\ c.employer = c.email
             \/ c.type = "technician" /\ c.employer \in Emails
    /\ c.step = "reset" => c.key = <<"recovery", c.email>>
    /\ c.step = "update" => c.code = 0
    /\ c.step \in {"admin", "owner"} => c.wants.active \in BOOLEAN

\* A code lies under the key it was stored for.
CodesFit ==
    \A s \in Servers, key \in Keys :
        codes[s][key] # 0 => /\ codes[s][key] \in 1..Len(issued)
                             /\ issued[codes[s][key]] = key

\* An account, present or deleted, stands behind every use of a code.
UsesFit ==
    /\ \A c \in Codes : c > Len(issued) => spent[c] = 0
    /\ \A c \in 1..Len(issued) : \A e \in Emails :
           issued[c] = <<"verification", e>> =>
               /\ spent[c] <= 1 + removed[e]
               /\ ~Exists(e) => spent[c] <= removed[e]

AccountsInv ==
    /\ AccountsTypeOK
    /\ CodesFit
    /\ \A h \in Handlers : CallFits(call[h])
    /\ UsesFit
    /\ RegistrationWhole

-----------------------------------------------------------------------------
(* Records.                                                                *)

LEMMA RestingIsCall == Resting \in Calls /\ Resting.code = 0 /\ NoWish \in Wants
BY AccountsAssumption
   DEF Resting, NoWish, NoAccount, Calls, Wants, AccountRow, Passwords

LEMMA CallForIsCall ==
  ASSUME NEW s \in Servers, NEW e \in Emails,
         NEW step \in {"register", "reset", "update", "admin"}
  PROVE  /\ CallFor(s, e, step) \in Calls
         /\ CallFor(s, e, step).step = step
         /\ CallFor(s, e, step).email = e
         /\ CallFor(s, e, step).code = 0
BY RestingIsCall DEF CallFor, Calls

LEMMA UpdateOfIsCall ==
  ASSUME AccountsTypeOK, NEW s \in Servers, NEW e \in Emails,
         NEW step \in {"reset", "update"}, NEW wish \in Wants
  PROVE  /\ UpdateOf(s, e, step, wish) \in Calls
         /\ UpdateOf(s, e, step, wish).step = step
         /\ UpdateOf(s, e, step, wish).email = e
         /\ UpdateOf(s, e, step, wish).code = 0
<1>1. account[e] \in AccountRow
  BY DEF AccountsTypeOK
<1> QED
  <2> DEFINE c == CallFor(s, e, step)
  <2>1. c \in Calls /\ c.step = step /\ c.email = e /\ c.code = 0
    BY CallForIsCall
  <2> HIDE DEF c
  <2>2. UpdateOf(s, e, step, wish)
            = [c EXCEPT !.loaded = account[e], !.wants = wish]
    BY DEF c, UpdateOf
  <2> QED
    BY <1>1, <2>1, <2>2 DEF Calls

LEMMA InitFits == AccountsInit => AccountsInv
<1> SUFFICES ASSUME AccountsInit PROVE AccountsInv
  OBVIOUS
<1> USE AccountsAssumption DEF AccountsInit
<1>1. AccountsTypeOK
  <2>1. NoAccount \in AccountRow
    BY DEF NoAccount, AccountRow, Passwords
  <2>2. NoCodes \in [Keys -> 0..MaxCodes]
    BY DEF NoCodes
  <2> QED
    BY <2>1, <2>2, RestingIsCall DEF AccountsTypeOK
<1>2. CodesFit
  BY DEF CodesFit, NoCodes
<1>3. \A h \in Handlers : CallFits(call[h])
  BY DEF CallFits, Resting
<1>4. UsesFit
  BY DEF UsesFit, Codes
<1>5. RegistrationWhole
  BY DEF RegistrationWhole, NoAccount
<1> QED
  BY <1>1, <1>2, <1>3, <1>4, <1>5 DEF AccountsInv

-----------------------------------------------------------------------------
(* Codes.                                                                  *)

LEMMA StoreCodeKeeps ==
  ASSUME AccountsInv, NEW s \in Servers, NEW key \in Keys, StoreCode(s, key)
  PROVE  AccountsInv'
<1> USE DEF StoreCode
<1>0. Len(issued) \in Nat /\ issued \in Seq(Keys)
  BY DEF AccountsInv, AccountsTypeOK
<1>1. Len(issued') = Len(issued) + 1 /\ issued' \in Seq(Keys)
  BY <1>0
<1>2. /\ \A c \in 1..Len(issued) : issued'[c] = issued[c]
      /\ issued'[Len(issued) + 1] = key
  BY <1>0
<1>3. AccountsTypeOK'
  <2>1. Len(issued) + 1 \in 0..MaxCodes
    BY <1>0, AccountsAssumption
  <2>2. codes' \in [Servers -> [Keys -> 0..MaxCodes]]
    BY <2>1 DEF AccountsInv, AccountsTypeOK
  <2> QED
    BY <1>1, <2>1, <2>2 DEF AccountsInv, AccountsTypeOK
<1>4. CodesFit'
  <2> SUFFICES ASSUME NEW t \in Servers, NEW k \in Keys, codes'[t][k] # 0
               PROVE  /\ codes'[t][k] \in 1..Len(issued')
                      /\ issued'[codes'[t][k]] = k
    BY DEF CodesFit
  <2>1. CASE t = s /\ k = key
    BY <1>0, <1>1, <1>2, <2>1 DEF AccountsInv, AccountsTypeOK
  <2>2. CASE ~(t = s /\ k = key)
    <3>1. codes'[t][k] = codes[t][k]
      BY <2>2 DEF AccountsInv, AccountsTypeOK
    <3> QED
      BY <3>1, <1>0, <1>1, <1>2 DEF AccountsInv, CodesFit
  <2> QED
    BY <2>1, <2>2
<1>5. \A h \in Handlers : CallFits(call[h])'
  BY <1>0, <1>1, <1>2 DEF AccountsInv, CallFits
<1>6. UsesFit'
  <2>1. \A c \in Codes : c > Len(issued') => spent'[c] = 0
    BY <1>0, <1>1 DEF AccountsInv, UsesFit, Codes
  <2>2. ASSUME NEW c \in 1..Len(issued'), NEW e \in Emails,
               issued'[c] = <<"verification", e>>
        PROVE  /\ spent'[c] <= 1 + removed'[e]
               /\ ~Exists(e)' => spent'[c] <= removed'[e]
    <3>1. CASE c \in 1..Len(issued)
      BY <3>1, <1>2, <2>2 DEF AccountsInv, UsesFit, Exists
    <3>2. CASE c = Len(issued) + 1
      <4>1. c \in Codes /\ c > Len(issued)
        BY <3>2, <1>0, AccountsAssumption DEF Codes
      <4>2. spent'[c] = 0
        BY <4>1 DEF AccountsInv, UsesFit
      <4>3. removed'[e] \in Nat
        BY AccountsAssumption DEF AccountsInv, AccountsTypeOK
      <4> QED
        BY <4>2, <4>3
    <3> QED
      BY <3>1, <3>2, <1>0, <1>1
  <2> QED
    BY <2>1, <2>2 DEF UsesFit
<1>7. RegistrationWhole'
  BY DEF AccountsInv, RegistrationWhole
<1> QED
  BY <1>3, <1>4, <1>5, <1>6, <1>7 DEF AccountsInv

\* Codes that are taken away, and calls that are replaced by ones that fit.
LEMMA HandlersKeep ==
  ASSUME AccountsInv, UNCHANGED <<account, shop, issued, spent, removed>>,
         call' \in [Handlers -> Calls],
         \A h \in Handlers : CallFits(call'[h]),
         codes' \in [Servers -> [Keys -> 0..MaxCodes]],
         \A s \in Servers, k \in Keys : codes'[s][k] \in {0, codes[s][k]},
         calls' \in 0..MaxCalls, restartsDone' \in 0..MaxRestarts
  PROVE  AccountsInv'
<1>1. AccountsTypeOK'
  BY DEF AccountsInv, AccountsTypeOK
<1>2. CodesFit'
  BY DEF AccountsInv, CodesFit
<1>3. \A h \in Handlers : CallFits(call[h])'
  BY DEF CallFits
<1>4. UsesFit'
  BY DEF AccountsInv, UsesFit, Exists
<1>5. RegistrationWhole'
  BY DEF AccountsInv, RegistrationWhole
<1> QED
  BY <1>1, <1>2, <1>3, <1>4, <1>5 DEF AccountsInv

LEMMA RestingFits == CallFits(Resting)
BY DEF CallFits, Resting

LEMMA StartKeeps ==
  ASSUME AccountsInv, NEW h \in Handlers, NEW c \in Calls, CallFits(c),
         StartCall(h, c)
  PROVE  AccountsInv'
<1>1. call' \in [Handlers -> Calls]
  BY DEF StartCall, AccountsInv, AccountsTypeOK
<1>2. \A g \in Handlers : CallFits(call'[g])
  BY DEF StartCall, AccountsInv, AccountsTypeOK
<1>3. calls' \in 0..MaxCalls
  BY AccountsAssumption DEF StartCall, AccountsInv, AccountsTypeOK
<1> QED
  BY <1>1, <1>2, <1>3, HandlersKeep DEF StartCall, AccountsInv, AccountsTypeOK

-----------------------------------------------------------------------------
(* Requests.                                                               *)

LEMMA RegisterStarts ==
  ASSUME AccountsInv, NEW h \in Handlers, NEW s \in Servers, NEW e \in Emails,
         \/ \E type \in {"client", "owner"} : RegisterWithCode(h, s, e, type)
         \/ \E w \in Emails : CreateTechnician(h, s, e, w)
  PROVE  AccountsInv'
<1> DEFINE c0 == CallFor(s, e, "register")
<1>1. /\ c0 \in Calls /\ c0.step = "register" /\ c0.email = e /\ c0.code = 0
  BY CallForIsCall
<1> HIDE DEF c0
<1>2. ASSUME NEW type \in {"client", "owner"}, RegisterWithCode(h, s, e, type)
      PROVE  AccountsInv'
  <2> DEFINE key == <<"verification", e>>
             c == [c0 EXCEPT !.key = key, !.code = codes[s][key], !.type = type,
                             !.employer = IF type = "owner" THEN e ELSE Absent]
  <2>1. key \in Keys
    BY DEF Keys, Purposes
  <2>2. codes[s][key] \in 0..MaxCodes
    BY <2>1 DEF AccountsInv, AccountsTypeOK
  <2>3. codes[s][key] \in 1..Len(issued) /\ issued[codes[s][key]] = key
    BY <2>1, <1>2 DEF RegisterWithCode, AccountsInv, CodesFit
  <2>4. /\ c \in Calls /\ c.step = "register" /\ c.email = e
        /\ c.code = codes[s][key] /\ c.key = key /\ c.type = type
        /\ c.employer = IF type = "owner" THEN e ELSE Absent
    BY <1>1, <2>1, <2>2 DEF Calls
  <2>5. StartCall(h, c)
    BY <1>2 DEF RegisterWithCode, c0
  <2> HIDE DEF c, key
  <2>6. CallFits(c)
    BY <2>1, <2>3, <2>4 DEF CallFits, key
  <2> QED
    BY <2>4, <2>5, <2>6, StartKeeps
<1>3. ASSUME NEW w \in Emails, CreateTechnician(h, s, e, w)
      PROVE  AccountsInv'
  <2> DEFINE c == [c0 EXCEPT !.type = "technician", !.employer = w]
  <2>1. /\ c \in Calls /\ c.step = "register" /\ c.email = e /\ c.code = 0
        /\ c.type = "technician" /\ c.employer = w
    BY <1>1 DEF Calls
  <2>2. StartCall(h, c)
    BY <1>3 DEF CreateTechnician, c0
  <2> HIDE DEF c
  <2>3. CallFits(c)
    BY <2>1 DEF CallFits
  <2> QED
    BY <2>1, <2>2, <2>3, StartKeeps
<1> QED
  BY <1>2, <1>3

LEMMA ResetStarts ==
  ASSUME AccountsInv, NEW h \in Handlers, NEW s \in Servers, NEW e \in Emails,
         ResetPassword(h, s, e)
  PROVE  AccountsInv'
<1> DEFINE wish == [NoWish EXCEPT !.password = "new"]
           c0 == UpdateOf(s, e, "reset", wish)
           key == <<"recovery", e>>
           c == [c0 EXCEPT !.key = key, !.code = codes[s][key]]
<1>1. wish \in Wants
  BY RestingIsCall DEF Wants, Passwords
<1>2. c0 \in Calls /\ c0.step = "reset" /\ c0.email = e
  BY <1>1, UpdateOfIsCall DEF AccountsInv
<1>3. key \in Keys
  BY DEF Keys, Purposes
<1>4. codes[s][key] \in 0..MaxCodes
  BY <1>3 DEF AccountsInv, AccountsTypeOK
<1>5. codes[s][key] \in 1..Len(issued) /\ issued[codes[s][key]] = key
  BY <1>3 DEF ResetPassword, AccountsInv, CodesFit
<1>6. StartCall(h, c)
  BY DEF ResetPassword
<1> HIDE DEF c0
<1>7. /\ c \in Calls /\ c.step = "reset" /\ c.email = e
      /\ c.code = codes[s][key] /\ c.key = key
  BY <1>2, <1>3, <1>4 DEF Calls
<1> HIDE DEF c
<1>8. CallFits(c)
  BY <1>3, <1>5, <1>7 DEF CallFits
<1> QED
  BY <1>6, <1>7, <1>8, StartKeeps

LEMMA UpdateStarts ==
  ASSUME AccountsInv, NEW h \in Handlers, NEW s \in Servers, NEW e \in Emails,
         NEW wish \in Wants, StartCall(h, UpdateOf(s, e, "update", wish))
  PROVE  AccountsInv'
<1>1. LET c == UpdateOf(s, e, "update", wish) IN
      c \in Calls /\ c.step = "update" /\ c.email = e /\ c.code = 0
  BY UpdateOfIsCall DEF AccountsInv
<1>2. CallFits(UpdateOf(s, e, "update", wish))
  BY <1>1 DEF CallFits
<1> QED
  BY <1>1, <1>2, StartKeeps

LEMMA AdminStarts ==
  ASSUME AccountsInv, NEW h \in Handlers, NEW s \in Servers, NEW e \in Emails,
         NEW verified \in BOOLEAN, UpdateAdmin(h, s, e, verified)
  PROVE  AccountsInv'
<1> DEFINE c0 == CallFor(s, e, "admin")
           wish == [NoWish EXCEPT !.active = verified]
           c == [c0 EXCEPT !.verified = shop[e], !.wants = wish]
<1>1. c0 \in Calls /\ c0.step = "admin" /\ c0.email = e /\ c0.code = 0
  BY CallForIsCall
<1>2. wish \in Wants /\ wish.active = verified
  BY RestingIsCall DEF Wants
<1>3. shop[e] \in BOOLEAN \cup {Absent}
  BY DEF AccountsInv, AccountsTypeOK
<1>4. StartCall(h, c)
  BY DEF UpdateAdmin
<1> HIDE DEF c0, wish
<1>5. /\ c \in Calls /\ c.step = "admin" /\ c.email = e /\ c.wants = wish
      /\ c.code = 0
  BY <1>1, <1>2, <1>3 DEF Calls
<1> HIDE DEF c
<1>6. CallFits(c)
  BY <1>2, <1>5 DEF CallFits
<1> QED
  BY <1>4, <1>5, <1>6, StartKeeps

LEMMA RequestKeeps ==
  ASSUME AccountsInv, NEW h \in Handlers, NEW s \in Servers, NEW e \in Emails,
         AccountsRequest(h, s, e)
  PROVE  AccountsInv'
<1>1. CASE UpdateProfile(h, s, e)
  <2>1. [NoWish EXCEPT !.password = "new"] \in Wants
    BY RestingIsCall DEF Wants, Passwords
  <2> QED
    BY <1>1, <2>1, UpdateStarts DEF UpdateProfile
<1>2. ASSUME NEW active \in BOOLEAN, UpdateUser(h, s, e, active)
      PROVE  AccountsInv'
  <2>1. [NoWish EXCEPT !.active = active] \in Wants
    BY RestingIsCall DEF Wants
  <2> QED
    BY <1>2, <2>1, UpdateStarts DEF UpdateUser
<1>3. CASE DeleteTechnician(h, s, e)
  <2>1. [NoWish EXCEPT !.active = FALSE] \in Wants
    BY RestingIsCall DEF Wants
  <2> QED
    BY <1>3, <2>1, UpdateStarts DEF DeleteTechnician
<1> QED
  BY <1>1, <1>2, <1>3, RegisterStarts, ResetStarts, AdminStarts
     DEF AccountsRequest

-----------------------------------------------------------------------------
(* Commits.                                                                *)

\* What a handler becomes after its commit.
Ends(h) ==
    \/ call' = [call EXCEPT ![h] = Resting]
    \/ call' = [call EXCEPT ![h].step = "forget"]

LEMMA EndsFit ==
  ASSUME AccountsInv, NEW h \in Handlers, call[h].step # "idle", Ends(h)
  PROVE  /\ call' \in [Handlers -> Calls]
         /\ \A g \in Handlers : CallFits(call'[g])
<1>0. call \in [Handlers -> Calls] /\ call[h] \in Calls
  BY DEF AccountsInv, AccountsTypeOK
<1>1. CASE call' = [call EXCEPT ![h] = Resting]
  BY <1>0, <1>1, RestingIsCall, RestingFits DEF AccountsInv
<1>2. CASE call' = [call EXCEPT ![h].step = "forget"]
  <2> DEFINE c == [call[h] EXCEPT !.step = "forget"]
  <2>1. /\ c \in Calls /\ c.step = "forget" /\ c.email = call[h].email
        /\ c.code = call[h].code /\ c.key = call[h].key
    BY <1>0 DEF Calls
  <2>2. call' = [call EXCEPT ![h] = c]
    BY <1>2
  <2> HIDE DEF c
  <2>3. CallFits(c)
    BY <2>1 DEF AccountsInv, CallFits
  <2> QED
    BY <1>0, <2>1, <2>2, <2>3 DEF AccountsInv
<1> QED
  BY <1>1, <1>2 DEF Ends

LEMMA SpendCounts ==
  ASSUME AccountsInv, NEW code \in 0..MaxCodes, Spend(code)
  PROVE  /\ spent' \in [Codes -> Nat]
         /\ \A c \in Codes : spent'[c] = IF c = code THEN spent[c] + 1
                                         ELSE spent[c]
BY DEF Spend, AccountsInv, AccountsTypeOK

LEMMA LoadedIsTyped ==
  ASSUME AccountsTypeOK, NEW h \in Handlers
  PROVE  /\ call[h] \in Calls
         /\ call[h].loaded \in AccountRow /\ call[h].wants \in Wants
         /\ call[h].code \in 0..MaxCodes
BY DEF AccountsTypeOK, Calls

\* A commit writes the columns the request asked for, and no other.
LEMMA ChangesAsked ==
  ASSUME AccountsTypeOK, NEW h \in Handlers, NEW now \in AccountRow
  PROVE  LET r == WriteChanges(now, call[h].loaded, Wanted(h)) IN
         /\ r \in AccountRow
         /\ r.type = now.type /\ r.id = now.id /\ r.employer = now.employer
         /\ r.active # now.active => r.active = call[h].wants.active
         /\ r.password # now.password => r.password = call[h].wants.password
<1> DEFINE l == call[h].loaded
           w == call[h].wants
           n == Wanted(h)
           r == WriteChanges(now, l, n)
<1>1. l \in AccountRow /\ w \in Wants
  BY LoadedIsTyped
<1>2. n = [l EXCEPT !.active = Chosen(w.active, l.active),
                    !.password = Chosen(w.password, l.password)]
  BY DEF Wanted
<1> HIDE DEF l, w, n
<1>3. /\ n.type = l.type /\ n.id = l.id /\ n.employer = l.employer
      /\ n.active = Chosen(w.active, l.active)
      /\ n.password = Chosen(w.password, l.password)
  BY <1>1, <1>2 DEF AccountRow
<1>4. DOMAIN now = {"type", "id", "active", "password", "employer"}
  BY DEF AccountRow
<1>5. r = [type |-> now.type, id |-> now.id,
           active |-> IF n.active # l.active THEN n.active ELSE now.active,
           password |-> IF n.password # l.password THEN n.password
                        ELSE now.password,
           employer |-> now.employer]
  BY <1>3, <1>4 DEF WriteChanges
<1>6. n.active # l.active => n.active = w.active /\ w.active \in BOOLEAN
  BY <1>1, <1>3 DEF Chosen, Wants
<1>7. n.password # l.password => n.password = w.password /\ w.password \in Passwords
  BY <1>1, <1>3 DEF Chosen, Wants
<1> HIDE DEF r
<1>8. r \in AccountRow
  BY <1>5, <1>6, <1>7 DEF AccountRow
<1>9. /\ r.type = now.type /\ r.id = now.id /\ r.employer = now.employer
      /\ r.active = (IF n.active # l.active THEN n.active ELSE now.active)
      /\ r.password = (IF n.password # l.password THEN n.password
                       ELSE now.password)
  BY <1>5
<1> QED
  BY <1>6, <1>7, <1>8, <1>9 DEF r, l, w, n

LEMMA UpdateCommitKeeps ==
  ASSUME AccountsInv, NEW h \in Handlers, CommitUpdate(h)
  PROVE  AccountsInv'
<1> USE DEF CommitUpdate
<1> DEFINE e == call[h].email
           r == WriteChanges(account[e], call[h].loaded, Wanted(h))
<1>1. call[h].step \in {"update", "reset"} /\ e \in Emails
  BY DEF AccountsInv, CallFits
<1>2. Ends(h)
  BY DEF Ends, EndCall
<1>3. /\ call' \in [Handlers -> Calls]
      /\ \A g \in Handlers : CallFits(call'[g])
  BY <1>1, <1>2, EndsFit
<1>4. CASE ~Same(h)
  BY <1>3, <1>4, HandlersKeep DEF AccountsInv, AccountsTypeOK
<1>5. CASE Same(h)
  <2>1. account[e] \in AccountRow
    BY <1>1 DEF AccountsInv, AccountsTypeOK
  <2>2. /\ r \in AccountRow /\ r.type = account[e].type
        /\ r.employer = account[e].employer
    BY <2>1, ChangesAsked DEF AccountsInv
  <2>3. account' = [account EXCEPT ![e] = r] /\ Spend(call[h].code)
    BY <1>5
  <2> HIDE DEF r
  <2>4. /\ \A a \in Emails : /\ account'[a].type = account[a].type
                             /\ account'[a].employer = account[a].employer
        /\ account' \in [Emails -> AccountRow]
    BY <1>1, <2>2, <2>3 DEF AccountsInv, AccountsTypeOK
  <2>5. call[h].code \in 0..MaxCodes
    BY LoadedIsTyped DEF AccountsInv
  <2>6. /\ spent' \in [Codes -> Nat]
        /\ \A c \in Codes : spent'[c] = IF c = call[h].code THEN spent[c] + 1
                                        ELSE spent[c]
    BY <2>3, <2>5, SpendCounts
  <2>7. AccountsTypeOK'
    BY <1>3, <2>4, <2>6 DEF AccountsInv, AccountsTypeOK
  <2>8. CodesFit'
    BY DEF AccountsInv, CodesFit
  <2>9. \A g \in Handlers : CallFits(call[g])'
    BY <1>3 DEF CallFits
  <2>10. UsesFit'
    <3>1. ASSUME NEW c \in Codes, c = call[h].code
          PROVE  c \in 1..Len(issued) /\ issued[c] = <<"recovery", e>>
      BY <1>1, <3>1 DEF AccountsInv, CallFits, Codes
    <3>2. \A c \in 1..Len(issued) : c \in Codes
      BY AccountsAssumption DEF AccountsInv, AccountsTypeOK, Codes
    <3>3. \A c \in Codes : c > Len(issued') => spent'[c] = 0
      BY <2>6, <3>1 DEF AccountsInv, AccountsTypeOK, UsesFit
    <3>4. ASSUME NEW c \in 1..Len(issued), NEW a \in Emails,
                 issued[c] = <<"verification", a>>
          PROVE  spent'[c] = spent[c]
      BY <2>6, <3>1, <3>2, <3>4
    <3> QED
      BY <2>4, <3>3, <3>4 DEF AccountsInv, UsesFit, Exists
  <2>11. RegistrationWhole'
    BY <2>4 DEF AccountsInv, RegistrationWhole
  <2> QED
    BY <2>7, <2>8, <2>9, <2>10, <2>11 DEF AccountsInv
<1> QED
  BY <1>4, <1>5

LEMMA ForgetKeeps ==
  ASSUME AccountsInv, NEW h \in Handlers, ForgetCode(h)
  PROVE  AccountsInv'
<1>1. call[h].step # "idle" /\ Ends(h)
  BY DEF ForgetCode, EndCall, Ends
<1>2. /\ call' \in [Handlers -> Calls]
      /\ \A g \in Handlers : CallFits(call'[g])
  BY <1>1, EndsFit
<1>3. /\ codes' \in [Servers -> [Keys -> 0..MaxCodes]]
      /\ \A s \in Servers, k \in Keys : codes'[s][k] \in {0, codes[s][k]}
  <2> DEFINE s == call[h].server
             k == call[h].key
  <2>0. codes \in [Servers -> [Keys -> 0..MaxCodes]] /\ 0 \in 0..MaxCodes
    BY AccountsAssumption DEF AccountsInv, AccountsTypeOK
  <2>1. codes' = [codes EXCEPT ![s] = [codes[s] EXCEPT ![k] = 0]]
    BY DEF ForgetCode
  <2> HIDE DEF s, k
  <2>2. CASE s \in Servers
    <3>1. /\ [codes[s] EXCEPT ![k] = 0] \in [Keys -> 0..MaxCodes]
          /\ \A q \in Keys : [codes[s] EXCEPT ![k] = 0][q] \in {0, codes[s][q]}
      BY <2>0, <2>2
    <3> QED
      BY <2>0, <2>1, <2>2, <3>1
  <2>3. CASE s \notin Servers
    BY <2>0, <2>1, <2>3
  <2> QED
    BY <2>2, <2>3
<1> QED
  BY <1>2, <1>3, HandlersKeep DEF ForgetCode, AccountsInv, AccountsTypeOK

LEMMA LoadOwnerKeeps ==
  ASSUME AccountsInv, NEW h \in Handlers, LoadOwner(h)
  PROVE  AccountsInv'
<1> DEFINE e == call[h].email
           c == [call[h] EXCEPT !.step = "owner", !.loaded = account[e]]
<1>1. call[h].step = "admin" /\ e \in Emails /\ call[h] \in Calls
  BY DEF LoadOwner, AccountsInv, CallFits, AccountsTypeOK
<1>2. account[e] \in AccountRow
  BY <1>1 DEF AccountsInv, AccountsTypeOK
<1>3. /\ c \in Calls /\ c.step = "owner" /\ c.email = e
      /\ c.wants = call[h].wants /\ c.code = call[h].code
  BY <1>1, <1>2 DEF Calls
<1>4. call' = [call EXCEPT ![h] = c]
  BY DEF LoadOwner
<1> HIDE DEF c
<1>5. CallFits(c)
  BY <1>1, <1>3 DEF AccountsInv, CallFits
<1>6. /\ call' \in [Handlers -> Calls]
      /\ \A g \in Handlers : CallFits(call'[g])
  BY <1>3, <1>4, <1>5 DEF AccountsInv, AccountsTypeOK
<1> QED
  BY <1>6, HandlersKeep DEF LoadOwner, AccountsInv, AccountsTypeOK

LEMMA RegistrationKeeps ==
  ASSUME AccountsInv, NEW h \in Handlers, CommitRegistration(h)
  PROVE  AccountsInv'
<1> DEFINE e == call[h].email
           type == call[h].type
           employer == call[h].employer
           refused == Exists(e) \/ (type = "technician" /\ shop[employer] = Absent)
           row == NewAccount(type, e, employer)
<1>1. call[h].step = "register" /\ e \in Emails
  BY DEF CommitRegistration, AccountsInv, CallFits
<1>2. Ends(h)
  BY DEF CommitRegistration, Ends, EndCall
<1>3. /\ call' \in [Handlers -> Calls]
      /\ \A g \in Handlers : CallFits(call'[g])
  BY <1>1, <1>2, EndsFit
<1>4. CASE refused
  BY <1>3, <1>4, HandlersKeep DEF CommitRegistration, AccountsInv, AccountsTypeOK
<1>5. CASE ~refused
  <2>1. /\ account' = [account EXCEPT ![e] = row]
        /\ shop' = IF type = "owner" THEN [shop EXCEPT ![e] = FALSE] ELSE shop
        /\ Spend(call[h].code)
        /\ UNCHANGED <<codes, issued, removed, calls, restartsDone>>
    BY <1>5 DEF CommitRegistration
  <2>2. \/ type = "client" /\ employer = Absent
        \/ type = "owner" /\ employer = e
        \/ type = "technician" /\ employer \in Emails
    BY <1>1 DEF AccountsInv, CallFits
  <2>3. /\ removed[e] \in 0..MaxRemovals
        /\ account \in [Emails -> AccountRow]
        /\ shop \in [Emails -> BOOLEAN \cup {Absent}]
    BY <1>1 DEF AccountsInv, AccountsTypeOK
  <2>4. row \in AccountRow /\ row.type = type /\ row.employer = employer
    BY <1>1, <2>2, <2>3 DEF NewAccount, AccountRow, Passwords
  <2>5. ~Exists(e) /\ account[e].type = "none"
    BY <1>5 DEF Exists
  <2>6. type = "technician" => shop[employer] # Absent
    BY <1>5
  <2> HIDE DEF row, refused, type, employer, e
  <2>7. /\ account' \in [Emails -> AccountRow]
        /\ account'[e] = row
        /\ \A a \in Emails \ {e} : account'[a] = account[a]
    BY <1>1, <2>1, <2>3, <2>4
  <2>8. /\ shop' \in [Emails -> BOOLEAN \cup {Absent}]
        /\ \A a \in Emails \ {e} : shop'[a] = shop[a]
        /\ type = "owner" => shop'[e] # Absent
        /\ type # "owner" => shop'[e] = shop[e]
    BY <1>1, <2>1, <2>3, AccountsAssumption
  <2>9. call[h].code \in 0..MaxCodes
    BY LoadedIsTyped DEF AccountsInv
  <2>10. /\ spent' \in [Codes -> Nat]
         /\ \A c \in Codes : spent'[c] = IF c = call[h].code THEN spent[c] + 1
                                         ELSE spent[c]
    BY <2>1, <2>9, SpendCounts
  <2>11. AccountsTypeOK'
    BY <1>3, <2>1, <2>7, <2>8, <2>10 DEF AccountsInv, AccountsTypeOK
  <2>12. CodesFit'
    BY <2>1 DEF AccountsInv, CodesFit
  <2>13. \A g \in Handlers : CallFits(call[g])'
    BY <1>3, <2>1 DEF CallFits
  <2>14. UsesFit'
    <3>1. ASSUME NEW c \in Codes, c = call[h].code
          PROVE  c \in 1..Len(issued) /\ issued[c] = <<"verification", e>>
      BY <1>1, <3>1 DEF AccountsInv, CallFits, Codes, e
    <3>2. \A c \in 1..Len(issued) : c \in Codes
      BY AccountsAssumption DEF AccountsInv, AccountsTypeOK, Codes
    <3>3. \A c \in Codes : c > Len(issued') => spent'[c] = 0
      BY <2>1, <2>10, <3>1 DEF AccountsInv, AccountsTypeOK, UsesFit
    <3>4. \A a \in Emails : removed[a] \in Nat
      BY AccountsAssumption DEF AccountsInv, AccountsTypeOK
    <3>5. \A c \in Codes : spent[c] \in Nat
      BY DEF AccountsInv, AccountsTypeOK
    <3>6. ASSUME NEW c \in 1..Len(issued), NEW a \in Emails,
                 issued[c] = <<"verification", a>>
          PROVE  /\ spent'[c] <= 1 + removed'[a]
                 /\ ~Exists(a)' => spent'[c] <= removed'[a]
      <4>1. CASE a = e
        <5>1. spent[c] <= removed[a]
          BY <2>5, <3>6, <4>1 DEF AccountsInv, UsesFit
        <5>2. Exists(a)'
          BY <2>2, <2>4, <2>7, <4>1 DEF Exists
        <5>3. spent'[c] <= spent[c] + 1
          BY <2>10, <3>2, <3>5
        <5>4. spent'[c] \in Nat
          BY <2>10, <3>2
        <5> QED
          BY <2>1, <3>2, <3>4, <3>5, <5>1, <5>2, <5>3, <5>4
      <4>2. CASE a # e
        <5>1. c # call[h].code
          BY <3>1, <3>2, <3>6, <4>2
        <5>2. spent'[c] = spent[c]
          BY <2>10, <3>2, <5>1
        <5>3. Exists(a)' <=> Exists(a)
          BY <2>7, <4>2 DEF Exists
        <5> QED
          BY <2>1, <3>6, <5>2, <5>3 DEF AccountsInv, UsesFit
      <4> QED
        BY <4>1, <4>2
    <3> QED
      BY <2>1, <3>3, <3>6 DEF UsesFit
  <2>15. RegistrationWhole'
    <3> SUFFICES ASSUME NEW a \in Emails
                 PROVE  /\ shop'[a] # Absent <=> account'[a].type = "owner"
                        /\ account'[a].employer # Absent =>
                               shop'[account'[a].employer] # Absent
      BY DEF RegistrationWhole
    <3>1. /\ shop[a] # Absent <=> account[a].type = "owner"
          /\ account[a].employer # Absent => shop[account[a].employer] # Absent
          /\ account[a].employer \in Emails \cup {Absent}
      BY <2>3 DEF AccountsInv, RegistrationWhole, AccountRow
    <3>2. shop[e] = Absent
      BY <1>1, <2>5 DEF AccountsInv, RegistrationWhole
    <3>3. \A b \in Emails : shop[b] # Absent => shop'[b] # Absent
      BY <2>8, <3>2
    <3>4. CASE a = e
      BY <1>1, <2>2, <2>4, <2>6, <2>7, <2>8, <3>2, <3>3, <3>4
    <3>5. CASE a # e
      BY <2>7, <2>8, <3>1, <3>3, <3>5
    <3> QED
      BY <3>4, <3>5
  <2> QED
    BY <2>11, <2>12, <2>13, <2>14, <2>15 DEF AccountsInv
<1> QED
  BY <1>4, <1>5

LEMMA AdminCommitKeeps ==
  ASSUME AccountsInv, NEW h \in Handlers, CommitAdmin(h)
  PROVE  AccountsInv'
<1> DEFINE e == call[h].email
           active == call[h].wants.active
           gone == shop[e] = Absent \/ ~Same(h)
           r == WriteChanges(account[e], call[h].loaded, Wanted(h))
<1>1. call[h].step = "owner" /\ e \in Emails /\ active \in BOOLEAN
  BY DEF CommitAdmin, AccountsInv, CallFits
<1>2. Ends(h)
  BY DEF CommitAdmin, Ends, EndCall
<1>3. /\ call' \in [Handlers -> Calls]
      /\ \A g \in Handlers : CallFits(call'[g])
  BY <1>1, <1>2, EndsFit
<1>4. CASE gone
  BY <1>3, <1>4, HandlersKeep DEF CommitAdmin, AccountsInv, AccountsTypeOK
<1>5. CASE ~gone
  <2>1. /\ account' = [account EXCEPT ![e] = r]
        /\ shop' = shop \/ shop' = [shop EXCEPT ![e] = active]
        /\ UNCHANGED <<codes, issued, spent, removed, calls, restartsDone>>
    BY <1>5 DEF CommitAdmin
  <2>2. account[e] \in AccountRow
    BY <1>1 DEF AccountsInv, AccountsTypeOK
  <2>3. /\ r \in AccountRow /\ r.type = account[e].type
        /\ r.employer = account[e].employer
    BY <2>2, ChangesAsked DEF AccountsInv
  <2>4. shop[e] # Absent
    BY <1>5
  <2> HIDE DEF r, gone, active
  <2>5. /\ account' \in [Emails -> AccountRow]
        /\ \A a \in Emails : /\ account'[a].type = account[a].type
                             /\ account'[a].employer = account[a].employer
    BY <1>1, <2>1, <2>3 DEF AccountsInv, AccountsTypeOK
  <2>6. /\ shop' \in [Emails -> BOOLEAN \cup {Absent}]
        /\ \A a \in Emails : shop'[a] # Absent <=> shop[a] # Absent
    BY <1>1, <2>1, <2>4, AccountsAssumption DEF AccountsInv, AccountsTypeOK
  <2>7. AccountsTypeOK'
    BY <1>3, <2>1, <2>5, <2>6 DEF AccountsInv, AccountsTypeOK
  <2>8. CodesFit'
    BY <2>1 DEF AccountsInv, CodesFit
  <2>9. \A g \in Handlers : CallFits(call[g])'
    BY <1>3, <2>1 DEF CallFits
  <2>10. UsesFit'
    BY <2>1, <2>5 DEF AccountsInv, UsesFit, Exists
  <2>11. RegistrationWhole'
    <3>1. \A a \in Emails : account[a].employer \in Emails \cup {Absent}
      BY DEF AccountsInv, AccountsTypeOK, AccountRow
    <3> QED
      BY <2>5, <2>6, <3>1 DEF AccountsInv, RegistrationWhole
  <2> QED
    BY <2>7, <2>8, <2>9, <2>10, <2>11 DEF AccountsInv
<1> QED
  BY <1>4, <1>5

LEMMA DeleteKeeps ==
  ASSUME AccountsInv, NEW e \in Emails, DeleteUser(e)
  PROVE  AccountsInv'
<1> USE DEF DeleteUser
<1>1. /\ removed' \in [Emails -> 0..MaxRemovals]
      /\ removed'[e] = removed[e] + 1
      /\ \A a \in Emails \ {e} : removed'[a] = removed[a]
  BY AccountsAssumption DEF AccountsInv, AccountsTypeOK
<1>2. \A a \in Emails : account[a] \in AccountRow
  BY DEF AccountsInv, AccountsTypeOK
<1>3. NoAccount \in AccountRow /\ NoAccount.type = "none"
      /\ NoAccount.employer = Absent
  BY AccountsAssumption DEF NoAccount, AccountRow, Passwords
<1>4. account'[e] = NoAccount
  OBVIOUS
<1>5. ASSUME NEW a \in Emails \ {e}
      PROVE  /\ account'[a] \in AccountRow
             /\ account'[a].type = account[a].type
             /\ account'[a].employer = IF account[a].employer = e THEN Absent
                                       ELSE account[a].employer
  BY <1>2 DEF AccountRow
<1>6. account' \in [Emails -> AccountRow]
  BY <1>3, <1>4, <1>5
<1>7. /\ shop' \in [Emails -> BOOLEAN \cup {Absent}]
      /\ shop'[e] = Absent
      /\ \A a \in Emails \ {e} : shop'[a] = shop[a]
  BY DEF AccountsInv, AccountsTypeOK
<1>8. AccountsTypeOK'
  BY <1>1, <1>6, <1>7 DEF AccountsInv, AccountsTypeOK
<1>9. CodesFit'
  BY DEF AccountsInv, CodesFit
<1>10. \A h \in Handlers : CallFits(call[h])'
  BY DEF AccountsInv, CallFits
<1>11. UsesFit'
  <2>1. \A c \in Codes : c > Len(issued') => spent'[c] = 0
    BY DEF AccountsInv, UsesFit
  <2>2. /\ \A a \in Emails : removed[a] \in Nat
        /\ \A c \in Codes : spent[c] \in Nat
        /\ \A c \in 1..Len(issued) : c \in Codes
    BY AccountsAssumption DEF AccountsInv, AccountsTypeOK, Codes
  <2>3. ASSUME NEW c \in 1..Len(issued), NEW a \in Emails,
               issued[c] = <<"verification", a>>
        PROVE  /\ spent'[c] <= 1 + removed'[a]
               /\ ~Exists(a)' => spent'[c] <= removed'[a]
    <3>1. /\ spent[c] <= 1 + removed[a]
          /\ ~Exists(a) => spent[c] <= removed[a]
      BY <2>3 DEF AccountsInv, UsesFit
    <3>2. CASE a = e
      BY <1>1, <2>2, <3>1, <3>2
    <3>3. CASE a # e
      BY <1>1, <1>5, <3>1, <3>3 DEF Exists
    <3> QED
      BY <3>2, <3>3
  <2> QED
    BY <2>1, <2>3 DEF UsesFit
<1>12. RegistrationWhole'
  <2>1. \A a \in Emails : account[a].employer \in Emails \cup {Absent}
    BY <1>2 DEF AccountRow
  <2>2. ASSUME NEW a \in Emails
        PROVE  /\ shop'[a] # Absent <=> account'[a].type = "owner"
               /\ account'[a].employer # Absent =>
                      shop'[account'[a].employer] # Absent
    <3>1. CASE a = e
      BY <1>3, <1>4, <1>7, <3>1
    <3>2. CASE a # e
      BY <1>5, <1>7, <2>1, <3>2 DEF AccountsInv, RegistrationWhole
    <3> QED
      BY <3>1, <3>2
  <2> QED
    BY <2>2 DEF RegistrationWhole
<1> QED
  BY <1>8, <1>9, <1>10, <1>11, <1>12 DEF AccountsInv

LEMMA ExpiryKeeps ==
  ASSUME AccountsInv, NEW s \in Servers, NEW key \in Keys, CodeExpires(s, key)
  PROVE  AccountsInv'
<1>1. /\ codes' \in [Servers -> [Keys -> 0..MaxCodes]]
      /\ \A t \in Servers, k \in Keys : codes'[t][k] \in {0, codes[t][k]}
  BY AccountsAssumption DEF CodeExpires, AccountsInv, AccountsTypeOK
<1>2. \A h \in Handlers : CallFits(call'[h])
  BY DEF CodeExpires, AccountsInv
<1> QED
  BY <1>1, <1>2, HandlersKeep DEF CodeExpires, AccountsInv, AccountsTypeOK

LEMMA RestartKeeps ==
  ASSUME AccountsInv, NEW s \in Servers, RestartServer(s)
  PROVE  AccountsInv'
<1> USE DEF RestartServer
<1>1. /\ call' \in [Handlers -> Calls]
      /\ \A h \in Handlers : CallFits(call'[h])
  BY RestingIsCall, RestingFits DEF AccountsInv, AccountsTypeOK
<1>2. /\ codes' \in [Servers -> [Keys -> 0..MaxCodes]]
      /\ \A t \in Servers, k \in Keys : codes'[t][k] \in {0, codes[t][k]}
  BY AccountsAssumption DEF NoCodes, AccountsInv, AccountsTypeOK
<1>3. restartsDone' \in 0..MaxRestarts
  BY AccountsAssumption DEF AccountsInv, AccountsTypeOK
<1> QED
  BY <1>1, <1>2, <1>3, HandlersKeep DEF AccountsInv, AccountsTypeOK

LEMMA StepFits == AccountsInv /\ [AccountsNext]_accountsVars => AccountsInv'
<1> SUFFICES ASSUME AccountsInv, [AccountsNext]_accountsVars
             PROVE  AccountsInv'
  OBVIOUS
<1>1. ASSUME NEW s \in Servers, NEW e \in Emails,
             SendVerificationCode(s, e) \/ SendRecoveryCode(s, e)
      PROVE  AccountsInv'
  <2>1. \A p \in Purposes : <<p, e>> \in Keys
    BY DEF Keys
  <2> QED
    BY <1>1, <2>1, StoreCodeKeeps
       DEF SendVerificationCode, SendRecoveryCode, Purposes
<1>2. CASE UNCHANGED accountsVars
  <2>1. /\ call' \in [Handlers -> Calls]
        /\ codes' \in [Servers -> [Keys -> 0..MaxCodes]]
        /\ calls' \in 0..MaxCalls /\ restartsDone' \in 0..MaxRestarts
        /\ \A h \in Handlers : CallFits(call'[h])
    BY <1>2 DEF accountsVars, AccountsInv, AccountsTypeOK
  <2> QED
    BY <1>2, <2>1, HandlersKeep DEF accountsVars
<1> QED
  BY <1>1, <1>2, ExpiryKeeps, RestartKeeps, RequestKeeps, RegistrationKeeps,
     UpdateCommitKeeps, ForgetKeeps, LoadOwnerKeeps, AdminCommitKeeps, DeleteKeeps
     DEF AccountsNext, AccountsStep

LEMMA AccountsFit == AccountsSpec => []AccountsInv
BY InitFits, StepFits, PTL DEF AccountsSpec

-----------------------------------------------------------------------------
(* What a step may change.                                                 *)

\* The difference between two rows of an account is what a handler at work on
\* this account was asked for.
Asked(old, new, e) ==
    old.type # "none" /\ new.type # "none" =>
        /\ old.active # new.active =>
               \E h \in Handlers : /\ call[h].step # "idle" /\ call[h].email = e
                                   /\ call[h].wants.active = new.active
        /\ old.password # new.password =>
               \E h \in Handlers : /\ call[h].step # "idle" /\ call[h].email = e
                                   /\ call[h].wants.password = new.password

LEMMA ChangeIsAsked ==
  ASSUME AccountsInv, NEW h \in Handlers, NEW e \in Emails,
         call[h].step # "idle", call[h].email = e
  PROVE  Asked(account[e],
               WriteChanges(account[e], call[h].loaded, Wanted(h)), e)
<1>1. account[e] \in AccountRow
  BY DEF AccountsInv, AccountsTypeOK
<1> QED
  BY <1>1, ChangesAsked DEF AccountsInv, Asked

LEMMA StepAsked ==
  ASSUME AccountsInv, AccountsNext, NEW e \in Emails
  PROVE  Asked(account[e], account'[e], e)
<1>0. account \in [Emails -> AccountRow]
  BY DEF AccountsInv, AccountsTypeOK
<1>1. CASE UNCHANGED account
  BY <1>1 DEF Asked
<1>2. ASSUME NEW h \in Handlers, CommitRegistration(h), account' # account
      PROVE  Asked(account[e], account'[e], e)
  <2>1. /\ account[call[h].email].type = "none"
        /\ account' = [account EXCEPT ![call[h].email] =
               NewAccount(call[h].type, call[h].email, call[h].employer)]
    BY <1>2 DEF CommitRegistration, Exists
  <2> QED
    BY <1>0, <2>1 DEF Asked
<1>3. ASSUME NEW h \in Handlers, CommitUpdate(h) \/ CommitAdmin(h),
             account' # account
      PROVE  Asked(account[e], account'[e], e)
  <2>1. /\ call[h].step # "idle"
        /\ account' = [account EXCEPT ![call[h].email] =
               WriteChanges(@, call[h].loaded, Wanted(h))]
    BY <1>3 DEF CommitUpdate, CommitAdmin
  <2>2. CASE call[h].email = e
    BY <1>0, <2>1, <2>2, ChangeIsAsked
  <2>3. CASE call[h].email # e
    BY <1>0, <2>1, <2>3 DEF Asked
  <2> QED
    BY <2>2, <2>3
<1>4. ASSUME NEW a \in Emails, DeleteUser(a)
      PROVE  Asked(account[e], account'[e], e)
  <2>1. \/ account'[e] = NoAccount
        \/ account'[e] = account[e]
        \/ account'[e] = [account[e] EXCEPT !.employer = Absent]
    BY <1>0, <1>4 DEF DeleteUser
  <2>2. account[e] \in AccountRow
    BY <1>0
  <2> QED
    BY <2>1, <2>2 DEF Asked, NoAccount, AccountRow
<1>5. ASSUME NEW h \in Handlers, ForgetCode(h) \/ LoadOwner(h)
      PROVE  UNCHANGED account
  BY <1>5 DEF ForgetCode, LoadOwner
<1>6. ASSUME NEW h \in Handlers, NEW s \in Servers, NEW a \in Emails,
             AccountsRequest(h, s, a)
      PROVE  UNCHANGED account
  BY <1>6 DEF AccountsRequest, RegisterWithCode, CreateTechnician, ResetPassword,
              UpdateProfile, UpdateUser, DeleteTechnician, UpdateAdmin, StartCall
<1>7. ASSUME NEW s \in Servers,
             \/ \E a \in Emails : SendVerificationCode(s, a) \/ SendRecoveryCode(s, a)
             \/ \E key \in Keys : CodeExpires(s, key)
             \/ RestartServer(s)
      PROVE  UNCHANGED account
  BY <1>7 DEF SendVerificationCode, SendRecoveryCode, StoreCode, CodeExpires,
              RestartServer
<1> QED
  BY <1>1, <1>2, <1>3, <1>4, <1>5, <1>6, <1>7 DEF AccountsNext, AccountsStep

-----------------------------------------------------------------------------
(* The life of a code.                                                     *)

(* A code is stored by one server, the handlers that read it run there, and *)
(* when it is spent one of them has yet to delete it.                      *)
Deleting(code) ==
    \E h \in Handlers : call[h].step = "forget" /\ call[h].code = code

LifeFits ==
    /\ \A s, t \in Servers : \A k, l \in Keys :
           codes[s][k] # 0 /\ codes[s][k] = codes[t][l] => s = t
    /\ \A h \in Handlers, s \in Servers, k \in Keys :
           call[h].code # 0 /\ call[h].code = codes[s][k] =>
               call[h].server = s
    /\ \A s \in Servers, k \in Keys :
           codes[s][k] # 0 /\ spent[codes[s][k]] > 0 => Deleting(codes[s][k])

\* Codes that are taken away, and handlers that keep or drop what they hold.
LEMMA LifeKeeps ==
  ASSUME LifeFits,
         \A s \in Servers, k \in Keys : codes'[s][k] \in {0, codes[s][k]},
         \A h \in Handlers :
             \/ call'[h].code = 0
             \/ call'[h].code = call[h].code /\ call'[h].server = call[h].server,
         \A s \in Servers, k \in Keys :
             codes'[s][k] # 0 /\ spent'[codes'[s][k]] > 0 =>
                 Deleting(codes[s][k])'
  PROVE  LifeFits'
<1>1. \A s \in Servers, k \in Keys :
          codes'[s][k] # 0 => codes'[s][k] = codes[s][k]
  OBVIOUS
<1>2. \A s, t \in Servers : \A k, l \in Keys :
          codes'[s][k] # 0 /\ codes'[s][k] = codes'[t][l] => s = t
  BY <1>1 DEF LifeFits
<1>3. \A h \in Handlers, s \in Servers, k \in Keys :
          call'[h].code # 0 /\ call'[h].code = codes'[s][k] =>
              call'[h].server = s
  BY <1>1 DEF LifeFits
<1> QED
  BY <1>2, <1>3 DEF LifeFits

LEMMA LifeInit == AccountsInit => LifeFits
BY DEF AccountsInit, LifeFits, NoCodes, Resting, Codes

LEMMA LifeStore ==
  ASSUME AccountsInv, LifeFits, NEW s \in Servers, NEW key \in Keys,
         StoreCode(s, key)
  PROVE  LifeFits'
<1> DEFINE new == Len(issued) + 1
<1>1. Len(issued) \in Nat /\ new \in Codes
  BY AccountsAssumption DEF StoreCode, AccountsInv, AccountsTypeOK, Codes
<1>2. \A t \in Servers, k \in Keys :
          codes'[t][k] = IF t = s /\ k = key THEN new ELSE codes[t][k]
  BY DEF StoreCode, AccountsInv, AccountsTypeOK
<1>3. \A t \in Servers, k \in Keys : codes[t][k] # new
  BY <1>1 DEF AccountsInv, CodesFit
<1>4. \A h \in Handlers : call[h].code # new
  BY <1>1 DEF AccountsInv, CallFits
<1>5. spent[new] = 0
  BY <1>1 DEF AccountsInv, UsesFit
<1>6. call' = call /\ spent' = spent
  BY DEF StoreCode
<1> HIDE DEF new
<1>7. \A t, u \in Servers : \A k, l \in Keys :
          codes'[t][k] # 0 /\ codes'[t][k] = codes'[u][l] => t = u
  BY <1>2, <1>3 DEF LifeFits
<1>8. \A h \in Handlers, t \in Servers, k \in Keys :
          call'[h].code # 0 /\ call'[h].code = codes'[t][k] =>
              call'[h].server = t
  BY <1>2, <1>4, <1>6 DEF LifeFits
<1>9. \A t \in Servers, k \in Keys :
          codes'[t][k] # 0 /\ spent'[codes'[t][k]] > 0 =>
              Deleting(codes[t][k])'
  BY <1>2, <1>5, <1>6 DEF LifeFits, Deleting
<1> QED
  BY <1>7, <1>8, <1>9 DEF LifeFits

\* A request that reads no code, or one that its own server stores.
LEMMA LifeStart ==
  ASSUME AccountsInv, LifeFits, NEW h \in Handlers, NEW c \in Calls,
         StartCall(h, c),
         \/ c.code = 0
         \/ c.server \in Servers /\ \E k \in Keys : c.code = codes[c.server][k]
  PROVE  LifeFits'
<1>1. /\ call' = [call EXCEPT ![h] = c] /\ call[h].step = "idle"
      /\ UNCHANGED <<codes, spent>>
      /\ call \in [Handlers -> Calls]
  BY DEF StartCall, AccountsInv, AccountsTypeOK
<1>2. \A g \in Handlers, s \in Servers, k \in Keys :
          call'[g].code # 0 /\ call'[g].code = codes'[s][k] =>
              call'[g].server = s
  BY <1>1 DEF LifeFits
<1>3. ASSUME NEW s \in Servers, NEW k \in Keys, codes[s][k] # 0,
             spent[codes[s][k]] > 0
      PROVE  Deleting(codes[s][k])'
  <2>1. PICK g \in Handlers : /\ call[g].step = "forget"
                              /\ call[g].code = codes[s][k]
    BY <1>3 DEF LifeFits, Deleting
  <2>2. call'[g] = call[g]
    BY <1>1, <2>1
  <2> QED
    BY <1>1, <2>1, <2>2 DEF Deleting
<1> QED
  BY <1>1, <1>2, <1>3 DEF LifeFits

LEMMA ServersOfCalls ==
  ASSUME AccountsTypeOK, NEW s \in Servers, NEW e \in Emails
  PROVE  /\ \A step \in {"register", "reset", "update", "admin"} :
                CallFor(s, e, step).server = s
         /\ \A step \in {"reset", "update"}, wish \in Wants :
                UpdateOf(s, e, step, wish).server = s
<1>1. \A step \in {"register", "reset", "update", "admin"} :
          CallFor(s, e, step).server = s
  BY RestingIsCall DEF CallFor, Calls
<1>2. ASSUME NEW step \in {"reset", "update"}, NEW wish \in Wants
      PROVE  UpdateOf(s, e, step, wish).server = s
  <2> DEFINE c == CallFor(s, e, step)
  <2>1. c \in Calls /\ c.server = s
    BY <1>1, CallForIsCall
  <2>2. UpdateOf(s, e, step, wish)
            = [c EXCEPT !.loaded = account[e], !.wants = wish]
    BY DEF UpdateOf
  <2> HIDE DEF c
  <2> QED
    BY <2>1, <2>2 DEF Calls
<1> QED
  BY <1>1, <1>2

LEMMA LifeRequest ==
  ASSUME AccountsInv, LifeFits, NEW h \in Handlers, NEW s \in Servers,
         NEW e \in Emails, AccountsRequest(h, s, e)
  PROVE  LifeFits'
<1>0. AccountsTypeOK
  BY DEF AccountsInv
<1>1. ASSUME NEW type \in {"client", "owner"}, RegisterWithCode(h, s, e, type)
      PROVE  LifeFits'
  <2> DEFINE c0 == CallFor(s, e, "register")
             key == <<"verification", e>>
             employer == IF type = "owner" THEN e ELSE Absent
             c == [c0 EXCEPT !.key = key, !.code = codes[s][key],
                             !.type = type, !.employer = employer]
  <2>1. c0 \in Calls /\ c0.server = s
    BY <1>0, CallForIsCall, ServersOfCalls
  <2>2. key \in Keys
    BY DEF Keys, Purposes
  <2>3. codes[s][key] \in 0..MaxCodes
    BY <1>0, <2>2 DEF AccountsTypeOK
  <2>4. StartCall(h, c)
    BY <1>1 DEF RegisterWithCode
  <2> HIDE DEF c0, key
  <2>5. c \in Calls /\ c.server = s /\ c.code = codes[s][key]
    BY <2>1, <2>2, <2>3 DEF Calls
  <2> HIDE DEF c
  <2> QED
    BY <2>2, <2>4, <2>5, LifeStart
<1>2. ASSUME NEW w \in Emails, CreateTechnician(h, s, e, w)
      PROVE  LifeFits'
  <2> DEFINE c0 == CallFor(s, e, "register")
             c == [c0 EXCEPT !.type = "technician", !.employer = w]
  <2>1. c0 \in Calls /\ c0.code = 0
    BY CallForIsCall
  <2>2. StartCall(h, c)
    BY <1>2 DEF CreateTechnician
  <2> HIDE DEF c0
  <2>3. c \in Calls /\ c.code = 0
    BY <2>1 DEF Calls
  <2> HIDE DEF c
  <2> QED
    BY <2>2, <2>3, LifeStart
<1>3. CASE ResetPassword(h, s, e)
  <2> DEFINE wish == [NoWish EXCEPT !.password = "new"]
             c0 == UpdateOf(s, e, "reset", wish)
             key == <<"recovery", e>>
             c == [c0 EXCEPT !.key = key, !.code = codes[s][key]]
  <2>0. wish \in Wants
    BY RestingIsCall DEF Wants, Passwords
  <2>1. c0 \in Calls /\ c0.server = s
    BY <1>0, <2>0, UpdateOfIsCall, ServersOfCalls
  <2>2. key \in Keys
    BY DEF Keys, Purposes
  <2>3. codes[s][key] \in 0..MaxCodes
    BY <1>0, <2>2 DEF AccountsTypeOK
  <2>4. StartCall(h, c)
    BY <1>3 DEF ResetPassword
  <2> HIDE DEF c0, key
  <2>5. c \in Calls /\ c.server = s /\ c.code = codes[s][key]
    BY <2>1, <2>2, <2>3 DEF Calls
  <2> HIDE DEF c
  <2> QED
    BY <2>2, <2>4, <2>5, LifeStart
<1>4. ASSUME NEW wish \in Wants, StartCall(h, UpdateOf(s, e, "update", wish))
      PROVE  LifeFits'
  <2>1. LET c == UpdateOf(s, e, "update", wish) IN c \in Calls /\ c.code = 0
    BY <1>0, UpdateOfIsCall
  <2> QED
    BY <1>4, <2>1, LifeStart
<1>5. /\ [NoWish EXCEPT !.password = "new"] \in Wants
      /\ \A active \in BOOLEAN : [NoWish EXCEPT !.active = active] \in Wants
  BY RestingIsCall DEF Wants, Passwords
<1>6. CASE UpdateProfile(h, s, e)
  BY <1>4, <1>5, <1>6 DEF UpdateProfile
<1>7. ASSUME NEW active \in BOOLEAN, UpdateUser(h, s, e, active)
      PROVE  LifeFits'
  BY <1>4, <1>5, <1>7 DEF UpdateUser
<1>8. CASE DeleteTechnician(h, s, e)
  <2>1. [NoWish EXCEPT !.active = FALSE] \in Wants
    BY <1>5
  <2> QED
    BY <1>4, <2>1, <1>8 DEF DeleteTechnician
<1>9. ASSUME NEW verified \in BOOLEAN, UpdateAdmin(h, s, e, verified)
      PROVE  LifeFits'
  <2> DEFINE c0 == CallFor(s, e, "admin")
             wish == [NoWish EXCEPT !.active = verified]
             c == [c0 EXCEPT !.verified = shop[e], !.wants = wish]
  <2>1. c0 \in Calls /\ c0.code = 0
    BY CallForIsCall
  <2>2. wish \in Wants
    BY <1>5
  <2>3. shop[e] \in BOOLEAN \cup {Absent}
    BY <1>0 DEF AccountsTypeOK
  <2>4. StartCall(h, c)
    BY <1>9 DEF UpdateAdmin
  <2> HIDE DEF c0, wish
  <2>5. c \in Calls /\ c.code = 0
    BY <2>1, <2>2, <2>3 DEF Calls
  <2> HIDE DEF c
  <2> QED
    BY <2>4, <2>5, LifeStart
<1> QED
  BY <1>1, <1>2, <1>3, <1>6, <1>7, <1>8, <1>9 DEF AccountsRequest

\* A commit either spends its code and leaves the handler to delete it, or
\* spends nothing.
LEMMA LifeCommit ==
  ASSUME AccountsInv, LifeFits, NEW h \in Handlers,
         call[h].step \notin {"idle", "forget"},
         UNCHANGED codes,
         \/ /\ call' = [call EXCEPT ![h].step = "forget"]
            /\ Spend(call[h].code)
         \/ /\ call' = [call EXCEPT ![h] = Resting]
            /\ UNCHANGED spent \/ (call[h].code = 0 /\ Spend(call[h].code))
  PROVE  LifeFits'
<1>0. call \in [Handlers -> Calls] /\ call[h] \in Calls
  BY DEF AccountsInv, AccountsTypeOK
<1>1. \A s \in Servers, k \in Keys :
          codes[s][k] # 0 => codes[s][k] \in Codes
  BY DEF AccountsInv, AccountsTypeOK, Codes
<1>2. call[h].code \in 0..MaxCodes
  BY LoadedIsTyped DEF AccountsInv
<1>3. CASE call' = [call EXCEPT ![h].step = "forget"] /\ Spend(call[h].code)
  <2>1. /\ \A g \in Handlers : /\ call'[g].code = call[g].code
                               /\ call'[g].server = call[g].server
                               /\ call[g].step = "forget" => call'[g].step = "forget"
        /\ call'[h].step = "forget"
    BY <1>0, <1>3 DEF Calls
  <2>2. \A c \in Codes : c # call[h].code => spent'[c] = spent[c]
    BY <1>2, <1>3, SpendCounts
  <2>3. ASSUME NEW s \in Servers, NEW k \in Keys, codes[s][k] # 0,
               spent'[codes[s][k]] > 0
        PROVE  Deleting(codes[s][k])'
    <3>1. CASE codes[s][k] = call[h].code
      <4>1. call'[h].step = "forget" /\ call'[h].code = codes'[s][k]
        BY <2>1, <3>1
      <4> QED
        BY <4>1 DEF Deleting
    <3>2. CASE codes[s][k] # call[h].code
      <4>1. PICK g \in Handlers : /\ call[g].step = "forget"
                                  /\ call[g].code = codes[s][k]
        BY <1>1, <2>2, <2>3, <3>2 DEF LifeFits, Deleting
      <4>2. call'[g].step = "forget" /\ call'[g].code = codes'[s][k]
        BY <2>1, <4>1
      <4> QED
        BY <4>2 DEF Deleting
    <3> QED
      BY <3>1, <3>2
  <2> QED
    BY <2>1, <2>3, LifeKeeps
<1>4. CASE /\ call' = [call EXCEPT ![h] = Resting]
           /\ UNCHANGED spent \/ (call[h].code = 0 /\ Spend(call[h].code))
  <2>1. \A g \in Handlers :
            \/ g = h /\ call'[g] = Resting
            \/ g # h /\ call'[g] = call[g]
    BY <1>0, <1>4
  <2>2. \A c \in Codes : spent'[c] = spent[c]
    BY <1>2, <1>4, SpendCounts DEF Codes
  <2>3. ASSUME NEW s \in Servers, NEW k \in Keys, codes[s][k] # 0,
               spent'[codes[s][k]] > 0
        PROVE  Deleting(codes[s][k])'
    <3>1. Deleting(codes[s][k])
      BY <1>1, <2>2, <2>3 DEF LifeFits
    <3> QED
      BY <2>1, <3>1 DEF Deleting
  <2>4. \A g \in Handlers :
             \/ call'[g].code = 0
             \/ call'[g].code = call[g].code /\ call'[g].server = call[g].server
    BY <2>1, RestingIsCall
  <2> QED
    BY <2>3, <2>4, LifeKeeps
<1> QED
  BY <1>3, <1>4

LEMMA LifeForget ==
  ASSUME AccountsInv, LifeFits, NEW h \in Handlers, ForgetCode(h)
  PROVE  LifeFits'
<1>0. /\ call \in [Handlers -> Calls]
      /\ codes \in [Servers -> [Keys -> 0..MaxCodes]]
  BY DEF AccountsInv, AccountsTypeOK
<1>1. /\ codes' = [codes EXCEPT ![call[h].server][call[h].key] = 0]
      /\ call' = [call EXCEPT ![h] = Resting]
      /\ UNCHANGED <<issued, spent>>
  BY DEF ForgetCode, EndCall
<1>2. \A g \in Handlers :
            \/ g = h /\ call'[g] = Resting
            \/ g # h /\ call'[g] = call[g]
  BY <1>0, <1>1
<1>3. ASSUME NEW s \in Servers, NEW k \in Keys
      PROVE  codes'[s][k] = IF s = call[h].server /\ k = call[h].key THEN 0
                            ELSE codes[s][k]
  BY <1>0, <1>1
<1>4. ASSUME NEW s \in Servers, NEW k \in Keys, codes'[s][k] # 0,
             spent'[codes'[s][k]] > 0
      PROVE  Deleting(codes[s][k])'
  <2>1. codes'[s][k] = codes[s][k] /\ codes[s][k] # 0
    BY <1>3, <1>4
  <2>2. PICK g \in Handlers : call[g].step = "forget" /\ call[g].code = codes[s][k]
    BY <1>1, <1>4, <2>1 DEF LifeFits, Deleting
  <2>3. g # h
    <3>1. ASSUME g = h PROVE FALSE
      <4>1. call[h].server = s
        BY <2>1, <2>2, <3>1 DEF LifeFits
      <4>2. issued[codes[s][k]] = call[h].key /\ issued[codes[s][k]] = k
        BY <2>1, <2>2, <3>1 DEF AccountsInv, CallFits, CodesFit
      <4> QED
        BY <1>3, <1>4, <4>1, <4>2
    <3> QED
      BY <3>1
  <2> QED
    BY <1>2, <2>1, <2>2, <2>3 DEF Deleting
<1>5. \A g \in Handlers :
           \/ call'[g].code = 0
           \/ call'[g].code = call[g].code /\ call'[g].server = call[g].server
  BY <1>2, RestingIsCall
<1>6. \A s \in Servers, k \in Keys : codes'[s][k] \in {0, codes[s][k]}
  BY <1>3
<1> QED
  BY <1>4, <1>5, <1>6, LifeKeeps

LEMMA LifeRestart ==
  ASSUME AccountsInv, LifeFits, NEW s \in Servers, RestartServer(s)
  PROVE  LifeFits'
<1>0. codes \in [Servers -> [Keys -> 0..MaxCodes]]
  BY DEF AccountsInv, AccountsTypeOK
<1>1. \A g \in Handlers : call'[g] = IF call[g].server = s THEN Resting
                                      ELSE call[g]
  BY DEF RestartServer
<1>2. \A t \in Servers, k \in Keys :
          codes'[t][k] = IF t = s THEN 0 ELSE codes[t][k]
  BY <1>0 DEF RestartServer, NoCodes
<1>3. ASSUME NEW t \in Servers, NEW k \in Keys, codes'[t][k] # 0,
             spent'[codes'[t][k]] > 0
      PROVE  Deleting(codes[t][k])'
  <2>1. codes'[t][k] = codes[t][k] /\ codes[t][k] # 0 /\ t # s
    BY <1>2, <1>3
  <2>2. PICK g \in Handlers : call[g].step = "forget" /\ call[g].code = codes[t][k]
    BY <1>3, <2>1 DEF RestartServer, LifeFits, Deleting
  <2>3. call[g].server = t
    BY <2>1, <2>2 DEF LifeFits
  <2> QED
    BY <1>1, <2>1, <2>2, <2>3 DEF Deleting
<1>4. \A g \in Handlers :
           \/ call'[g].code = 0
           \/ call'[g].code = call[g].code /\ call'[g].server = call[g].server
  BY <1>1, RestingIsCall
<1> QED
  BY <1>2, <1>3, <1>4, LifeKeeps

\* Steps that take no code from a handler and spend none.
LEMMA LifeFrame ==
  ASSUME LifeFits, UNCHANGED spent,
         \A s \in Servers, k \in Keys : codes'[s][k] \in {0, codes[s][k]},
         \A h \in Handlers : /\ call'[h].code = call[h].code
                             /\ call'[h].server = call[h].server
                             /\ call[h].step = "forget" => call'[h].step = "forget"
  PROVE  LifeFits'
<1>1. ASSUME NEW s \in Servers, NEW k \in Keys, codes'[s][k] # 0,
             spent'[codes'[s][k]] > 0
      PROVE  Deleting(codes[s][k])'
  <2>1. codes'[s][k] = codes[s][k] /\ codes[s][k] # 0
    BY <1>1
  <2>2. PICK g \in Handlers : call[g].step = "forget" /\ call[g].code = codes[s][k]
    BY <1>1, <2>1 DEF LifeFits, Deleting
  <2>3. call'[g].step = "forget" /\ call'[g].code = codes'[s][k]
    BY <2>1, <2>2
  <2> QED
    BY <2>3 DEF Deleting
<1> QED
  BY <1>1, LifeKeeps

LEMMA LifeStep ==
  AccountsInv /\ LifeFits /\ [AccountsNext]_accountsVars => LifeFits'
<1> SUFFICES ASSUME AccountsInv, LifeFits, [AccountsNext]_accountsVars
             PROVE  LifeFits'
  OBVIOUS
<1>0. /\ call \in [Handlers -> Calls]
      /\ codes \in [Servers -> [Keys -> 0..MaxCodes]]
  BY DEF AccountsInv, AccountsTypeOK
<1>1. ASSUME NEW s \in Servers, NEW e \in Emails,
             SendVerificationCode(s, e) \/ SendRecoveryCode(s, e)
      PROVE  LifeFits'
  <2>1. \A p \in Purposes : <<p, e>> \in Keys
    BY DEF Keys
  <2> QED
    BY <1>1, <2>1, LifeStore DEF SendVerificationCode, SendRecoveryCode, Purposes
<1>2. ASSUME NEW s \in Servers, NEW key \in Keys, CodeExpires(s, key)
      PROVE  LifeFits'
  BY <1>0, <1>2, LifeFrame DEF CodeExpires
<1>3. ASSUME NEW h \in Handlers, CommitRegistration(h) PROVE LifeFits'
  BY <1>3, LifeCommit DEF CommitRegistration, EndCall
<1>4. ASSUME NEW h \in Handlers, CommitUpdate(h) PROVE LifeFits'
  <2>1. call[h].step = "update" => call[h].code = 0
    BY DEF AccountsInv, CallFits
  <2> QED
    BY <1>4, <2>1, LifeCommit DEF CommitUpdate, EndCall
<1>5. ASSUME NEW h \in Handlers, LoadOwner(h) PROVE LifeFits'
  <2>1. \A g \in Handlers : /\ call'[g].code = call[g].code
                            /\ call'[g].server = call[g].server
                            /\ call[g].step = "forget" => call'[g].step = "forget"
    BY <1>0, <1>5 DEF LoadOwner, Calls
  <2> QED
    BY <1>5, <2>1, LifeFrame DEF LoadOwner
<1>6. ASSUME NEW h \in Handlers, CommitAdmin(h) PROVE LifeFits'
  BY <1>6, LifeCommit DEF CommitAdmin, EndCall
<1>7. ASSUME NEW e \in Emails, DeleteUser(e) PROVE LifeFits'
  BY <1>7, LifeFrame DEF DeleteUser
<1>8. CASE UNCHANGED accountsVars
  BY <1>8, LifeFrame DEF accountsVars
<1> QED
  BY <1>1, <1>2, <1>3, <1>4, <1>5, <1>6, <1>7, <1>8, LifeRequest, LifeForget,
     LifeRestart DEF AccountsNext, AccountsStep

-----------------------------------------------------------------------------
(* Theorems.                                                               *)

\* Types, for any number of handlers, codes, accounts and restarts.
THEOREM AccountsTypeCorrect == AccountsSpec => []AccountsTypeOK
<1>1. AccountsInv => AccountsTypeOK
  BY DEF AccountsInv
<1> QED
  BY <1>1, AccountsFit, PTL

\* A verification code creates one account, and another one only in the place
\* of one that was deleted: however many registrations read it at once.
THEOREM CodesRegisterOnce == AccountsSpec => []RegisteredOnce
<1>1. AccountsInv => RegisteredOnce
  <2> SUFFICES ASSUME AccountsInv, NEW c \in 1..Len(issued),
                      issued[c][1] = "verification"
               PROVE  spent[c] <= 1 + removed[issued[c][2]]
    BY DEF RegisteredOnce
  <2>1. issued[c] \in Purposes \X Emails
    BY DEF AccountsInv, AccountsTypeOK, Keys
  <2>2. /\ issued[c][2] \in Emails
        /\ issued[c] = <<"verification", issued[c][2]>>
    BY <2>1
  <2> QED
    BY <2>2 DEF AccountsInv, UsesFit
<1> QED
  BY <1>1, AccountsFit, PTL

\* register_public and delete_user leave no workshop without its owner and no
\* technician without a workshop, whatever overlaps.
THEOREM RegistrationsWhole == AccountsSpec => []RegistrationWhole
<1>1. AccountsInv => RegistrationWhole
  BY DEF AccountsInv
<1> QED
  BY <1>1, AccountsFit, PTL

\* A commit of a stale row gives back neither an account that was deactivated
\* nor a password that was replaced: any change was asked for.
THEOREM ChangesWereAsked == AccountsSpec => OnlyAsked
<1> DEFINE All == \A e \in Emails :
          LET old == account[e] new == account'[e]
              asked(h) == call[h].step # "idle" /\ call[h].email = e IN
          old.type # "none" /\ new.type # "none" =>
              /\ old.active # new.active =>
                     \E h \in Handlers : asked(h)
                                         /\ call[h].wants.active = new.active
              /\ old.password # new.password =>
                     \E h \in Handlers : asked(h)
                                         /\ call[h].wants.password = new.password
<1>1. AccountsInv /\ [AccountsNext]_accountsVars => [All]_accountsVars
  BY StepAsked DEF Asked
<1>2. OnlyAsked <=> [][All]_accountsVars
  BY DEF OnlyAsked
<1> QED
  BY <1>1, <1>2, AccountsFit, PTL DEF AccountsSpec

\* A code that made an account or reset a password is stored nowhere once the
\* handlers that read it have ended, whatever was sent, failed or restarted.
THEOREM SpentCodesDie == AccountsSpec => []SpentCodeDies
<1>1. LifeFits => SpentCodeDies
  <2> SUFFICES ASSUME LifeFits, NEW c \in Codes, spent[c] > 0,
                      \A h \in Handlers : call[h].code # c,
                      NEW s \in Servers, NEW key \in Keys, codes[s][key] = c
               PROVE  FALSE
    BY DEF SpentCodeDies
  <2>1. c # 0
    BY DEF Codes
  <2> QED
    BY <2>1 DEF LifeFits, Deleting
<1>2. AccountsSpec => []LifeFits
  BY LifeInit, LifeStep, AccountsFit, PTL DEF AccountsSpec
<1> QED
  BY <1>1, <1>2, PTL

=============================================================================
