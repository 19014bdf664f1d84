-------------------------- MODULE AuditTrailProofs --------------------------
(***************************************************************************)
(* What the audit log keeps for any number of requests, faults and         *)
(* crashes, and any capacity of its buffer.                                *)
(***************************************************************************)
EXTENDS AuditTrail, TLAPS

-----------------------------------------------------------------------------
(* Sequences without repetitions.                                          *)

LEMMA EmptyFacts == ToSet(<<>>) = {} /\ IsInjective(<<>>)
BY DEF ToSet, IsInjective

LEMMA AppendFacts ==
    ASSUME NEW S, NEW s \in Seq(S), NEW e \in S
    PROVE  /\ Append(s, e) \in Seq(S)
           /\ ToSet(Append(s, e)) = ToSet(s) \cup {e}
           /\ IsInjective(s) /\ e \notin ToSet(s) => IsInjective(Append(s, e))
<1>1. /\ Append(s, e) \in Seq(S)
      /\ DOMAIN Append(s, e) = 1..(Len(s) + 1) /\ DOMAIN s = 1..Len(s)
      /\ \A n \in 1..Len(s) : Append(s, e)[n] = s[n]
      /\ Append(s, e)[Len(s) + 1] = e /\ Len(s) \in Nat
  OBVIOUS
<1>2. ToSet(Append(s, e)) = ToSet(s) \cup {e}
  <2>1. ASSUME NEW x \in ToSet(Append(s, e)) PROVE x \in ToSet(s) \cup {e}
    BY <1>1, <2>1 DEF ToSet
  <2>2. ASSUME NEW x \in ToSet(s) PROVE x \in ToSet(Append(s, e))
    <3>1. PICK n \in 1..Len(s) : x = s[n]
      BY <1>1 DEF ToSet
    <3>2. n \in DOMAIN Append(s, e) /\ Append(s, e)[n] = x
      BY <1>1, <3>1
    <3> QED
      BY <3>2 DEF ToSet
  <2>3. e \in ToSet(Append(s, e))
    <3>1. Len(s) + 1 \in DOMAIN Append(s, e)
      BY <1>1
    <3> QED
      BY <1>1, <3>1 DEF ToSet
  <2> QED
    BY <2>1, <2>2, <2>3
<1>3. ASSUME IsInjective(s), e \notin ToSet(s)
      PROVE  IsInjective(Append(s, e))
  BY <1>1, <1>3 DEF IsInjective, ToSet
<1> QED
  BY <1>1, <1>2, <1>3

LEMMA TailFacts ==
    ASSUME NEW S, NEW s \in Seq(S), s # <<>>
    PROVE  /\ Tail(s) \in Seq(S) /\ Head(s) \in S
           /\ ToSet(s) = {Head(s)} \cup ToSet(Tail(s))
           /\ IsInjective(s) => IsInjective(Tail(s)) /\ Head(s) \notin ToSet(Tail(s))
<1>1. /\ Tail(s) \in Seq(S) /\ Head(s) \in S /\ Len(s) \in Nat \ {0}
      /\ Head(s) = s[1]
      /\ DOMAIN Tail(s) = 1..(Len(s) - 1) /\ DOMAIN s = 1..Len(s)
      /\ \A n \in 1..(Len(s) - 1) : Tail(s)[n] = s[n + 1]
  OBVIOUS
<1>2. ToSet(s) = {Head(s)} \cup ToSet(Tail(s))
  <2>1. ASSUME NEW x \in ToSet(s) PROVE x \in {Head(s)} \cup ToSet(Tail(s))
    <3>1. PICK n \in 1..Len(s) : x = s[n]
      BY <1>1 DEF ToSet
    <3>2. CASE n = 1
      BY <1>1, <3>1, <3>2
    <3>3. CASE n # 1
      <4>1. n - 1 \in DOMAIN Tail(s) /\ Tail(s)[n - 1] = x
        BY <1>1, <3>1, <3>3
      <4> QED
        BY <4>1 DEF ToSet
    <3> QED
      BY <3>2, <3>3
  <2>2. ASSUME NEW x \in ToSet(Tail(s)) PROVE x \in ToSet(s)
    <3>1. PICK n \in 1..(Len(s) - 1) : x = Tail(s)[n]
      BY <1>1 DEF ToSet
    <3>2. n + 1 \in DOMAIN s /\ s[n + 1] = x
      BY <1>1, <3>1
    <3> QED
      BY <3>2 DEF ToSet
  <2>3. 1 \in DOMAIN s
    BY <1>1
  <2>4. Head(s) \in ToSet(s)
    BY <1>1, <2>3 DEF ToSet
  <2> QED
    BY <2>1, <2>2, <2>4
<1>3. ASSUME IsInjective(s)
      PROVE  IsInjective(Tail(s)) /\ Head(s) \notin ToSet(Tail(s))
  <2>1. ASSUME NEW m \in DOMAIN Tail(s), NEW n \in DOMAIN Tail(s),
               Tail(s)[m] = Tail(s)[n]
        PROVE  m = n
    <3>1. m + 1 \in DOMAIN s /\ n + 1 \in DOMAIN s /\ s[m + 1] = s[n + 1]
      BY <1>1, <2>1
    <3>2. m + 1 = n + 1
      BY <1>3, <3>1 DEF IsInjective
    <3> QED
      BY <1>1, <3>2
  <2>2. ASSUME NEW n \in DOMAIN Tail(s), Tail(s)[n] = Head(s) PROVE FALSE
    <3>1. n + 1 \in DOMAIN s /\ 1 \in DOMAIN s /\ s[n + 1] = s[1] /\ n + 1 # 1
      BY <1>1, <2>2
    <3> QED
      BY <1>3, <3>1 DEF IsInjective
  <2> QED
    BY <2>1, <2>2 DEF IsInjective, ToSet
<1> QED
  BY <1>1, <1>2, <1>3

LEMMA ConcatFacts ==
    ASSUME NEW S, NEW s \in Seq(S), NEW t \in Seq(S), IsInjective(s), IsInjective(t),
           ToSet(s) \cap ToSet(t) = {}
    PROVE  IsInjective(s \o t)
<1>1. /\ DOMAIN (s \o t) = 1..(Len(s) + Len(t)) /\ Len(s) \in Nat /\ Len(t) \in Nat
      /\ DOMAIN s = 1..Len(s) /\ DOMAIN t = 1..Len(t)
      /\ \A n \in 1..(Len(s) + Len(t)) :
            (s \o t)[n] = IF n <= Len(s) THEN s[n] ELSE t[n - Len(s)]
  OBVIOUS
<1> SUFFICES ASSUME NEW m \in DOMAIN (s \o t), NEW n \in DOMAIN (s \o t),
                    (s \o t)[m] = (s \o t)[n]
             PROVE  m = n
  BY DEF IsInjective
<1>2. ASSUME NEW k \in 1..(Len(s) + Len(t))
      PROVE  /\ k <= Len(s) => k \in DOMAIN s /\ s[k] \in ToSet(s)
             /\ ~(k <= Len(s)) => /\ k - Len(s) \in DOMAIN t
                                  /\ t[k - Len(s)] \in ToSet(t)
  BY <1>1 DEF ToSet
<1>3. CASE m <= Len(s) /\ n <= Len(s)
  BY <1>1, <1>2, <1>3 DEF IsInjective
<1>4. CASE ~(m <= Len(s)) /\ ~(n <= Len(s))
  <2>1. m - Len(s) = n - Len(s)
    BY <1>1, <1>2, <1>4 DEF IsInjective
  <2> QED
    BY <1>1, <2>1
<1>5. CASE m <= Len(s) /\ ~(n <= Len(s))
  BY <1>1, <1>2, <1>5
<1>6. CASE ~(m <= Len(s)) /\ n <= Len(s)
  BY <1>1, <1>2, <1>6
<1> QED
  BY <1>3, <1>4, <1>5, <1>6

-----------------------------------------------------------------------------
(* The inductive invariant.                                                *)

\* An entry is in the buffer or in the batch, and there once.
QueuesInv ==
    /\ IsInjective(buffer) /\ IsInjective(batch)
    /\ ToSet(buffer) \cap ToSet(batch) = {}

\* Only entries whose log_action has returned wait or have an end, and what a
\* killed request was writing is the only other loss.
AccountInv ==
    /\ Waiting \cup discarded \cup recovered \subseteq saved
    /\ Waiting \cap (discarded \cup recovered \cup lost) = {}
    /\ saved \subseteq table \cup Waiting \cup discarded \cup recovered \cup lost
    /\ \A e \in lost : e \in saved \/ At(e[1], "killed")

\* Which of its two entries a request has written, by how far it has come.
RequestInv(r) ==
    /\ r \in audited => kind[r] = "decorated"
    /\ <<r, "call">> \in saved => r \in audited
    /\ <<r, "http">> \in saved => At(r, "done")
    /\ At(r, "new") \/ At(r, "handling") => r \notin audited /\ outcome[r] = "none"
    /\ At(r, "call") => r \in audited /\ <<r, "call">> \notin saved
    /\ At(r, "replied") \/ At(r, "http") =>
          (r \in audited => <<r, "call">> \in saved)
    /\ At(r, "http") => r \notin audited \/ outcome[r] = "conflict"
    /\ At(r, "done") /\ kind[r] # "skipped" =>
          /\ <<r, "call">> \in saved \/ <<r, "http">> \in saved
          /\ (<<r, "call">> \in saved /\ <<r, "http">> \in saved =>
                outcome[r] = "conflict")

\* What did not happen without a fault that explains it.
FaultInv ==
    /\ faults = 0 /\ crashes = 0 =>
          /\ \A r \in Requests : stage[r][2] = "save"
          /\ buffer = <<>> /\ batch = <<>> /\ discarded = {} /\ lost = {}
          /\ recovered = {} /\ session \in {"closed", "open"}
    /\ session = "duplicate" \/ discarded # {} => \E e \in Entries : Mentions(e)
    /\ recovered \ table \subseteq keyed

AuditInv ==
    /\ AuditTypeOK
    /\ QueuesInv
    /\ AccountInv
    /\ \A r \in Requests : RequestInv(r)
    /\ FaultInv

LEMMA InvImplies == AuditInv => EntriesAccounted /\ AnsweredOnce /\ LossExplained
<1> SUFFICES ASSUME AuditInv PROVE EntriesAccounted /\ AnsweredOnce /\ LossExplained
  OBVIOUS
<1>1. IsInjective(buffer \o batch)
  BY ConcatFacts DEF AuditInv, AuditTypeOK, QueuesInv
<1>2. EntriesAccounted
  BY <1>1 DEF AuditInv, AccountInv, EntriesAccounted
<1>3. AnsweredOnce
  BY DEF AuditInv, RequestInv, AnsweredOnce
<1>4. LossExplained
  <2>1. faults = 0 /\ crashes = 0 => Waiting = {}
    BY EmptyFacts DEF AuditInv, FaultInv, Waiting
  <2> QED
    BY <2>1 DEF AuditInv, AccountInv, FaultInv, LossExplained
<1> QED
  BY <1>2, <1>3, <1>4

LEMMA InitHolds == AuditInit => AuditInv
<1> SUFFICES ASSUME AuditInit PROVE AuditInv
  OBVIOUS
<1>1. AuditTypeOK
  BY AuditAssumption DEF AuditInit, AuditTypeOK, Stages, Writes, Kinds
<1>2. Waiting = {}
  BY EmptyFacts DEF AuditInit, Waiting
<1>3. QueuesInv /\ AccountInv
  BY <1>2, EmptyFacts DEF AuditInit, QueuesInv, AccountInv
<1>4. ASSUME NEW r \in Requests PROVE RequestInv(r)
  BY DEF AuditInit, RequestInv, At
<1>5. FaultInv
  BY DEF AuditInit, FaultInv
<1> QED
  BY <1>1, <1>3, <1>4, <1>5 DEF AuditInv

-----------------------------------------------------------------------------
(* A request on its way.                                                   *)

\* One request moves.
LEMMA StageFacts ==
    ASSUME AuditTypeOK, NEW r \in Requests, NEW s \in Stages, NEW w \in Writes
    PROVE  /\ Go(r, s) =>
                 /\ stage' \in [Requests -> Stages \X Writes]
                 /\ stage'[r][1] = s /\ stage'[r][2] = "save"
                 /\ \A q \in Requests \ {r} : stage'[q] = stage[q]
           /\ WriteOn(r, w) =>
                 /\ stage' \in [Requests -> Stages \X Writes]
                 /\ stage'[r][1] = stage[r][1] /\ stage'[r][2] = w
                 /\ \A q \in Requests \ {r} : stage'[q] = stage[q]
<1>1. stage \in [Requests -> Stages \X Writes] /\ stage[r] \in Stages \X Writes
  BY DEF AuditTypeOK
<1>2. <<s, "save">> \in Stages \X Writes
  BY DEF Writes
<1>3. /\ [stage[r] EXCEPT ![2] = w] \in Stages \X Writes
      /\ [stage[r] EXCEPT ![2] = w][1] = stage[r][1]
      /\ [stage[r] EXCEPT ![2] = w][2] = w
  BY <1>1
<1> QED
  BY <1>1, <1>2, <1>3 DEF Go, WriteOn

\* A request that writes no entry yet.
LEMMA ServedHolds ==
    ASSUME AuditInv, NEW r \in Requests,
           \/ \E k \in Kinds \ {"unknown"} : PassMiddleware(r, k)
           \/ \E result \in {"answer", "conflict"} : Handle(r, result)
           \/ Return(r)
    PROVE  AuditInv'
<1>1. PICK s \in Stages : Go(r, s) /\ At(r, "killed") = FALSE
  BY DEF PassMiddleware, Handle, Return, At, Stages
<1>2. /\ stage' \in [Requests -> Stages \X Writes]
      /\ stage'[r][1] = s /\ stage'[r][2] = "save"
      /\ \A q \in Requests \ {r} : stage'[q] = stage[q]
  BY <1>1, StageFacts DEF AuditInv, Writes
<1>3. /\ UNCHANGED <<saved, table, keyed, buffer, retryVars, lost, faults, crashes>>
      /\ kind' \in [Requests -> Kinds]
      /\ outcome' \in [Requests -> {"none", "answer", "conflict"}]
      /\ audited' \subseteq Requests
      /\ \A q \in Requests : outcome[q] = "conflict" => outcome'[q] = "conflict"
  <2>1. RequestInv(r) /\ AuditTypeOK
    BY DEF AuditInv
  <2>2. CASE \E k \in Kinds \ {"unknown"} : PassMiddleware(r, k)
    BY <2>1, <2>2 DEF PassMiddleware, retryVars, AuditTypeOK
  <2>3. CASE \E result \in {"answer", "conflict"} : Handle(r, result)
    BY <2>1, <2>3 DEF Handle, retryVars, AuditTypeOK, RequestInv
  <2>4. CASE Return(r)
    BY <2>1, <2>4 DEF Return, retryVars, AuditTypeOK
  <2> QED
    BY <2>2, <2>3, <2>4
<1>4. AuditTypeOK'
  BY <1>2, <1>3 DEF AuditInv, AuditTypeOK, retryVars
<1>5. Waiting' = Waiting /\ QueuesInv'
  BY <1>3 DEF AuditInv, QueuesInv, Waiting, retryVars
<1>6. AccountInv'
  <2>1. ASSUME NEW e \in lost, e \notin saved PROVE At(e[1], "killed")'
    BY <1>1, <1>2, <2>1 DEF AuditInv, AuditTypeOK, AccountInv, At, Entries
  <2> QED
    BY <1>3, <1>5, <2>1 DEF AuditInv, AccountInv, retryVars
<1>7. FaultInv'
  <2>1. ASSUME NEW e \in Entries, Mentions(e) PROVE Mentions(e)'
    BY <1>3, <2>1 DEF Mentions, Entries
  <2> QED
    BY <1>2, <1>3, <2>1 DEF AuditInv, FaultInv, retryVars
<1>8. ASSUME NEW q \in Requests PROVE RequestInv(q)'
  <2>1. CASE q # r
    BY <1>2, <1>3, <2>1 DEF AuditInv, RequestInv, At, PassMiddleware, Handle, Return
  <2>2. CASE q = r /\ \E k \in Kinds \ {"unknown"} : PassMiddleware(r, k)
    BY <1>2, <1>3, <2>2 DEF AuditInv, AuditTypeOK, RequestInv, At, Go, PassMiddleware
  <2>3. CASE q = r /\ \E result \in {"answer", "conflict"} : Handle(r, result)
    BY <1>2, <1>3, <2>3 DEF AuditInv, AuditTypeOK, RequestInv, At, Go, Handle
  <2>4. CASE q = r /\ Return(r)
    BY <1>2, <1>3, <2>4 DEF AuditInv, AuditTypeOK, RequestInv, At, Go, Return
  <2> QED
    BY <2>1, <2>2, <2>3, <2>4
<1> QED
  BY <1>4, <1>5, <1>6, <1>7, <1>8 DEF AuditInv

-----------------------------------------------------------------------------
(* A request that writes its entry.                                        *)

\* The entry it writes is nowhere yet.
LEMMA WritingFacts ==
    ASSUME AuditInv, NEW r \in Requests, NEW w, Writing(r, w)
    PROVE  /\ At(r, "call") \/ At(r, "http")
           /\ stage[r][2] = w
           /\ EntryOf(r) = <<r, stage[r][1]>> /\ EntryOf(r) \in Entries
           /\ EntryOf(r) \notin saved \cup Waiting \cup discarded \cup recovered \cup lost
<1>1. /\ At(r, "call") \/ At(r, "http")
      /\ stage[r][2] = w
  BY DEF Writing, At
<1>2. EntryOf(r) = <<r, stage[r][1]>> /\ EntryOf(r) \in Entries
  BY <1>1 DEF At, EntryOf, Entries
<1>3. EntryOf(r) \notin saved
  BY <1>1, <1>2 DEF AuditInv, RequestInv, At
<1>4. EntryOf(r) \notin lost
  BY <1>1, <1>2, <1>3 DEF AuditInv, AccountInv, At
<1> QED
  BY <1>1, <1>2, <1>3, <1>4 DEF AuditInv, AccountInv

LEMMA WrittenFacts ==
    ASSUME AuditInv, NEW r \in Requests, NEW w, Writing(r, w), Written(r),
           UNCHANGED <<kind, outcome, audited>>
    PROVE  /\ stage' \in [Requests -> Stages \X Writes]
           /\ saved' = saved \cup {EntryOf(r)}
           /\ \A q \in Requests \ {r} : stage'[q] = stage[q]
           /\ stage'[r][2] = "save" /\ ~At(r, "killed")
           /\ \A q \in Requests : RequestInv(q)'
<1>1. /\ At(r, "call") \/ At(r, "http")
      /\ EntryOf(r) = <<r, stage[r][1]>>
      /\ saved' = saved \cup {EntryOf(r)}
  BY WritingFacts DEF Written
<1>2. PICK s \in Stages : Go(r, s) /\ s = IF At(r, "call") THEN "replied" ELSE "done"
  BY DEF Written, Stages
<1>3. /\ stage' \in [Requests -> Stages \X Writes]
      /\ stage'[r][1] = s /\ stage'[r][2] = "save"
      /\ \A q \in Requests \ {r} : stage'[q] = stage[q]
  BY <1>2, StageFacts DEF AuditInv, Writes
<1>4. ASSUME NEW q \in Requests PROVE RequestInv(q)'
  <2>1. RequestInv(q)
    BY DEF AuditInv
  <2>2. CASE q # r
    BY <1>1, <1>3, <2>1, <2>2 DEF RequestInv, At
  <2>3. CASE q = r /\ At(r, "call")
    BY <1>1, <1>2, <1>3, <2>1, <2>3 DEF RequestInv, At
  <2>4. CASE q = r /\ At(r, "http")
    BY <1>1, <1>2, <1>3, <2>1, <2>4 DEF RequestInv, At
  <2> QED
    BY <1>1, <2>2, <2>3, <2>4
<1> QED
  BY <1>1, <1>3, <1>4 DEF At

LEMMA LogActionHolds ==
    ASSUME AuditInv, NEW r \in Requests, LogAction(r)
    PROVE  AuditInv'
<1>1. /\ Writing(r, "save") /\ Written(r)
      /\ table' = table \cup {EntryOf(r)}
      /\ UNCHANGED <<kind, outcome, audited, keyed, buffer, retryVars, lost,
                     faults, crashes>>
  BY DEF LogAction
<1>2. /\ stage' \in [Requests -> Stages \X Writes]
      /\ saved' = saved \cup {EntryOf(r)}
      /\ \A q \in Requests \ {r} : stage'[q] = stage[q]
      /\ stage'[r][2] = "save" /\ ~At(r, "killed")
      /\ \A q \in Requests : RequestInv(q)'
      /\ EntryOf(r) \in Entries
      /\ EntryOf(r) \notin saved \cup Waiting \cup discarded \cup recovered \cup lost
  BY <1>1, WrittenFacts, WritingFacts
<1>3. AuditTypeOK'
  BY <1>1, <1>2 DEF AuditInv, AuditTypeOK, retryVars
<1>4. Waiting' = Waiting /\ QueuesInv'
  BY <1>1 DEF AuditInv, QueuesInv, Waiting, retryVars
<1>5. AccountInv'
  <2>1. ASSUME NEW e \in lost, e \notin saved PROVE At(e[1], "killed")'
    BY <1>2, <2>1 DEF AuditInv, AuditTypeOK, AccountInv, At, Entries
  <2> QED
    BY <1>1, <1>2, <1>4, <2>1 DEF AuditInv, AccountInv, retryVars
<1>6. FaultInv'
  BY <1>1, <1>2 DEF AuditInv, FaultInv, retryVars, Mentions
<1> QED
  BY <1>2, <1>3, <1>4, <1>5, <1>6 DEF AuditInv

\* A request that has not returned from log_action yet.
LEMMA StillWriting ==
    ASSUME AuditInv, NEW r \in Requests, NEW w, Writing(r, w),
           NEW v \in Writes, WriteOn(r, v),
           UNCHANGED <<kind, outcome, audited, saved>>
    PROVE  /\ stage' \in [Requests -> Stages \X Writes]
           /\ \A q \in Requests : stage'[q][1] = stage[q][1]
           /\ \A q \in Requests : RequestInv(q)'
<1>1. /\ stage' \in [Requests -> Stages \X Writes]
      /\ stage'[r][1] = stage[r][1]
      /\ \A q \in Requests \ {r} : stage'[q] = stage[q]
  <2>1. stage[r][1] \in Stages
    BY DEF AuditInv, AuditTypeOK
  <2> QED
    BY <2>1, StageFacts DEF AuditInv
<1>2. \A q \in Requests : stage'[q][1] = stage[q][1]
  BY <1>1
<1>3. ASSUME NEW q \in Requests PROVE RequestInv(q)'
  BY <1>2 DEF AuditInv, RequestInv, At
<1> QED
  BY <1>1, <1>2, <1>3

LEMMA LogActionFailsHolds ==
    ASSUME AuditInv, NEW r \in Requests, LogActionFails(r)
    PROVE  AuditInv'
<1>1. PICK v \in Writes : WriteOn(r, v)
  BY DEF LogActionFails, Writes
<1>2. /\ Writing(r, "save") /\ FailToStore(EntryOf(r))
      /\ UNCHANGED <<kind, outcome, audited, saved, buffer, retryVars, lost, crashes>>
  BY DEF LogActionFails
<1>3. /\ stage' \in [Requests -> Stages \X Writes]
      /\ \A q \in Requests : stage'[q][1] = stage[q][1]
      /\ \A q \in Requests : RequestInv(q)'
      /\ EntryOf(r) \in Entries
  BY <1>1, <1>2, StillWriting, WritingFacts
<1>4. /\ faults' \in 1..MaxFaults
      /\ table \subseteq table' /\ table' \subseteq table \cup {EntryOf(r)}
      /\ keyed \subseteq keyed' /\ keyed' \subseteq keyed \cup {EntryOf(r)}
  BY <1>2, AuditAssumption DEF FailToStore, Fail, AuditInv, AuditTypeOK
<1>5. AuditTypeOK'
  BY <1>2, <1>3, <1>4 DEF AuditInv, AuditTypeOK, retryVars
<1>6. Waiting' = Waiting /\ QueuesInv'
  BY <1>2 DEF AuditInv, QueuesInv, Waiting, retryVars
<1>7. AccountInv'
  <2>1. ASSUME NEW e \in lost, e \notin saved PROVE At(e[1], "killed")'
    BY <1>3, <2>1 DEF AuditInv, AuditTypeOK, AccountInv, At, Entries
  <2> QED
    BY <1>2, <1>4, <1>6, <2>1 DEF AuditInv, AccountInv, retryVars
<1>8. FaultInv'
  BY <1>2, <1>4 DEF AuditInv, FaultInv, retryVars, Mentions
<1> QED
  BY <1>3, <1>5, <1>6, <1>7, <1>8 DEF AuditInv

LEMMA DiscardFirstHolds ==
    ASSUME AuditInv, NEW r \in Requests, DiscardFirst(r)
    PROVE  AuditInv'
<1>1. /\ Writing(r, "full") /\ WriteOn(r, "put")
      /\ UNCHANGED <<kind, outcome, audited, saved, table, keyed, retryVars,
                     faults, crashes>>
  BY DEF DiscardFirst
<1>2. /\ stage' \in [Requests -> Stages \X Writes]
      /\ \A q \in Requests : stage'[q][1] = stage[q][1]
      /\ \A q \in Requests : RequestInv(q)'
  BY <1>1, StillWriting DEF Writes
<1>3. /\ stage[r][2] = "full"
      /\ ~(faults = 0 /\ crashes = 0)
  BY <1>1, WritingFacts DEF AuditInv, FaultInv
<1>4. /\ buffer' \in Seq(Entries) /\ QueuesInv'
      /\ lost' \subseteq Entries
      /\ \A e : e \in lost' => e \in lost \/ e \in saved
      /\ Waiting' \subseteq Waiting
      /\ Waiting \subseteq Waiting' \cup lost'
      /\ lost \subseteq lost' /\ lost' \cap Waiting' = lost \cap Waiting'
  <2>1. CASE buffer = <<>>
    <3>1. buffer' = buffer /\ lost' = lost /\ batch' = batch
      BY <1>1, <2>1 DEF DiscardFirst, retryVars
    <3> QED
      BY <3>1 DEF AuditInv, AuditTypeOK, QueuesInv, Waiting
  <2>2. CASE buffer # <<>>
    <3>1. /\ buffer' = Tail(buffer) /\ lost' = lost \cup {Head(buffer)}
          /\ batch' = batch
      BY <1>1, <2>2 DEF DiscardFirst, retryVars
    <3>2. /\ Tail(buffer) \in Seq(Entries) /\ Head(buffer) \in Entries
          /\ ToSet(buffer) = {Head(buffer)} \cup ToSet(Tail(buffer))
          /\ IsInjective(Tail(buffer)) /\ Head(buffer) \notin ToSet(Tail(buffer))
      BY <2>2, TailFacts DEF AuditInv, AuditTypeOK, QueuesInv
    <3>3. Head(buffer) \in saved /\ Head(buffer) \notin ToSet(batch)
      BY <3>2 DEF AuditInv, AccountInv, Waiting, QueuesInv
    <3> QED
      BY <3>1, <3>2, <3>3 DEF AuditInv, AuditTypeOK, QueuesInv, Waiting
  <2> QED
    BY <2>1, <2>2
<1>5. AuditTypeOK'
  BY <1>1, <1>2, <1>4 DEF AuditInv, AuditTypeOK, retryVars
<1>6. AccountInv'
  <2>1. ASSUME NEW e \in lost', e \notin saved PROVE At(e[1], "killed")'
    BY <1>2, <1>4, <2>1 DEF AuditInv, AuditTypeOK, AccountInv, At, Entries
  <2> QED
    BY <1>1, <1>4, <2>1 DEF AuditInv, AccountInv, retryVars
<1>7. FaultInv'
  BY <1>1, <1>3 DEF AuditInv, FaultInv, retryVars, Mentions
<1> QED
  BY <1>2, <1>4, <1>5, <1>6, <1>7 DEF AuditInv

LEMMA AddToBufferHolds ==
    ASSUME AuditInv, NEW r \in Requests, AddToBuffer(r)
    PROVE  AuditInv'
<1>1. /\ Writing(r, "put") /\ Written(r)
      /\ buffer' = Append(buffer, EntryOf(r))
      /\ UNCHANGED <<kind, outcome, audited, table, keyed, retryVars, lost,
                     faults, crashes>>
  BY DEF AddToBuffer
<1>2. /\ stage' \in [Requests -> Stages \X Writes]
      /\ saved' = saved \cup {EntryOf(r)}
      /\ \A q \in Requests \ {r} : stage'[q] = stage[q]
      /\ ~At(r, "killed")
      /\ \A q \in Requests : RequestInv(q)'
      /\ EntryOf(r) \in Entries /\ stage[r][2] = "put"
      /\ EntryOf(r) \notin saved \cup Waiting \cup discarded \cup recovered \cup lost
  BY <1>1, WrittenFacts, WritingFacts
<1>3. /\ buffer' \in Seq(Entries) /\ IsInjective(buffer')
      /\ ToSet(buffer') = ToSet(buffer) \cup {EntryOf(r)}
  BY <1>1, <1>2, AppendFacts DEF AuditInv, AuditTypeOK, QueuesInv, Waiting
<1>4. AuditTypeOK'
  BY <1>1, <1>2, <1>3 DEF AuditInv, AuditTypeOK, retryVars
<1>5. Waiting' = Waiting \cup {EntryOf(r)} /\ QueuesInv'
  BY <1>1, <1>2, <1>3 DEF AuditInv, QueuesInv, Waiting, retryVars
<1>6. AccountInv'
  <2>1. ASSUME NEW e \in lost, e \notin saved PROVE At(e[1], "killed")'
    BY <1>2, <2>1 DEF AuditInv, AuditTypeOK, AccountInv, At, Entries
  <2> QED
    BY <1>1, <1>2, <1>5, <2>1 DEF AuditInv, AccountInv, retryVars
<1>7. FaultInv'
  BY <1>1, <1>2 DEF AuditInv, FaultInv, retryVars, Mentions
<1> QED
  BY <1>2, <1>4, <1>5, <1>6, <1>7 DEF AuditInv

-----------------------------------------------------------------------------
(* The retry thread, and the end of the process.                           *)

LEMMA RequestsKept ==
    ASSUME AuditInv, UNCHANGED <<requestVars, saved>>
    PROVE  /\ \A r \in Requests : RequestInv(r)'
           /\ \A e \in Entries : At(e[1], "killed")' <=> At(e[1], "killed")
           /\ \A e \in Entries : Mentions(e)' <=> Mentions(e)
BY DEF AuditInv, requestVars, RequestInv, At, Mentions

\* The thread wakes, opens its session or goes back to sleep.
LEMMA RetryTurnsHolds ==
    ASSUME AuditInv, RetryWakes \/ RetryOpensSession \/ RetrySleeps
    PROVE  AuditInv'
<1>1. /\ UNCHANGED <<requestVars, saved, table, keyed, buffer, batch, discarded,
                     recovered, lost, faults, crashes>>
      /\ retry' \in {"asleep", "draining", "sending"}
      /\ session' \in {session, "open"}
  BY DEF RetryWakes, RetryOpensSession, RetrySleeps
<1>2. AuditTypeOK'
  BY <1>1 DEF AuditInv, AuditTypeOK, requestVars
<1>3. Waiting' = Waiting /\ QueuesInv'
  BY <1>1 DEF AuditInv, QueuesInv, Waiting
<1>4. AccountInv'
  BY <1>1, <1>3 DEF AuditInv, AccountInv, requestVars, At
<1>5. FaultInv'
  BY <1>1 DEF AuditInv, FaultInv, requestVars, Mentions
<1> QED
  BY <1>1, <1>2, <1>3, <1>4, <1>5, RequestsKept DEF AuditInv

LEMMA RetryTakesHolds ==
    ASSUME AuditInv, RetryTakes
    PROVE  AuditInv'
<1>1. /\ buffer # <<>>
      /\ buffer' = Tail(buffer) /\ batch' = Append(batch, Head(buffer))
      /\ UNCHANGED <<requestVars, saved, table, keyed, retry, session,
                     discarded, recovered, lost, faults, crashes>>
  BY DEF RetryTakes
<1>2. /\ Tail(buffer) \in Seq(Entries) /\ Head(buffer) \in Entries
      /\ ToSet(buffer) = {Head(buffer)} \cup ToSet(Tail(buffer))
      /\ IsInjective(Tail(buffer)) /\ Head(buffer) \notin ToSet(Tail(buffer))
  BY <1>1, TailFacts DEF AuditInv, AuditTypeOK, QueuesInv
<1>3. Head(buffer) \notin ToSet(batch)
  BY <1>2 DEF AuditInv, QueuesInv
<1>4. /\ batch' \in Seq(Entries) /\ IsInjective(batch')
      /\ ToSet(batch') = ToSet(batch) \cup {Head(buffer)}
  BY <1>1, <1>2, <1>3, AppendFacts DEF AuditInv, AuditTypeOK, QueuesInv
<1>5. AuditTypeOK'
  BY <1>1, <1>2, <1>4 DEF AuditInv, AuditTypeOK, requestVars
<1>6. Waiting' = Waiting /\ QueuesInv'
  BY <1>1, <1>2, <1>3, <1>4 DEF AuditInv, QueuesInv, Waiting
<1>7. AccountInv'
  BY <1>1, <1>6 DEF AuditInv, AccountInv, requestVars, At
<1>8. FaultInv'
  BY <1>1 DEF AuditInv, FaultInv, requestVars, Mentions
<1> QED
  BY <1>1, <1>5, <1>6, <1>7, <1>8, RequestsKept DEF AuditInv

\* The first entry of the batch.
LEMMA BatchFacts ==
    ASSUME AuditInv, batch # <<>>
    PROVE  /\ Tail(batch) \in Seq(Entries) /\ Head(batch) \in Entries
           /\ ToSet(batch) = {Head(batch)} \cup ToSet(Tail(batch))
           /\ IsInjective(Tail(batch)) /\ Head(batch) \notin ToSet(Tail(batch))
           /\ Head(batch) \notin ToSet(buffer)
           /\ Head(batch) \in saved
<1>1. /\ Tail(batch) \in Seq(Entries) /\ Head(batch) \in Entries
      /\ ToSet(batch) = {Head(batch)} \cup ToSet(Tail(batch))
      /\ IsInjective(Tail(batch)) /\ Head(batch) \notin ToSet(Tail(batch))
  BY TailFacts DEF AuditInv, AuditTypeOK, QueuesInv
<1> QED
  BY <1>1 DEF AuditInv, QueuesInv, AccountInv, Waiting

LEMMA RetryStoresHolds ==
    ASSUME AuditInv, RetryStores
    PROVE  AuditInv'
<1> DEFINE e == Head(batch)
<1>1. /\ batch # <<>> /\ batch' = Tail(batch)
      /\ table' = IF e \in keyed THEN table ELSE table \cup {e}
      /\ recovered' = recovered \cup {e}
      /\ UNCHANGED <<requestVars, saved, keyed, buffer, retry, session,
                     discarded, lost, faults, crashes>>
  BY DEF RetryStores, Sending
<1>2. /\ Tail(batch) \in Seq(Entries) /\ e \in Entries
      /\ ToSet(batch) = {e} \cup ToSet(Tail(batch))
      /\ IsInjective(Tail(batch)) /\ e \notin ToSet(Tail(batch))
      /\ e \notin ToSet(buffer) /\ e \in saved
  BY <1>1, BatchFacts
<1> HIDE DEF e
<1>3. AuditTypeOK'
  BY <1>1, <1>2 DEF AuditInv, AuditTypeOK, requestVars
<1>4. Waiting = Waiting' \cup {e} /\ e \notin Waiting' /\ QueuesInv'
  BY <1>1, <1>2 DEF AuditInv, QueuesInv, Waiting
<1>5. AccountInv'
  BY <1>1, <1>2, <1>4 DEF AuditInv, AccountInv, requestVars, At
<1>6. FaultInv'
  BY <1>1, <1>2 DEF AuditInv, FaultInv, requestVars, Mentions
<1> QED
  BY <1>1, <1>3, <1>4, <1>5, <1>6, RequestsKept DEF AuditInv

\* An entry the database refused goes back, or is given up for a duplicate.
LEMMA RefusedHolds ==
    ASSUME AuditInv, batch # <<>>, batch' = Tail(batch),
           NEW text \in {"other", "duplicate"},
           RequeueOrDiscard(Head(batch), text), session' = text,
           UNCHANGED <<requestVars, saved, retry, recovered, lost, crashes>>,
           table \subseteq table', table' \subseteq table \cup {Head(batch)},
           keyed \subseteq keyed', keyed' \subseteq keyed \cup {Head(batch)},
           faults' \in 0..MaxFaults, ~(faults' = 0 /\ crashes = 0),
           text = "duplicate" => \E d \in Entries : Mentions(d)
    PROVE  AuditInv'
<1> DEFINE e == Head(batch)
<1>1. /\ Tail(batch) \in Seq(Entries) /\ e \in Entries
      /\ ToSet(batch) = {e} \cup ToSet(Tail(batch))
      /\ IsInjective(Tail(batch)) /\ e \notin ToSet(Tail(batch))
      /\ e \notin ToSet(buffer) /\ e \in saved
  BY BatchFacts
<1>2. Mentions(e) => \E d \in Entries : Mentions(d)
  BY <1>1
<1>3. /\ buffer' \in Seq(Entries) /\ IsInjective(buffer')
      /\ discarded' \subseteq discarded \cup {e} /\ discarded \subseteq discarded'
      /\ \/ e \in discarded' /\ buffer' = buffer
         \/ discarded' = discarded /\ ToSet(buffer') = ToSet(buffer) \cup {e}
      /\ text # "duplicate" => discarded' = discarded
  <2>1. CASE text = "duplicate"
    BY <2>1 DEF RequeueOrDiscard, AuditInv, AuditTypeOK, QueuesInv
  <2>2. CASE text # "duplicate"
    <3>1. buffer' = Append(buffer, e) /\ discarded' = discarded
      BY <2>2 DEF RequeueOrDiscard
    <3> QED
      BY <1>1, <2>2, <3>1, AppendFacts DEF AuditInv, AuditTypeOK, QueuesInv
  <2> QED
    BY <2>1, <2>2
<1> HIDE DEF e
<1>4. AuditTypeOK'
  BY <1>1, <1>3 DEF e, AuditInv, AuditTypeOK, requestVars
<1>5. /\ QueuesInv'
      /\ \/ Waiting' = Waiting
         \/ Waiting = Waiting' \cup {e} /\ e \notin Waiting' /\ e \in discarded'
      /\ e \in Waiting
      /\ e \in discarded' => e \notin Waiting'
      /\ discarded' # discarded => e \in discarded'
  <2>1. e \notin discarded
    BY <1>1 DEF AuditInv, AccountInv, Waiting
  <2> QED
    BY <1>1, <1>3, <2>1 DEF AuditInv, QueuesInv, Waiting
<1>6. AccountInv'
  BY <1>1, <1>3, <1>5 DEF AuditInv, AccountInv, requestVars, At, e
<1>7. FaultInv'
  <2>1. session' = "duplicate" \/ discarded' # {} => \E d \in Entries : Mentions(d)
    BY <1>3 DEF AuditInv, FaultInv
  <2>2. (\E d \in Entries : Mentions(d)) => (\E d \in Entries : Mentions(d))'
    BY RequestsKept
  <2>3. recovered' \ table' \subseteq keyed'
    BY DEF AuditInv, FaultInv
  <2> QED
    BY <2>1, <2>2, <2>3 DEF FaultInv
<1> QED
  BY <1>4, <1>5, <1>6, <1>7, RequestsKept DEF AuditInv

LEMMA RetryFailsHolds ==
    ASSUME AuditInv, RetryFails
    PROVE  AuditInv'
<1>1. /\ batch # <<>> /\ batch' = Tail(batch)
      /\ RequeueOrDiscard(Head(batch), session')
      /\ UNCHANGED <<requestVars, saved, retry, recovered, lost, crashes>>
  BY DEF RetryFails, Sending
<1>2. \/ FailToStore(Head(batch)) /\ session' = "other"
      \/ /\ Fail /\ Mentions(Head(batch)) /\ session' = "duplicate"
         /\ UNCHANGED <<table, keyed>>
  BY DEF RetryFails
<1>3. /\ faults' \in 0..MaxFaults /\ faults' # 0
      /\ table \subseteq table' /\ table' \subseteq table \cup {Head(batch)}
      /\ keyed \subseteq keyed' /\ keyed' \subseteq keyed \cup {Head(batch)}
  BY <1>2, AuditAssumption DEF FailToStore, Fail, AuditInv, AuditTypeOK
<1>4. Head(batch) \in Entries
  BY <1>1, BatchFacts
<1>5. PICK text \in {"other", "duplicate"} : session' = text
  BY <1>2
<1>6. text = "duplicate" => \E d \in Entries : Mentions(d)
  BY <1>2, <1>4, <1>5
<1> QED
  BY <1>1, <1>3, <1>5, <1>6, RefusedHolds

LEMMA RetryOnDeadSessionHolds ==
    ASSUME AuditInv, RetryOnDeadSession
    PROVE  AuditInv'
<1>1. PICK text \in {"other", "duplicate"} : session = text
  BY DEF RetryOnDeadSession
<1>2. /\ batch # <<>> /\ batch' = Tail(batch)
      /\ RequeueOrDiscard(Head(batch), text) /\ session' = text
      /\ UNCHANGED <<requestVars, saved, retry, recovered, lost, crashes>>
      /\ UNCHANGED <<table, keyed, faults>>
  BY <1>1 DEF RetryOnDeadSession, Sending
<1>3. ~(faults = 0 /\ crashes = 0) /\ faults \in 0..MaxFaults
  BY <1>1 DEF AuditInv, FaultInv, AuditTypeOK
<1>4. text = "duplicate" => \E d \in Entries : Mentions(d)
  BY <1>1 DEF AuditInv, FaultInv
<1> QED
  BY <1>2, <1>3, <1>4, RefusedHolds

LEMMA CrashServerHolds ==
    ASSUME AuditInv, CrashServer
    PROVE  AuditInv'
<1>1. /\ crashes' \in 1..MaxCrashes
      /\ stage' = [r \in Requests |-> IF r \in InFlight
                                      THEN <<"killed", "save">> ELSE stage[r]]
      /\ buffer' = <<>> /\ batch' = <<>>
      /\ retry' = "asleep" /\ session' = "closed"
      /\ UNCHANGED <<kind, outcome, audited, saved, table, keyed, discarded,
                     recovered, faults>>
  BY AuditAssumption DEF CrashServer, AuditInv, AuditTypeOK
<1> DEFINE killed == {EntryOf(r) : r \in {q \in InFlight :
                                            At(q, "call") \/ At(q, "http")}}
<1>2. lost' = lost \cup Waiting \cup killed
  BY DEF CrashServer
<1>3. ASSUME NEW e \in killed
      PROVE  e \in Entries /\ e[1] \in InFlight
  <2>1. PICK r \in InFlight : e = <<r, stage[r][1]>> /\ (At(r, "call") \/ At(r, "http"))
    BY <1>3 DEF EntryOf
  <2> QED
    BY <2>1 DEF At, Entries, InFlight
<1> HIDE DEF killed
<1>4. \A r \in Requests : stage'[r][1] = IF r \in InFlight THEN "killed" ELSE stage[r][1]
  BY <1>1
<1>5. AuditTypeOK'
  <2>1. stage' \in [Requests -> Stages \X Writes]
    BY <1>1 DEF AuditInv, AuditTypeOK, Stages, Writes
  <2>2. lost' \subseteq Entries
    BY <1>2, <1>3 DEF AuditInv, AuditTypeOK, AccountInv
  <2> QED
    BY <1>1, <2>1, <2>2 DEF AuditInv, AuditTypeOK
<1>6. Waiting' = {} /\ QueuesInv'
  BY <1>1, EmptyFacts DEF QueuesInv, Waiting
<1>7. AccountInv'
  <2>1. ASSUME NEW e \in lost', e \notin saved PROVE At(e[1], "killed")'
    <3>1. CASE e \in lost
      BY <1>4, <2>1, <3>1 DEF AuditInv, AuditTypeOK, AccountInv, At, Entries
    <3>2. CASE e \in Waiting
      BY <2>1, <3>2 DEF AuditInv, AccountInv
    <3>3. CASE e \in killed
      BY <1>3, <1>4, <3>3 DEF At, InFlight
    <3> QED
      BY <1>2, <2>1, <3>1, <3>2, <3>3
  <2> QED
    BY <1>1, <1>2, <1>6, <2>1 DEF AuditInv, AccountInv
<1>8. FaultInv'
  BY <1>1 DEF AuditInv, FaultInv, Mentions
<1>9. ASSUME NEW r \in Requests PROVE RequestInv(r)'
  <2>1. stage'[r][1] = IF stage[r][1] \in {"new", "done", "killed"}
                       THEN stage[r][1] ELSE "killed"
    BY <1>4 DEF InFlight
  <2> QED
    BY <1>1, <2>1 DEF AuditInv, RequestInv, At
<1> QED
  BY <1>5, <1>6, <1>7, <1>8, <1>9 DEF AuditInv

-----------------------------------------------------------------------------
(* The theorems.                                                           *)

LEMMA StepHolds == AuditInv /\ [AuditNext]_auditVars => AuditInv'
<1> SUFFICES ASSUME AuditInv, [AuditNext]_auditVars PROVE AuditInv'
  OBVIOUS
<1>1. ASSUME NEW r \in Requests, NEW k \in Kinds \ {"unknown"}, PassMiddleware(r, k)
      PROVE  AuditInv'
  BY <1>1, ServedHolds
<1>2. ASSUME NEW r \in Requests, ServeRequest(r) PROVE AuditInv'
  BY <1>2, ServedHolds, LogActionHolds, LogActionFailsHolds, DiscardFirstHolds,
     AddToBufferHolds DEF ServeRequest
<1>3. CASE RetryStep
  BY <1>3, RetryTurnsHolds, RetryTakesHolds, RetryStoresHolds, RetryFailsHolds,
     RetryOnDeadSessionHolds DEF RetryStep
<1>4. CASE CrashServer
  BY <1>4, CrashServerHolds
<1>5. CASE UNCHANGED auditVars
  <2>1. UNCHANGED <<requestVars, saved, table, keyed, buffer, retryVars, lost,
                    faults, crashes>>
    BY <1>5 DEF auditVars
  <2>2. Waiting' = Waiting /\ QueuesInv' /\ AuditTypeOK'
    BY <2>1 DEF AuditInv, AuditTypeOK, QueuesInv, Waiting, requestVars, retryVars
  <2>3. AccountInv' /\ FaultInv'
    BY <2>1, <2>2 DEF AuditInv, AccountInv, FaultInv, requestVars, retryVars,
                      At, Mentions
  <2> QED
    BY <2>1, <2>2, <2>3, RequestsKept DEF AuditInv
<1> QED
  BY <1>1, <1>2, <1>3, <1>4, <1>5 DEF AuditNext

LEMMA InvHolds == AuditSpec => []AuditInv
BY InitHolds, StepHolds, PTL DEF AuditSpec

\* Once log_action has returned, its entry is a row, waits once, or has one
\* recorded end, wherever writes, retries and crashes interleave.
THEOREM EntriesKept == AuditSpec => []EntriesAccounted
BY InvHolds, InvImplies, PTL

\* The decorator's entry and the middleware's exclude each other unless an
\* exception went unhandled, and one of them is written.
THEOREM AnswersAudited == AuditSpec => []AnsweredOnce
BY InvHolds, InvImplies, PTL

\* Nothing is lost without a fault, nothing is discarded without a text that
\* mentions a duplicate.
THEOREM LossesExplained == AuditSpec => []LossExplained
BY InvHolds, InvImplies, PTL

=============================================================================
