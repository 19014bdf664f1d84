-------------------------- MODULE SettlementProofs --------------------------
(***************************************************************************)
(* Settlement's types, that nothing counts as paid without a charge, and   *)
(* the promises to a client whose requests come one at a time.             *)
(*                                                                         *)
(* The argument: a payment row that carries an order id belongs to the     *)
(* incident that order is for, and stays with it; a handler that saves a   *)
(* capture holds a captured order of its row's incident.  Orders only move *)
(* forward, so what was charged once stays charged.                        *)
(***************************************************************************)
EXTENDS Settlement, FiniteSetTheorems, TLAPS

Charged(i) ==
    \E o \in OrderIds : order[o].state = "captured" /\ order[o].incident = i

RowLinked(r) ==
    /\ r.status # "none" => r.incident \in Incidents /\ r.gross \in Costs
    /\ r.incident \in Incidents => r.status # "none"
    /\ r.gateway \in OrderIds =>
         /\ r.status # "none"
         /\ order[r.gateway].state # "none"
         /\ order[r.gateway].incident = r.incident

(* The handler holds a payment row, loaded from incident i.                *)
Holds(j, i) ==
    /\ j.payment \in PaymentIds
    /\ payment[j.payment].status # "none"
    /\ payment[j.payment].incident = i
    /\ j.row.incident = i

HandlerLinked(j) ==
    /\ j.pc \in {"order_paypal", "order_save"} =>
         /\ j.incident \in Incidents
         /\ j.amount \in Costs
         /\ j.payment # 0 => Holds(j, j.incident)
    /\ j.pc = "order_save" =>
         /\ j.order \in OrderIds
         /\ order[j.order].state # "none"
         /\ order[j.order].incident = j.incident
    /\ j.pc \in {"capture_paypal", "capture_failed", "capture_save"} =>
         /\ Holds(j, j.row.incident)
         /\ j.order \in OrderIds
         /\ order[j.order].state # "none"
         /\ order[j.order].incident = j.row.incident
    /\ j.pc = "capture_save" => order[j.order].state = "captured"
    /\ j.pc \in {"payout_paypal", "payout_save"} =>
         /\ Holds(j, j.row.incident)
         /\ j.row.gross \in Costs
         /\ Charged(j.row.incident)
    /\ j.pc = "rating_insert" => j.incident \in Incidents

PaymentsCharged ==
    \A p \in PaymentIds :
        payment[p].status = "completed" \/ paidOut[p] > 0 =>
            /\ payment[p].status # "none"
            /\ Charged(payment[p].incident)

SettledInv ==
    /\ TypeOK
    /\ \A p \in PaymentIds : RowLinked(payment[p])
    /\ \A h \in Threads : HandlerLinked(job[h])
    /\ PaymentsCharged

(* What no step takes back.                                                *)
OrdersKeep ==
    \A o \in OrderIds :
        order[o].state # "none" =>
            /\ order'[o].state # "none"
            /\ order'[o].incident = order[o].incident
            /\ order[o].state = "captured" => order'[o].state = "captured"

RowsKeep ==
    \A p \in PaymentIds :
        payment[p].status # "none" =>
            /\ payment'[p].status # "none"
            /\ payment'[p].incident = payment[p].incident

LEMMA FlushColumns ==
  ASSUME NEW loaded \in PaymentRow, NEW new \in PaymentRow,
         NEW now \in PaymentRow
  PROVE  LET r == Flush(loaded, new, now) IN
         /\ r \in PaymentRow
         /\ r.status = IF new.status = loaded.status
                       THEN now.status ELSE new.status
         /\ r.incident = IF new.incident = loaded.incident
                         THEN now.incident ELSE new.incident
         /\ r.gateway = IF new.gateway = loaded.gateway
                        THEN now.gateway ELSE new.gateway
         /\ r.gross = IF new.gross = loaded.gross
                      THEN now.gross ELSE new.gross
BY DEF Flush, PaymentRow

LEMMA CaptureIdsApart ==
  ASSUME NEW o \in OrderIds
  PROVE  CaptureId(o) \in 0..(2 * MaxOrders) /\ CaptureId(o) \notin OrderIds
BY SettlementAssumption DEF CaptureId, OrderIds

LEMMA ChargedKeeps ==
  ASSUME OrdersKeep, NEW i
  PROVE  Charged(i) => Charged(i)'
BY DEF OrdersKeep, Charged

LEMMA LinksKeep ==
  ASSUME OrdersKeep, RowsKeep, NEW CONSTANT j, HandlerLinked(j)
  PROVE  HandlerLinked(j)'
<1>1. \A i : Holds(j, i) => Holds(j, i)'
  BY DEF Holds, RowsKeep
<1>2. \A o \in OrderIds : order[o].state # "none" =>
          /\ order'[o].state # "none"
          /\ order'[o].incident = order[o].incident
          /\ order[o].state = "captured" => order'[o].state = "captured"
  BY DEF OrdersKeep
<1>3. Charged(j.row.incident) => Charged(j.row.incident)'
  BY ChargedKeeps
<1> QED
  BY <1>1, <1>2, <1>3 DEF HandlerLinked

(* Threads other than the one that moves keep their promises.              *)
LEMMA OthersKeep ==
  ASSUME SettledInv, OrdersKeep, RowsKeep, NEW g \in Threads, job'[g] = job[g]
  PROVE  HandlerLinked(job[g])'
<1>1. PICK j : j = job[g]
  OBVIOUS
<1>2. HandlerLinked(j)
  BY <1>1 DEF SettledInv
<1>3. HandlerLinked(j)'
  BY <1>2, LinksKeep
<1> QED
  BY <1>1, <1>3
LEMMA StepKeeps ==
  ASSUME SettledInv, NEW h \in Threads, TypeOK', OrdersKeep, RowsKeep,
         \A g \in Threads \ {h} : job'[g] = job[g],
         HandlerLinked(job[h])',
         \A p \in PaymentIds : RowLinked(payment[p])',
         PaymentsCharged'
  PROVE  SettledInv'
<1>1. ASSUME NEW g \in Threads PROVE HandlerLinked(job[g])'
  BY OthersKeep
<1> QED
  BY <1>1 DEF SettledInv

(* Steps that do not write the payments.                                   *)
LEMMA BooksKept ==
  ASSUME SettledInv, OrdersKeep, UNCHANGED <<payment, paidOut>>
  PROVE  /\ RowsKeep
         /\ \A p \in PaymentIds : RowLinked(payment[p])'
         /\ PaymentsCharged'
BY ChargedKeeps
   DEF SettledInv, OrdersKeep, RowsKeep, RowLinked, PaymentsCharged

(* Steps that write one payment row.                                       *)
LEMMA RowWritten ==
  ASSUME SettledInv, NEW p \in PaymentIds, NEW CONSTANT r \in PaymentRow,
         payment' = [payment EXCEPT ![p] = r], UNCHANGED <<order, paidOut>>,
         RowLinked(r),
         payment[p].status # "none" =>
            r.status # "none" /\ r.incident = payment[p].incident,
         r.status = "completed" => Charged(r.incident)
  PROVE  /\ payment' \in [PaymentIds -> PaymentRow]
         /\ OrdersKeep /\ RowsKeep
         /\ \A q \in PaymentIds : RowLinked(payment[q])'
         /\ PaymentsCharged'
<1>1. payment \in [PaymentIds -> PaymentRow]
  BY DEF SettledInv, TypeOK
<1>2. payment'[p] = r /\ \A q \in PaymentIds \ {p} : payment'[q] = payment[q]
  BY <1>1
<1>3. OrdersKeep /\ RowsKeep
  BY <1>2 DEF OrdersKeep, RowsKeep
<1>4. ASSUME NEW q \in PaymentIds PROVE RowLinked(payment[q])'
  <2>1. RowLinked(payment'[q])
    BY <1>2 DEF SettledInv
  <2> QED
    BY <2>1 DEF RowLinked
<1>5. PaymentsCharged'
  BY <1>2 DEF SettledInv, PaymentsCharged, Charged
<1> QED
  BY <1>1, <1>3, <1>4, <1>5

LEMMA IdleTyped == Idle \in Jobs /\ NoPayment \in PaymentRow
BY SettlementAssumption
   DEF Idle, NoPayment, NoRatings, Ratings, PaymentRow, PaymentStatus, Jobs, Labels

LEMMA InitSettled == Init => SettledInv
<1> SUFFICES ASSUME Init PROVE SettledInv
  OBVIOUS
<1>1. TypeOK
  BY IdleTyped DEF Init, TypeOK, NoOrder, NoRatings, Ratings, Order
<1>2. \A p \in PaymentIds : RowLinked(payment[p])
  BY SettlementAssumption DEF Init, RowLinked, NoPayment, OrderIds
<1>3. \A h \in Threads : HandlerLinked(job[h])
  BY DEF Init, HandlerLinked, Idle
<1>4. PaymentsCharged
  BY DEF Init, PaymentsCharged, NoPayment
<1> QED
  BY <1>1, <1>2, <1>3, <1>4 DEF SettledInv

(* A thread takes the state j; began is only a stamp.                      *)
LEMMA MovedLinked ==
  ASSUME NEW h \in Threads, NEW CONSTANT j \in Jobs, NEW CONSTANT n,
         job \in [Threads -> Jobs],
         job' = [job EXCEPT ![h] = [j EXCEPT !.began = n]],
         HandlerLinked(j)'
  PROVE  HandlerLinked(job[h])'
<1>1. job'[h] = [j EXCEPT !.began = n]
  OBVIOUS
<1>2. /\ job'[h].pc = j.pc /\ job'[h].incident = j.incident
      /\ job'[h].payment = j.payment /\ job'[h].row = j.row
      /\ job'[h].order = j.order /\ job'[h].amount = j.amount
  BY <1>1 DEF Jobs
<1>3. \A i : Holds(j, i)' => Holds(job[h], i)'
  BY <1>2 DEF Holds
<1> QED
  BY <1>2, <1>3 DEF HandlerLinked

(* Requests only load rows.                                                *)
LEMMA BeginSettled ==
  ASSUME SettledInv, NEW h \in Threads, NEW CONSTANT j \in Jobs,
         HandlerLinked(j), Begin(h, j),
         UNCHANGED <<cost, payment, order, paidOut, rating, average>>
  PROVE  SettledInv'
<1>1. TypeOK /\ job \in [Threads -> Jobs] /\ clock \in Nat
  BY DEF SettledInv, TypeOK
<1>2. TypeOK'
  <2>1. [j EXCEPT !.began = clock + 1] \in Jobs
    BY <1>1 DEF Jobs
  <2>2. job' \in [Threads -> Jobs] /\ clock' \in Nat /\ smooth' \in BOOLEAN
    BY <1>1, <2>1 DEF Begin, TypeOK
  <2> QED
    BY <1>1, <2>2 DEF TypeOK
<1>3. /\ OrdersKeep /\ RowsKeep
      /\ \A p \in PaymentIds : RowLinked(payment[p])'
      /\ PaymentsCharged'
  BY BooksKept DEF OrdersKeep
<1>4. HandlerLinked(j)'
  BY <1>3, LinksKeep
<1>5. HandlerLinked(job[h])'
  <2>1. PICK n : n = clock + 1
    OBVIOUS
  <2> QED
    BY <1>1, <1>4, <2>1, MovedLinked DEF Begin
<1>6. \A g \in Threads \ {h} : job'[g] = job[g]
  BY <1>1 DEF Begin
<1> QED
  BY <1>2, <1>3, <1>5, <1>6, StepKeeps

LEMMA CostCharged ==
  ASSUME TypeOK, NEW i \in Incidents, cost[i] > 0
  PROVE  cost[i] \in Costs
BY SettlementAssumption DEF TypeOK

LEMMA StartOrderSettled ==
  ASSUME SettledInv, NEW h \in Threads, NEW i \in Incidents, StartOrder(h, i)
  PROVE  SettledInv'
<1>0. Idle \in Jobs /\ cost[i] \in Costs
  BY IdleTyped, CostCharged DEF StartOrder, SettledInv
<1> USE DEF StartOrder
<1>1. CASE LatestOf(i) = {}
  <2>1. PICK j : j = [Idle EXCEPT !.pc = "order_paypal", !.incident = i,
                                  !.amount = cost[i]]
    OBVIOUS
  <2>2. j \in Jobs /\ HandlerLinked(j)
    BY <1>0, <2>1 DEF Jobs, Labels, HandlerLinked, Idle
  <2> QED
    BY <1>1, <2>1, <2>2, BeginSettled DEF paypalVars, ratingVars
<1>2. ASSUME NEW p \in LatestOf(i),
             Begin(h, [Idle EXCEPT !.pc = "order_paypal", !.incident = i,
                                   !.amount = cost[i], !.payment = p,
                                   !.row = payment[p]])
      PROVE  SettledInv'
  <2>1. PICK j : j = [Idle EXCEPT !.pc = "order_paypal", !.incident = i,
                                  !.amount = cost[i], !.payment = p,
                                  !.row = payment[p]]
    OBVIOUS
  <2>2. /\ p \in PaymentIds /\ payment[p] \in PaymentRow
        /\ payment[p].incident = i
    BY DEF LatestOf, PaymentsOf, SettledInv, TypeOK
  <2>3. payment[p].status # "none"
    BY <2>2 DEF SettledInv, RowLinked
  <2>4. j \in Jobs /\ HandlerLinked(j)
    BY <1>0, <2>1, <2>2, <2>3 DEF Jobs, Labels, HandlerLinked, Holds, Idle
  <2> QED
    BY <1>2, <2>1, <2>4, BeginSettled DEF paypalVars, ratingVars
<1> QED
  BY <1>1, <1>2

LEMMA RequestSettled ==
  ASSUME SettledInv, NEW h \in Threads, Request(h)
  PROVE  SettledInv'
<1>0. Idle \in Jobs
  BY IdleTyped
<1>1. ASSUME NEW i \in Incidents, CreateOrder(h, i) PROVE SettledInv'
  BY <1>1, StartOrderSettled DEF CreateOrder
<1>2. ASSUME NEW i \in Incidents, CreateRating(h, i) PROVE SettledInv'
  <2>1. PICK j : j = [Idle EXCEPT !.pc = "rating_insert", !.incident = i]
    OBVIOUS
  <2>2. j \in Jobs /\ HandlerLinked(j)
    BY <1>0, <2>1 DEF Jobs, Labels, HandlerLinked, Idle
  <2> QED
    BY <1>2, <2>1, <2>2, BeginSettled DEF CreateRating, paypalVars, ratingVars
<1>3. ASSUME NEW o \in OrderIds, CaptureOrder(h, o) PROVE SettledInv'
  <2>1. PICK p \in PaymentIds :
          /\ payment[p].gateway = o
          /\ Begin(h, [Idle EXCEPT !.pc = "capture_paypal", !.payment = p,
                                   !.row = payment[p], !.order = o])
    BY <1>3 DEF CaptureOrder
  <2>2. PICK j : j = [Idle EXCEPT !.pc = "capture_paypal", !.payment = p,
                                  !.row = payment[p], !.order = o]
    OBVIOUS
  <2>3. payment[p] \in PaymentRow /\ RowLinked(payment[p])
    BY DEF SettledInv, TypeOK
  <2>4. j \in Jobs /\ HandlerLinked(j)
    BY <1>0, <2>1, <2>2, <2>3
       DEF Jobs, Labels, HandlerLinked, Holds, RowLinked, Idle
  <2> QED
    BY <1>3, <2>1, <2>2, <2>4, BeginSettled
       DEF CaptureOrder, paypalVars, ratingVars
<1> QED
  BY <1>1, <1>2, <1>3 DEF Request

(* The steps of a running handler.  Every one leaves its thread in some    *)
(* state j of its own.                                                     *)
LEMMA ProceedMoves ==
  ASSUME SettledInv, NEW h \in Threads, NEW CONSTANT j \in Jobs,
         job' = [job EXCEPT ![h] = j],
         cost' \in [Incidents -> Costs \cup {0}],
         payment' \in [PaymentIds -> PaymentRow],
         order' \in [OrderIds -> Order],
         paidOut' \in [PaymentIds -> Nat],
         rating' \in Ratings, average' \in Ratings,
         clock' \in Nat, smooth' \in BOOLEAN,
         OrdersKeep, RowsKeep,
         HandlerLinked(j)',
         \A p \in PaymentIds : RowLinked(payment[p])',
         PaymentsCharged'
  PROVE  SettledInv'
<1>1. job \in [Threads -> Jobs]
  BY DEF SettledInv, TypeOK
<1>2. job' \in [Threads -> Jobs] /\ \A g \in Threads \ {h} : job'[g] = job[g]
  BY <1>1
<1>3. TypeOK'
  BY <1>2 DEF TypeOK
<1>4. HandlerLinked(job[h])'
  <2>1. job'[h] = j
    BY <1>1
  <2> QED
    BY <2>1
<1> QED
  BY <1>2, <1>3, <1>4, StepKeeps

(* The thread becomes idle and no table but the payments was written.      *)
LEMMA FinishMoves ==
  ASSUME SettledInv, NEW h \in Threads, Finish(h),
         cost' \in [Incidents -> Costs \cup {0}],
         payment' \in [PaymentIds -> PaymentRow],
         order' \in [OrderIds -> Order],
         paidOut' \in [PaymentIds -> Nat],
         rating' \in Ratings, average' \in Ratings,
         clock' \in Nat, smooth' \in BOOLEAN,
         OrdersKeep, RowsKeep,
         \A p \in PaymentIds : RowLinked(payment[p])',
         PaymentsCharged'
  PROVE  SettledInv'
<1>1. PICK j : j = Idle
  OBVIOUS
<1>2. j \in Jobs
  BY <1>1, IdleTyped
<1>3. HandlerLinked(j)'
  BY <1>1 DEF HandlerLinked, Idle
<1> QED
  BY <1>1, <1>2, <1>3, ProceedMoves DEF Finish

LEMMA FinishSettled ==
  ASSUME SettledInv, NEW h \in Threads, Finish(h),
         UNCHANGED <<cost, payment, order, paidOut, rating, average, clock>>,
         smooth' \in BOOLEAN
  PROVE  SettledInv'
<1>1. TypeOK
  BY DEF SettledInv
<1>2. OrdersKeep
  BY DEF OrdersKeep
<1> QED
  BY <1>1, <1>2, BooksKept, FinishMoves DEF TypeOK

LEMMA PaypalCreateSettled ==
  ASSUME SettledInv, NEW h \in Threads, PaypalCreate(h)
  PROVE  SettledInv'
<1>0. /\ TypeOK /\ job[h] \in Jobs /\ HandlerLinked(job[h])
      /\ job[h].pc = "order_paypal"
  BY DEF SettledInv, TypeOK, PaypalCreate, At
<1>1. ASSUME NEW o \in OrderIds,
             order[o].state = "none",
             order' = [order EXCEPT ![o] =
                         [state |-> "created", incident |-> job[h].incident,
                          amount |-> job[h].amount]],
             Continue(h, [job[h] EXCEPT !.pc = "order_save", !.order = o])
      PROVE  SettledInv'
  <2>1. PICK j : j = [job[h] EXCEPT !.pc = "order_save", !.order = o]
    OBVIOUS
  <2>2. j \in Jobs
    BY <1>0, <2>1 DEF Jobs, Labels
  <2>3. /\ order' \in [OrderIds -> Order]
        /\ order'[o].state = "created" /\ order'[o].incident = job[h].incident
        /\ \A q \in OrderIds \ {o} : order'[q] = order[q]
    BY <1>0, <1>1 DEF TypeOK, Order, Jobs
  <2>4. OrdersKeep
    BY <1>1, <2>3 DEF OrdersKeep
  <2>5. HandlerLinked(j)'
    BY <1>0, <2>1, <2>3 DEF HandlerLinked, Holds, Jobs, PaypalCreate
  <2> QED
    BY <1>0, <1>1, <2>1, <2>2, <2>3, <2>4, <2>5, BooksKept, ProceedMoves
       DEF PaypalCreate, Continue, TypeOK, ratingVars
<1>2. CASE order' = order /\ Finish(h)
  BY <1>0, <1>2, FinishSettled DEF PaypalCreate, ratingVars, TypeOK
<1> QED
  BY <1>1, <1>2 DEF PaypalCreate

LEMMA SaveOrderSettled ==
  ASSUME SettledInv, NEW h \in Threads, SaveOrder(h)
  PROVE  SettledInv'
<1> DEFINE j == job[h]
           new == [j.row EXCEPT !.status = "pending", !.gateway = j.order,
                                !.gross = j.amount, !.payout = "none",
                                !.created = clock + 1]
<1>0. /\ TypeOK /\ j \in Jobs /\ HandlerLinked(j) /\ j.pc = "order_save"
      /\ clock' \in Nat
      /\ Finish(h) /\ UNCHANGED <<cost, order, paidOut, rating, average, smooth>>
  BY DEF SettledInv, TypeOK, SaveOrder, At, paypalVars, ratingVars
<1>1. /\ j.incident \in Incidents /\ j.amount \in Costs
      /\ j.payment # 0 => Holds(j, j.incident)
      /\ j.order \in OrderIds /\ order[j.order].state # "none"
      /\ order[j.order].incident = j.incident
  BY <1>0 DEF HandlerLinked
<1>2. CASE j.payment # 0 /\ payment' = [payment EXCEPT ![j.payment] =
                                          Flush(j.row, new, @)]
  <2>1. PICK p \in PaymentIds : p = j.payment
    BY <1>1, <1>2 DEF Holds
  <2>2. PICK r : r = Flush(j.row, new, payment[p])
    OBVIOUS
  <2>3. /\ new \in PaymentRow /\ j.row \in PaymentRow
        /\ payment[p] \in PaymentRow /\ RowLinked(payment[p])
        /\ new.status = "pending" /\ new.incident = j.incident
        /\ new.gateway = j.order /\ new.gross = j.amount
        /\ j.row.incident = j.incident /\ payment[p].incident = j.incident
        /\ payment[p].status # "none"
    <3>1. j.row \in PaymentRow /\ payment[p] \in PaymentRow /\ clock \in Nat
      BY <1>0 DEF Jobs, TypeOK
    <3>2. /\ j.row.incident = j.incident /\ payment[p].incident = j.incident
          /\ payment[p].status # "none"
      BY <1>1, <1>2, <2>1 DEF Holds
    <3>3. j.order \in 0..(2 * MaxOrders)
      BY <1>1, SettlementAssumption DEF OrderIds
    <3>4. /\ new \in PaymentRow
          /\ new.status = "pending" /\ new.incident = j.row.incident
          /\ new.gateway = j.order /\ new.gross = j.amount
      <4>1. PICK row \in PaymentRow : row = j.row
        BY <3>1
      <4>2. PICK o \in 0..(2 * MaxOrders) : o = j.order
        BY <3>3
      <4>3. PICK a \in Costs : a = j.amount
        BY <1>1
      <4>4. PICK n \in Nat : n = clock + 1
        BY <3>1
      <4>5. new = [row EXCEPT !.status = "pending", !.gateway = o, !.gross = a,
                              !.payout = "none", !.created = n]
        BY <4>1, <4>2, <4>3, <4>4
      <4> HIDE DEF new
      <4>6. new = [status |-> "pending", incident |-> row.incident,
                   gateway |-> o, gross |-> a, payout |-> "none", created |-> n]
        BY <4>5 DEF PaymentRow
      <4>7. row.incident \in Incidents \cup {None}
        BY DEF PaymentRow
      <4> QED
        BY <4>1, <4>2, <4>3, <4>6, <4>7 DEF PaymentRow, PaymentStatus
    <3>5. RowLinked(payment[p])
      BY DEF SettledInv
    <3> QED
      BY <3>1, <3>2, <3>4, <3>5
  <2> HIDE DEF new
  <2>4. /\ r \in PaymentRow
        /\ r.status \in {"pending", payment[p].status}
        /\ r.incident = j.incident
        /\ r.gateway \in {j.order, payment[p].gateway}
        /\ r.gross \in {j.amount, payment[p].gross}
    BY <2>2, <2>3, FlushColumns
  <2>5. RowLinked(r)
    BY <1>1, <2>3, <2>4 DEF RowLinked
  <2>6. r.status = "completed" => Charged(r.incident)
    BY <2>3, <2>4 DEF SettledInv, PaymentsCharged
  <2>7. payment' = [payment EXCEPT ![p] = r]
    BY <1>2, <2>1, <2>2
  <2> QED
    BY <1>0, <2>3, <2>4, <2>5, <2>6, <2>7, RowWritten, FinishMoves DEF TypeOK
<1>3. ASSUME NEW p \in PaymentIds, payment[p].status = "none",
             payment' = [payment EXCEPT ![p] =
               [status |-> "pending", incident |-> j.incident,
                gateway |-> j.order, gross |-> j.amount,
                payout |-> "none", created |-> j.began]]
      PROVE  SettledInv'
  <2>1. PICK r : r = [status |-> "pending", incident |-> j.incident,
                      gateway |-> j.order, gross |-> j.amount,
                      payout |-> "none", created |-> j.began]
    OBVIOUS
  <2>2. r \in PaymentRow
    BY <1>0, <1>1, <2>1, SettlementAssumption
       DEF PaymentRow, PaymentStatus, Jobs, OrderIds
  <2>3. RowLinked(r) /\ r.status = "pending"
    BY <1>1, <2>1 DEF RowLinked
  <2>4. payment' = [payment EXCEPT ![p] = r]
    BY <1>3, <2>1
  <2> QED
    BY <1>0, <1>3, <2>2, <2>3, <2>4, RowWritten, FinishMoves DEF TypeOK
<1> QED
  BY <1>2, <1>3 DEF SaveOrder

LEMMA PaypalCaptureSettled ==
  ASSUME SettledInv, NEW h \in Threads, PaypalCapture(h)
  PROVE  SettledInv'
<1>0. /\ TypeOK /\ job[h] \in Jobs /\ HandlerLinked(job[h])
      /\ job[h].pc = "capture_paypal" /\ smooth' \in BOOLEAN
      /\ UNCHANGED <<cost, payment, paidOut, rating, average, clock>>
  BY DEF SettledInv, TypeOK, PaypalCapture, At, ratingVars
<1>1. PICK c, s :
         /\ c = [job[h] EXCEPT !.pc = s] /\ Continue(h, c)
         /\ s \in {"capture_failed", "capture_save"}
         /\ \/ /\ order[job[h].order].state = "approved"
               /\ order' = [order EXCEPT ![job[h].order].state = "captured"]
            \/ order' = order /\ s = "capture_failed"
  BY DEF PaypalCapture
<1>2. c \in Jobs
  BY <1>0, <1>1 DEF Jobs, Labels
<1>3. order' \in [OrderIds -> Order] /\ OrdersKeep
  BY <1>0, <1>1 DEF TypeOK, Order, OrdersKeep
<1>4. HandlerLinked(c)'
  <2>1. HandlerLinked(c) \/ c.pc = "capture_save"
    BY <1>0, <1>1 DEF HandlerLinked, Holds, Jobs
  <2>2. RowsKeep
    BY <1>0 DEF RowsKeep
  <2>3. CASE c.pc = "capture_save"
    BY <1>0, <1>1, <1>3, <2>3 DEF HandlerLinked, Holds, Jobs, TypeOK, Order
  <2> QED
    BY <1>3, <2>1, <2>2, <2>3, LinksKeep
<1> QED
  BY <1>0, <1>1, <1>2, <1>3, <1>4, BooksKept, ProceedMoves DEF Continue, TypeOK

LEMMA SaveFailedSettled ==
  ASSUME SettledInv, NEW h \in Threads, SaveFailed(h)
  PROVE  SettledInv'
<1> DEFINE j == job[h]
           new == [j.row EXCEPT !.status = "failed"]
<1>0. /\ TypeOK /\ j \in Jobs /\ HandlerLinked(j) /\ j.pc = "capture_failed"
      /\ payment' = [payment EXCEPT ![j.payment] = Flush(j.row, new, @)]
      /\ Finish(h)
      /\ UNCHANGED <<cost, order, paidOut, rating, average, clock, smooth>>
  BY DEF SettledInv, TypeOK, SaveFailed, At, paypalVars, ratingVars
<1>1. PICK p \in PaymentIds : p = j.payment /\ Holds(j, j.row.incident)
  BY <1>0 DEF HandlerLinked, Holds
<1>2. PICK r : r = Flush(j.row, new, payment[p])
  OBVIOUS
<1>3. /\ j.row \in PaymentRow /\ payment[p] \in PaymentRow
      /\ RowLinked(payment[p]) /\ payment[p].status # "none"
  BY <1>0, <1>1 DEF Jobs, TypeOK, SettledInv, Holds
<1>4. /\ new \in PaymentRow /\ new.status = "failed"
      /\ new.incident = j.row.incident /\ new.gateway = j.row.gateway
      /\ new.gross = j.row.gross
  BY <1>3 DEF PaymentRow, PaymentStatus
<1> HIDE DEF new
<1>5. /\ r \in PaymentRow /\ r.status \in {"failed", payment[p].status}
      /\ r.incident = payment[p].incident /\ r.gateway = payment[p].gateway
      /\ r.gross = payment[p].gross
  BY <1>2, <1>3, <1>4, FlushColumns
<1>6. RowLinked(r)
  BY <1>3, <1>5 DEF RowLinked
<1>7. r.status = "completed" => Charged(r.incident)
  BY <1>5 DEF SettledInv, PaymentsCharged
<1>8. payment' = [payment EXCEPT ![p] = r]
  BY <1>0, <1>1, <1>2
<1> QED
  BY <1>0, <1>3, <1>5, <1>6, <1>7, <1>8, RowWritten, FinishMoves DEF TypeOK

LEMMA SaveCapturedSettled ==
  ASSUME SettledInv, NEW h \in Threads, SaveCaptured(h)
  PROVE  SettledInv'
<1> DEFINE j == job[h]
           new == [j.row EXCEPT !.status = "completed",
                                !.gateway = CaptureId(j.order)]
<1>0. /\ TypeOK /\ j \in Jobs /\ HandlerLinked(j) /\ j.pc = "capture_save"
      /\ payment' = [payment EXCEPT ![j.payment] = Flush(j.row, new, @)]
      /\ UNCHANGED <<cost, order, paidOut, rating, average, clock, smooth>>
  BY DEF SettledInv, TypeOK, SaveCaptured, At, paypalVars, ratingVars
<1>1. PICK p \in PaymentIds : p = j.payment /\ Holds(j, j.row.incident)
  BY <1>0 DEF HandlerLinked, Holds
<1>2. PICK r : r = Flush(j.row, new, payment[p])
  OBVIOUS
<1>3. /\ j.row \in PaymentRow /\ payment[p] \in PaymentRow
      /\ RowLinked(payment[p]) /\ payment[p].status # "none"
      /\ payment[p].incident = j.row.incident
      /\ j.order \in OrderIds /\ Charged(j.row.incident)
  BY <1>0, <1>1 DEF Jobs, TypeOK, SettledInv, Holds, HandlerLinked, Charged
<1>4. /\ new \in PaymentRow /\ new.status = "completed"
      /\ new.incident = j.row.incident /\ new.gateway = CaptureId(j.order)
      /\ new.gross = j.row.gross
  BY <1>3, CaptureIdsApart DEF PaymentRow, PaymentStatus
<1> HIDE DEF new
<1>5. /\ r \in PaymentRow /\ r.status \in {"completed", payment[p].status}
      /\ r.incident = payment[p].incident
      /\ r.gateway \in {CaptureId(j.order), payment[p].gateway}
      /\ r.gross = payment[p].gross
  BY <1>2, <1>3, <1>4, FlushColumns
<1>6. RowLinked(r)
  BY <1>3, <1>5, CaptureIdsApart DEF RowLinked
<1>7. Charged(r.incident)
  BY <1>3, <1>5
<1>8. payment' = [payment EXCEPT ![p] = r] /\ payment'[p] = r
  BY <1>0, <1>1, <1>2 DEF TypeOK
<1>9. /\ payment' \in [PaymentIds -> PaymentRow]
      /\ OrdersKeep /\ RowsKeep
      /\ \A q \in PaymentIds : RowLinked(payment[q])'
      /\ PaymentsCharged'
  BY <1>0, <1>3, <1>5, <1>6, <1>7, <1>8, RowWritten
<1>10. CASE Finish(h)
  BY <1>0, <1>9, <1>10, FinishMoves DEF TypeOK
<1>11. CASE Continue(h, [Idle EXCEPT !.pc = "payout_paypal",
                                     !.payment = j.payment,
                                     !.row = payment'[j.payment]])
  <2>1. PICK c : c = [Idle EXCEPT !.pc = "payout_paypal", !.payment = p,
                                  !.row = r]
    OBVIOUS
  <2>2. Idle \in Jobs
    BY IdleTyped
  <2>3. c \in Jobs
    BY <1>5, <2>1, <2>2 DEF Jobs, Labels
  <2>4. /\ c.pc = "payout_paypal" /\ c.payment = p /\ c.row = r
    BY <2>1, <2>2 DEF Jobs
  <2>5. r.gross \in Costs /\ r.status # "none"
    BY <1>3, <1>5, <1>6 DEF RowLinked
  <2>6. Charged(r.incident)'
    BY <1>0, <1>7 DEF Charged
  <2>7. HandlerLinked(c)'
    BY <1>8, <2>4, <2>5, <2>6 DEF HandlerLinked, Holds
  <2>8. job' = [job EXCEPT ![h] = c]
    BY <1>1, <1>8, <1>11, <2>1 DEF Continue
  <2> QED
    BY <1>0, <1>9, <2>3, <2>7, <2>8, ProceedMoves DEF TypeOK
<1> QED
  BY <1>10, <1>11 DEF SaveCaptured

LEMMA PaypalPayoutSettled ==
  ASSUME SettledInv, NEW h \in Threads, PaypalPayout(h)
  PROVE  SettledInv'
<1>0. /\ TypeOK /\ job[h] \in Jobs /\ HandlerLinked(job[h])
      /\ job[h].pc = "payout_paypal" /\ smooth' \in BOOLEAN
      /\ UNCHANGED <<cost, payment, order, rating, average, clock>>
  BY DEF SettledInv, TypeOK, PaypalPayout, At, ratingVars
<1>1. PICK a \in {"sent", "failed"} :
         /\ Continue(h, [job[h] EXCEPT !.pc = "payout_save", !.payout = a])
         /\ \/ paidOut' = [paidOut EXCEPT ![job[h].payment] =
                                             Net[job[h].row.gross]]
            \/ paidOut' = paidOut
  BY DEF PaypalPayout
<1>2. PICK c : c = [job[h] EXCEPT !.pc = "payout_save", !.payout = a]
  OBVIOUS
<1>3. c \in Jobs
  BY <1>0, <1>2 DEF Jobs, Labels
<1>4. PICK p \in PaymentIds : p = job[h].payment
  BY <1>0 DEF HandlerLinked, Holds
<1>5. /\ payment[p].status # "none" /\ Charged(payment[p].incident)
      /\ Net[job[h].row.gross] \in Nat
  BY <1>0, <1>4, SettlementAssumption DEF HandlerLinked, Holds
<1>6. /\ paidOut' \in [PaymentIds -> Nat]
      /\ \A q \in PaymentIds \ {p} : paidOut'[q] = paidOut[q]
  BY <1>0, <1>1, <1>4, <1>5 DEF TypeOK
<1>7. OrdersKeep /\ RowsKeep
  BY <1>0 DEF OrdersKeep, RowsKeep
<1>8. PaymentsCharged'
  BY <1>0, <1>5, <1>6 DEF SettledInv, PaymentsCharged, Charged
<1>9. ASSUME NEW q \in PaymentIds PROVE RowLinked(payment[q])'
  BY <1>0 DEF SettledInv, RowLinked
<1>10. HandlerLinked(c)
  BY <1>0, <1>2 DEF HandlerLinked, Holds, Jobs
<1>11. HandlerLinked(c)'
  BY <1>7, <1>10, LinksKeep
<1> QED
  BY <1>0, <1>1, <1>2, <1>3, <1>6, <1>7, <1>8, <1>9, <1>11, ProceedMoves
     DEF Continue, TypeOK

LEMMA SavePayoutSettled ==
  ASSUME SettledInv, NEW h \in Threads, SavePayout(h)
  PROVE  SettledInv'
<1> DEFINE j == job[h]
           new == [j.row EXCEPT !.payout = j.payout]
<1>0. /\ TypeOK /\ j \in Jobs /\ HandlerLinked(j) /\ j.pc = "payout_save"
      /\ payment' = [payment EXCEPT ![j.payment] = Flush(j.row, new, @)]
      /\ Finish(h)
      /\ UNCHANGED <<cost, order, paidOut, rating, average, clock, smooth>>
  BY DEF SettledInv, TypeOK, SavePayout, At, paypalVars, ratingVars
<1>1. PICK p \in PaymentIds : p = j.payment /\ Holds(j, j.row.incident)
  BY <1>0 DEF HandlerLinked, Holds
<1>2. PICK r : r = Flush(j.row, new, payment[p])
  OBVIOUS
<1>3. /\ j.row \in PaymentRow /\ payment[p] \in PaymentRow
      /\ RowLinked(payment[p]) /\ payment[p].status # "none"
  BY <1>0, <1>1 DEF Jobs, TypeOK, SettledInv, Holds
<1>4. /\ new \in PaymentRow /\ new.status = j.row.status
      /\ new.incident = j.row.incident /\ new.gateway = j.row.gateway
      /\ new.gross = j.row.gross
  BY <1>0, <1>3 DEF PaymentRow, Jobs
<1> HIDE DEF new
<1>5. /\ r \in PaymentRow /\ r.status = payment[p].status
      /\ r.incident = payment[p].incident /\ r.gateway = payment[p].gateway
      /\ r.gross = payment[p].gross
  BY <1>2, <1>3, <1>4, FlushColumns
<1>6. RowLinked(r)
  BY <1>3, <1>5 DEF RowLinked
<1>7. r.status = "completed" => Charged(r.incident)
  BY <1>5 DEF SettledInv, PaymentsCharged
<1>8. payment' = [payment EXCEPT ![p] = r]
  BY <1>0, <1>1, <1>2
<1> QED
  BY <1>0, <1>3, <1>5, <1>6, <1>7, <1>8, RowWritten, FinishMoves DEF TypeOK

(* Steps that write no payment and no order keep everything.               *)
LEMMA RatingSettled ==
  ASSUME SettledInv, NEW h \in Threads,
         InsertRating(h) \/ ReadStats(h) \/ SaveAverage(h)
  PROVE  SettledInv'
<1>0. /\ TypeOK /\ job[h] \in Jobs /\ HandlerLinked(job[h])
      /\ rating \in Ratings /\ average \in Ratings
  BY DEF SettledInv, TypeOK
<1>1. CASE InsertRating(h)
  <2>1. PICK c : c = [job[h] EXCEPT !.pc = "rating_stats"]
    OBVIOUS
  <2>2. c \in Jobs /\ HandlerLinked(c)'
    BY <1>0, <2>1 DEF Jobs, Labels, HandlerLinked
  <2>3. job[h].incident \in Incidents
    BY <1>0, <1>1 DEF InsertRating, At, HandlerLinked
  <2>4. rating' \in Ratings
    BY <1>0, <1>1, <2>3 DEF InsertRating, Ratings
  <2>5. OrdersKeep
    BY <1>1 DEF InsertRating, paypalVars, OrdersKeep
  <2> QED
    BY <1>0, <1>1, <2>1, <2>2, <2>4, <2>5, BooksKept, ProceedMoves
       DEF InsertRating, Continue, paypalVars, TypeOK
<1>2. CASE ReadStats(h)
  <2>1. PICK c : c = [job[h] EXCEPT !.pc = "rating_save", !.stats = rating,
                                    !.loaded = average]
    OBVIOUS
  <2>2. c \in Jobs /\ HandlerLinked(c)'
    BY <1>0, <2>1 DEF Jobs, Labels, HandlerLinked
  <2>3. OrdersKeep
    BY <1>2 DEF ReadStats, paypalVars, OrdersKeep
  <2> QED
    BY <1>0, <1>2, <2>1, <2>2, <2>3, BooksKept, ProceedMoves
       DEF ReadStats, Continue, paypalVars, ratingVars, TypeOK
<1>3. CASE SaveAverage(h)
  <2>1. average' \in Ratings
    BY <1>0, <1>3 DEF SaveAverage, Jobs
  <2>2. OrdersKeep
    BY <1>3 DEF SaveAverage, paypalVars, OrdersKeep
  <2> QED
    BY <1>0, <1>3, <2>1, <2>2, BooksKept, FinishMoves
       DEF SaveAverage, paypalVars, TypeOK
<1> QED
  BY <1>1, <1>2, <1>3

(* Steps outside the handlers.                                             *)
LEMMA CompleteOfferSettled ==
  ASSUME SettledInv, NEW i \in Incidents, NEW c \in Costs, CompleteOffer(i, c)
  PROVE  SettledInv'
<1>1. /\ UNCHANGED <<payment, order, paidOut, rating, average, clock, job,
                     smooth>>
      /\ cost' = [cost EXCEPT ![i] = c]
  BY DEF CompleteOffer, paypalVars, ratingVars
<1>2. TypeOK'
  BY <1>1 DEF SettledInv, TypeOK
<1>3. OrdersKeep
  BY <1>1 DEF OrdersKeep
<1>4. /\ RowsKeep
      /\ \A p \in PaymentIds : RowLinked(payment[p])'
      /\ PaymentsCharged'
  BY <1>1, <1>3, BooksKept
<1>5. ASSUME NEW g \in Threads PROVE HandlerLinked(job[g])'
  BY <1>1, <1>3, <1>4, OthersKeep
<1> QED
  BY <1>2, <1>4, <1>5 DEF SettledInv

LEMMA ApproveSettled ==
  ASSUME SettledInv, NEW o \in OrderIds, Approve(o)
  PROVE  SettledInv'
<1>1. /\ UNCHANGED <<cost, payment, paidOut, rating, average, clock, job,
                     smooth>>
      /\ order[o].state = "created"
      /\ order' = [order EXCEPT ![o].state = "approved"]
  BY DEF Approve, ratingVars
<1>2. TypeOK
  BY DEF SettledInv
<1>3. TypeOK' /\ OrdersKeep
  BY <1>1, <1>2 DEF TypeOK, Order, OrdersKeep
<1>4. /\ RowsKeep
      /\ \A p \in PaymentIds : RowLinked(payment[p])'
      /\ PaymentsCharged'
  BY <1>1, <1>3, BooksKept
<1>5. ASSUME NEW g \in Threads PROVE HandlerLinked(job[g])'
  BY <1>1, <1>3, <1>4, OthersKeep
<1> QED
  BY <1>3, <1>4, <1>5 DEF SettledInv

LEMMA StutterSettled ==
  ASSUME SettledInv, UNCHANGED vars
  PROVE  SettledInv'
<1>1. UNCHANGED <<cost, payment, order, paidOut, rating, average, clock, job,
                  smooth>>
  BY DEF vars
<1>2. TypeOK'
  BY <1>1 DEF SettledInv, TypeOK
<1>3. OrdersKeep
  BY <1>1 DEF OrdersKeep
<1>4. /\ RowsKeep
      /\ \A p \in PaymentIds : RowLinked(payment[p])'
      /\ PaymentsCharged'
  BY <1>1, <1>3, BooksKept
<1>5. ASSUME NEW g \in Threads PROVE HandlerLinked(job[g])'
  BY <1>1, <1>3, <1>4, OthersKeep
<1> QED
  BY <1>2, <1>4, <1>5 DEF SettledInv

LEMMA NextSettled == SettledInv /\ [Next]_vars => SettledInv'
<1> SUFFICES ASSUME SettledInv, [Next]_vars PROVE SettledInv'
  OBVIOUS
<1>1. ASSUME NEW h \in Threads, Request(h) PROVE SettledInv'
  BY <1>1, RequestSettled
<1>2. ASSUME NEW h \in Threads, Proceed(h) PROVE SettledInv'
  BY <1>2, PaypalCreateSettled, SaveOrderSettled, PaypalCaptureSettled,
     SaveFailedSettled, SaveCapturedSettled, PaypalPayoutSettled,
     SavePayoutSettled, RatingSettled DEF Proceed
<1>3. ASSUME NEW h \in Threads, Crash(h) PROVE SettledInv'
  BY <1>3, FinishSettled DEF Crash, paypalVars, ratingVars
<1>4. ASSUME NEW i \in Incidents, NEW c \in Costs, CompleteOffer(i, c)
      PROVE  SettledInv'
  BY <1>4, CompleteOfferSettled
<1>5. ASSUME NEW o \in OrderIds, Approve(o) PROVE SettledInv'
  BY <1>5, ApproveSettled
<1>6. CASE UNCHANGED vars
  BY <1>6, StutterSettled
<1> QED
  BY <1>1, <1>2, <1>3, <1>4, <1>5, <1>6 DEF Next

LEMMA SettledImplies == SettledInv => TypeOK /\ PaidIsCharged
<1> SUFFICES ASSUME SettledInv PROVE PaidIsCharged
  BY DEF SettledInv
<1>1. ASSUME NEW p \in PaymentIds,
             payment[p].status = "completed" \/ paidOut[p] > 0
      PROVE  \E i \in Incidents :
                payment[p].incident = i /\ Charges(i) # {}
  <2>1. payment[p].status # "none" /\ Charged(payment[p].incident)
    BY <1>1 DEF SettledInv, PaymentsCharged
  <2>2. payment[p].incident \in Incidents
    BY <2>1 DEF SettledInv, RowLinked
  <2> QED
    BY <2>1, <2>2 DEF Charged, Charges
<1> QED
  BY <1>1 DEF PaidIsCharged

(* Payment rows, PayPal's books and the handlers of payments and ratings   *)
(* keep their types.                                                       *)
THEOREM SettlementTypeCorrect == Spec => []TypeOK
<1>1. SettledInv => TypeOK
  BY SettledImplies
<1> QED
  BY InitSettled, NextSettled, <1>1, PTL DEF Spec

(* No free rides: for any number of incidents, payments and overlapping    *)
(* handlers, a payment is completed, and a workshop paid, only for an      *)
(* incident whose client PayPal charged.                                   *)
THEOREM ChargesBackPayments == Spec => []PaidIsCharged
<1>1. SettledInv => PaidIsCharged
  BY SettledImplies
<1> QED
  BY InitSettled, NextSettled, <1>1, PTL DEF Spec

-----------------------------------------------------------------------------
(***************************************************************************)
(* While nothing overlaps and every answer arrives.                        *)
(*                                                                         *)
(* A lone handler saves over the row it loaded, so that the row always     *)
(* tells the whole story of its incident: the order it carries charges its *)
(* amount, no order of the incident is captured before it is completed     *)
(* (or its handler is about to say so), and none after.                    *)
(***************************************************************************)

Lone ==
    \A g, h \in Threads : job[g].pc # "idle" /\ job[h].pc # "idle" => g = h

RowBalanced(r) ==
    /\ \A o \in OrderIds :
          r.gateway \in {o, CaptureId(o)} => r.gross = order[o].amount
    /\ \A o \in OrderIds :
          r.gateway = CaptureId(o) =>
             order[o].state = "captured" /\ order[o].incident = r.incident
    /\ r.status = "completed" => \E o \in OrderIds : r.gateway = CaptureId(o)

OneRow ==
    \A p, q \in PaymentIds :
        /\ payment[p].incident \in Incidents
        /\ payment[p].incident = payment[q].incident
        => p = q

OneCharge ==
    \A o, q \in OrderIds :
        /\ order[o].state = "captured" /\ order[q].state = "captured"
        /\ order[o].incident = order[q].incident
        => o = q

PayoutsBacked ==
    \A p \in PaymentIds :
        paidOut[p] > 0 =>
           \E o \in OrderIds :
              /\ order[o].state = "captured"
              /\ order[o].incident = payment[p].incident
              /\ paidOut[p] <= order[o].amount

Books ==
    /\ OneRow /\ OneCharge /\ PayoutsBacked
    /\ \A p \in PaymentIds : RowBalanced(payment[p])

(* Row p tells of the charge, or the handler that captured is to save it.  *)
Tracked(p) ==
    \/ payment[p].status = "completed"
    \/ \E h \in Threads : job[h].pc = "capture_save" /\ job[h].payment = p

ChargesTracked ==
    \A o \in OrderIds :
        order[o].state = "captured" =>
           \E p \in PaymentIds :
              payment[p].incident = order[o].incident /\ Tracked(p)

RatingsHeld ==
    /\ \A i \in Incidents : rating[i] <= 1
    /\ average # rating =>
          \E h \in Threads : job[h].pc \in {"rating_stats", "rating_save"}

(* What the handler loaded is what the tables hold.                        *)
HandlerFresh(j) ==
    /\ j.pc # "idle" /\ j.payment # 0 => j.row = payment[j.payment]
    /\ j.pc \in {"order_paypal", "order_save"} =>
          \A p \in PaymentIds :
             payment[p].incident = j.incident =>
                p = j.payment /\ payment[p].status # "completed"
    /\ j.pc = "order_save" => order[j.order].amount = j.amount
    /\ j.pc \in {"capture_paypal", "capture_failed", "capture_save"} =>
          j.row.status # "completed" /\ j.row.gateway = j.order
    /\ j.pc \in {"payout_paypal", "payout_save"} => j.row.status = "completed"
    /\ j.pc = "rating_insert" => rating[j.incident] = 0
    /\ j.pc = "rating_save" => j.stats = rating /\ j.loaded = average

Calm ==
    /\ Lone /\ Books /\ ChargesTracked /\ RatingsHeld
    /\ \A h \in Threads : HandlerFresh(job[h])

(* No step turns an order's amount, and only PayPal's capture charges.     *)
AmountsKeep ==
    \A o \in OrderIds :
        order[o].state # "none" =>
           /\ order'[o].amount = order[o].amount
           /\ order'[o].incident = order[o].incident
           /\ order[o].state = "captured" => order'[o].state = "captured"

NoCharge ==
    \A o \in OrderIds :
        order'[o].state = "captured" => order[o].state = "captured"

LEMMA InitCalm == Init => Calm
<1> SUFFICES ASSUME Init PROVE Calm
  OBVIOUS
<1>1. /\ \A h \in Threads : job[h].pc = "idle"
      /\ \A p \in PaymentIds : payment[p] = NoPayment /\ paidOut[p] = 0
      /\ \A o \in OrderIds : order[o].state = "none"
      /\ \A i \in Incidents : rating[i] = 0
      /\ average = rating
  BY DEF Init, Idle, NoOrder, NoRatings
<1>2. /\ NoPayment.gateway = 0 /\ NoPayment.status = "none"
      /\ NoPayment.incident \notin Incidents
  BY SettlementAssumption DEF NoPayment
<1>3. \A o \in OrderIds : o # 0 /\ CaptureId(o) # 0
  BY SettlementAssumption DEF OrderIds, CaptureId
<1>4. \A p \in PaymentIds : RowBalanced(payment[p])
  BY <1>1, <1>2, <1>3 DEF RowBalanced
<1>5. OneRow /\ OneCharge /\ PayoutsBacked
  BY <1>1, <1>2 DEF OneRow, OneCharge, PayoutsBacked
<1> QED
  BY <1>1, <1>4, <1>5
     DEF Calm, Lone, Books, ChargesTracked, RatingsHeld, HandlerFresh

LEMMA BooksGrow ==
  ASSUME SettledInv, Books, AmountsKeep, OneCharge',
         UNCHANGED <<payment, paidOut>>
  PROVE  Books'
<1>1. OneRow' /\ PayoutsBacked'
  BY DEF Books, OneRow, PayoutsBacked, AmountsKeep
<1>2. ASSUME NEW p \in PaymentIds PROVE RowBalanced(payment[p])'
  <2>1. RowBalanced(payment[p]) /\ RowLinked(payment[p])
    BY DEF Books, SettledInv
  <2>2. ASSUME NEW o \in OrderIds, payment[p].gateway \in {o, CaptureId(o)}
        PROVE  order[o].state # "none"
    BY <2>1, <2>2 DEF RowBalanced, RowLinked
  <2> QED
    BY <2>1, <2>2 DEF RowBalanced, AmountsKeep
<1> QED
  BY <1>1, <1>2 DEF Books

LEMMA ChargesGrow ==
  ASSUME SettledInv, ChargesTracked, AmountsKeep, NoCharge, UNCHANGED payment,
         \A g \in Threads : job[g].pc = "capture_save" =>
            job'[g].pc = "capture_save" /\ job'[g].payment = job[g].payment
  PROVE  ChargesTracked'
BY DEF ChargesTracked, Tracked, AmountsKeep, NoCharge

LEMMA FreshGrows ==
  ASSUME AmountsKeep, UNCHANGED <<payment, rating, average>>,
         NEW CONSTANT j, HandlerLinked(j), HandlerFresh(j)
  PROVE  HandlerFresh(j)'
BY DEF HandlerFresh, HandlerLinked, AmountsKeep

(* One thread moves and the others are idle.                               *)
LEMMA LoneMoves ==
  ASSUME SettledInv, Lone, NEW h \in Threads, NEW CONSTANT c \in Jobs,
         job' = [job EXCEPT ![h] = c],
         job[h].pc # "idle" \/ Busy = {},
         HandlerFresh(c)'
  PROVE  /\ \A g \in Threads \ {h} :
              job[g].pc = "idle" /\ job'[g].pc = "idle"
         /\ job'[h] = c
         /\ Lone'
         /\ \A g \in Threads : HandlerFresh(job[g])'
<1>1. \A g \in Threads \ {h} : job'[g] = job[g] /\ job[g].pc = "idle"
  BY DEF Lone, Busy
<1>2. job'[h] = c
  BY DEF SettledInv, TypeOK
<1>3. ASSUME NEW g \in Threads \ {h} PROVE HandlerFresh(job[g])'
  BY <1>1 DEF HandlerFresh
<1>4. HandlerFresh(job[h])'
  BY <1>2
<1> QED
  BY <1>1, <1>2, <1>3, <1>4 DEF Lone

(* Steps of a lone handler that write neither payments nor ratings and     *)
(* charge nothing.                                                         *)
LEMMA QuietStep ==
  ASSUME SettledInv, Calm, NEW h \in Threads, NEW CONSTANT c \in Jobs,
         job' = [job EXCEPT ![h] = c],
         job[h].pc # "idle" \/ Busy = {},
         job[h].pc \notin {"capture_save", "rating_stats", "rating_save"},
         AmountsKeep, NoCharge,
         UNCHANGED <<payment, paidOut, rating, average>>,
         HandlerFresh(c)'
  PROVE  Calm'
<1>1. /\ \A g \in Threads \ {h} :
            job[g].pc = "idle" /\ job'[g].pc = "idle"
      /\ Lone'
      /\ \A g \in Threads : HandlerFresh(job[g])'
  BY LoneMoves DEF Calm
<1>2. Books'
  <2>1. OneCharge'
    BY DEF Calm, Books, OneCharge, AmountsKeep, NoCharge
  <2> QED
    BY <2>1, BooksGrow DEF Calm
<1>3. \A g \in Threads : job[g].pc # "capture_save"
  BY <1>1
<1>4. ChargesTracked'
  BY <1>3, ChargesGrow DEF Calm
<1>5. \A g \in Threads : job[g].pc \notin {"rating_stats", "rating_save"}
  BY <1>1
<1>6. RatingsHeld'
  BY <1>5 DEF Calm, RatingsHeld
<1> QED
  BY <1>1, <1>2, <1>4, <1>6 DEF Calm

(* Requests.                                                               *)
LEMMA BeganFresh ==
  ASSUME NEW j \in Jobs, NEW n, HandlerFresh(j)
  PROVE  HandlerFresh([j EXCEPT !.began = n])
<1>1. PICK c : c = [j EXCEPT !.began = n]
  OBVIOUS
<1>2. /\ c.pc = j.pc /\ c.incident = j.incident /\ c.payment = j.payment
      /\ c.row = j.row /\ c.order = j.order /\ c.amount = j.amount
      /\ c.stats = j.stats /\ c.loaded = j.loaded
  BY <1>1 DEF Jobs
<1> QED
  BY <1>1, <1>2 DEF HandlerFresh

LEMMA BeginCalm ==
  ASSUME SettledInv, Calm, NEW h \in Threads, NEW CONSTANT j \in Jobs,
         HandlerFresh(j), HandlerLinked(j), Begin(h, j), Busy = {},
         UNCHANGED <<payment, order, paidOut, rating, average>>
  PROVE  Calm'
<1>1. PICK c : c = [j EXCEPT !.began = clock + 1]
  OBVIOUS
<1>2. c \in Jobs /\ HandlerFresh(c)
  <2>1. clock \in Nat
    BY DEF SettledInv, TypeOK
  <2> QED
    BY <1>1, <2>1, BeganFresh DEF Jobs
<1>3. AmountsKeep /\ NoCharge
  BY DEF AmountsKeep, NoCharge
<1>4. HandlerFresh(c)'
  BY <1>2 DEF HandlerFresh
<1> QED
  BY <1>1, <1>2, <1>3, <1>4, QuietStep DEF Begin

LEMMA RequestCalm ==
  ASSUME SettledInv, Calm, NEW h \in Threads, Request(h), smooth'
  PROVE  Calm'
<1>0. Idle \in Jobs
  BY IdleTyped
<1>1. ASSUME NEW i \in Incidents, CreateOrder(h, i) PROVE Calm'
  <2>0. /\ \A p \in LatestOf(i) : payment[p].status # "completed"
        /\ cost[i] \in Costs
        /\ UNCHANGED <<payment, order, paidOut, rating, average>>
    BY <1>1, CostCharged
       DEF CreateOrder, StartOrder, LatestPaid, SettledInv, paypalVars,
           ratingVars
  <2>1. ASSUME NEW p \in PaymentIds, payment[p].incident = i
        PROVE  p \in LatestOf(i)
    <3>1. \A q \in PaymentsOf(i) : q = p
      BY <2>1 DEF PaymentsOf, Calm, Books, OneRow
    <3>2. payment[p].created \in Nat
      BY DEF SettledInv, TypeOK, PaymentRow
    <3> QED
      BY <2>1, <3>1, <3>2 DEF LatestOf, PaymentsOf
  <2>2. CASE /\ LatestOf(i) = {}
             /\ Begin(h, [Idle EXCEPT !.pc = "order_paypal", !.incident = i,
                                      !.amount = cost[i]])
    <3>1. PICK j : j = [Idle EXCEPT !.pc = "order_paypal", !.incident = i,
                                    !.amount = cost[i]]
      OBVIOUS
    <3>2. /\ j \in Jobs /\ j.pc = "order_paypal" /\ j.incident = i
          /\ j.payment = 0 /\ j.amount = cost[i]
      BY <1>0, <2>0, <3>1 DEF Jobs, Labels, Idle
    <3>3. HandlerLinked(j) /\ HandlerFresh(j)
      BY <2>0, <2>1, <2>2, <3>2 DEF HandlerLinked, HandlerFresh
    <3>4. Begin(h, j) /\ Busy = {}
      BY <2>2, <3>1 DEF Begin
    <3> QED
      BY <2>0, <3>2, <3>3, <3>4, BeginCalm
  <2>3. ASSUME NEW p \in LatestOf(i),
               Begin(h, [Idle EXCEPT !.pc = "order_paypal", !.incident = i,
                                     !.amount = cost[i], !.payment = p,
                                     !.row = payment[p]])
        PROVE  Calm'
    <3>1. PICK j : j = [Idle EXCEPT !.pc = "order_paypal", !.incident = i,
                                    !.amount = cost[i], !.payment = p,
                                    !.row = payment[p]]
      OBVIOUS
    <3>2. /\ p \in PaymentIds /\ payment[p] \in PaymentRow
          /\ payment[p].incident = i /\ RowLinked(payment[p])
      BY DEF LatestOf, PaymentsOf, SettledInv, TypeOK
    <3>3. /\ j \in Jobs /\ j.pc = "order_paypal" /\ j.incident = i
          /\ j.payment = p /\ j.amount = cost[i] /\ j.row = payment[p]
      BY <1>0, <2>0, <3>1, <3>2 DEF Jobs, Labels, Idle
    <3>4. HandlerLinked(j)
      BY <2>0, <3>2, <3>3 DEF HandlerLinked, Holds, RowLinked
    <3>5. \A q \in PaymentIds : payment[q].incident = i => q = p
      BY <3>2 DEF Calm, Books, OneRow
    <3>6. HandlerFresh(j)
      BY <2>0, <3>3, <3>5 DEF HandlerFresh
    <3>7. Begin(h, j) /\ Busy = {}
      BY <2>3, <3>1 DEF Begin
    <3> QED
      BY <2>0, <3>3, <3>4, <3>6, <3>7, BeginCalm
  <2> QED
    BY <1>1, <2>2, <2>3 DEF CreateOrder, StartOrder
<1>2. ASSUME NEW i \in Incidents, CreateRating(h, i) PROVE Calm'
  <2>1. PICK j : j = [Idle EXCEPT !.pc = "rating_insert", !.incident = i]
    OBVIOUS
  <2>2. /\ j \in Jobs /\ j.pc = "rating_insert" /\ j.incident = i
        /\ j.payment = 0
    BY <1>0, <2>1 DEF Jobs, Labels, Idle
  <2>3. HandlerLinked(j) /\ HandlerFresh(j)
    BY <1>2, <2>2 DEF HandlerLinked, HandlerFresh, CreateRating
  <2>4. /\ Begin(h, j) /\ Busy = {}
        /\ UNCHANGED <<payment, order, paidOut, rating, average>>
    BY <1>2, <2>1 DEF CreateRating, Begin, paypalVars, ratingVars
  <2> QED
    BY <2>2, <2>3, <2>4, BeginCalm
<1>3. ASSUME NEW o \in OrderIds, CaptureOrder(h, o) PROVE Calm'
  <2>1. PICK p \in PaymentIds :
          /\ payment[p].gateway = o
          /\ payment[p].status # "completed"
          /\ Begin(h, [Idle EXCEPT !.pc = "capture_paypal", !.payment = p,
                                   !.row = payment[p], !.order = o])
    BY <1>3 DEF CaptureOrder
  <2>2. PICK j : j = [Idle EXCEPT !.pc = "capture_paypal", !.payment = p,
                                  !.row = payment[p], !.order = o]
    OBVIOUS
  <2>3. payment[p] \in PaymentRow /\ RowLinked(payment[p])
    BY DEF SettledInv, TypeOK
  <2>4. /\ j \in Jobs /\ j.pc = "capture_paypal" /\ j.payment = p
        /\ j.row = payment[p] /\ j.order = o
    BY <1>0, <2>2, <2>3 DEF Jobs, Labels, Idle
  <2>5. HandlerLinked(j) /\ HandlerFresh(j)
    BY <2>1, <2>3, <2>4 DEF HandlerLinked, HandlerFresh, Holds, RowLinked
  <2>6. /\ Begin(h, j) /\ Busy = {}
        /\ UNCHANGED <<payment, order, paidOut, rating, average>>
    BY <1>3, <2>1, <2>2 DEF CaptureOrder, Begin, paypalVars, ratingVars
  <2> QED
    BY <2>4, <2>5, <2>6, BeginCalm
<1> QED
  BY <1>1, <1>2, <1>3 DEF Request

(* The row keeps completed what is.                                        *)
CompletedStay ==
    \A p \in PaymentIds :
        payment[p].status = "completed" =>
           /\ payment'[p].status = "completed"
           /\ payment'[p].incident = payment[p].incident

LEMMA FlushFresh ==
  ASSUME NEW row \in PaymentRow, NEW new \in PaymentRow
  PROVE  Flush(row, new, row) = new
BY DEF Flush, PaymentRow

LEMMA CaptureIdOnce ==
  ASSUME NEW o \in OrderIds, NEW q \in OrderIds
  PROVE  CaptureId(o) # q /\ (CaptureId(o) = CaptureId(q) => o = q)
BY SettlementAssumption DEF CaptureId, OrderIds

(* A lone handler writes row p and moves on.                               *)
LEMMA RowStep ==
  ASSUME SettledInv, Calm, NEW h \in Threads, NEW CONSTANT c \in Jobs,
         job' = [job EXCEPT ![h] = c],
         job[h].pc \notin {"idle", "rating_stats", "rating_save"},
         NEW p \in PaymentIds, NEW CONSTANT r,
         payment' = [payment EXCEPT ![p] = r],
         UNCHANGED <<order, paidOut, rating, average>>,
         RowBalanced(r),
         payment[p].status # "none" => r.incident = payment[p].incident,
         \A q \in PaymentIds : payment[q].incident = r.incident => q = p,
         payment[p].status = "completed" => r.status = "completed",
         job[h].pc = "capture_save" =>
            /\ job[h].payment = p /\ payment[p].status # "none"
            /\ r.status = "completed",
         HandlerFresh(c)'
  PROVE  Calm' /\ CompletedStay
<1>0. payment'[p] = r /\ \A q \in PaymentIds \ {p} : payment'[q] = payment[q]
  BY DEF SettledInv, TypeOK
<1>1. /\ \A g \in Threads \ {h} :
            job[g].pc = "idle" /\ job'[g].pc = "idle"
      /\ Lone'
      /\ \A g \in Threads : HandlerFresh(job[g])'
  BY LoneMoves DEF Calm
<1>2. Books'
  <2>1. OneRow'
    BY <1>0 DEF Calm, Books, OneRow
  <2>2. OneCharge'
    BY DEF Calm, Books, OneCharge
  <2>3. PayoutsBacked'
    <3>1. \A q \in PaymentIds : paidOut[q] > 0 =>
             payment[q].status # "none" /\ payment'[q].incident = payment[q].incident
      BY <1>0 DEF SettledInv, PaymentsCharged
    <3> QED
      BY <3>1 DEF Calm, Books, PayoutsBacked
  <2>4. ASSUME NEW q \in PaymentIds PROVE RowBalanced(payment[q])'
    <3>1. RowBalanced(payment'[q])
      BY <1>0 DEF Calm, Books
    <3> QED
      BY <3>1 DEF RowBalanced
  <2> QED
    BY <2>1, <2>2, <2>3, <2>4 DEF Books
<1>3. CompletedStay
  BY <1>0 DEF CompletedStay
<1>4. ASSUME NEW q \in PaymentIds, Tracked(q)
      PROVE  /\ payment'[q].status = "completed"
             /\ payment'[q].incident = payment[q].incident
  <2>1. CASE payment[q].status = "completed"
    BY <1>3, <2>1 DEF CompletedStay
  <2>2. CASE \E g \in Threads :
                job[g].pc = "capture_save" /\ job[g].payment = q
    BY <1>0, <1>1, <2>2
  <2> QED
    BY <1>4, <2>1, <2>2 DEF Tracked
<1>5. ChargesTracked'
  BY <1>4 DEF Calm, ChargesTracked, Tracked
<1>6. \A g \in Threads : job[g].pc \notin {"rating_stats", "rating_save"}
  BY <1>1
<1>7. RatingsHeld'
  BY <1>6 DEF Calm, RatingsHeld
<1> QED
  BY <1>1, <1>2, <1>3, <1>5, <1>7 DEF Calm

LEMMA IdleFresh == Idle \in Jobs /\ HandlerFresh(Idle)'
<1>1. Idle.pc = "idle"
  BY DEF Idle
<1> QED
  BY <1>1, IdleTyped DEF HandlerFresh

(* A lone handler writes row p and is done.                                *)
LEMMA RowFinish ==
  ASSUME SettledInv, Calm, NEW h \in Threads, Finish(h),
         job[h].pc \in {"order_save", "capture_failed", "capture_save",
                        "payout_save"},
         NEW p \in PaymentIds, NEW CONSTANT r,
         payment' = [payment EXCEPT ![p] = r],
         UNCHANGED <<order, paidOut, rating, average>>,
         RowBalanced(r),
         payment[p].status # "none" => r.incident = payment[p].incident,
         \A q \in PaymentIds : payment[q].incident = r.incident => q = p,
         payment[p].status = "completed" => r.status = "completed",
         job[h].pc = "capture_save" =>
            /\ job[h].payment = p /\ payment[p].status # "none"
            /\ r.status = "completed"
  PROVE  Calm' /\ CompletedStay
<1>1. PICK c \in Jobs : c = Idle /\ HandlerFresh(c)'
  BY IdleFresh
<1>2. job' = [job EXCEPT ![h] = c]
  BY <1>1 DEF Finish
<1>3. job[h].pc \notin {"idle", "rating_stats", "rating_save"}
  OBVIOUS
<1> QED
  BY <1>1, <1>2, <1>3, RowStep

LEMMA PaypalCreateCalm ==
  ASSUME SettledInv, Calm, NEW h \in Threads, PaypalCreate(h)
  PROVE  Calm'
<1>0. /\ TypeOK /\ job[h] \in Jobs /\ HandlerLinked(job[h])
      /\ HandlerFresh(job[h]) /\ job[h].pc = "order_paypal"
      /\ UNCHANGED <<payment, paidOut, rating, average>>
  BY DEF SettledInv, Calm, TypeOK, PaypalCreate, At, ratingVars
<1>1. ASSUME NEW o \in OrderIds,
             order[o].state = "none",
             order' = [order EXCEPT ![o] =
                         [state |-> "created", incident |-> job[h].incident,
                          amount |-> job[h].amount]],
             Continue(h, [job[h] EXCEPT !.pc = "order_save", !.order = o])
      PROVE  Calm'
  <2>1. PICK c : c = [job[h] EXCEPT !.pc = "order_save", !.order = o]
    OBVIOUS
  <2>2. /\ c \in Jobs /\ c.pc = "order_save" /\ c.order = o
        /\ c.incident = job[h].incident /\ c.payment = job[h].payment
        /\ c.row = job[h].row /\ c.amount = job[h].amount
    BY <1>0, <2>1 DEF Jobs, Labels
  <2>3. /\ order'[o].state = "created" /\ order'[o].amount = job[h].amount
        /\ \A q \in OrderIds \ {o} : order'[q] = order[q]
    BY <1>0, <1>1 DEF TypeOK
  <2>4. AmountsKeep /\ NoCharge
    BY <1>1, <2>3 DEF AmountsKeep, NoCharge
  <2>5. HandlerFresh(c)'
    BY <1>0, <2>2, <2>3 DEF HandlerFresh
  <2> QED
    BY <1>0, <1>1, <2>1, <2>2, <2>4, <2>5, QuietStep DEF Continue
<1>2. CASE order' = order /\ Finish(h)
  <2>1. AmountsKeep /\ NoCharge
    BY <1>2 DEF AmountsKeep, NoCharge
  <2> QED
    BY <1>0, <1>2, <2>1, IdleFresh, QuietStep DEF Finish
<1> QED
  BY <1>1, <1>2 DEF PaypalCreate

LEMMA SaveOrderCalm ==
  ASSUME SettledInv, Calm, NEW h \in Threads, SaveOrder(h)
  PROVE  Calm' /\ CompletedStay
<1> DEFINE j == job[h]
           new == [j.row EXCEPT !.status = "pending", !.gateway = j.order,
                                !.gross = j.amount, !.payout = "none",
                                !.created = clock + 1]
           row == [status |-> "pending", incident |-> j.incident,
                   gateway |-> j.order, gross |-> j.amount,
                   payout |-> "none", created |-> j.began]
<1>0. /\ TypeOK /\ j \in Jobs /\ HandlerLinked(j) /\ HandlerFresh(j)
      /\ j.pc = "order_save" /\ Finish(h)
      /\ UNCHANGED <<order, paidOut, rating, average>>
  BY DEF SettledInv, Calm, TypeOK, SaveOrder, At, paypalVars, ratingVars
<1>1. /\ j.incident \in Incidents /\ j.amount \in Costs
      /\ j.payment # 0 => Holds(j, j.incident)
      /\ j.order \in OrderIds
      /\ order[j.order].amount = j.amount
      /\ \A p \in PaymentIds :
            payment[p].incident = j.incident =>
               p = j.payment /\ payment[p].status # "completed"
  BY <1>0 DEF HandlerLinked, HandlerFresh
<1>2. ASSUME NEW CONSTANT r, r.status = "pending", r.gateway = j.order,
             r.gross = j.amount
      PROVE  RowBalanced(r)
  BY <1>1, <1>2, CaptureIdOnce DEF RowBalanced
<1>3. CASE j.payment # 0 /\ payment' = [payment EXCEPT ![j.payment] =
                                          Flush(j.row, new, @)]
  <2>1. PICK p \in PaymentIds : p = j.payment
    BY <1>1, <1>3 DEF Holds
  <2>2. /\ j.row = payment[p] /\ j.row \in PaymentRow /\ clock \in Nat
        /\ j.row.incident = j.incident
    BY <1>0, <1>1, <1>3, <2>1 DEF HandlerFresh, TypeOK, Holds
  <2>3. /\ new \in PaymentRow /\ new.status = "pending"
        /\ new.incident = j.row.incident /\ new.gateway = j.order
        /\ new.gross = j.amount
    <3>1. PICK w \in PaymentRow : w = j.row
      BY <2>2
    <3>2. PICK o \in 0..(2 * MaxOrders) : o = j.order
      BY <1>1, SettlementAssumption DEF OrderIds
    <3>3. PICK a \in Costs : a = j.amount
      BY <1>1
    <3>4. PICK n \in Nat : n = clock + 1
      BY <2>2
    <3>5. new = [w EXCEPT !.status = "pending", !.gateway = o, !.gross = a,
                          !.payout = "none", !.created = n]
      BY <3>1, <3>2, <3>3, <3>4
    <3> HIDE DEF new
    <3>6. new = [status |-> "pending", incident |-> w.incident,
                 gateway |-> o, gross |-> a, payout |-> "none", created |-> n]
      BY <3>5 DEF PaymentRow
    <3>7. w.incident \in Incidents \cup {None}
      BY DEF PaymentRow
    <3> QED
      BY <3>1, <3>2, <3>3, <3>6, <3>7 DEF PaymentRow, PaymentStatus
  <2> HIDE DEF new
  <2>4. PICK r : r = new
    OBVIOUS
  <2>5. payment' = [payment EXCEPT ![p] = r]
    BY <1>3, <2>1, <2>2, <2>3, <2>4, FlushFresh
  <2>6. /\ RowBalanced(r) /\ r.incident = payment[p].incident
        /\ \A q \in PaymentIds : payment[q].incident = r.incident => q = p
        /\ payment[p].status # "completed"
    BY <1>1, <1>2, <2>1, <2>2, <2>3, <2>4
  <2> QED
    BY <1>0, <2>5, <2>6, RowFinish
<1>4. ASSUME j.payment = 0, NEW p \in PaymentIds, payment[p].status = "none",
             payment' = [payment EXCEPT ![p] = row]
      PROVE  Calm' /\ CompletedStay
  <2>1. PICK r : r = row
    OBVIOUS
  <2>2. /\ r.status = "pending" /\ r.incident = j.incident
        /\ r.gateway = j.order /\ r.gross = j.amount
    BY <2>1
  <2>3. RowBalanced(r)
    BY <1>2, <2>2
  <2>4. \A q \in PaymentIds : payment[q].incident # r.incident
    BY <1>1, <1>4, <2>2 DEF PaymentIds
  <2> HIDE DEF row
  <2> QED
    BY <1>0, <1>4, <2>1, <2>3, <2>4, RowFinish
<1> QED
  BY <1>3, <1>4 DEF SaveOrder

LEMMA PaypalCaptureCalm ==
  ASSUME SettledInv, Calm, NEW h \in Threads, PaypalCapture(h), smooth'
  PROVE  Calm'
<1>0. /\ TypeOK /\ job[h] \in Jobs /\ HandlerLinked(job[h])
      /\ HandlerFresh(job[h]) /\ job[h].pc = "capture_paypal"
      /\ UNCHANGED <<payment, paidOut, rating, average>>
  BY DEF SettledInv, Calm, TypeOK, PaypalCapture, At, ratingVars
<1>1. CASE /\ order' = order
           /\ Continue(h, [job[h] EXCEPT !.pc = "capture_failed"])
  <2>1. PICK c : c = [job[h] EXCEPT !.pc = "capture_failed"]
    OBVIOUS
  <2>2. /\ c \in Jobs /\ c.pc = "capture_failed" /\ c.order = job[h].order
        /\ c.payment = job[h].payment /\ c.row = job[h].row
    BY <1>0, <2>1 DEF Jobs, Labels
  <2>3. AmountsKeep /\ NoCharge
    BY <1>1 DEF AmountsKeep, NoCharge
  <2>4. HandlerFresh(c)'
    BY <1>0, <1>1, <2>2 DEF HandlerFresh
  <2> QED
    BY <1>0, <1>1, <2>1, <2>2, <2>3, <2>4, QuietStep DEF Continue
<1>2. CASE /\ order[job[h].order].state = "approved"
           /\ order' = [order EXCEPT ![job[h].order].state = "captured"]
           /\ Continue(h, [job[h] EXCEPT !.pc = "capture_save"])
  <2>1. PICK c : c = [job[h] EXCEPT !.pc = "capture_save"]
    OBVIOUS
  <2>2. /\ c \in Jobs /\ c.pc = "capture_save" /\ c.order = job[h].order
        /\ c.payment = job[h].payment /\ c.row = job[h].row
    BY <1>0, <2>1 DEF Jobs, Labels
  <2>3. PICK o \in OrderIds, p \in PaymentIds :
          /\ o = job[h].order /\ p = job[h].payment
          /\ payment[p].incident = order[o].incident
          /\ payment[p].status # "none" /\ payment[p].status # "completed"
    BY <1>0 DEF HandlerLinked, HandlerFresh, Holds, PaymentIds
  <2>4. /\ order'[o].state = "captured" /\ order'[o].incident = order[o].incident
        /\ order'[o].amount = order[o].amount
        /\ \A q \in OrderIds \ {o} : order'[q] = order[q]
    BY <1>0, <1>2, <2>3 DEF TypeOK, Order
  <2>5. AmountsKeep
    BY <2>4 DEF AmountsKeep
  <2>6. HandlerFresh(c)'
    BY <1>0, <2>2 DEF HandlerFresh
  <2>7. /\ \A g \in Threads \ {h} :
              job[g].pc = "idle" /\ job'[g].pc = "idle"
        /\ job'[h] = c
        /\ Lone'
        /\ \A g \in Threads : HandlerFresh(job[g])'
    BY <1>0, <1>2, <2>1, <2>2, <2>6, LoneMoves DEF Continue, Calm
  <2>8. \A q \in PaymentIds : Tracked(q) => payment[q].status = "completed"
    BY <1>0, <2>7 DEF Tracked
  <2>9. ASSUME NEW q \in OrderIds, order[q].state = "captured"
        PROVE  order[q].incident # order[o].incident
    <3>1. PICK r \in PaymentIds : /\ payment[r].incident = order[q].incident
                                  /\ payment[r].status = "completed"
      BY <2>8, <2>9 DEF Calm, ChargesTracked
    <3>2. payment[p].incident \in Incidents
      BY <2>3 DEF SettledInv, RowLinked
    <3> QED
      BY <2>3, <3>1, <3>2 DEF Calm, Books, OneRow
  <2>10. OneCharge'
    BY <2>4, <2>9 DEF Calm, Books, OneCharge
  <2>11. Books'
    BY <1>0, <2>5, <2>10, BooksGrow DEF Calm
  <2>12. ChargesTracked'
    <3>1. ASSUME NEW q \in OrderIds, order'[q].state = "captured"
          PROVE  \E r \in PaymentIds :
                    payment[r].incident = order'[q].incident /\ Tracked(r)'
      <4>1. CASE q = o
        BY <1>0, <2>2, <2>3, <2>4, <2>7, <4>1 DEF Tracked
      <4>2. CASE q # o
        BY <1>0, <2>4, <2>8, <3>1, <4>2 DEF Calm, ChargesTracked, Tracked
      <4> QED
        BY <4>1, <4>2
    <3> QED
      BY <1>0, <3>1 DEF ChargesTracked
  <2>13. RatingsHeld'
    BY <1>0, <2>7 DEF Calm, RatingsHeld
  <2> QED
    BY <2>7, <2>11, <2>12, <2>13 DEF Calm
<1> QED
  BY <1>1, <1>2 DEF PaypalCapture

LEMMA SaveFailedCalm ==
  ASSUME SettledInv, Calm, NEW h \in Threads, SaveFailed(h)
  PROVE  Calm' /\ CompletedStay
<1> DEFINE j == job[h]
           new == [j.row EXCEPT !.status = "failed"]
<1>0. /\ TypeOK /\ j \in Jobs /\ HandlerLinked(j) /\ HandlerFresh(j)
      /\ j.pc = "capture_failed" /\ Finish(h)
      /\ payment' = [payment EXCEPT ![j.payment] = Flush(j.row, new, @)]
      /\ UNCHANGED <<order, paidOut, rating, average>>
  BY DEF SettledInv, Calm, TypeOK, SaveFailed, At, paypalVars, ratingVars
<1>1. PICK p \in PaymentIds :
         /\ p = j.payment /\ j.row = payment[p] /\ j.row \in PaymentRow
         /\ payment[p].status \notin {"none", "completed"}
  BY <1>0 DEF HandlerLinked, HandlerFresh, Holds, PaymentIds, TypeOK
<1>2. /\ new \in PaymentRow /\ new.status = "failed"
      /\ new.incident = j.row.incident /\ new.gateway = j.row.gateway
      /\ new.gross = j.row.gross
  BY <1>1 DEF PaymentRow, PaymentStatus
<1> HIDE DEF new
<1>3. PICK r : r = new
  OBVIOUS
<1>4. payment' = [payment EXCEPT ![p] = r]
  BY <1>0, <1>1, <1>2, <1>3, FlushFresh
<1>5. RowBalanced(payment[p]) /\ OneRow /\ payment[p].incident \in Incidents
  BY <1>1 DEF Calm, Books, SettledInv, RowLinked
<1>6. RowBalanced(r)
  BY <1>1, <1>2, <1>3, <1>5 DEF RowBalanced
<1>7. \A q \in PaymentIds : payment[q].incident = r.incident => q = p
  BY <1>1, <1>2, <1>3, <1>5 DEF OneRow
<1> QED
  BY <1>0, <1>1, <1>2, <1>3, <1>4, <1>6, <1>7, RowFinish

LEMMA SaveCapturedCalm ==
  ASSUME SettledInv, Calm, NEW h \in Threads, SaveCaptured(h)
  PROVE  Calm' /\ CompletedStay
<1> DEFINE j == job[h]
           new == [j.row EXCEPT !.status = "completed",
                                !.gateway = CaptureId(j.order)]
<1>0. /\ TypeOK /\ j \in Jobs /\ HandlerLinked(j) /\ HandlerFresh(j)
      /\ j.pc = "capture_save"
      /\ payment' = [payment EXCEPT ![j.payment] = Flush(j.row, new, @)]
      /\ UNCHANGED <<order, paidOut, rating, average>>
  BY DEF SettledInv, Calm, TypeOK, SaveCaptured, At, paypalVars, ratingVars
<1>1. PICK p \in PaymentIds :
         /\ p = j.payment /\ j.row = payment[p] /\ j.row \in PaymentRow
         /\ payment[p].status # "none"
         /\ j.order \in OrderIds /\ payment[p].gateway = j.order
         /\ order[j.order].state = "captured"
         /\ order[j.order].incident = payment[p].incident
  BY <1>0 DEF HandlerLinked, HandlerFresh, Holds, PaymentIds, TypeOK
<1>2. /\ new \in PaymentRow /\ new.status = "completed"
      /\ new.incident = j.row.incident /\ new.gateway = CaptureId(j.order)
      /\ new.gross = j.row.gross
  BY <1>1, CaptureIdsApart DEF PaymentRow, PaymentStatus
<1> HIDE DEF new
<1>3. PICK r : r = new
  OBVIOUS
<1>4. /\ payment' = [payment EXCEPT ![p] = r] /\ payment'[p] = r
      /\ r \in PaymentRow
  BY <1>0, <1>1, <1>2, <1>3, FlushFresh DEF TypeOK
<1>5. RowBalanced(payment[p]) /\ OneRow /\ payment[p].incident \in Incidents
  BY <1>1 DEF Calm, Books, SettledInv, RowLinked
<1>6. RowBalanced(r)
  BY <1>1, <1>2, <1>3, <1>5, CaptureIdOnce DEF RowBalanced
<1>7. \A q \in PaymentIds : payment[q].incident = r.incident => q = p
  BY <1>1, <1>2, <1>3, <1>5 DEF OneRow
<1>8. ASSUME NEW c \in Jobs, job' = [job EXCEPT ![h] = c], HandlerFresh(c)'
      PROVE  Calm' /\ CompletedStay
  <2>1. r.status = "completed" /\ r.incident = payment[p].incident
    BY <1>1, <1>2, <1>3
  <2>2. job[h].pc = "capture_save" /\ job[h].payment = p
    BY <1>0, <1>1
  <2>3. PICK d \in Jobs : d = c
    BY <1>8
  <2>4. job' = [job EXCEPT ![h] = d] /\ HandlerFresh(d)'
    BY <1>8, <2>3
  <2>5. UNCHANGED <<order, paidOut, rating, average>>
    BY <1>0
  <2>6. payment' = [payment EXCEPT ![p] = r] /\ payment[p].status # "none"
    BY <1>1, <1>4
  <2> QED
    BY <1>6, <1>7, <2>1, <2>2, <2>4, <2>5, <2>6, RowStep
<1>9. CASE Finish(h)
  BY <1>8, <1>9, IdleFresh DEF Finish
<1>10. CASE Continue(h, [Idle EXCEPT !.pc = "payout_paypal",
                                     !.payment = j.payment,
                                     !.row = payment'[j.payment]])
  <2>1. PICK c : c = [Idle EXCEPT !.pc = "payout_paypal", !.payment = p,
                                  !.row = r]
    OBVIOUS
  <2>2. /\ c \in Jobs /\ c.pc = "payout_paypal" /\ c.payment = p /\ c.row = r
    BY <1>4, <2>1, IdleTyped DEF Jobs, Labels
  <2>3. HandlerFresh(c)'
    BY <1>2, <1>3, <1>4, <2>2 DEF HandlerFresh
  <2>4. job' = [job EXCEPT ![h] = c]
    BY <1>1, <1>4, <1>10, <2>1 DEF Continue
  <2> QED
    BY <1>8, <2>2, <2>3, <2>4
<1> QED
  BY <1>9, <1>10 DEF SaveCaptured

LEMMA PaypalPayoutCalm ==
  ASSUME SettledInv, Calm, NEW h \in Threads, PaypalPayout(h)
  PROVE  Calm'
<1>0. /\ TypeOK /\ job[h] \in Jobs /\ HandlerLinked(job[h])
      /\ HandlerFresh(job[h]) /\ job[h].pc = "payout_paypal"
      /\ UNCHANGED <<payment, order, rating, average>>
  BY DEF SettledInv, Calm, TypeOK, PaypalPayout, At, ratingVars
<1>1. PICK p \in PaymentIds :
         /\ p = job[h].payment /\ payment[p] = job[h].row
         /\ payment[p].status = "completed" /\ payment[p].gross \in Costs
  BY <1>0 DEF HandlerLinked, HandlerFresh, Holds, PaymentIds
<1>2. PICK a \in {"sent", "failed"} :
         /\ Continue(h, [job[h] EXCEPT !.pc = "payout_save", !.payout = a])
         /\ \/ paidOut' = [paidOut EXCEPT ![p] = Net[payment[p].gross]]
            \/ paidOut' = paidOut
  BY <1>1 DEF PaypalPayout
<1>3. PICK c : c = [job[h] EXCEPT !.pc = "payout_save", !.payout = a]
  OBVIOUS
<1>4. /\ c \in Jobs /\ c.pc = "payout_save" /\ c.payment = p
      /\ c.row = payment[p]
  BY <1>0, <1>1, <1>3 DEF Jobs, Labels
<1>5. HandlerFresh(c)'
  BY <1>0, <1>1, <1>4 DEF HandlerFresh
<1>6. /\ \A g \in Threads \ {h} :
            job[g].pc = "idle" /\ job'[g].pc = "idle"
      /\ Lone'
      /\ \A g \in Threads : HandlerFresh(job[g])'
  BY <1>0, <1>2, <1>3, <1>4, <1>5, LoneMoves DEF Continue, Calm
<1>7. PICK o \in OrderIds :
         /\ order[o].state = "captured"
         /\ order[o].incident = payment[p].incident
         /\ payment[p].gross = order[o].amount
  <2>1. RowBalanced(payment[p])
    BY DEF Calm, Books
  <2>2. PICK o \in OrderIds : payment[p].gateway = CaptureId(o)
    BY <1>1, <2>1 DEF RowBalanced
  <2> QED
    BY <2>1, <2>2 DEF RowBalanced
<1>8. Net[payment[p].gross] <= order[o].amount
  BY <1>1, <1>7, SettlementAssumption
<1>9. PayoutsBacked'
  <2>1. /\ paidOut'[p] \in {Net[payment[p].gross], paidOut[p]}
        /\ \A q \in PaymentIds \ {p} : paidOut'[q] = paidOut[q]
    BY <1>0, <1>2 DEF TypeOK
  <2> QED
    BY <1>0, <1>7, <1>8, <2>1 DEF Calm, Books, PayoutsBacked
<1>10. Books'
  <2>1. OneRow' /\ OneCharge'
    BY <1>0 DEF Calm, Books, OneRow, OneCharge
  <2>2. ASSUME NEW q \in PaymentIds PROVE RowBalanced(payment[q])'
    BY <1>0 DEF Calm, Books, RowBalanced
  <2> QED
    BY <1>9, <2>1, <2>2 DEF Books
<1>11. ChargesTracked'
  <2>1. \A g \in Threads : job[g].pc # "capture_save"
    BY <1>0, <1>6
  <2> QED
    BY <1>0, <2>1 DEF Calm, ChargesTracked, Tracked
<1>12. RatingsHeld'
  BY <1>0, <1>6 DEF Calm, RatingsHeld
<1> QED
  BY <1>6, <1>10, <1>11, <1>12 DEF Calm

LEMMA SavePayoutCalm ==
  ASSUME SettledInv, Calm, NEW h \in Threads, SavePayout(h)
  PROVE  Calm' /\ CompletedStay
<1> DEFINE j == job[h]
           new == [j.row EXCEPT !.payout = j.payout]
<1>0. /\ TypeOK /\ j \in Jobs /\ HandlerLinked(j) /\ HandlerFresh(j)
      /\ j.pc = "payout_save" /\ Finish(h)
      /\ payment' = [payment EXCEPT ![j.payment] = Flush(j.row, new, @)]
      /\ UNCHANGED <<order, paidOut, rating, average>>
  BY DEF SettledInv, Calm, TypeOK, SavePayout, At, paypalVars, ratingVars
<1>1. PICK p \in PaymentIds :
         /\ p = j.payment /\ j.row = payment[p] /\ j.row \in PaymentRow
         /\ payment[p].status = "completed"
  BY <1>0 DEF HandlerLinked, HandlerFresh, Holds, PaymentIds, TypeOK
<1>2. /\ new \in PaymentRow /\ new.status = "completed"
      /\ new.incident = j.row.incident /\ new.gateway = j.row.gateway
      /\ new.gross = j.row.gross
  BY <1>0, <1>1 DEF PaymentRow, Jobs
<1> HIDE DEF new
<1>3. PICK r : r = new
  OBVIOUS
<1>4. payment' = [payment EXCEPT ![p] = r]
  BY <1>0, <1>1, <1>2, <1>3, FlushFresh
<1>5. RowBalanced(payment[p]) /\ OneRow /\ payment[p].incident \in Incidents
  BY <1>1 DEF Calm, Books, SettledInv, RowLinked
<1>6. RowBalanced(r)
  BY <1>1, <1>2, <1>3, <1>5 DEF RowBalanced
<1>7. \A q \in PaymentIds : payment[q].incident = r.incident => q = p
  BY <1>1, <1>2, <1>3, <1>5 DEF OneRow
<1> QED
  BY <1>0, <1>1, <1>2, <1>3, <1>4, <1>6, <1>7, RowFinish

LEMMA RatingCalm ==
  ASSUME SettledInv, Calm, NEW h \in Threads,
         InsertRating(h) \/ ReadStats(h) \/ SaveAverage(h)
  PROVE  Calm'
<1>0. /\ job[h] \in Jobs /\ HandlerLinked(job[h]) /\ HandlerFresh(job[h])
      /\ rating \in Ratings /\ average \in Ratings
      /\ job[h].pc \in {"rating_insert", "rating_stats", "rating_save"}
      /\ UNCHANGED <<payment, order, paidOut>>
  BY DEF SettledInv, Calm, TypeOK, InsertRating, ReadStats, SaveAverage, At,
         paypalVars
<1>1. ASSUME NEW c \in Jobs, job' = [job EXCEPT ![h] = c], HandlerFresh(c)',
             /\ \A i \in Incidents : rating'[i] <= 1
             /\ \/ average' = rating'
                \/ c.pc \in {"rating_stats", "rating_save"}
      PROVE  Calm'
  <2>1. PICK d \in Jobs : d = c
    BY <1>1
  <2>2. job' = [job EXCEPT ![h] = d] /\ HandlerFresh(d)'
    BY <1>1, <2>1
  <2>3. /\ \A g \in Threads \ {h} :
              job[g].pc = "idle" /\ job'[g].pc = "idle"
        /\ job'[h] = d
        /\ Lone'
        /\ \A g \in Threads : HandlerFresh(job[g])'
    BY <1>0, <2>2, LoneMoves DEF Calm
  <2>4. AmountsKeep /\ OneCharge' /\ NoCharge
    BY <1>0 DEF Calm, Books, OneCharge, AmountsKeep, NoCharge
  <2>5. Books'
    BY <1>0, <2>4, BooksGrow DEF Calm
  <2>6. \A g \in Threads : job[g].pc # "capture_save"
    BY <1>0, <2>3
  <2>7. ChargesTracked'
    BY <1>0, <2>4, <2>6, ChargesGrow DEF Calm
  <2>8. RatingsHeld'
    BY <1>1, <2>1, <2>3 DEF RatingsHeld
  <2> QED
    BY <2>3, <2>5, <2>7, <2>8 DEF Calm
<1>2. CASE InsertRating(h)
  <2>1. PICK c : c = [job[h] EXCEPT !.pc = "rating_stats"]
    OBVIOUS
  <2>2. /\ c \in Jobs /\ c.pc = "rating_stats" /\ c.payment = job[h].payment
        /\ c.row = job[h].row
    BY <1>0, <2>1 DEF Jobs, Labels
  <2>3. /\ job[h].incident \in Incidents /\ rating[job[h].incident] = 0
        /\ job[h].pc = "rating_insert"
    BY <1>0, <1>2 DEF InsertRating, At, HandlerLinked, HandlerFresh
  <2>4. \A i \in Incidents : rating'[i] <= 1
    BY <1>0, <1>2, <2>3 DEF InsertRating, Ratings, Calm, RatingsHeld
  <2>5. HandlerFresh(c)'
    BY <1>0, <2>2 DEF HandlerFresh
  <2> QED
    BY <1>1, <1>2, <2>1, <2>2, <2>4, <2>5 DEF InsertRating, Continue
<1>3. CASE ReadStats(h)
  <2>1. PICK c : c = [job[h] EXCEPT !.pc = "rating_save", !.stats = rating,
                                    !.loaded = average]
    OBVIOUS
  <2>2. /\ c \in Jobs /\ c.pc = "rating_save" /\ c.payment = job[h].payment
        /\ c.row = job[h].row /\ c.stats = rating /\ c.loaded = average
    BY <1>0, <2>1 DEF Jobs, Labels
  <2>3. rating' = rating /\ average' = average
    BY <1>3 DEF ReadStats, ratingVars
  <2>4. HandlerFresh(c)'
    BY <1>0, <2>2, <2>3 DEF HandlerFresh
  <2>5. \A i \in Incidents : rating'[i] <= 1
    BY <2>3 DEF Calm, RatingsHeld
  <2> QED
    BY <1>1, <1>3, <2>1, <2>2, <2>4, <2>5 DEF ReadStats, Continue
<1>4. CASE SaveAverage(h)
  <2>1. job[h].stats = rating /\ job[h].loaded = average
    BY <1>0, <1>4 DEF SaveAverage, At, HandlerFresh
  <2>2. rating' = rating /\ average' = rating
    BY <1>4, <2>1 DEF SaveAverage
  <2>3. \A i \in Incidents : rating'[i] <= 1
    BY <2>2 DEF Calm, RatingsHeld
  <2> QED
    BY <1>1, <1>4, <2>2, <2>3, IdleFresh DEF SaveAverage, Finish
<1> QED
  BY <1>2, <1>3, <1>4

(* Steps outside the handlers, and stuttering.                             *)
LEMMA OutsideCalm ==
  ASSUME SettledInv, Calm, AmountsKeep, NoCharge,
         UNCHANGED <<payment, paidOut, rating, average, job>>
  PROVE  Calm'
<1>1. Books'
  <2>1. OneCharge'
    BY DEF Calm, Books, OneCharge, AmountsKeep, NoCharge
  <2> QED
    BY <2>1, BooksGrow DEF Calm
<1>2. ChargesTracked'
  BY ChargesGrow DEF Calm
<1>3. Lone' /\ RatingsHeld'
  BY DEF Calm, Lone, RatingsHeld
<1>4. ASSUME NEW h \in Threads PROVE HandlerFresh(job[h])'
  <2>1. PICK j : j = job[h]
    OBVIOUS
  <2>2. HandlerLinked(j) /\ HandlerFresh(j)
    BY <2>1 DEF SettledInv, Calm
  <2>3. HandlerFresh(j)'
    BY <2>2, FreshGrows
  <2> QED
    BY <2>1, <2>3
<1> QED
  BY <1>1, <1>2, <1>3, <1>4 DEF Calm

LEMMA ApproveCalm ==
  ASSUME SettledInv, Calm, NEW o \in OrderIds, Approve(o)
  PROVE  Calm'
<1>1. /\ UNCHANGED <<payment, paidOut, rating, average, job>>
      /\ order[o].state = "created"
      /\ order' = [order EXCEPT ![o].state = "approved"]
  BY DEF Approve, ratingVars
<1>2. AmountsKeep /\ NoCharge
  BY <1>1 DEF SettledInv, TypeOK, Order, AmountsKeep, NoCharge
<1> QED
  BY <1>1, <1>2, OutsideCalm

LEMMA NextCalm ==
  ASSUME SettledInv, smooth => Calm, [Next]_vars, smooth'
  PROVE  Calm' /\ CompletedStay
<1>1. smooth
  <2>1. \A h \in Threads : \A j : Begin(h, j) => smooth
    BY DEF Begin
  <2>2. \A h \in Threads : Request(h) => smooth
    BY <2>1 DEF Request, CreateOrder, StartOrder, CreateRating, CaptureOrder
  <2>3. \A h \in Threads : Proceed(h) => smooth
    BY DEF Proceed, PaypalCreate, SaveOrder, PaypalCapture, SaveFailed,
           SaveCaptured, PaypalPayout, SavePayout, InsertRating, ReadStats,
           SaveAverage
  <2> QED
    BY <2>2, <2>3 DEF Next, Crash, CompleteOffer, Approve, vars
<1> USE <1>1
<1>2. UNCHANGED payment => CompletedStay
  BY DEF CompletedStay
<1>3. ASSUME NEW h \in Threads, Request(h) PROVE Calm' /\ CompletedStay
  <2>1. UNCHANGED payment
    BY <1>3 DEF Request, CreateOrder, StartOrder, CreateRating, CaptureOrder
  <2> QED
    BY <1>2, <1>3, <2>1, RequestCalm
<1>4. ASSUME NEW h \in Threads, Proceed(h) PROVE Calm' /\ CompletedStay
  <2>1. CASE SaveOrder(h) \/ SaveFailed(h) \/ SaveCaptured(h) \/ SavePayout(h)
    BY <2>1, SaveOrderCalm, SaveFailedCalm, SaveCapturedCalm, SavePayoutCalm
  <2>2. CASE \/ PaypalCreate(h) \/ PaypalCapture(h) \/ PaypalPayout(h)
             \/ InsertRating(h) \/ ReadStats(h) \/ SaveAverage(h)
    <3>1. UNCHANGED payment
      BY <2>2 DEF PaypalCreate, PaypalCapture, PaypalPayout, InsertRating,
                  ReadStats, SaveAverage
    <3> QED
      BY <1>2, <2>2, <3>1, PaypalCreateCalm, PaypalCaptureCalm,
         PaypalPayoutCalm, RatingCalm
  <2> QED
    BY <1>4, <2>1, <2>2 DEF Proceed
<1>5. ASSUME NEW h \in Threads, Crash(h) PROVE FALSE
  BY <1>5 DEF Crash
<1>6. ASSUME NEW i \in Incidents, NEW c \in Costs, CompleteOffer(i, c)
      PROVE  Calm' /\ CompletedStay
  <2>1. UNCHANGED <<payment, order, paidOut, rating, average, job>>
    BY <1>6 DEF CompleteOffer, paypalVars, ratingVars
  <2>2. AmountsKeep /\ NoCharge
    BY <2>1 DEF AmountsKeep, NoCharge
  <2> QED
    BY <1>2, <2>1, <2>2, OutsideCalm
<1>7. ASSUME NEW o \in OrderIds, Approve(o) PROVE Calm' /\ CompletedStay
  BY <1>2, <1>7, ApproveCalm DEF Approve
<1>8. CASE UNCHANGED vars
  <2>1. UNCHANGED <<payment, order, paidOut, rating, average, job>>
    BY <1>8 DEF vars
  <2>2. AmountsKeep /\ NoCharge
    BY <2>1 DEF AmountsKeep, NoCharge
  <2> QED
    BY <1>2, <2>1, <2>2, OutsideCalm
<1> QED
  BY <1>3, <1>4, <1>5, <1>6, <1>7, <1>8 DEF Next

CalmInv == SettledInv /\ (smooth => Calm)

LEMMA CalmInvariant == Spec => []CalmInv
<1>1. Init => CalmInv
  BY InitSettled, InitCalm DEF CalmInv
<1>2. CalmInv /\ [Next]_vars => CalmInv'
  BY NextSettled, NextCalm DEF CalmInv
<1> QED
  BY <1>1, <1>2, PTL DEF Spec

(* While no handlers overlap, none crashes and PayPal's answers arrive, a  *)
(* client is charged at most once for an incident.                         *)
THEOREM ChargedAtMostOnce == Spec => []ChargedOnce
<1>1. CalmInv => ChargedOnce
  <2> SUFFICES ASSUME CalmInv, smooth, NEW i \in Incidents
               PROVE  Cardinality(Charges(i)) <= 1
    BY DEF ChargedOnce
  <2>1. \A o, q \in Charges(i) : o = q
    BY DEF CalmInv, Calm, Books, OneCharge, Charges
  <2>2. CASE Charges(i) = {}
    BY <2>2, FS_EmptySet
  <2>3. ASSUME NEW o \in Charges(i) PROVE Cardinality(Charges(i)) <= 1
    <3>1. Charges(i) = {o}
      BY <2>1, <2>3
    <3>2. Cardinality({o}) = 1
      BY FS_Singleton
    <3> QED
      BY <3>1, <3>2
  <2> QED
    BY <2>2, <2>3
<1> QED
  BY CalmInvariant, <1>1, PTL

(* Under the same conditions, once no handler runs, every charge is on the *)
(* incident's one row.                                                     *)
THEOREM ChargesOnRecord == Spec => []ChargeRecorded
<1>1. CalmInv => ChargeRecorded
  <2> SUFFICES ASSUME CalmInv, smooth, Busy = {}, NEW i \in Incidents,
                      NEW o \in Charges(i)
               PROVE  Paid(i) /\ LatestPaid(i)
    BY DEF ChargeRecorded
  <2>1. \A h \in Threads : job[h].pc = "idle"
    BY DEF Busy
  <2>2. PICK p \in PaymentIds :
           payment[p].incident = i /\ payment[p].status = "completed"
    BY <2>1 DEF CalmInv, Calm, ChargesTracked, Tracked, Charges
  <2>3. \A q \in PaymentsOf(i) : q = p
    BY <2>2 DEF PaymentsOf, CalmInv, Calm, Books, OneRow
  <2>4. payment[p].created \in Nat
    BY DEF CalmInv, SettledInv, TypeOK, PaymentRow
  <2>5. p \in LatestOf(i)
    BY <2>2, <2>3, <2>4 DEF LatestOf, PaymentsOf
  <2> QED
    BY <2>2, <2>5 DEF Paid, LatestPaid, PaymentsOf
<1> QED
  BY CalmInvariant, <1>1, PTL

(* Under the same conditions an incident once paid stays paid.             *)
THEOREM PaidForGood == Spec => PaidStaysPaid
<1> DEFINE A == smooth' => \A i \in Incidents : Paid(i) => Paid(i)'
<1>1. CalmInv /\ [Next]_vars => A
  BY NextCalm DEF CalmInv, CompletedStay, Paid, PaymentsOf
<1>2. CalmInv /\ [Next]_vars => [A]_vars
  BY <1>1
<1>3. PaidStaysPaid <=> [][A]_vars
  BY DEF PaidStaysPaid
<1> HIDE DEF A
<1> QED
  BY CalmInvariant, <1>2, <1>3, PTL DEF Spec

(* Under the same conditions the platform never pays a workshop more than  *)
(* it charged the client.                                                  *)
THEOREM PayoutsCovered == Spec => []PayoutCovered
<1>1. CalmInv => PayoutCovered
  BY DEF CalmInv, Calm, Books, PayoutsBacked, PayoutCovered, Charges
<1> QED
  BY CalmInvariant, <1>1, PTL

(* Under the same conditions an incident has at most one rating, and the   *)
(* workshop's average counts them all.                                     *)
THEOREM EveryRatingCounts == Spec => []RatingsCounted
<1>1. CalmInv => RatingsCounted
  BY DEF CalmInv, Calm, RatingsHeld, RatingsCounted, Busy
<1> QED
  BY CalmInvariant, <1>1, PTL
=============================================================================
