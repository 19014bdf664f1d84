----------------------------- MODULE Settlement -----------------------------
(***************************************************************************)
(* After a service: the client pays through PayPal, the workshop receives  *)
(* its share, the client rates the workshop and may ask for help again.    *)
(*                                                                         *)
(* The handlers of payments wait for PayPal between reading a payment row  *)
(* and writing it, and other handlers run meanwhile.  As in Dispatch, one  *)
(* step is one group of reads, one commit, or one answer of PayPal.        *)
(*                                                                         *)
(* The incidents are services of one workshop.                             *)
(***************************************************************************)
EXTENDS Integers, FiniteSets

CONSTANTS
    Incidents,
    Threads,
    None,         \* SQL NULL
    Costs,        \* what a workshop may charge for a service
    Net,          \* Costs -> what is left of it after the commission
    MaxPayments,  \* bound: payment rows
    MaxOrders,    \* bound: PayPal orders
    MaxClock,     \* bound: requests
    MaxInFlight   \* bound: handlers that overlap

ASSUME SettlementAssumption ==
    /\ None \notin Incidents
    /\ Costs \subseteq Nat \ {0}
    /\ Net \in [Costs -> Nat] /\ \A c \in Costs : Net[c] <= c
    /\ MaxPayments \in Nat /\ MaxOrders \in Nat
    /\ MaxClock \in Nat /\ MaxInFlight \in Nat

VARIABLES
    cost,     \* incidents.total_cost; 0 is NULL, or not completed yet
    payment,  \* table payments
    order,    \* the orders PayPal knows
    paidOut,  \* what PayPal paid to the workshop for each payment row
    rating,   \* table ratings: how many each incident has
    average,  \* the ratings that workshops.rating_avg is the average of
    clock,    \* orders created_at stamps
    job,      \* what each thread is doing
    smooth    \* so far no handlers overlapped, no crash, no lost answer

vars == <<cost, payment, order, paidOut, rating, average, clock, job, smooth>>
paypalVars == <<order, paidOut>>
ratingVars == <<rating, average>>

-----------------------------------------------------------------------------
(* Rows.                                                                   *)

PaymentIds == 1..MaxPayments
OrderIds == 1..MaxOrders

\* Order ids and capture ids are both kept in gateway_transaction_id.
CaptureId(o) == MaxOrders + o

PaymentStatus == {"none", "pending", "completed", "failed"}

PaymentRow ==
    [status   : PaymentStatus,
     incident : Incidents \cup {None},
     gateway  : 0..(2 * MaxOrders),       \* 0 is NULL
     gross    : Costs \cup {0},
     payout   : {"none", "sent", "failed"},
     created  : Nat]

NoPayment ==
    [status |-> "none", incident |-> None, gateway |-> 0, gross |-> 0,
     payout |-> "none", created |-> 0]

Order ==
    [state    : {"none", "created", "approved", "captured"},
     incident : Incidents \cup {None},
     amount   : Costs \cup {0}]

NoOrder == [state |-> "none", incident |-> None, amount |-> 0]

Labels ==
    {"idle", "order_paypal", "order_save", "capture_paypal", "capture_failed",
     "capture_save", "payout_paypal", "payout_save",
     "rating_insert", "rating_stats", "rating_save"}

Ratings == [Incidents -> Nat]

Jobs ==
    [pc       : Labels,
     incident : Incidents \cup {None},
     payment  : PaymentIds \cup {0},
     row      : PaymentRow,                \* as the session loaded it
     order    : OrderIds \cup {0},
     amount   : Costs \cup {0},
     began    : Nat,
     payout   : {"none", "sent", "failed"},
     stats    : Ratings,
     loaded   : Ratings]

NoRatings == [i \in Incidents |-> 0]

Idle ==
    [pc |-> "idle", incident |-> None, payment |-> 0, row |-> NoPayment,
     order |-> 0, amount |-> 0, began |-> 0, payout |-> "none",
     stats |-> NoRatings, loaded |-> NoRatings]

\* A commit writes the columns that differ from what the session loaded.
Flush(loaded, new, now) ==
    [f \in DOMAIN now |-> IF new[f] = loaded[f] THEN now[f] ELSE new[f]]

-----------------------------------------------------------------------------
(* Scheduling of threads.                                                  *)

Busy == {h \in Threads : job[h].pc # "idle"}

Begin(h, j) ==
    /\ job[h].pc = "idle"
    /\ Cardinality(Busy) < MaxInFlight
    /\ clock < MaxClock
    /\ clock' = clock + 1
    /\ job' = [job EXCEPT ![h] = [j EXCEPT !.began = clock + 1]]
    /\ smooth' = (smooth /\ Busy = {})

At(h, label) == job[h].pc = label

Continue(h, j) == job' = [job EXCEPT ![h] = j]

Finish(h) == job' = [job EXCEPT ![h] = Idle]

Init ==
    /\ cost = [i \in Incidents |-> 0]
    /\ payment = [p \in PaymentIds |-> NoPayment]
    /\ order = [o \in OrderIds |-> NoOrder]
    /\ paidOut = [p \in PaymentIds |-> 0]
    /\ rating = NoRatings
    /\ average = NoRatings
    /\ clock = 0
    /\ job = [h \in Threads |-> Idle]
    /\ smooth = TRUE

-----------------------------------------------------------------------------
(* Queries.                                                                *)

PaymentsOf(i) == {p \in PaymentIds : payment[p].incident = i}

\* PaymentRepository.get_by_incident: the newest row, or none.
LatestOf(i) ==
    {p \in PaymentsOf(i) :
        \A q \in PaymentsOf(i) : payment[q].created <= payment[p].created}

\* What request_help asks before it lets the client in again.
Paid(i) == \E p \in PaymentsOf(i) : payment[p].status = "completed"

\* What create_order and create_rating ask.
LatestPaid(i) == \E p \in LatestOf(i) : payment[p].status = "completed"

-----------------------------------------------------------------------------
(* create_order.                                                           *)

\* complete_offer, which may be called again with another cost.
CompleteOffer(i, c) ==
    /\ cost' = [cost EXCEPT ![i] = c]
    /\ UNCHANGED <<payment, paypalVars, ratingVars, clock, job, smooth>>

StartOrder(h, i) ==
    /\ cost[i] > 0
    /\ \/ /\ LatestOf(i) = {}
          /\ Begin(h, [Idle EXCEPT !.pc = "order_paypal", !.incident = i,
                                   !.amount = cost[i]])
       \/ \E p \in LatestOf(i) :
             Begin(h, [Idle EXCEPT !.pc = "order_paypal", !.incident = i,
                                   !.amount = cost[i], !.payment = p,
                                   !.row = payment[p]])
    /\ UNCHANGED <<cost, payment, paypalVars, ratingVars>>

\* Fault: create_order does not refuse an incident that is paid.
CreateOrderUnchecked(h, i) == StartOrder(h, i)

CreateOrder(h, i) == ~LatestPaid(i) /\ StartOrder(h, i)

\* An order whose answer is lost is as good as none: nobody has its URL.
PaypalCreate(h) ==
    LET j == job[h] IN
    /\ At(h, "order_paypal")
    /\ \/ \E o \in OrderIds :
             /\ order[o].state = "none"
             /\ \A q \in 1..(o - 1) : order[q].state # "none"
             /\ order' = [order EXCEPT ![o] =
                  [state |-> "created", incident |-> j.incident,
                   amount |-> j.amount]]
             /\ Continue(h, [j EXCEPT !.pc = "order_save", !.order = o])
       \/ order' = order /\ Finish(h)
    /\ UNCHANGED <<cost, payment, paidOut, ratingVars, clock, smooth>>

\* Fault: the row that is reused keeps its amounts.
SaveOrderKeepsAmount(h) ==
    LET j == job[h]
        new == [j.row EXCEPT !.status = "pending", !.gateway = j.order,
                             !.payout = "none", !.created = clock + 1]
    IN
    /\ At(h, "order_save")
    /\ \/ /\ j.payment # 0
          /\ payment' = [payment EXCEPT ![j.payment] = Flush(j.row, new, @)]
          /\ clock' = clock + 1
       \/ /\ j.payment = 0
          /\ \E p \in PaymentIds :
                /\ payment[p].status = "none"
                /\ \A q \in 1..(p - 1) : payment[q].status # "none"
                /\ payment' = [payment EXCEPT ![p] =
                     [status |-> "pending", incident |-> j.incident,
                      gateway |-> j.order, gross |-> j.amount,
                      payout |-> "none", created |-> j.began]]
          /\ clock' = clock
    /\ Finish(h)
    /\ UNCHANGED <<cost, paypalVars, ratingVars, smooth>>

\* A row found before the call to PayPal is reused.  A new row's created_at
\* is PostgreSQL's now(), the start of the transaction.
SaveOrder(h) ==
    LET j == job[h]
        new == [j.row EXCEPT !.status = "pending", !.gateway = j.order,
                             !.gross = j.amount, !.payout = "none",
                             !.created = clock + 1]
    IN
    /\ At(h, "order_save")
    /\ \/ /\ j.payment # 0
          /\ payment' = [payment EXCEPT ![j.payment] = Flush(j.row, new, @)]
          /\ clock' = clock + 1
       \/ /\ j.payment = 0
          /\ \E p \in PaymentIds :
                /\ payment[p].status = "none"
                /\ \A q \in 1..(p - 1) : payment[q].status # "none"
                /\ payment' = [payment EXCEPT ![p] =
                     [status |-> "pending", incident |-> j.incident,
                      gateway |-> j.order, gross |-> j.amount,
                      payout |-> "none", created |-> j.began]]
          /\ clock' = clock
    /\ Finish(h)
    /\ UNCHANGED <<cost, paypalVars, ratingVars, smooth>>

\* The client approves an order on PayPal's pages.
Approve(o) ==
    /\ order[o].state = "created"
    /\ order' = [order EXCEPT ![o].state = "approved"]
    /\ UNCHANGED <<cost, payment, paidOut, ratingVars, clock, job, smooth>>

-----------------------------------------------------------------------------
(* capture_order and the payout.                                           *)

CaptureOrder(h, o) ==
    /\ \E p \in PaymentIds :
          /\ payment[p].gateway = o
          /\ payment[p].status # "completed"
          /\ Begin(h, [Idle EXCEPT !.pc = "capture_paypal", !.payment = p,
                                   !.row = payment[p], !.order = o])
    /\ UNCHANGED <<cost, payment, paypalVars, ratingVars>>

\* PayPal captures an approved order once; its answer may get lost.
PaypalCapture(h) ==
    LET j == job[h] IN
    /\ At(h, "capture_paypal")
    /\ \/ /\ order[j.order].state = "approved"
          /\ order' = [order EXCEPT ![j.order].state = "captured"]
          /\ \/ /\ Continue(h, [j EXCEPT !.pc = "capture_save"])
                /\ smooth' = smooth
             \/ /\ Continue(h, [j EXCEPT !.pc = "capture_failed"])
                /\ smooth' = FALSE
       \/ /\ Continue(h, [j EXCEPT !.pc = "capture_failed"])
          /\ UNCHANGED <<order, smooth>>
    /\ UNCHANGED <<cost, payment, paidOut, ratingVars, clock>>

\* Fault: the failure is logged and the handler goes on.
SaveFailedGoesOn(h) ==
    /\ At(h, "capture_failed")
    /\ Continue(h, [job[h] EXCEPT !.pc = "capture_save"])
    /\ UNCHANGED <<cost, payment, paypalVars, ratingVars, clock, smooth>>

SaveFailed(h) ==
    LET j == job[h] IN
    /\ At(h, "capture_failed")
    /\ payment' = [payment EXCEPT ![j.payment] =
                     Flush(j.row, [j.row EXCEPT !.status = "failed"], @)]
    /\ Finish(h)
    /\ UNCHANGED <<cost, paypalVars, ratingVars, clock, smooth>>

\* The commit is followed by a refresh.  A workshop without an e-mail
\* address at PayPal gets no payout.
SaveCaptured(h) ==
    LET j == job[h]
        new == [j.row EXCEPT !.status = "completed",
                             !.gateway = CaptureId(j.order)]
    IN
    /\ At(h, "capture_save")
    /\ payment' = [payment EXCEPT ![j.payment] = Flush(j.row, new, @)]
    /\ \/ Continue(h, [Idle EXCEPT !.pc = "payout_paypal",
                                   !.payment = j.payment,
                                   !.row = payment'[j.payment]])
       \/ Finish(h)
    /\ UNCHANGED <<cost, paypalVars, ratingVars, clock, smooth>>

\* The batch id is the row's id: PayPal accepts one payout for a row.
PaypalPayout(h) ==
    LET j == job[h]
        answer(a) == Continue(h, [j EXCEPT !.pc = "payout_save", !.payout = a])
    IN
    /\ At(h, "payout_paypal")
    /\ \/ /\ paidOut[j.payment] = 0
          /\ paidOut' = [paidOut EXCEPT ![j.payment] = Net[j.row.gross]]
          /\ \/ answer("sent") /\ smooth' = smooth
             \/ answer("failed") /\ smooth' = FALSE
       \/ answer("failed") /\ UNCHANGED <<paidOut, smooth>>
    /\ UNCHANGED <<cost, payment, order, ratingVars, clock>>

\* Fault: a failed payout makes the payment a failed one.
SavePayoutFailsPayment(h) ==
    LET j == job[h]
        new == [j.row EXCEPT
                  !.status = IF j.payout = "failed" THEN "failed" ELSE @]
    IN
    /\ At(h, "payout_save")
    /\ payment' = [payment EXCEPT ![j.payment] = Flush(j.row, new, @)]
    /\ Finish(h)
    /\ UNCHANGED <<cost, paypalVars, ratingVars, clock, smooth>>

\* Fault: PayPal's payout status goes to the wrong column.
SavePayoutWrongColumn(h) ==
    LET j == job[h] IN
    /\ At(h, "payout_save")
    /\ payment' = [payment EXCEPT ![j.payment] =
                     Flush(j.row, [j.row EXCEPT !.status = j.payout], @)]
    /\ Finish(h)
    /\ UNCHANGED <<cost, paypalVars, ratingVars, clock, smooth>>

SavePayout(h) ==
    LET j == job[h] IN
    /\ At(h, "payout_save")
    /\ payment' = [payment EXCEPT ![j.payment] =
                     Flush(j.row, [j.row EXCEPT !.payout = j.payout], @)]
    /\ Finish(h)
    /\ UNCHANGED <<cost, paypalVars, ratingVars, clock, smooth>>

-----------------------------------------------------------------------------
(* create_rating.                                                          *)

\* Fault: a second rating of the incident is let through.
CreateRatingAgain(h, i) ==
    /\ LatestPaid(i)
    /\ Begin(h, [Idle EXCEPT !.pc = "rating_insert", !.incident = i])
    /\ UNCHANGED <<cost, payment, paypalVars, ratingVars>>

CreateRating(h, i) ==
    /\ LatestPaid(i)
    /\ rating[i] = 0
    /\ Begin(h, [Idle EXCEPT !.pc = "rating_insert", !.incident = i])
    /\ UNCHANGED <<cost, payment, paypalVars, ratingVars>>

InsertRating(h) ==
    LET j == job[h] IN
    /\ At(h, "rating_insert")
    /\ rating' = [rating EXCEPT ![j.incident] = @ + 1]
    /\ Continue(h, [j EXCEPT !.pc = "rating_stats"])
    /\ UNCHANGED <<cost, payment, paypalVars, average, clock, smooth>>

ReadStats(h) ==
    /\ At(h, "rating_stats")
    /\ Continue(h, [job[h] EXCEPT !.pc = "rating_save", !.stats = rating,
                                  !.loaded = average])
    /\ UNCHANGED <<cost, payment, paypalVars, ratingVars, clock, smooth>>

SaveAverage(h) ==
    LET j == job[h] IN
    /\ At(h, "rating_save")
    /\ average' = IF j.stats = j.loaded THEN average ELSE j.stats
    /\ Finish(h)
    /\ UNCHANGED <<cost, payment, paypalVars, rating, clock, smooth>>

\* The instance goes away between two steps of a handler.
Crash(h) ==
    /\ job[h].pc # "idle"
    /\ smooth' = FALSE
    /\ Finish(h)
    /\ UNCHANGED <<cost, payment, paypalVars, ratingVars, clock>>

-----------------------------------------------------------------------------
(* The specification.                                                      *)

Request(h) ==
    \/ \E i \in Incidents : CreateOrder(h, i) \/ CreateRating(h, i)
    \/ \E o \in OrderIds : CaptureOrder(h, o)

Proceed(h) ==
    \/ PaypalCreate(h) \/ SaveOrder(h)
    \/ PaypalCapture(h) \/ SaveFailed(h) \/ SaveCaptured(h)
    \/ PaypalPayout(h) \/ SavePayout(h)
    \/ InsertRating(h) \/ ReadStats(h) \/ SaveAverage(h)

Next ==
    \/ \E h \in Threads : Request(h) \/ Proceed(h) \/ Crash(h)
    \/ \E i \in Incidents, c \in Costs : CompleteOffer(i, c)
    \/ \E o \in OrderIds : Approve(o)

Spec == Init /\ [][Next]_vars

-----------------------------------------------------------------------------
(* Properties.                                                             *)

(* Rows, PayPal's books and threads keep their types.                      *)
TypeOK ==
    /\ cost \in [Incidents -> Costs \cup {0}]
    /\ payment \in [PaymentIds -> PaymentRow]
    /\ order \in [OrderIds -> Order]
    /\ paidOut \in [PaymentIds -> Nat]
    /\ rating \in Ratings
    /\ average \in Ratings
    /\ clock \in Nat
    /\ job \in [Threads -> Jobs]
    /\ smooth \in BOOLEAN

Charges(i) ==
    {o \in OrderIds : order[o].state = "captured" /\ order[o].incident = i}

(* No free rides: an incident that counts as paid, or whose workshop got   *)
(* its share, was charged to the client - whatever overlaps, crashes, and  *)
(* whichever of PayPal's answers get lost.                                 *)
PaidIsCharged ==
    \A p \in PaymentIds :
        \/ payment[p].status = "completed"
        \/ paidOut[p] > 0
        => \E i \in Incidents : payment[p].incident = i /\ Charges(i) # {}

(* While handlers do not overlap and PayPal's answers arrive, a client is  *)
(* charged at most once for an incident.                                   *)
ChargedOnce ==
    smooth => \A i \in Incidents : Cardinality(Charges(i)) <= 1

(* Under the same conditions a charge is on record as soon as the handler  *)
(* is done: the client is not asked to pay again.                          *)
ChargeRecorded ==
    smooth /\ Busy = {} =>
        \A i \in Incidents : Charges(i) # {} => Paid(i) /\ LatestPaid(i)

(* Under the same conditions an incident once paid stays paid, so that     *)
(* request_help does not block the client again.                           *)
PaidStaysPaid ==
    [][smooth' => \A i \in Incidents : Paid(i) => Paid(i)']_vars

(* Under the same conditions the platform never pays a workshop more than  *)
(* it charged the client, however often the cost was corrected.            *)
PayoutCovered ==
    smooth =>
        \A i \in Incidents, p \in PaymentIds :
            payment[p].incident = i /\ paidOut[p] > 0 =>
                \E o \in Charges(i) : paidOut[p] <= order[o].amount

(* Under the same conditions an incident has at most one rating, and the   *)
(* workshop's average takes every rating into account.                     *)
RatingsCounted ==
    smooth =>
        /\ \A i \in Incidents : rating[i] <= 1
        /\ Busy = {} => average = rating

(* create_order reuses an incident's payment row, to avoid duplicates.     *)
(* Two orders started before either is saved find no row to reuse.         *)
OnePaymentPerIncident ==
    \A i \in Incidents : Cardinality(PaymentsOf(i)) <= 1
=============================================================================
