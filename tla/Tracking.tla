------------------------------ MODULE Tracking ------------------------------
(***************************************************************************)
(* The location room of one incident on one server instance: a             *)
(* technician's web socket sends positions, viewers' web sockets get them. *)
(*                                                                         *)
(* Handlers run on the event loop and interleave at their awaits only: at  *)
(* a receive, and at a send, which writes at once and then waits while the *)
(* peer does not read.  The room's list is kept as a set: a broadcast may  *)
(* take its viewers in any order.                                          *)
(***************************************************************************)
EXTENDS Naturals

CONSTANTS
    Viewers,       \* viewers' sockets; one that ends is not used again
    MaxMoves,      \* bound: positions sent
    Near,          \* the positions within ARRIVAL_THRESHOLD_METERS
    MaxBreakdowns  \* bound: database errors in a handler

ASSUME TrackingAssumption ==
    MaxMoves \in Nat /\ Near \subseteq 1..MaxMoves /\ MaxBreakdowns \in Nat

VARIABLES
    position,    \* technicians.current_latitude and _longitude; 0 is NULL
    onWire,      \* the last position sent by the technician's device
    heard,       \* the last one its handler has received
    duty,        \* incidents.status
    sender,      \* the technician's handler
    viewer,      \* each viewer's handler
    link,        \* each viewer's connection
    room,        \* the viewers in the room's list
    shown,       \* the last position written to each viewer
    notice,      \* viewers that were written the arrival
    witnesses,   \* viewers in the room when the arrival was committed
    told,        \* the last position whose broadcast ended
    breakdowns

trackVars == <<position, onWire, heard, duty, sender, viewer, link,
               room, shown, notice, witnesses, told, breakdowns>>

Places == 0..MaxMoves

\* The copy of the room's list that a broadcast has left to write to, the
\* peer whose send waits, and those whose send failed.
Closed == [at |-> "closed", left |-> {}, waits |-> {}, dead |-> {},
           triggered |-> FALSE]

TrackInit ==
    /\ position = 0 /\ onWire = 0 /\ heard = 0 /\ told = 0
    /\ duty = "assigned"
    /\ sender = Closed
    /\ viewer = [v \in Viewers |-> "new"]
    /\ link = [v \in Viewers |-> "ok"]
    /\ room = {}
    /\ shown = [v \in Viewers |-> 0]
    /\ notice = {} /\ witnesses = {}
    /\ breakdowns = 0

-----------------------------------------------------------------------------
(* The technician.                                                         *)

\* What was on the wire of an earlier connection is lost with it.
ConnectTechnician ==
    /\ sender.at = "closed"
    /\ sender' = [sender EXCEPT !.at = "idle"]
    /\ heard' = onWire
    /\ UNCHANGED <<position, onWire, duty, viewer, link, room, shown,
                   notice, witnesses, told, breakdowns>>

\* WebSocketDisconnect, which only the receive raises.
DisconnectTechnician ==
    /\ sender.at = "idle"
    /\ sender' = Closed
    /\ UNCHANGED <<position, onWire, heard, duty, viewer, link, room,
                   shown, notice, witnesses, told, breakdowns>>

SendPosition ==
    /\ sender.at # "closed" /\ onWire < MaxMoves
    /\ onWire' = onWire + 1
    /\ UNCHANGED <<position, heard, duty, sender, viewer, link, room,
                   shown, notice, witnesses, told, breakdowns>>

\* A completion or a cancellation through the offers and incidents routes.
LeaveDuty ==
    /\ duty # "over"
    /\ duty' = "over"
    /\ UNCHANGED <<position, onWire, heard, sender, viewer, link,
                   room, shown, notice, witnesses, told, breakdowns>>

Broadcast(what, to) ==
    sender' = [sender EXCEPT !.at = what, !.left = to, !.dead = {},
                             !.triggered = @ \/ what = "arrived"]

Arrives(p) == duty = "assigned" /\ p \in Near /\ ~sender.triggered

\* Up to the first send there is no await: the position and the arrival are
\* committed, and the room's list copied, in one turn of the event loop.
Receive ==
    LET p == heard + 1 IN
    /\ sender.at = "idle" /\ heard < onWire
    /\ heard' = p /\ position' = p
    /\ IF Arrives(p)
       THEN /\ duty' = "in_progress"
            /\ witnesses' = room
            /\ Broadcast("arrived", room)
       ELSE /\ Broadcast("location", room)
            /\ UNCHANGED <<duty, witnesses>>
    /\ UNCHANGED <<onWire, viewer, link, room, shown, notice, told, breakdowns>>

\* An error, before or after the position's commit, ends the handler.
ReceiveFails ==
    /\ sender.at = "idle" /\ heard < onWire
    /\ breakdowns < MaxBreakdowns /\ breakdowns' = breakdowns + 1
    /\ position' \in {position, heard + 1}
    /\ sender' = Closed
    /\ UNCHANGED <<onWire, heard, duty, viewer, link, room, shown,
                   notice, witnesses, told>>

-----------------------------------------------------------------------------
(* broadcast_location: one send after the other.                           *)

Broadcasting == sender.at \in {"arrived", "location"}

Write(v) ==
    IF sender.at = "arrived"
    THEN notice' = notice \cup {v} /\ UNCHANGED shown
    ELSE shown' = [shown EXCEPT ![v] = heard] /\ UNCHANGED notice

SendTo(v) ==
    /\ Write(v)
    /\ sender' = IF link[v] = "stalled" THEN [sender EXCEPT !.waits = {v}]
                                       ELSE [sender EXCEPT !.left = @ \ {v}]

\* Fault: an error of one send ends the loop.
SendStops ==
    /\ Broadcasting /\ sender.waits = {}
    /\ \E v \in sender.left :
          \/ link[v] # "dead" /\ SendTo(v)
          \/ /\ link[v] = "dead"
             /\ sender' = [sender EXCEPT !.left = {}, !.dead = @ \cup {v}]
             /\ UNCHANGED <<shown, notice>>
    /\ UNCHANGED <<position, onWire, heard, duty, viewer, link, room,
                   witnesses, told, breakdowns>>

\* Fault: a send that failed is tried again.
SendRetries ==
    /\ Broadcasting /\ sender.waits = {}
    /\ \E v \in sender.left :
          \/ link[v] # "dead" /\ SendTo(v)
          \/ /\ link[v] = "dead"
             /\ sender' = [sender EXCEPT !.dead = @ \cup {v}]
             /\ UNCHANGED <<shown, notice>>
    /\ UNCHANGED <<position, onWire, heard, duty, viewer, link, room,
                   witnesses, told, breakdowns>>

Send ==
    /\ Broadcasting /\ sender.waits = {}
    /\ \E v \in sender.left :
          \/ link[v] # "dead" /\ SendTo(v)
          \/ /\ link[v] = "dead"
             /\ sender' = [sender EXCEPT !.left = @ \ {v}, !.dead = @ \cup {v}]
             /\ UNCHANGED <<shown, notice>>
    /\ UNCHANGED <<position, onWire, heard, duty, viewer, link, room,
                   witnesses, told, breakdowns>>

EndBroadcast ==
    LET alive == room \ sender.dead IN
    /\ Broadcasting /\ sender.left = {}
    /\ room' = alive
    /\ IF sender.at = "arrived"
       THEN Broadcast("location", alive) /\ UNCHANGED told
       ELSE sender' = [sender EXCEPT !.at = "idle", !.dead = {}]
            /\ told' = heard
    /\ UNCHANGED <<position, onWire, heard, duty, viewer, link, shown,
                   notice, witnesses, breakdowns>>

-----------------------------------------------------------------------------
(* The viewers.                                                            *)

\* connect_viewer registers the socket before anything is read.
JoinRoom(v) ==
    /\ viewer[v] = "new"
    /\ viewer' = [viewer EXCEPT ![v] = "joined"]
    /\ room' = room \cup {v}
    /\ UNCHANGED <<position, onWire, heard, duty, sender, link, shown,
                   notice, witnesses, told, breakdowns>>

\* Once "connected" is sent: the last known location, read and written in
\* one turn.
SendLastKnown(v) ==
    /\ viewer[v] = "joined" /\ link[v] = "ok"
    /\ viewer' = [viewer EXCEPT ![v] = "watching"]
    /\ shown' = IF position = 0 THEN shown ELSE [shown EXCEPT ![v] = position]
    /\ UNCHANGED <<position, onWire, heard, duty, sender, link, room,
                   notice, witnesses, told, breakdowns>>

\* Not a WebSocketDisconnect: the handler ends and the room keeps the socket.
SendLastKnownFails(v) ==
    /\ viewer[v] = "joined" /\ link[v] = "ok"
    /\ breakdowns < MaxBreakdowns /\ breakdowns' = breakdowns + 1
    /\ viewer' = [viewer EXCEPT ![v] = "gone"]
    /\ link' = [link EXCEPT ![v] = "dead"]
    /\ UNCHANGED <<position, onWire, heard, duty, sender, room, shown,
                   notice, witnesses, told>>

\* Fault: the broadcast walks the room's list itself, and not a copy of it:
\* when one that was written to leaves, the list moves up and the walk misses
\* the next one.
LeaveRoomShifts(v) ==
    /\ viewer[v] \in {"joined", "watching"} /\ link[v] = "dead"
    /\ viewer' = [viewer EXCEPT ![v] = "gone"]
    /\ room' = room \ {v}
    /\ IF v \in sender.left \/ sender.left = sender.waits
       THEN UNCHANGED sender
       ELSE \E next \in sender.left \ sender.waits :
                sender' = [sender EXCEPT !.left = @ \ {next}]
    /\ UNCHANGED <<position, onWire, heard, duty, link, shown, notice,
                   witnesses, told, breakdowns>>

LeaveRoom(v) ==
    /\ viewer[v] \in {"joined", "watching"} /\ link[v] = "dead"
    /\ viewer' = [viewer EXCEPT ![v] = "gone"]
    /\ room' = room \ {v}
    /\ UNCHANGED <<position, onWire, heard, duty, sender, link, shown,
                   notice, witnesses, told, breakdowns>>

(* A peer stops reading, reads again, or is gone: closed, or its pings     *)
(* unanswered.                                                             *)

Stall(v) ==
    /\ viewer[v] \in {"joined", "watching"} /\ link[v] = "ok"
    /\ link' = [link EXCEPT ![v] = "stalled"]
    /\ UNCHANGED <<position, onWire, heard, duty, sender, viewer,
                   room, shown, notice, witnesses, told, breakdowns>>

\* Wakes the send that waits for it; one that then fails adds to "dead".
LinkTurns(v, to) ==
    /\ viewer[v] # "new" /\ link[v] # "dead" /\ link[v] # to
    /\ link' = [link EXCEPT ![v] = to]
    /\ sender' = IF v \in sender.waits
                 THEN [sender EXCEPT !.waits = {}, !.left = @ \ {v},
                           !.dead = IF to = "dead" THEN @ \cup {v} ELSE @]
                 ELSE sender
    /\ UNCHANGED <<position, onWire, heard, duty, viewer, room, shown,
                   notice, witnesses, told, breakdowns>>

TrackNext ==
    \/ ConnectTechnician \/ DisconnectTechnician \/ SendPosition \/ LeaveDuty
    \/ Receive \/ ReceiveFails \/ Send \/ EndBroadcast
    \/ \E v \in Viewers : \/ JoinRoom(v) \/ SendLastKnown(v)
                          \/ SendLastKnownFails(v) \/ LeaveRoom(v)
                          \/ Stall(v)
                          \/ \E to \in {"ok", "dead"} : LinkTurns(v, to)

TrackSpec == TrackInit /\ [][TrackNext]_trackVars

(* The event loop runs what is ready; the server's pings end a connection  *)
(* whose peer stays silent.                                                *)
TrackFairness ==
    /\ WF_trackVars(Send) /\ WF_trackVars(EndBroadcast)
    /\ \A v \in Viewers : WF_trackVars(link[v] = "stalled" /\ LinkTurns(v, "dead"))

-----------------------------------------------------------------------------
(* Properties.                                                             *)

\* The room's variables keep their types.
TrackTypeOK ==
    /\ {position, onWire, heard, told} \subseteq Places
    /\ duty \in {"assigned", "in_progress", "over"}
    /\ breakdowns \in 0..MaxBreakdowns
    /\ sender \in [at : {"closed", "idle", "arrived", "location"},
                   left : SUBSET Viewers, waits : SUBSET Viewers,
                   dead : SUBSET Viewers, triggered : BOOLEAN]
    /\ viewer \in [Viewers -> {"new", "joined", "watching", "gone"}]
    /\ link \in [Viewers -> {"ok", "stalled", "dead"}]
    /\ room \subseteq Viewers
    /\ shown \in [Viewers -> Places]
    /\ notice \cup witnesses \subseteq Viewers

\* A viewer that watches has been written the last position whose broadcast
\* ended, or a later one: whether it joined before, during or after that
\* broadcast, and whoever stalled, died or left meanwhile.
ViewersTold ==
    \A v \in Viewers :
        viewer[v] = "watching" /\ link[v] # "dead" => shown[v] >= told

\* Whoever was in the room when the arrival was committed and is still
\* connected when its broadcast ends has been written the notice.
ArrivalTold ==
    sender.at # "arrived" =>
        \A v \in witnesses : v \in notice \/ link[v] = "dead"

\* A broadcast ends, whichever viewers stall or vanish in the middle of it.
BroadcastEnds == Broadcasting ~> ~Broadcasting
=============================================================================
