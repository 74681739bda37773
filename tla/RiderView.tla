----------------------------- MODULE RiderView -----------------------------
(***************************************************************************)
(* What a rider sees: the hook useInstaRideSocket of the frontend, which   *)
(* follows the broadcasts to observers, composed with the simulated ride   *)
(* service it shows.  The dashboard orders rides for one rider (Viewer);   *)
(* other riders use the HTTP routes.                                       *)
(*                                                                         *)
(* inbox holds the messages on the socket of the hook, in order.  A lost   *)
(* connection takes them with it, and the hook asks for nothing after it   *)
(* has connected again.  HTTP requests and their answers travel on         *)
(* connections of their own.                                               *)
(***************************************************************************)
EXTENDS Simulator

CONSTANTS
    Viewer      \* the rider of the dashboard (rider_alice)

\* activeTrip of the hook, as far as it is modelled.
Views == [trip : FSM!TripIds \cup {None}, request : Requests,
          status : FSM!TripStatus, driver : Drivers \cup {None}]

ASSUME ViewerAssumption == Viewer \in Riders /\ None \notin Views

VARIABLES
    view,       \* activeTrip of the hook
    link,       \* connectionStatus: "connecting", "connected" or "disconnected"
    inbox,      \* messages on the way to the hook
    posted,     \* requests whose POST /rides is on the way
    cancelSent, \* trips whose POST /rides/:id/cancel is on the way
    cancelDone, \* trips whose cancellation is handled and not answered yet
    drops,      \* how often the socket was lost
    misled,     \* history: a message was lost, or one of another ride applied,
                \* and no trip_event of this ride came since
    ownCancel   \* history: the hook itself wrote "cancelled" to this view

httpVars == <<posted, cancelSent, cancelDone>>
hookVars == <<view, link, httpVars, drops, ownCancel>>
allVars == <<vars, hookVars, inbox, misled>>

-----------------------------------------------------------------------------
(* Broadcasts: a message is about a trip, and sets some fields of the view *)

\* offer_dispatched, trip_matched, match_failed
OfferMsg(t, d)   == [about |-> t, sets |-> [status |-> "matching", driver |-> d]]
MatchedMsg(t, d) == [about |-> t, sets |-> [status |-> "matched", driver |-> d, trip |-> t]]
FailedMsg(t)     == [about |-> t, sets |-> [status |-> "cancelled"]]

\* Mutant: the status the trip comes from.
TripEventFrom(t, from, to) == [about |-> t, sets |-> [status |-> from]]

\* trip_event
TripEvent(t, from, to) == [about |-> t, sets |-> [status |-> to]]

\* onTransition: one event for each trip this step moves.
TripEvents ==
    FlattenSeq([t \in 1..MaxTrips |->
        IF t \in DOMAIN trips /\ trips'[t].status # trips[t].status
        THEN <<TripEvent(t, trips[t].status, trips'[t].status)>>
        ELSE <<>>])

\* The messages reach the hook only while it is connected.
Broadcast(msgs) ==
    LET all == msgs \o TripEvents
    IN  IF link = "connected"
        THEN inbox' = inbox \o all /\ UNCHANGED misled
        ELSE /\ misled' = (misled \/ all # <<>>)
             /\ UNCHANGED inbox

InitView ==
    /\ Init
    /\ view = None
    /\ link = "connecting"
    /\ inbox = <<>>
    /\ posted = {}
    /\ cancelSent = {}
    /\ cancelDone = {}
    /\ drops = 0
    /\ misled = FALSE
    /\ ownCancel = FALSE

-----------------------------------------------------------------------------
(* The service, heard by the hook *)

ServiceStep ==
    \/ \E t \in FSM!TripIds, d \in Drivers : Offer(t, d) /\ Broadcast(<<OfferMsg(t, d)>>)
    \/ \E t \in FSM!TripIds : SaveReply(t) /\ Broadcast(<<MatchedMsg(t, loop[t].driver)>>)
    \/ \E t \in FSM!TripIds : FailReply(t) /\ Broadcast(<<FailedMsg(t)>>)
    \/ /\ \/ \E t \in FSM!TripIds :
                 \/ BeginMatching(t) \/ GiveUp(t) \/ LoopAborted(t)
                 \/ Respond(t) \/ CommitReply(t) \/ LeftBoardingOver(t)
                 \/ \E d \in Drivers : FreeReply(t, d)
          \/ \E d \in Drivers : DriverStep(d)
          \/ ResetReply
       /\ Broadcast(<<>>)

\* The hook has drawn this request id.
Drawn(q) == q \in posted \/ (view # None /\ view.request = q)

\* Other riders use the HTTP routes.
OtherRiders ==
    /\ \/ \E q \in Requests, r \in scenario.riders : ~Drawn(q) /\ RequestRide(q, r)
       \/ \E t \in DOMAIN trips :
             /\ trips[t].riderId \in scenario.riders
             /\ CancelRide(t) \/ RepeatCancel(t)
    /\ Broadcast(<<>>)

\* A click on "Arrived", "Start Trip" or "Complete" in the driver panel, on this
\* dashboard or another, arrives.  A panel knows the ids of trips whose match was
\* announced.  When its buttons are enabled is left open: it goes by a view that may
\* be out of date, and the click takes its time.
PanelClick ==
    /\ \E t \in FSM!TripIds : loop[t].at # "saving" /\ DriverAction(t)
    /\ Broadcast(<<>>)

\* Some dashboard is opened or switches the city.
Reseed == ResetRegion /\ Broadcast(<<>>)

-----------------------------------------------------------------------------
(* The hook *)

\* No ride is shown as active: the cockpit offers to order one.
NoRideShown == IF view = None THEN TRUE ELSE view.status \in FSM!Terminal

\* sendRideRequest, with an id of the moment.
ClickRequest(q) ==
    /\ scenario.dashboard
    /\ NoRideShown
    /\ requestToTrip[q] = None
    /\ ~Drawn(q)
    /\ view' = [trip |-> None, request |-> q, status |-> "requested", driver |-> None]
    /\ posted' = posted \cup {q}
    /\ ownCancel' = FALSE
    /\ misled' = FALSE
    /\ UNCHANGED <<vars, link, cancelSent, cancelDone, drops, inbox>>

\* POST /rides arrives; a refusal is only logged.
PostArrives(q) ==
    /\ q \in posted
    /\ posted' = posted \ {q}
    /\ \/ RequestRide(q, Viewer)
       \/ ~FSM!RiderIsFree(Viewer) /\ UNCHANGED vars
    /\ Broadcast(<<>>)
    /\ UNCHANGED <<view, link, cancelSent, cancelDone, drops, ownCancel>>

CancelView ==
    /\ view' = [view EXCEPT !.status = "cancelled"]
    /\ ownCancel' = TRUE

\* cancelActiveRide: the server hears of it only when the view has a trip id.
ClickCancel ==
    /\ ~NoRideShown
    /\ IF view.trip = None
       THEN CancelView /\ UNCHANGED cancelSent
       ELSE cancelSent' = cancelSent \cup {view.trip} /\ UNCHANGED <<view, ownCancel>>
    /\ UNCHANGED <<vars, link, posted, cancelDone, drops, inbox, misled>>

\* POST /rides/:tripId/cancel arrives.
CancelArrives(t) ==
    /\ t \in cancelSent
    /\ cancelSent' = cancelSent \ {t}
    /\ cancelDone' = cancelDone \cup {t}
    /\ \/ CancelRide(t)
       \/ RepeatCancel(t)
       \/ ~FSM!Succeeds(t, "cancelled", "rider", None) /\ UNCHANGED vars
    /\ Broadcast(<<>>)
    /\ UNCHANGED <<view, link, posted, drops, ownCancel>>

\* Its answer, which is not looked at, cancels the view, whatever that shows now.
CancelAnswered(t) ==
    /\ t \in cancelDone
    /\ cancelDone' = cancelDone \ {t}
    /\ CancelView
    /\ UNCHANGED <<vars, link, posted, cancelSent, drops, inbox, misled>>

\* handleMessage: nothing compares the trip of the message with that of the view.
Applied(v, msg) ==
    IF v = None THEN None
    ELSE [f \in DOMAIN v |-> IF f \in DOMAIN msg.sets THEN msg.sets[f] ELSE v[f]]

OfAnotherRide(msg) ==
    view # None /\ trips[msg.about].requestId # view.request

Receive ==
    /\ inbox # <<>>
    /\ inbox' = Tail(inbox)
    /\ LET msg == Head(inbox)
       IN  /\ view' = Applied(view, msg)
           /\ misled' = (OfAnotherRide(msg) \/ (misled /\ DOMAIN msg.sets # {"status"}))
    /\ UNCHANGED <<vars, link, httpVars, drops, ownCancel>>

\* connect, onopen
Connect ==
    /\ scenario.dashboard
    /\ link # "connected"
    /\ link' = IF link = "connecting" THEN "connected" ELSE "connecting"
    /\ UNCHANGED <<vars, view, httpVars, drops, ownCancel, inbox, misled>>

\* onclose: connect again in three seconds.
LoseLink ==
    /\ scenario.dashboard
    /\ link # "disconnected"
    /\ drops < scenario.maxDrops
    /\ drops' = drops + 1
    /\ link' = "disconnected"
    /\ inbox' = <<>>
    /\ misled' = (misled \/ inbox # <<>>)
    /\ UNCHANGED <<vars, view, httpVars, ownCancel>>

HookStep ==
    \/ \E q \in Requests : ClickRequest(q)
    \/ ClickCancel
    \/ \E t \in FSM!TripIds : CancelAnswered(t)
    \/ Receive
    \/ Connect
    \/ LoseLink

NextView ==
    \/ (ServiceStep \/ OtherRiders \/ PanelClick \/ Reseed) /\ UNCHANGED hookVars
    \/ \E q \in Requests : PostArrives(q)
    \/ \E t \in FSM!TripIds : CancelArrives(t)
    \/ HookStep

ViewSpec == InitView /\ [][NextView]_allVars

FairViewSpec == ViewSpec /\ Fairness

-----------------------------------------------------------------------------
(* Properties *)

\* Everything sent has been read, and no HTTP call is under way.
Quiet == inbox = <<>> /\ posted = {} /\ cancelSent = {} /\ cancelDone = {}

ViewTrip == requestToTrip[view.request]

\* A hook that has read its messages shows the ride as it is, or as cancelled by
\* its own click: the messages about a ride come in an order that leaves the last
\* word to its present status.  Not so after a lost message or one of another
\* ride (until the ride's next event), and after a reset or a cancellation by some
\* other client (which may cancel a trip whose match is announced later).
ViewIsCurrent ==
    Quiet /\ ~misled /\ resets = 0 /\ view # None /\ ViewTrip # None
    => \/ view.status = trips[ViewTrip].status
       \/ view.status = "cancelled" /\ ownCancel

\* A ride shown as cancelled is over.
CancelledIsOver ==
    Quiet /\ ~misled /\ view # None /\ view.status = "cancelled" /\ ViewTrip # None
    => ViewTrip \notin FSM!ActiveTrips
=============================================================================
