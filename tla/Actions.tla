------------------------------ MODULE Actions ------------------------------
(***************************************************************************)
(* The action log of one container: a row per action the API records for   *)
(* a request, in the order of their creation, and a row per event that     *)
(* zun-compute reports while it works on an action.                        *)
(*                                                                         *)
(* zun-compute finds the action of an event by the request id it was       *)
(* called with.  After a restart it works under a request id of its own    *)
(* and without a project, and its events go to the last action recorded.   *)
(***************************************************************************)
EXTENDS Integers, Sequences, FiniteSets, SequencesExt, Functions

\* The request id of what zun-compute recovers at its start.
Recovery == 0

VARIABLES
    actions,    \* the rows of container_actions, oldest first
    events      \* the rows of container_actions_events, oldest first

logVars == <<actions, events>>

ActionRow(requests, names) ==
    [req : requests, action : names, end : {"open", "done", "Error"}]

EventRow(names) ==
    [action : Nat \ {0}, event : names, result : {"open", "Success", "Error"}]

\* FinishAction and EventReporter note an exception as an error.
Message(ok) == IF ok THEN "done" ELSE "Error"

Result(ok) == IF ok THEN "Success" ELSE "Error"

NoAction == 0

Least(S) == IF S = {} THEN NoAction ELSE Min(S)

action_start(r, a) ==
    actions' = Append(actions, [req |-> r, action |-> a, end |-> "open"])

_action_get_by_request_id(r) ==
    Least({i \in DOMAIN actions : actions[i].req = r})

_action_get_last_created == Len(actions)

\* The action an event of request r is filed under, NoAction for none.
FiledUnder(r) ==
    LET own == _action_get_by_request_id(r)
    IN  IF own = NoAction /\ r = Recovery THEN _action_get_last_created
        ELSE own

action_event_start(r, e) ==
    /\ FiledUnder(r) # NoAction
    /\ events' = Append(events, [action |-> FiledUnder(r), event |-> e,
                                 result |-> "open"])

\* The event that the end of e updates: the first of that name and action.
OpenedBy(r, e) ==
    Least({i \in DOMAIN events : /\ events[i].action = FiledUnder(r)
                                 /\ events[i].event = e})

action_event_finish(r, e, ok) ==
    events' = IF OpenedBy(r, e) = NoAction THEN events
              ELSE [events EXCEPT ![OpenedBy(r, e)].result = Result(ok)]

\* The rows whose finish_time action_finish sets.
Finishes(r, a) ==
    {i \in DOMAIN actions : actions[i].req = r /\ actions[i].action = a}

\* Anything but one row is an exception, which rolls the update back.
action_finish(r, a, ok) ==
    actions' = [i \in DOMAIN actions |->
                   IF Finishes(r, a) = {i}
                   THEN [actions[i] EXCEPT !.end = Message(ok)]
                   ELSE actions[i]]

\* The rows go with the container's row (ondelete='CASCADE').
CascadeActions == actions' = <<>> /\ events' = <<>>
=============================================================================
