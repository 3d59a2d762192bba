------------------------ MODULE SaturatingNotifier ------------------------
(***************************************************************************)
(* saturating_notifier<Observer>, the one-slot channel between the request *)
(* handler for /notify and the coroutine that runs a build step            *)
(* (tyroxx-ci/tyroxx-ci.cpp:39-81; examples/build_on_push.cpp and          *)
(* examples/graph.cpp carry the same class).                               *)
(*                                                                         *)
(* m_observer_or_notification is a variant: an Observer, which may be null,*)
(* or a pending notification.  Each branch of the two visits is an action  *)
(* of its own, because what the caller does next depends on the branch: an *)
(* observer that got_element is resumed before the call returns.           *)
(***************************************************************************)

VARIABLE slot                      \* m_observer_or_notification

NoObserver   == "no_observer"      \* a default constructed Observer
Notification == "notification"     \* any number of notifications, as one

NotifierInit == slot = NoObserver

Observed == slot \notin {NoObserver, Notification}

(* Seeded fault: the observer is dropped instead of remembered.             *)
Register_Forgets(o) ==
    /\ slot = NoObserver
    /\ slot' = slot

(* async_get_one with no notification pending: remember the observer.  The  *)
(* code asserts that no other observer is waiting.                          *)
Register(o) ==
    /\ slot = NoObserver
    /\ slot' = o

(* Seeded fault: the element is delivered, the slot is not emptied.         *)
TakePending_KeepsMark ==
    /\ slot = Notification
    /\ slot' = slot

(* async_get_one with a notification pending: the slot is emptied before    *)
(* the observer gets the element.                                           *)
TakePending ==
    /\ slot = Notification
    /\ slot' = NoObserver

(* Seeded fault: got_element without the exchange.                          *)
Wake_KeepsObserver(o) ==
    /\ slot = o
    /\ slot' = slot

(* notify with an observer waiting: it is exchanged for a null one and then *)
(* gets the element.                                                        *)
Wake(o) ==
    /\ slot = o
    /\ slot' = NoObserver

(* Seeded fault: a notification nobody waits for is dropped.                *)
Store_Drops ==
    /\ slot = NoObserver
    /\ slot' = slot

(* notify with nobody waiting: keep the notification.                       *)
Store ==
    /\ slot = NoObserver
    /\ slot' = Notification

(* notify with a notification already pending: nothing to do.               *)
Saturate ==
    /\ slot = Notification
    /\ UNCHANGED slot

===========================================================================
