------------------------------ MODULE Nanoweb ------------------------------
(***************************************************************************)
(* The HTTP side of the server: nanoweb::serve_client, make_directory and  *)
(* quick_final_response (nanoweb/nanoweb.hpp).  A client is one TCP        *)
(* connection at a time; the coroutine that serves it is either suspended  *)
(* in a socket operation ("connected", "writing") or running on the io     *)
(* thread ("notifying", "responding").                                     *)
(*                                                                         *)
(* A request is reduced to the elements of its path and to whether its     *)
(* path contains the configured secret anywhere.                           *)
(***************************************************************************)
EXTENDS Naturals, Sequences

CONSTANT Clients

VARIABLES conn, reply

webVars == <<conn, reply>>

ConnStates == {"closed", "connected", "notifying", "responding", "writing"}

PathElements == {"", "notify", "other"}

(* Bound: no path has more than two elements.  The handlers never look at   *)
(* those behind the first.                                                  *)
Paths == {<<>>} \cup {<<e>> : e \in PathElements} \cup (PathElements \X PathElements)

Requests == [path : Paths, has_secret : BOOLEAN]

(* The element by which make_directory selects a handler, and the handlers  *)
(* there are.                                                               *)
CurrentElement(request) == IF request.path = <<>> THEN "" ELSE Head(request.path)
RootEntries == {"", "notify"}

NoContent == {}
NoReply   == [status |-> 0, content |-> NoContent]

WebInit ==
    /\ conn = [c \in Clients |-> "closed"]
    /\ reply = [c \in Clients |-> NoReply]

(* The acceptor hands over a socket and serve_client starts to receive.     *)
OpenConnection(c) ==
    /\ conn[c] = "closed"
    /\ conn' = [conn EXCEPT ![c] = "connected"]
    /\ UNCHANGED reply

(* serve_client returns without an answer: a receive error, no request, or  *)
(* a path that does not parse as a URI.                                     *)
CloseUnanswered(c) ==
    /\ conn[c] = "connected"
    /\ conn' = [conn EXCEPT ![c] = "closed"]
    /\ UNCHANGED reply

(* The handler selected by make_directory runs up to its own call.          *)
EnterHandler(c) ==
    /\ conn[c] = "connected"
    /\ conn' = [conn EXCEPT ![c] = "notifying"]
    /\ UNCHANGED reply

(* The call made by the handler has returned.                               *)
LeaveCall(c) ==
    /\ conn[c] = "notifying"
    /\ conn' = [conn EXCEPT ![c] = "responding"]
    /\ UNCHANGED reply

(* quick_final_response: the coroutine is suspended in the write.           *)
QuickFinalResponse(c, status, content) ==
    /\ conn' = [conn EXCEPT ![c] = "writing"]
    /\ reply' = [reply EXCEPT ![c] = [status |-> status, content |-> content]]

(* The write has ended, with or without an error that nobody looks at, and  *)
(* the socket is shut down.                                                 *)
FinishResponse(c) ==
    /\ conn[c] = "writing"
    /\ conn' = [conn EXCEPT ![c] = "closed"]
    /\ reply' = [reply EXCEPT ![c] = NoReply]

===========================================================================
