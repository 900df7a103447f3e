----------------------------- MODULE Discovery -----------------------------
(***************************************************************************)
(* The discovery responder, internal/discovery: Responder.Run, one         *)
(* goroutine, and the one it starts to close the socket when the context   *)
(* is cancelled.  GetStatus copies the status under the lock that each     *)
(* change of it takes, so the status is a record that changes as a whole.  *)
(*                                                                         *)
(* The two time stamps of the status are the numbers of the probes they    *)
(* were taken for; datagrams that are not a probe change nothing and are   *)
(* left out.  Lifecycle takes this module in as part of the process.       *)
(***************************************************************************)
EXTENDS Integers

CONSTANT MaxProbes        \* bound: how many probes are read

VARIABLES responder,      \* where Run is: "bind", "read", "write", "done"
          socket,         \* "none", "open", "broken", "closed"
          status,         \* Responder.status
          ctxDone         \* the context of Run is cancelled

discoveryVars == <<responder, socket, status>>

(* request, response: LastRequestAt and LastResponseAt, 0 for nil.         *)
Status == [running : BOOLEAN, healthy : BOOLEAN, error : BOOLEAN,
           request : 0..MaxProbes, response : 0..MaxProbes,
           count : 0..MaxProbes]

Init ==
  /\ responder = "bind"
  /\ socket = "none"
  /\ status = [running |-> FALSE, healthy |-> FALSE, error |-> FALSE,
               request |-> 0, response |-> 0, count |-> 0]

-----------------------------------------------------------------------------
(* listenUDP succeeds; the status is set before the first read.            *)
Bind ==
  /\ responder = "bind"
  /\ responder' = "read"
  /\ socket' = "open"
  /\ status' = [status EXCEPT !.running = TRUE, !.healthy = TRUE,
                              !.error = FALSE]
  /\ UNCHANGED ctxDone

(* Another process has the port: Run returns the error.                    *)
BindFails ==
  /\ responder = "bind"
  /\ responder' = "done"
  /\ status' = [status EXCEPT !.running = FALSE, !.healthy = FALSE,
                              !.error = TRUE]
  /\ UNCHANGED <<socket, ctxDone>>

(* The goroutine that waits for ctx.Done.                                  *)
CloseSocket ==
  /\ ctxDone
  /\ socket \in {"open", "broken"}
  /\ socket' = "closed"
  /\ UNCHANGED <<responder, status, ctxDone>>

(* The network fails in a way that every later read reports.               *)
SocketBreaks ==
  /\ socket = "open"
  /\ socket' = "broken"
  /\ UNCHANGED <<responder, status, ctxDone>>

(* A probe is read and its time noted.                                     *)
ReadProbe ==
  /\ responder = "read"
  /\ socket = "open"
  /\ status.request < MaxProbes
  /\ responder' = "write"
  /\ status' = [status EXCEPT !.request = @ + 1]
  /\ UNCHANGED <<socket, ctxDone>>

(* The reply is sent, or not: an error is logged and counts as a reply.    *)
Reply ==
  /\ responder = "write"
  /\ responder' = "read"
  /\ status' = [status EXCEPT !.response = status.request, !.count = @ + 1]
  /\ UNCHANGED <<socket, ctxDone>>

(* Mutant: any read error ends the responder.                              *)
ReadFails_Returns ==
  /\ responder = "read"
  /\ responder' = "done"
  /\ socket' = "closed"
  /\ UNCHANGED <<status, ctxDone>>

(* A read may fail at any time.  Run goes on reading until the context is  *)
(* cancelled, and then returns; its deferred Close closes the socket.      *)
ReadFails ==
  /\ responder = "read"
  /\ IF ctxDone
       THEN /\ responder' = "done"
            /\ socket' = "closed"
            /\ status' = [status EXCEPT !.running = FALSE]
       ELSE UNCHANGED discoveryVars
  /\ UNCHANGED ctxDone

Next == \/ Bind
        \/ BindFails
        \/ CloseSocket
        \/ SocketBreaks
        \/ ReadProbe
        \/ Reply
        \/ ReadFails

(* Run or its helper has a step to take that waits for nothing.            *)
Runnable == \/ responder \in {"bind", "write"}
            \/ responder = "read" /\ socket = "closed"
            \/ ctxDone /\ socket \in {"open", "broken"}

-----------------------------------------------------------------------------
(* Properties *)

TypeOK == /\ responder \in {"bind", "read", "write", "done"}
          /\ socket \in {"none", "open", "broken", "closed"}
          /\ status \in Status
          /\ ctxDone \in BOOLEAN
          /\ socket = "none" => responder \in {"bind", "done"}

(* The status is true of the goroutine, however cancellation, failing      *)
(* reads and probes fall: it says "running" exactly while Run reads and    *)
(* answers, a responder that could not bind is never healthy, and each     *)
(* probe it has noted is counted as answered once.                         *)
StatusIsTrue ==
  /\ status.running <=> responder \in {"read", "write"}
  /\ status.error => ~status.healthy /\ responder = "done"
  /\ status.count = status.response
  /\ status.request = status.response + (IF responder = "write" THEN 1 ELSE 0)
=============================================================================
