----------------------------- MODULE HttpServer -----------------------------
(***************************************************************************)
(* The HTTP front end of the inference service (serve/http.py): the accept *)
(* loop with its cap on connections, one daemon thread per connection that *)
(* runs one handler, and stop and start of the server while handlers of    *)
(* the previous one still run.                                             *)
(*                                                                         *)
(* The service behind it is a choice of outcomes; InferenceService models  *)
(* it.  A client may stall or go away, which makes a write fail before or  *)
(* after the status line left; ThreadingHTTPServer is the standard         *)
(* library's, modelled from how the code hooks into it.                    *)
(***************************************************************************)
EXTENDS Integers, Sequences, FiniteSets

CONSTANTS
  Connections,    \* connections clients open
  Requests,       \* what a client may send, see Request
  MaxConnections, \* max_connections
  MaxStarts,      \* bound on start() calls
  None

VARIABLES
  up,      \* _httpd is set and serve_forever runs
  starts,  \* start() calls so far: the server generation
  permits, \* generation -> free permits of its _conn_sem
  gen,     \* connection -> the generation that took it, or None
  at,      \* connection -> where it is
  req,     \* connection -> its request
  code,    \* connection -> status the handler is about to send, or None
  wire,    \* connection -> status lines that reached the client
  stalled  \* connections whose client stopped reading

(* A server is given room for at least one connection.                     *)
HttpAssumption ==
  /\ IsFiniteSet(Connections) /\ MaxConnections \in Nat \ {0} /\ MaxStarts \in Nat
  /\ None \notin Nat

vars == <<up, starts, permits, gen, at, req, code, wire, stalled>>

(* A request: method and path class, whether it is authorised, how its     *)
(* body is framed, whether the body is a valid request object with inputs  *)
(* that convert to tensors, and what the service does with it.             *)
Request == [path : {"health", "ready", "metrics", "cancel", "infer", "other"}, get : BOOLEAN,
            auth : BOOLEAN, body : {"encoded", "unsized", "negative", "large", "short", "slow", "whole"},
            valid : BOOLEAN, result : {"ok", "huge", "no", "cancelled", "refused", "missing", "error"}]

Open == {"health", "ready"}

-----------------------------------------------------------------------------
(* HttpServer.start, with a semaphore of its own for every server, and     *)
(* HttpServer.stop, which does not wait for the daemon threads.            *)
Start ==
  /\ ~up /\ starts < MaxStarts
  /\ up' = TRUE /\ starts' = starts + 1
  /\ permits' = Append(permits, MaxConnections)
  /\ UNCHANGED <<gen, at, req, code, wire, stalled>>

Stop == up /\ up' = FALSE /\ UNCHANGED <<starts, permits, gen, at, req, code, wire, stalled>>

Connect(c, r) ==
  /\ at[c] = "none"
  /\ at' = [at EXCEPT ![c] = "backlog"] /\ req' = [req EXCEPT ![c] = r]
  /\ UNCHANGED <<up, starts, permits, gen, code, wire, stalled>>

Stall(c) ==
  /\ at[c] \notin {"none", "closed"} /\ c \notin stalled
  /\ stalled' = stalled \cup {c}
  /\ UNCHANGED <<up, starts, permits, gen, at, req, code, wire>>

(* shutdown_request: the socket is closed and the permit of the server     *)
(* that took the connection returned.                                      *)
shutdown_request(c, g) ==
  /\ at' = [at EXCEPT ![c] = "closed"]
  /\ permits' = [permits EXCEPT ![g] = @ + 1]

(* Mutant: a connection refused for the cap goes through shutdown_request. *)
RefuseAndShut(c) ==
  /\ wire' = IF c \in stalled THEN wire ELSE [wire EXCEPT ![c] = Append(@, 503)]
  /\ shutdown_request(c, starts)
  /\ UNCHANGED gen

(* The cap is saturated: a 503 and the socket closed, nothing released.    *)
Refuse(c) ==
  /\ wire' = IF c \in stalled THEN wire ELSE [wire EXCEPT ![c] = Append(@, 503)]
  /\ at' = [at EXCEPT ![c] = "closed"]
  /\ UNCHANGED <<permits, gen>>

(* process_request: a permit without waiting, then a thread; a thread that *)
(* cannot be started goes to the accept loop's shutdown_request.           *)
ProcessRequest(c) ==
  /\ up /\ at[c] = "backlog"
  /\ \/ permits[starts] = 0 /\ Refuse(c)
     \/ /\ permits[starts] > 0
        /\ permits' = [permits EXCEPT ![starts] = @ - 1]
        /\ gen' = [gen EXCEPT ![c] = starts]
        /\ \E started \in BOOLEAN : at' = [at EXCEPT ![c] = IF started THEN "route" ELSE "unstarted"]
        /\ UNCHANGED wire
  /\ UNCHANGED <<up, starts, req, code, stalled>>

(* The listening socket is gone: what it had not accepted is reset.        *)
Reset(c) ==
  /\ ~up /\ starts > 0 /\ at[c] = "backlog"
  /\ at' = [at EXCEPT ![c] = "closed"]
  /\ UNCHANGED <<up, starts, permits, gen, req, code, wire, stalled>>

-----------------------------------------------------------------------------
(* A handler answers: it is about to send a status, inside a try whose     *)
(* handler sends another (guarded) or outside any.                         *)
Answer(c, status, guarded) ==
  /\ code' = [code EXCEPT ![c] = status]
  /\ at' = [at EXCEPT ![c] = IF guarded THEN "send" ELSE "last"]

(* do_GET and do_POST, after _check_auth_full.                             *)
Route(c) ==
  LET r == req[c]
  IN /\ at[c] = "route"
     /\ CASE ~r.auth /\ r.path \notin Open -> Answer(c, 401, FALSE)
          [] r.get /\ r.path \in {"health", "metrics"} -> Answer(c, 200, FALSE)
          [] r.get /\ r.path = "ready" -> Answer(c, IF r.result = "ok" THEN 200 ELSE 503, FALSE)
          [] ~r.get /\ r.path \in {"cancel", "infer"} -> at' = [at EXCEPT ![c] = "read"] /\ UNCHANGED code
          [] OTHER -> Answer(c, 404, FALSE)
     /\ UNCHANGED <<up, starts, permits, gen, req, wire, stalled>>

(* _read_json and the checks of the request object.                        *)
Framing(r) == CASE r.body = "encoded" -> 400
                [] r.body = "unsized" -> 411
                [] r.body = "large" -> 413
                [] r.body = "slow" -> 500
                [] OTHER -> 400

Read(c) ==
  LET r == req[c]
  IN /\ at[c] = "read"
     /\ IF r.body # "whole" \/ ~r.valid
        THEN Answer(c, Framing(r), FALSE)
        ELSE at' = [at EXCEPT ![c] = "serve"] /\ UNCHANGED code
     /\ UNCHANGED <<up, starts, permits, gen, req, wire, stalled>>

(* _handle_cancel and _handle_infer: a success is sent inside the try, an  *)
(* exception of the service maps to a status sent by its except clause.    *)
Serve(c) ==
  LET r == req[c]
  IN /\ at[c] = "serve"
     /\ CASE r.result = "ok" -> Answer(c, 200, TRUE)
          [] r.path = "cancel" /\ r.result = "no" -> Answer(c, 404, TRUE)
          [] r.path = "infer" /\ r.result = "huge" -> Answer(c, 500, FALSE)
          [] r.path = "infer" /\ r.result = "cancelled" -> Answer(c, 408, FALSE)
          [] r.result = "refused" \/ (r.path = "infer" /\ r.result = "missing") -> Answer(c, 400, FALSE)
          [] OTHER -> Answer(c, 500, FALSE)
     /\ UNCHANGED <<up, starts, permits, gen, req, wire, stalled>>

(* Mutant: the except clause also runs after a response that went out.     *)
SendAgain(c) ==
  /\ at[c] \in {"send", "last"} /\ c \notin stalled
  /\ wire' = [wire EXCEPT ![c] = Append(@, code[c])]
  /\ at' = [at EXCEPT ![c] = IF at[c] = "send" THEN "last" ELSE "finish"]
  /\ UNCHANGED <<up, starts, permits, gen, req, code, stalled>>

(* _send_json and its kin succeed.                                         *)
Send(c) ==
  /\ at[c] \in {"send", "last"} /\ c \notin stalled
  /\ wire' = [wire EXCEPT ![c] = Append(@, code[c])]
  /\ at' = [at EXCEPT ![c] = "finish"]
  /\ UNCHANGED <<up, starts, permits, gen, req, code, stalled>>

(* The write fails or times out, before or after the headers went out.     *)
(* Inside the try the except clause sends a 500; in an except clause the   *)
(* exception leaves the handler.                                           *)
SendFails(c) ==
  /\ at[c] \in {"send", "last"} /\ c \in stalled
  /\ \E sent \in BOOLEAN : wire' = IF sent THEN [wire EXCEPT ![c] = Append(@, code[c])] ELSE wire
  /\ IF at[c] = "send" THEN Answer(c, 500, FALSE)
     ELSE at' = [at EXCEPT ![c] = "finish"] /\ UNCHANGED code
  /\ UNCHANGED <<up, starts, permits, gen, req, stalled>>

(* process_request_thread ends, or the accept loop cleans up.              *)
Finish(c) ==
  /\ at[c] \in {"finish", "unstarted"}
  /\ shutdown_request(c, gen[c])
  /\ UNCHANGED <<up, starts, gen, req, code, wire, stalled>>

-----------------------------------------------------------------------------
Init ==
  /\ up = FALSE /\ starts = 0 /\ permits = <<>>
  /\ gen = [c \in Connections |-> None] /\ at = [c \in Connections |-> "none"]
  /\ req = [c \in Connections |-> None] /\ code = [c \in Connections |-> None]
  /\ wire = [c \in Connections |-> <<>>] /\ stalled = {}

Handle(c) == Route(c) \/ Read(c) \/ Serve(c) \/ Send(c) \/ SendFails(c) \/ Finish(c)
AcceptLoop(c) == ProcessRequest(c) \/ Reset(c)

Next ==
  \/ Start \/ Stop
  \/ \E c \in Connections : Handle(c) \/ AcceptLoop(c) \/ Stall(c) \/ \E r \in Requests : Connect(c, r)

Spec == Init /\ [][Next]_vars

-----------------------------------------------------------------------------
Held(g) == {c \in Connections : gen[c] = g /\ at[c] # "closed"}

(* Every permit of a server is either free or held by exactly one of the   *)
(* connections it took, through refusals, threads that do not start,       *)
(* writes that fail twice and a restart with handlers still running:       *)
(* "releases the semaphore exactly once".                                  *)
PermitsExact ==
  \A g \in 1 .. starts : permits[g] + Cardinality(Held(g)) = MaxConnections

(* A client that keeps reading gets one response, unless its thread never  *)
(* started or the server went down before it was accepted; no request is   *)
(* answered twice by the two layers of error handling.                     *)
OneAnswer ==
  \A c \in Connections : c \notin stalled =>
    /\ Len(wire[c]) <= 1
    /\ at[c] = "finish" => Len(wire[c]) = 1

(* The permits of a server are those of its open connections, and a client *)
(* gets one answer.                                                        *)
HttpExact == PermitsExact /\ OneAnswer
=============================================================================
