-------------------------------- MODULE Rpc --------------------------------
(***************************************************************************)
(* The transport between clients and daemon (internal/rpc/rpc.go): Serve,  *)
(* ServeConn, Dial and Client.Call over one stream socket per client, with *)
(* the handlers of internal/rpc/methods.go and the calls that the MCP      *)
(* frontend (internal/mcp/server.go) and the CLI make.                     *)
(*                                                                         *)
(* The daemon ends in three ways.  When its context ends, Serve returns    *)
(* after the last connection.  When Accept fails, Serve returns at once    *)
(* and daemonForeground shuts the sessions down and exits, while requests  *)
(* are still being handled.  And the process can be killed.                *)
(*                                                                         *)
(* A Client writes one request and reads lines until one has the id of the *)
(* request, or until its deadline; the daemon reads a line, runs the       *)
(* handler, writes the response, and only then reads the next line.  A     *)
(* deadline can pass in the middle of a line, in either direction.  Of a   *)
(* line that was read in part the rest meets the next call.  After a line  *)
(* that was written in part nothing more is written: the json.Encoder of   *)
(* the Client keeps its error, and nobody dials again.                     *)
(*                                                                         *)
(* Abstractions: a handler is quick (it ends in a bounded time, whatever   *)
(* it does) or waits (lease.acquire and run.execute with wait: for a lease *)
(* or a process, or until the daemon's context ends); every request is one *)
(* that rpc.Client writes, so it parses and has an id and a method; an     *)
(* answer says how the handler ended.  The rest of a line never parses as  *)
(* a line.  The buffers of a socket have room for what is written to them, *)
(* and what was written can still be read when the other end has closed.   *)
(* The end of a handler and the writing of its answer are one step: a      *)
(* request is cut off by the end of the daemon as long as its answer was   *)
(* not written, whatever the handler had done by then.                     *)
(***************************************************************************)
EXTENDS Integers, Sequences, SequencesExt

CONSTANTS
  Clients,   \* rpc.Client objects, each with its own connection
  Timed,     \* those that set a deadline for every call (MCP)
  MaxCalls   \* bound: calls of one client

ASSUME RpcTimed == Timed \subseteq Clients
ASSUME RpcBound == MaxCalls \in Nat

VARIABLES
  cancelled,  \* the context of the daemon has ended (SIGTERM)
  serve,      \* "listening", "draining" in wg.Wait, "returned"; "failed" and
              \* "closing" (the listener too) when Accept has failed; "exited"
  worker,     \* the goroutine in ServeConn of each connection
  current,    \* the request that its handler works on
  conn,       \* the client's end of the connection
  pc,         \* where Call is
  seq,        \* Client.seq, the id of the last request
  up,         \* bytes to the daemon, as lines
  down,       \* bytes to the client, as lines
  done,       \* history: how the handler of each request ended
  answer      \* history: what each call returned

vars == <<cancelled, serve, worker, current, conn, pc, seq, up, down, done,
          answer>>

daemonVars == <<cancelled, serve, worker, current, done>>
clientVars == <<conn, pc, seq, answer>>

-----------------------------------------------------------------------------
(* Lines.  "torn": the first part of a line whose rest was not written.    *)

Ids == 1 .. MaxCalls

Methods == {"quick", "wait"}

Outcomes == {"ok", "failed"}

(* What became of a request.  "cut": the daemon ended during its handler. *)
Fates == Outcomes \cup {"none", "cut"}

Request(id, method) == [kind |-> "request", id |-> id, method |-> method]
Torn                == [kind |-> "torn", id |-> 0, method |-> "none"]
NoRequest           == [kind |-> "none", id |-> 0, method |-> "none"]

Requests == {Request(id, method) : id \in Ids, method \in Methods}

(* Answers.  "rest": what is left of one that was read in part. *)
Answer(id, outcome) == [kind |-> "answer", id |-> id, outcome |-> outcome]
Rest                == [kind |-> "rest", id |-> 0, outcome |-> "failed"]

Answers == {Answer(id, outcome) : id \in Ids, outcome \in Outcomes}

Init ==
  /\ cancelled = FALSE
  /\ serve = "listening"
  /\ worker = [c \in Clients |-> "none"]
  /\ current = [c \in Clients |-> NoRequest]
  /\ conn = [c \in Clients |-> "none"]
  /\ pc = [c \in Clients |-> "idle"]
  /\ seq = [c \in Clients |-> 0]
  /\ up = [c \in Clients |-> <<>>]
  /\ down = [c \in Clients |-> <<>>]
  /\ done = [c \in Clients |-> [i \in Ids |-> "none"]]
  /\ answer = [c \in Clients |-> [i \in Ids |-> "none"]]

-----------------------------------------------------------------------------
(* The client *)

(* Dial; the connection is in the backlog until Accept takes it.  The      *)
(* listener is open until the context or the daemon ends.                  *)
Dial(c) ==
  /\ conn[c] = "none"
  /\ serve \in {"listening", "failed"}
  /\ conn' = [conn EXCEPT ![c] = "open"]
  /\ worker' = [worker EXCEPT ![c] = "backlog"]
  /\ UNCHANGED <<cancelled, serve, current, pc, seq, up, down, done, answer>>

(* Close, or the end of the client's process, in a call or not. *)
Close(c) ==
  /\ conn[c] \in {"open", "broken"}
  /\ conn' = [conn EXCEPT ![c] = "closed"]
  /\ pc' = [pc EXCEPT ![c] = "idle"]
  /\ UNCHANGED <<daemonVars, seq, up, down, answer>>

(* Mutants: the id of a call that did not come to its end is used again;   *)
(* the id is read before it is increased.                                  *)
CallSameId(c, method) ==
  /\ conn[c] = "open" /\ pc[c] = "idle"
  /\ seq[c] < MaxCalls
  /\ LET id == IF seq[c] > 0 /\ answer[c][seq[c]] = "lost" THEN seq[c]
                                                          ELSE seq[c] + 1
     IN /\ seq' = [seq EXCEPT ![c] = id]
        /\ up' = [up EXCEPT ![c] = Append(@, Request(id, method))]
  /\ pc' = [pc EXCEPT ![c] = "reading"]
  /\ UNCHANGED <<daemonVars, conn, down, answer>>

CallOldId(c, method) ==
  /\ conn[c] = "open" /\ pc[c] = "idle"
  /\ seq[c] < MaxCalls
  /\ seq' = [seq EXCEPT ![c] = @ + 1]
  /\ pc' = [pc EXCEPT ![c] = "reading"]
  /\ up' = [up EXCEPT ![c] = Append(@, Request(seq[c], method))]
  /\ UNCHANGED <<daemonVars, conn, down, answer>>

(* Call writes the whole request, ... *)
Call(c, method) ==
  /\ conn[c] = "open" /\ pc[c] = "idle"
  /\ seq[c] < MaxCalls
  /\ seq' = [seq EXCEPT ![c] = @ + 1]
  /\ pc' = [pc EXCEPT ![c] = "reading"]
  /\ up' = [up EXCEPT ![c] = Append(@, Request(seq[c] + 1, method))]
  /\ UNCHANGED <<daemonVars, conn, down, answer>>

(* ... or the deadline passes after a part of it, or before, ... *)
WriteFails(c) ==
  /\ c \in Timed
  /\ conn[c] = "open" /\ pc[c] = "idle"
  /\ seq[c] < MaxCalls
  /\ seq' = [seq EXCEPT ![c] = @ + 1]
  /\ up' \in {up, [up EXCEPT ![c] = Append(@, Torn)]}
  /\ conn' = [conn EXCEPT ![c] = "broken"]
  /\ answer' = [answer EXCEPT ![c][seq[c] + 1] = "lost"]
  /\ UNCHANGED <<daemonVars, pc, down>>

(* ... and every call after that fails at once. *)
CallBroken(c) ==
  /\ conn[c] = "broken"
  /\ seq[c] < MaxCalls
  /\ seq' = [seq EXCEPT ![c] = @ + 1]
  /\ answer' = [answer EXCEPT ![c][seq[c] + 1] = "lost"]
  /\ UNCHANGED <<daemonVars, conn, pc, up, down>>

(* Call returns. *)
Returns(c, result) ==
  /\ pc' = [pc EXCEPT ![c] = "idle"]
  /\ answer' = [answer EXCEPT ![c][seq[c]] = result]

(* A line is read.  One with another id is skipped, and so is a rest that  *)
(* is empty; one that does not parse ends the call, whose own answer is    *)
(* still to come.                                                          *)
Receive(c) ==
  /\ pc[c] = "reading" /\ down[c] # <<>>
  /\ down' = [down EXCEPT ![c] = Tail(@)]
  /\ LET line == Head(down[c])
     IN \/ line = Rest /\ Returns(c, "lost")
        \/ line # Rest /\ line.id = seq[c] /\ Returns(c, line.outcome)
        \/ line.id # seq[c] /\ UNCHANGED <<pc, answer>>
  /\ UNCHANGED <<daemonVars, conn, seq, up>>

(* Mutant: ServeConn does not close the connection; the exit of the daemon *)
(* does.                                                                   *)
ReadFailsAtExit(c) ==
  /\ pc[c] = "reading" /\ down[c] = <<>> /\ serve \in {"returned", "exited"}
  /\ Returns(c, "lost")
  /\ UNCHANGED <<daemonVars, conn, seq, up, down>>

(* The daemon has closed the connection. *)
ReadFails(c) ==
  /\ pc[c] = "reading" /\ down[c] = <<>> /\ worker[c] = "gone"
  /\ Returns(c, "lost")
  /\ UNCHANGED <<daemonVars, conn, seq, up, down>>

(* The deadline passes, perhaps when a part of a line has been read. *)
Timeout(c) ==
  /\ c \in Timed
  /\ pc[c] = "reading"
  /\ Returns(c, "lost")
  /\ \/ down' = down
     \/ down[c] # <<>> /\ down' = [down EXCEPT ![c] = <<Rest>> \o Tail(@)]
  /\ UNCHANGED <<daemonVars, conn, seq, up>>

(* Dial, Call and Close are the user's; the rest is Call's own progress. *)
Reads(c) == Receive(c) \/ ReadFails(c) \/ Timeout(c)

-----------------------------------------------------------------------------
(* The daemon *)

Signal ==
  /\ ~cancelled /\ serve # "exited"
  /\ cancelled' = TRUE
  /\ UNCHANGED <<serve, worker, current, clientVars, up, down, done>>

(* The listener is closed when the context ends; what Accept has not taken *)
(* is reset.                                                               *)
CloseListener ==
  /\ cancelled
  /\ \/ serve = "listening" /\ serve' = "draining"
     \/ serve = "failed" /\ serve' = "closing"
  /\ worker' = [c \in Clients |-> IF worker[c] = "backlog" THEN "gone"
                                                          ELSE worker[c]]
  /\ UNCHANGED <<cancelled, current, clientVars, up, down, done>>

(* The process of the daemon is no more: its connections are closed and    *)
(* the requests in hand get no answer.                                     *)
ProcessEnds ==
  /\ worker' = [c \in Clients |-> IF worker[c] = "none" THEN "none" ELSE "gone"]
  /\ current' = [c \in Clients |-> NoRequest]
  /\ done' = [c \in Clients |-> [i \in Ids |->
                IF i = current[c].id THEN "cut" ELSE done[c][i]]]
  /\ UNCHANGED <<cancelled, clientVars, up, down>>

(* Mutant: an orderly shutdown does not wait for the connections. *)
ServeReturnsAtOnce ==
  /\ serve = "draining"
  /\ serve' = "returned"
  /\ ProcessEnds

(* wg.Wait *)
ServeReturns ==
  /\ serve = "draining"
  /\ \A c \in Clients : worker[c] \in {"none", "gone"}
  /\ serve' = "returned"
  /\ UNCHANGED <<cancelled, worker, current, clientVars, up, down, done>>

(* Accept fails although the context has not ended, for want of a file     *)
(* descriptor say: Serve returns at once.  Connections are served on until *)
(* the daemon has shut its sessions down, ...                              *)
AcceptFails ==
  /\ serve = "listening" /\ ~cancelled
  /\ serve' = "failed"
  /\ UNCHANGED <<cancelled, worker, current, clientVars, up, down, done>>

(* ... which waits for no connection, and exits. *)
Exit == serve \in {"failed", "closing"} /\ serve' = "exited" /\ ProcessEnds

(* The daemon is killed. *)
Killed == serve \in {"listening", "draining"} /\ serve' = "exited" /\ ProcessEnds

Moves(c, from, to) ==
  /\ worker[c] = from
  /\ worker' = [worker EXCEPT ![c] = to]

OnlyWorker == UNCHANGED <<cancelled, serve, current, clientVars, up, down, done>>

Accept(c) == serve = "listening" /\ Moves(c, "backlog", "top") /\ OnlyWorker

(* The context is looked at between two lines, never while one is awaited. *)
CheckContext(c) ==
  Moves(c, "top", IF cancelled THEN "gone" ELSE "reading") /\ OnlyWorker

(* A response to a client that has gone is dropped. *)
Respond(c, line) ==
  down' = IF conn[c] # "closed" THEN [down EXCEPT ![c] = Append(@, line)] ELSE down

(* Mutants: each request in a goroutine of its own; a line without its end *)
(* is waited for when the client has gone.                                 *)
ReadRequestAtOnce(c) ==
  /\ worker[c] \in {"reading", "handling"}
  /\ worker' = [worker EXCEPT ![c] = "handling"]
  /\ up[c] # <<>> /\ Head(up[c]) \in Requests
  /\ current' = [current EXCEPT ![c] = Head(up[c])]
  /\ up' = [up EXCEPT ![c] = Tail(@)]
  /\ UNCHANGED <<cancelled, serve, clientVars, down, done>>

ReadEOFBetweenLines(c) ==
  /\ Moves(c, "reading", "gone")
  /\ conn[c] = "closed"
  /\ up[c] = <<>>
  /\ OnlyWorker

ReadRequest(c) ==
  /\ Moves(c, "reading", "handling")
  /\ up[c] # <<>> /\ Head(up[c]) \in Requests
  /\ current' = [current EXCEPT ![c] = Head(up[c])]
  /\ up' = [up EXCEPT ![c] = Tail(@)]
  /\ UNCHANGED <<cancelled, serve, clientVars, down, done>>

(* All that the client has written has been read, but for a torn line. *)
ReadEOF(c) ==
  /\ Moves(c, "reading", "gone")
  /\ conn[c] = "closed"
  /\ \A k \in DOMAIN up[c] : up[c][k] = Torn
  /\ OnlyWorker

(* The handler returns and its response is written. *)
HandlerEnds(c, outcome) ==
  /\ Moves(c, "handling", "top")
  /\ done' = [done EXCEPT ![c][current[c].id] = outcome]
  /\ current' = [current EXCEPT ![c] = NoRequest]
  /\ Respond(c, Answer(current[c].id, outcome))
  /\ UNCHANGED <<cancelled, serve, clientVars, up>>

QuickEnds(c) ==
  /\ current[c].method = "quick"
  /\ \E outcome \in Outcomes : HandlerEnds(c, outcome)

(* lease.acquire and run.execute get the daemon's context, not one of the  *)
(* connection; a client that has gone does not end it.                     *)
WaitEnds(c) ==
  /\ current[c].method = "wait"
  /\ \E outcome \in Outcomes : HandlerEnds(c, outcome)

Interrupted(c) ==
  current[c].method = "wait" /\ cancelled /\ HandlerEnds(c, "failed")

(* What ServeConn does of its own accord.  A wait may never end. *)
ServeConn(c) ==
  \/ CheckContext(c) \/ ReadRequest(c) \/ ReadEOF(c)
  \/ QuickEnds(c) \/ Interrupted(c)

-----------------------------------------------------------------------------

Next ==
  \/ \E c \in Clients :
       \/ Dial(c) \/ Close(c) \/ (\E method \in Methods : Call(c, method))
       \/ WriteFails(c) \/ CallBroken(c) \/ Receive(c) \/ ReadFails(c) \/ Timeout(c)
       \/ Accept(c) \/ ServeConn(c) \/ WaitEnds(c)
  \/ Signal \/ CloseListener \/ ServeReturns \/ AcceptFails \/ Exit \/ Killed

Spec == Init /\ [][Next]_vars

(* Fairness.  A goroutine of the daemon takes its next step, a handler     *)
(* that does not wait ends, a client in Call reads what has come and minds *)
(* its deadline; Service.Shutdown has a time limit.  A user need not call, *)
(* close or send a signal, no lease need be granted and no process of a    *)
(* run need exit, and Accept need not fail.                                *)
Fairness ==
  /\ WF_vars(CloseListener) /\ WF_vars(ServeReturns) /\ WF_vars(Exit)
  /\ \A c \in Clients :
       WF_vars(Accept(c)) /\ WF_vars(ServeConn(c)) /\ WF_vars(Reads(c))

FairSpec == Spec /\ Fairness

-----------------------------------------------------------------------------
(* Invariants *)

TypeOK ==
  /\ cancelled \in BOOLEAN
  /\ serve \in {"listening", "draining", "returned", "failed", "closing", "exited"}
  /\ worker \in [Clients -> {"none", "backlog", "top", "reading", "handling",
                             "gone"}]
  /\ current \in [Clients -> Requests \cup {NoRequest}]
  /\ conn \in [Clients -> {"none", "open", "broken", "closed"}]
  /\ pc \in [Clients -> {"idle", "reading"}]
  /\ seq \in [Clients -> 0 .. MaxCalls]
  /\ up \in [Clients -> Seq(Requests \cup {Torn})]
  /\ down \in [Clients -> Seq(Answers \cup {Rest})]
  /\ done \in [Clients -> [Ids -> Fates]]
  /\ answer \in [Clients -> [Ids -> Outcomes \cup {"none", "lost"}]]

(* What a call returns as its result is how the handler of its own request *)
(* ended, although the answers to calls that timed out come later, on the  *)
(* same connection, and some of their bytes have been read.  A call        *)
(* without a deadline that fails for the connection was not handled to its *)
(* end, nor is it later: it can be made again.  Only a daemon that was     *)
(* killed, or whose Accept failed, leaves one in the middle (rpc.go:210);  *)
(* one that was told to stop has handled a request or has not begun it.    *)
AnswersAreTrue ==
  \A c \in Clients, i \in Ids :
    /\ answer[c][i] \in Outcomes => answer[c][i] = done[c][i]
    /\ answer[c][i] = "lost" /\ c \notin Timed => done[c][i] \notin Outcomes
    /\ done[c][i] = "cut" => serve = "exited"

(* Nothing is lost or forgotten, however the daemon ends: a call that is   *)
(* still waiting finds its answer in the connection if its handler has     *)
(* ended, also when ServeConn has returned or the daemon is gone; if not,  *)
(* its request is on the way, or is being handled, or the daemon ended     *)
(* during its handler.                                                     *)
NoCallLost ==
  \A c \in Clients : pc[c] = "reading" =>
    IF done[c][seq[c]] \in Outcomes
      THEN Contains(down[c], Answer(seq[c], done[c][seq[c]]))
      ELSE \/ current[c].id = seq[c]
           \/ \E k \in DOMAIN up[c] : up[c][k] \in Requests /\ up[c][k].id = seq[c]
           \/ done[c][seq[c]] = "cut" /\ serve = "exited"

-----------------------------------------------------------------------------
(* Action properties *)

(* The requests of a connection take effect one at a time and in the order *)
(* of the calls: when a handler begins, every earlier request that will    *)
(* ever be handled has been handled, whether its call timed out or not.    *)
OneAtATime ==
  [][\A c \in Clients :
       current'[c] # current[c] /\ current'[c] # NoRequest =>
         /\ current[c] = NoRequest
         /\ \A i \in Ids : i >= current'[c].id => done[c][i] = "none"
         /\ \A k \in DOMAIN up'[c] :
              up'[c][k] \in Requests => up'[c][k].id > current'[c].id]_vars

-----------------------------------------------------------------------------
(* Liveness *)

(* A call without a deadline whose handler is quick ends: nothing is ever  *)
(* in front of it for good (rpc.go:125, 275).                              *)
UntimedCallsEnd ==
  \A c \in Clients \ Timed :
    pc[c] = "reading" /\ (current[c].method = "quick"
                          \/ \E k \in DOMAIN up[c] : up[c][k].method = "quick")
      ~> pc[c] = "idle"

(* The daemon does not serve any more. *)
Ended == serve \in {"returned", "exited"}

(* Once the context has ended, Serve returns if the clients all close      *)
(* their connections, although handlers may be waiting (rpc.go:203).       *)
ServeEndsWithClients ==
  <>[](cancelled /\ \A c \in Clients : conn[c] \in {"none", "closed"}) => <>Ended

(* "Serve listens on the endpoint and serves connections until ctx ends". *)
ServeEnds == cancelled ~> Ended

=============================================================================
