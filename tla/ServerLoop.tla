----------------------------- MODULE ServerLoop -----------------------------
(***************************************************************************)
(* The event loop of the content server (srv/loop.py), the HTTP            *)
(* connections it serves and the threads that compute the answers          *)
(* (srv/pool.py).  One thread polls all sockets.  A request that has been  *)
(* read becomes a job of the ThreadPool, under the number of the file      *)
(* descriptor of its connection, and the connection is not polled until    *)
(* the result of a job with that number comes back.  Meanwhile clients     *)
(* send and go away, connections time out, jobs fail, and another thread   *)
(* may stop the server.                                                    *)
(*                                                                         *)
(* A request is a serial number; reading one takes one or two events and   *)
(* writing an answer takes one.  Connections are plain HTTP connections,   *)
(* without SSL and without web sockets, whose clients wait for an answer   *)
(* before they send again.                                                 *)
(*                                                                         *)
(* The lock of the jobs manager is not part of this module.  Shutdown      *)
(* takes it first, without a time limit; that it may be held for ever      *)
(* (RenderQueue shows how) is the state "blocked" of the loop.             *)
(***************************************************************************)
EXTENDS Integers, Sequences, FiniteSets

CONSTANTS Fds,             \* the file descriptors connections may get
          worker_count,    \* the option: number of worker threads
          queue_size,      \* the capacity of the request and the result queue
          None,            \* no connection; the request that ends a worker
          MaxConnections,  \* bound: connections clients open
          MaxRequests,     \* bound: requests they send
          MaxTimeouts      \* bound: times a connection has been idle for too long

ASSUME SizesAssumption == worker_count \in Nat \ {0} /\ queue_size \in Nat \ {0}
ASSUME BoundsAssumption == /\ MaxConnections \in Nat /\ MaxRequests \in Nat
                           /\ MaxTimeouts \in Nat

VARIABLES
  connection_map,  \* the connection of each descriptor, or None
  client,          \* what has come from its client: "quiet", "request", "gone"
  backlog,         \* connections the listening socket has not accepted
  request_queue, result_queue,  \* of the ThreadPool
  worker,          \* worker[w]: where the thread is, and its job
  control,         \* the control pipe has bytes nobody has read
  pc,              \* where the loop is: "act", "select", "drain"; then "close",
                   \* "stop pool", "join", "end"; or "blocked" for good
  polled,          \* what select returned and get_actions has not yet handled
  ignore,          \* the connections whose events this tick ignores
  stop,            \* stop(): "no", "wakeup" (self.ready is False), "done"
  nones,           \* how many workers shutdown has told to end
  late,            \* history: descriptors of connections that timed out waiting
  connections, requests, timeouts  \* counters for the bounds

clients == <<client, backlog, connections>>
pool == <<request_queue, result_queue, worker>>
loop == <<pc, polled, ignore>>
vars == <<connection_map, client, backlog, request_queue, result_queue, worker, control, pc,
          polled, ignore, stop, nones, late, connections, requests, timeouts>>

Workers == 1..worker_count
Requests == 1..MaxRequests
Job == [s : Fds, request : Requests]
WorkerState == [state : {"get", "notify", "ended"}] \cup [state : {"work"}, job : Job]

\* The part of a Connection the loop and the queues depend on.  has_data: its
\* read_buffer has the request; idle: last_activity is older than the timeout;
\* answer: the request whose result is written, None for an error of the loop's own.
Connection == [wait_for : {"READ", "WAIT", "WRITE"}, has_data : BOOLEAN, idle : BOOLEAN,
               request : Requests \cup {None}, answer : Requests \cup {None},
               close_after_response : BOOLEAN]

\* None is told apart from connections and jobs, as in the code.
ASSUME NoneAssumption == None \notin Connection /\ None \notin Job

Open == {s \in Fds : connection_map[s] # None}
In(state) == {s \in Open : connection_map[s].wait_for = state}

\* connection_ready: waits for a request.
Fresh == [wait_for |-> "READ", has_data |-> FALSE, idle |-> FALSE, request |-> None,
          answer |-> None, close_after_response |-> FALSE]

NothingPolled == [listener |-> FALSE, control |-> FALSE, readable |-> {}, writable |-> {}]

Init == /\ connection_map = [s \in Fds |-> None]
        /\ client = [s \in Fds |-> "quiet"]
        /\ backlog = 0
        /\ request_queue = <<>> /\ result_queue = <<>>
        /\ worker = [w \in Workers |-> [state |-> "get"]]
        /\ control = FALSE
        /\ pc = "act" /\ polled = NothingPolled /\ ignore = {}
        /\ stop = "no" /\ nones = 0
        /\ late = {}
        /\ connections = 0 /\ requests = 0 /\ timeouts = 0
-----------------------------------------------------------------------------
(* Clients, time, and the thread that stops the server. *)

Connect == /\ connections < MaxConnections
           /\ connections' = connections + 1
           /\ backlog' = backlog + 1
           /\ UNCHANGED <<connection_map, client, pool, control, loop, stop, nones, late,
                          requests, timeouts>>

\* A client sends a request or a part of it, or closes its end.
ClientActs(s) ==
  /\ s \in Open
  /\ \/ client[s] = "quiet" /\ s \in In("READ") /\ ~connection_map[s].has_data
        /\ client' = [client EXCEPT ![s] = "request"]
     \/ client[s] # "gone" /\ client' = [client EXCEPT ![s] = "gone"]
  /\ UNCHANGED <<connection_map, backlog, pool, control, loop, stop, nones, late, connections,
                 requests, timeouts>>

\* Nothing was read or written for opts.timeout seconds.
IdleForTooLong(s) ==
  /\ timeouts < MaxTimeouts
  /\ s \in Open /\ ~connection_map[s].idle
  /\ timeouts' = timeouts + 1
  /\ connection_map' = [connection_map EXCEPT ![s].idle = TRUE]
  /\ UNCHANGED <<clients, pool, control, loop, stop, nones, late, requests>>

\* ServerLoop.stop, in another thread: first the flag, then the wake-up.
Stop == /\ \/ stop = "no" /\ stop' = "wakeup" /\ UNCHANGED control
           \/ stop = "wakeup" /\ stop' = "done" /\ control' = TRUE
        /\ UNCHANGED <<connection_map, clients, pool, loop, nones, late, requests, timeouts>>

ready == stop = "no"
-----------------------------------------------------------------------------
(* The threads of the ThreadPool. *)

\* request_queue.get()
GetJob(w) ==
  /\ worker[w].state = "get"
  /\ request_queue # <<>>
  /\ request_queue' = Tail(request_queue)
  /\ worker' = [worker EXCEPT ![w] = IF Head(request_queue) = None THEN [state |-> "ended"]
                                     ELSE [state |-> "work", job |-> Head(request_queue)]]
  /\ UNCHANGED <<connection_map, clients, result_queue, control, loop, stop, nones, late,
                 requests, timeouts>>

Result(job, ok) == [s |-> job.s, request |-> job.request, ok |-> ok]

\* Mutant of PutResult: a job that raises has no result.
PutResult_OnlyGood(job) == \/ result_queue' = Append(result_queue, Result(job, TRUE))
                           \/ UNCHANGED result_queue

\* The result, or handle_error: what the handler raised.
PutResult(job) == \E ok \in BOOLEAN : result_queue' = Append(result_queue, Result(job, ok))

\* The handler returns; put() blocks while the queue is full.
FinishJob(w) ==
  /\ worker[w].state = "work"
  /\ Len(result_queue) < queue_size
  /\ PutResult(worker[w].job)
  /\ worker' = [worker EXCEPT ![w] = [state |-> "notify"]]
  /\ UNCHANGED <<connection_map, clients, request_queue, control, loop, stop, nones, late,
                 requests, timeouts>>

\* Mutant of Notify: the byte is left out.
Notify_Unheard(w) ==
  /\ worker[w].state = "notify"
  /\ worker' = [worker EXCEPT ![w] = [state |-> "get"]]
  /\ UNCHANGED <<connection_map, clients, request_queue, result_queue, control, loop, stop,
                 nones, late, requests, timeouts>>

\* notify_server: job_completed
Notify(w) ==
  /\ worker[w].state = "notify"
  /\ control' = TRUE
  /\ worker' = [worker EXCEPT ![w] = [state |-> "get"]]
  /\ UNCHANGED <<connection_map, clients, request_queue, result_queue, loop, stop, nones,
                 late, requests, timeouts>>

Worker(w) == GetJob(w) \/ FinishJob(w) \/ Notify(w)
-----------------------------------------------------------------------------
(* Handling an event of connection s: what handle_event does in each state,    *)
(* and what tick makes of its exceptions.                                      *)

\* simple_response and response_ready
Respond(c, answer, close) == [c EXCEPT !.wait_for = "WRITE", !.answer = answer,
                                       !.close_after_response = close]

Becomes(s, c) == connection_map' = [connection_map EXCEPT ![s] = c]

\* close(): the descriptor is free for the next connection.
Close(s) == Becomes(s, None) /\ client' = [client EXCEPT ![s] = "quiet"]

\* Mutant of HasRoom: a queue without a limit.
HasRoom_Always == TRUE

\* put_nowait does not raise Full.
HasRoom == Len(request_queue) < queue_size

\* prepare_response and queue_job.  If the queue is full tick answers "busy".
QueueJob(s, c) ==
  LET r == requests + 1
      asked == [c EXCEPT !.request = r]
  IN  /\ requests < MaxRequests
      /\ requests' = r
      /\ \/ /\ HasRoom
            /\ request_queue' = Append(request_queue, [s |-> s, request |-> r])
            /\ Becomes(s, [asked EXCEPT !.wait_for = "WAIT"])
         \/ /\ ~HasRoom
            /\ Becomes(s, Respond(asked, None, TRUE))
            /\ UNCHANGED request_queue

\* What has been read is the end of a request, or something the connection
\* answers itself.
ParseRequest(s, c) ==
  \/ QueueJob(s, c)
  \/ /\ \E close \in BOOLEAN : Becomes(s, Respond(c, None, close))
     /\ UNCHANGED <<request_queue, requests>>

\* A connection that reads, whatever the event.  Lines go through the read_buffer;
\* a body is read as it comes.  What is there may not be all of a line or a body:
\* then it is kept, and the connection goes on reading.
HandleRead(s) ==
  LET c == connection_map[s]
      Keeps(has_data, idle) == /\ Becomes(s, [c EXCEPT !.has_data = has_data, !.idle = idle])
                               /\ UNCHANGED <<request_queue, requests>>
  IN  \/ /\ c.has_data
         /\ ParseRequest(s, [c EXCEPT !.has_data = FALSE]) \/ Keeps(FALSE, c.idle)
         /\ UNCHANGED client
      \/ /\ ~c.has_data /\ client[s] = "request"
         /\ client' = [client EXCEPT ![s] = "quiet"]
         /\ \/ ParseRequest(s, [c EXCEPT !.idle = FALSE])
            \/ \E has_data \in BOOLEAN : Keeps(has_data, FALSE)
      \/ /\ ~c.has_data /\ client[s] = "gone"
         /\ Close(s)
         /\ UNCHANGED <<request_queue, requests>>
      \/ /\ ~c.has_data /\ client[s] = "quiet"
         /\ UNCHANGED <<connection_map, client, request_queue, requests>>

\* A connection that writes, whatever the event: the answer is written and
\* reset_state makes it ready for the next request, or ends it.  When writing fails,
\* or what is written cannot be read, tick closes the connection.
HandleWrite(s) ==
  /\ \/ Close(s)
     \/ ~connection_map[s].close_after_response /\ Becomes(s, Fresh) /\ UNCHANGED client
  /\ UNCHANGED <<request_queue, requests>>

\* job_done.  A handler may ask for the connection to be closed, and so may have
\* the request; what a handler raises is answered with an error.
JobDone(s, job) ==
  /\ \E close \in {TRUE, ~job.ok} :
       Becomes(s, Respond(connection_map[s], job.request, close))
  /\ UNCHANGED <<client, request_queue, requests>>

\* _job_done is called with an event that is no result: a TypeError.
NoResult(s) == /\ Becomes(s, Respond(connection_map[s], None, TRUE))
               /\ UNCHANGED <<client, request_queue, requests>>

\* An event of select.
HandleEvent(s) ==
  \/ s \in In("READ") /\ HandleRead(s) /\ UNCHANGED ignore
  \/ s \in In("WRITE") /\ HandleWrite(s) /\ UNCHANGED ignore
  \/ s \in In("WAIT") /\ NoResult(s) /\ ignore' = ignore \cup {s}

\* A result, for the connection that has the descriptor now.
HandleResult(s, job) ==
  \/ s \in In("READ") /\ HandleRead(s) /\ UNCHANGED ignore
  \/ s \in In("WRITE") /\ HandleWrite(s) /\ UNCHANGED ignore
  \/ s \in In("WAIT") /\ JobDone(s, job) /\ ignore' = IF job.ok THEN ignore ELSE ignore \cup {s}
-----------------------------------------------------------------------------
(* The loop. *)

\* Mutant of HandleTimeout: a connection that waits is closed as well.
HandleTimeout_Close(c) == IF c.wait_for # "READ" THEN None ELSE Respond(c, None, TRUE)

\* handle_timeout: an answer, or the end of a connection that has begun to answer.
HandleTimeout(c) == IF c.wait_for = "WRITE" THEN None
                    ELSE [Respond(c, None, TRUE) EXCEPT !.idle = FALSE]

\* tick begins: timeouts, and whether there is data that was read before.
Tick ==
  /\ pc = "act" /\ polled = NothingPolled
  /\ ready
  /\ LET idle == {s \in Open : connection_map[s].idle}
         after == [s \in Fds |-> IF s \in idle THEN HandleTimeout(connection_map[s])
                                 ELSE connection_map[s]]
         readable == {s \in Fds : after[s] # None /\ after[s].wait_for = "READ" /\ after[s].has_data}
     IN  /\ connection_map' = after
         /\ client' = [s \in Fds |-> IF after[s] = None THEN "quiet" ELSE client[s]]
         /\ late' = late \cup (idle \cap In("WAIT"))
         /\ polled' = [NothingPolled EXCEPT !.readable = readable]
         /\ pc' = IF readable = {} THEN "select" ELSE "act"
  /\ ignore' = {}
  /\ UNCHANGED <<backlog, pool, control, stop, nones, connections, requests, timeouts>>

\* Mutant of ReadNeeded: connections that wait for a result are polled as well.
ReadNeeded_Waiting == In("READ") \cup In("WAIT")

\* The connections that are polled for data.
ReadNeeded == In("READ")

\* select.select, which returns when something is ready or after a time.  With a
\* listening socket that is gone or a descriptor it does not take it raises a
\* ValueError, and the server stops itself.  (OSError stands for a descriptor that
\* was closed and not taken from the connections, which no code does.)
Select ==
  /\ pc = "select"
  /\ \/ LET ready_now == [listener |-> backlog > 0, control |-> control,
                          readable |-> {s \in ReadNeeded : client[s] # "quiet"},
                          writable |-> In("WRITE")]
        IN  /\ ready_now # NothingPolled \/ \E s \in Open : connection_map[s].idle
            /\ polled' = IF ready THEN ready_now ELSE NothingPolled
            /\ UNCHANGED stop
     \/ /\ polled' = NothingPolled
        /\ stop' = IF ready THEN "done" ELSE stop
  /\ pc' = "act"
  /\ UNCHANGED <<connection_map, clients, pool, control, ignore, nones, late, requests,
                 timeouts>>

\* The listening socket is ready: a connection, or accept raises because its
\* client has given up.
Accept ==
  /\ pc = "act" /\ polled.listener
  /\ polled' = [polled EXCEPT !.listener = FALSE]
  /\ \/ \E s \in Fds \ Open : Becomes(s, Fresh)
     \/ UNCHANGED connection_map
  /\ backlog' = backlog - 1
  /\ UNCHANGED <<client, pool, control, pc, ignore, stop, nones, late, connections, requests,
                 timeouts>>

\* One byte is read.  It comes from the buffer of the file object, and then the pipe
\* may stay readable, or with all other bytes there are, which go to that buffer.
\* A WAKEUP is written only by stop.
ReadControl ==
  /\ pc = "act" /\ ~polled.listener /\ polled.control
  /\ polled' = [polled EXCEPT !.control = FALSE]
  /\ control' \in BOOLEAN
  /\ pc' \in {"drain"} \cup (IF stop = "done" THEN {"act"} ELSE {})
  /\ UNCHANGED <<connection_map, clients, pool, ignore, stop, nones, late, requests, timeouts>>

\* dispatch_job_results: one result after the other, until there is none.
DispatchJobResult ==
  /\ pc = "drain"
  /\ \/ /\ result_queue = <<>>
        /\ pc' = "act"
        /\ UNCHANGED <<connection_map, client, request_queue, result_queue, ignore, requests>>
     \/ /\ result_queue # <<>>
        /\ result_queue' = Tail(result_queue)
        /\ LET job == Head(result_queue)
           IN  IF connection_map[job.s] = None \/ job.s \in ignore
               THEN UNCHANGED <<connection_map, client, request_queue, ignore, requests>>
               ELSE HandleResult(job.s, job)
        /\ UNCHANGED pc
  /\ UNCHANGED <<backlog, worker, control, polled, stop, nones, late, connections, timeouts>>

\* A connection has data.  If it was closed since, the KeyError ends the tick.
ReadReady(s) ==
  /\ pc = "act" /\ ~polled.listener /\ ~polled.control /\ s \in polled.readable
  /\ \/ /\ connection_map[s] = None
        /\ polled' = NothingPolled
        /\ UNCHANGED <<connection_map, client, request_queue, ignore, requests>>
     \/ /\ connection_map[s] # None
        /\ polled' = [polled EXCEPT !.readable = @ \ {s}]
        /\ IF s \in ignore
           THEN UNCHANGED <<connection_map, client, request_queue, ignore, requests>>
           ELSE HandleEvent(s)
  /\ UNCHANGED <<backlog, result_queue, worker, control, pc, stop, nones, late, connections,
                 timeouts>>

\* A connection can be written to, unless it was closed since.
WriteReady(s) ==
  /\ pc = "act" /\ ~polled.listener /\ ~polled.control /\ polled.readable = {}
  /\ s \in polled.writable
  /\ polled' = [polled EXCEPT !.writable = @ \ {s}]
  /\ IF connection_map[s] = None \/ s \in ignore
     THEN UNCHANGED <<connection_map, client, request_queue, ignore, requests>>
     ELSE HandleEvent(s)
  /\ UNCHANGED <<backlog, result_queue, worker, control, pc, stop, nones, late, connections,
                 timeouts>>

\* shutdown begins with jobs_manager.shutdown, which waits for the manager's lock
\* before it tells the jobs to end: until it is free, or for good.
Shutdown ==
  /\ pc = "act" /\ polled = NothingPolled
  /\ ~ready
  /\ pc' \in {"close", "blocked"}
  /\ UNCHANGED <<connection_map, clients, pool, control, polled, ignore, stop, nones, late,
                 requests, timeouts>>

\* Then all sockets are closed.
CloseConnections ==
  /\ pc = "close"
  /\ connection_map' = [s \in Fds |-> None]
  /\ client' = [s \in Fds |-> "quiet"]
  /\ pc' = "stop pool"
  /\ UNCHANGED <<backlog, pool, control, polled, ignore, stop, nones, late, connections,
                 requests, timeouts>>

\* ThreadPool.stop: a None for each worker, as long as the queue takes them.
StopWorker ==
  /\ pc = "stop pool"
  /\ IF nones < worker_count /\ HasRoom
     THEN /\ request_queue' = Append(request_queue, None)
          /\ nones' = nones + 1
          /\ UNCHANGED pc
     ELSE pc' = "join" /\ UNCHANGED <<request_queue, nones>>
  /\ UNCHANGED <<connection_map, clients, result_queue, worker, control, polled, ignore, stop,
                 late, requests, timeouts>>

\* Mutant of Joined: the workers are waited for, without a limit.
Joined_All == \A w \in Workers : worker[w].state = "ended"

\* join(wait_till - now): all have ended, or the time is up.  The threads of plugins,
\* of jobs and of the manager are waited for with the same limit.
Joined == TRUE

JoinWorkers == /\ pc = "join"
               /\ Joined
               /\ pc' = "end"
               /\ UNCHANGED <<connection_map, clients, pool, control, polled, ignore, stop,
                              nones, late, requests, timeouts>>

Loop == \/ Tick \/ Select \/ Accept \/ ReadControl \/ DispatchJobResult
        \/ \E s \in Fds : ReadReady(s) \/ WriteReady(s)
        \/ Shutdown \/ CloseConnections \/ StopWorker \/ JoinWorkers

Next == \/ Connect \/ Stop \/ Loop
        \/ \E s \in Fds : ClientActs(s) \/ IdleForTooLong(s)
        \/ \E w \in Workers : Worker(w)

Spec == Init /\ [][Next]_vars

\* The threads keep running, and the handlers of requests return.
Fairness == WF_vars(Loop) /\ WF_vars(Stop /\ ~ready) /\ \A w \in Workers : WF_vars(Worker(w))

FairSpec == Spec /\ Fairness
-----------------------------------------------------------------------------
(* Properties. *)

HasJob(s, r) ==
  LET job == [s |-> s, request |-> r]
  IN  \/ \E i \in DOMAIN request_queue : request_queue[i] = job
      \/ \E w \in Workers : worker[w] = [state |-> "work", job |-> job]
      \/ \E i \in DOMAIN result_queue : result_queue[i].s = s /\ result_queue[i].request = r

\* Every variable has its type, and the queues keep their size.
TypeOK ==
  /\ connection_map \in [Fds -> Connection \cup {None}]
  /\ client \in [Fds -> {"quiet", "request", "gone"}]
  /\ backlog \in 0..MaxConnections
  /\ request_queue \in Seq(Job \cup {None}) /\ Len(request_queue) <= queue_size
  /\ result_queue \in Seq([s : Fds, request : Requests, ok : BOOLEAN])
  /\ Len(result_queue) <= queue_size
  /\ worker \in [Workers -> WorkerState]
  /\ control \in BOOLEAN
  /\ pc \in {"act", "select", "drain", "close", "blocked", "stop pool", "join", "end"}
  /\ polled \in [listener : BOOLEAN, control : BOOLEAN, readable : SUBSET Fds,
                 writable : SUBSET Fds]
  /\ ignore \in SUBSET Fds
  /\ stop \in {"no", "wakeup", "done"}
  /\ nones \in 0..worker_count
  /\ late \in SUBSET Fds
  /\ connections \in 0..MaxConnections /\ requests \in 0..MaxRequests
  /\ timeouts \in 0..MaxTimeouts

\* Nothing that the loop sleeps for is lost: a connection that waits has its job in
\* a queue or in the hands of a worker; a result that nobody has fetched is known
\* to the loop, has its byte in the control pipe, or its worker is about to write
\* it; and a server that was told to stop does not go on sleeping in select.
NoLostWakeUp ==
  /\ \A s \in In("WAIT") : HasJob(s, connection_map[s].request)
  /\ result_queue # <<>> => \/ control \/ pc = "drain" \/ stop = "done"
                            \/ \E w \in Workers : worker[w].state = "notify"
  /\ pc = "select" /\ stop = "done" => control

\* What a connection is answered with is the result of its own request, although
\* results are known by their descriptor only and descriptors are used again -
\* unless a connection with this descriptor timed out while it had a job.
AnswerBelongs ==
  \A s \in In("WRITE") \ late :
    connection_map[s].answer # None => connection_map[s].answer = connection_map[s].request

\* Until the server stops, no connection is closed while it waits for its result,
\* whatever happens to its client and its job: it is given an answer first, if
\* only that the request took too long.
AnsweredBeforeClosed ==
  [][\A s \in In("WAIT") : connection_map'[s] = None => ~ready]_vars

\* A connection that waits for a result does not wait for ever, whatever becomes
\* of the job and however events of other connections come in between - unless
\* shutdown waits for ever for the lock of the jobs manager.
RequestAnswered == \A s \in Fds : (s \in In("WAIT")) ~> (s \notin In("WAIT") \/ pc = "blocked")

\* A server that is told to stop does, also when its queues are full and workers
\* have jobs, once it has the lock of the jobs manager.
StopsInTheEnd == ~ready ~> pc \in {"end", "blocked"}
=============================================================================
