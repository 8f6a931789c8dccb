------------------------------ MODULE ApiStrand ------------------------------
(***************************************************************************)
(* How requests and timer ticks reach the game: the worker threads of      *)
(* main.cpp run one io_context; LoggingRequestHandler and RequestHandler   *)
(* serve a request on the stack of the thread that read it and dispatch    *)
(* its handler to api_strand_, which the ticker's timer shares.            *)
(*                                                                         *)
(* RequestInfo, the decoded URI and resp_info are locals of that stack,    *)
(* and the handler holds references to them.  When the strand is busy the  *)
(* handler is queued and the frame returns; the handler then reads and     *)
(* writes a dead frame, which is undefined: any answer, a write over       *)
(* another frame, or the end of the process.                               *)
(*                                                                         *)
(* A definition marked (fault) is no part of the model: it is the next one *)
(* with a mistake in it, that a property below tells from the real one.    *)
(***************************************************************************)
EXTENDS Naturals, Sequences

CONSTANTS
  Workers,                   \* the threads in io_context::run
  Conns,                     \* the connections; each has one request at a time
  Statuses,                  \* statuses a handler may answer
  TimerOn,                   \* --tick-period was given
  Tick, Invoker, Signal,     \* work other than a request
  NoConn, NoStatus

Work == Conns \cup {Tick, Invoker, Signal}

ASSUME WorkAssumption ==
  /\ Tick \notin Conns /\ Invoker \notin Conns /\ Signal \notin Conns
  /\ Tick # Invoker /\ Tick # Signal /\ Invoker # Signal
  /\ NoConn \notin Conns \cup {Tick} /\ NoStatus \notin Statuses
  /\ TimerOn \in BOOLEAN

VARIABLES
  queue,      \* io_context: work that is ready to run, in order
  locked,     \* strand: an invoker runs or is posted
  ready,      \* strand: handlers the invoker runs
  waiting,    \* strand: handlers dispatched meanwhile
  pc,         \* what each worker does
  frame,      \* whose request each worker has on its stack
  running,    \* the handler each worker runs in the strand
  respInfo,   \* resp_info in each worker's frame
  startTime,  \* LoggingRequestHandler::start_time: whose request set it last
  conn,       \* each connection
  target,     \* what its request is for
  sent,       \* the status last written to it
  timer,      \* Ticker::timer_
  process     \* "running", "stopped" by a signal, "crashed"

strand == <<locked, ready, waiting>>
stack  == <<pc, frame, running, respInfo, startTime>>
net    == <<conn, target, sent>>
vars   == <<queue, strand, stack, net, timer, process>>

\* Every variable has its type; a worker that dispatches or logs has a frame, and one
\* runs a handler exactly while it is in it.
TypeOK ==
  /\ queue \in Seq(Work)
  /\ locked \in BOOLEAN
  /\ ready \in Seq(Conns \cup {Tick})
  /\ waiting \in Seq(Conns \cup {Tick})
  /\ pc \in [Workers -> {"idle", "dispatch", "invoke", "handle", "log"}]
  /\ frame \in [Workers -> Conns \cup {NoConn}]
  /\ running \in [Workers -> Conns \cup {Tick, NoConn}]
  /\ respInfo \in [Workers -> Statuses \cup {NoStatus}]
  /\ startTime \in Conns \cup {NoConn}
  /\ conn \in [Conns -> {"open", "arrived", "served", "answered"}]
  /\ target \in [Conns -> {"api", "file"}]
  /\ sent \in [Conns -> Statuses \cup {NoStatus}]
  /\ timer \in {"off", "armed", "expired"}
  /\ process \in {"running", "stopped", "crashed"}
  /\ \A w \in Workers :
       /\ pc[w] \in {"dispatch", "log"} => frame[w] # NoConn
       /\ pc[w] = "idle" => frame[w] = NoConn
       /\ pc[w] = "handle" <=> running[w] # NoConn

Init ==
  /\ queue = <<>>
  /\ locked = FALSE /\ ready = <<>> /\ waiting = <<>>
  /\ pc = [w \in Workers |-> "idle"]
  /\ frame = [w \in Workers |-> NoConn]
  /\ running = [w \in Workers |-> NoConn]
  /\ respInfo = [w \in Workers |-> NoStatus]
  /\ startTime = NoConn
  /\ conn = [c \in Conns |-> "open"]
  /\ target = [c \in Conns |-> "file"]
  /\ sent = [c \in Conns |-> NoStatus]
  /\ timer = IF TimerOn THEN "armed" ELSE "off"
  /\ process = "running"

-----------------------------------------------------------------------------
(* What happens outside the threads.                                       *)

\* A request comes in and its read completes.
Arrive(c) ==
  /\ process = "running" /\ conn[c] = "open"
  /\ \E t \in {"api", "file"} : target' = [target EXCEPT ![c] = t]
  /\ conn' = [conn EXCEPT ![c] = "arrived"]
  /\ sent' = [sent EXCEPT ![c] = NoStatus]
  /\ queue' = Append(queue, c)
  /\ UNCHANGED <<strand, stack, timer, process>>

FrameAlive(c) == \E w \in Workers : frame[w] = c

\* The write completes.  OnWrite runs in the connection's own strand, so not before
\* OnRead has returned, and reads the next request.
Written(c) ==
  /\ process = "running" /\ conn[c] = "answered" /\ ~FrameAlive(c)
  /\ conn' = [conn EXCEPT ![c] = "open"]
  /\ UNCHANGED <<queue, strand, stack, target, sent, timer, process>>

\* The period of the ticker is over.
Expire ==
  /\ process = "running" /\ timer = "armed"
  /\ timer' = "expired"
  /\ queue' = Append(queue, Tick)
  /\ UNCHANGED <<strand, stack, net, process>>

\* SIGINT or SIGTERM.
Interrupt ==
  /\ process = "running" /\ \A i \in DOMAIN queue : queue[i] # Signal
  /\ queue' = Append(queue, Signal)
  /\ UNCHANGED <<strand, stack, net, timer, process>>

-----------------------------------------------------------------------------
(* What a worker does with the work it takes.  io_context::stop lets it    *)
(* finish what it runs and take nothing more.                              *)

Take(w, item) ==
  /\ process = "running" /\ pc[w] = "idle"
  /\ queue # <<>> /\ Head(queue) = item
  /\ queue' = Tail(queue)

\* SessionBase::OnRead, LoggingRequestHandler::operator() with LogRequest, and the
\* locals of RequestHandler::operator().
OnRead(w, c) ==
  /\ Take(w, c)
  /\ pc' = [pc EXCEPT ![w] = "dispatch"]
  /\ frame' = [frame EXCEPT ![w] = c]
  /\ respInfo' = [respInfo EXCEPT ![w] = NoStatus]
  /\ startTime' = c
  /\ conn' = [conn EXCEPT ![c] = "served"]
  /\ UNCHANGED <<strand, running, target, sent, timer, process>>

\* transmitter: log_handler fills resp_info, send writes the response.
Transmit(c, status) ==
  /\ sent' = [sent EXCEPT ![c] = status]
  /\ conn' = [conn EXCEPT ![c] = "answered"]

\* A request for a file is answered on the spot.
HandleFileRequest(w) ==
  /\ pc[w] = "dispatch" /\ target[frame[w]] = "file"
  /\ \E status \in Statuses :
       /\ Transmit(frame[w], status)
       /\ respInfo' = [respInfo EXCEPT ![w] = status]
  /\ pc' = [pc EXCEPT ![w] = "log"]
  /\ UNCHANGED <<queue, strand, frame, running, startTime, target, timer, process>>

\* strand::dispatch from a thread outside the strand: the handler is queued when the
\* strand is locked; otherwise the caller becomes its invoker at once.
Dispatch(w, handler, whenQueued) ==
  /\ locked' = TRUE
  /\ IF locked THEN waiting' = Append(waiting, handler) /\ UNCHANGED ready
               ELSE ready' = <<handler>> /\ UNCHANGED waiting
  /\ pc' = [pc EXCEPT ![w] = IF locked THEN whenQueued ELSE "invoke"]

\* (fault) net::post in place of net::dispatch.
DispatchRequestPosts(w) ==
  /\ pc[w] = "dispatch" /\ target[frame[w]] = "api"
  /\ locked' = TRUE
  /\ IF locked THEN waiting' = Append(waiting, frame[w]) /\ UNCHANGED <<ready, queue>>
               ELSE ready' = <<frame[w]>> /\ queue' = Append(queue, Invoker) /\ UNCHANGED waiting
  /\ pc' = [pc EXCEPT ![w] = "log"]
  /\ UNCHANGED <<frame, running, respInfo, startTime, net, timer, process>>

\* net::dispatch(api_strand_, handle); once queued, operator() returns to the logger.
DispatchRequest(w) ==
  /\ pc[w] = "dispatch" /\ target[frame[w]] = "api"
  /\ Dispatch(w, frame[w], "log")
  /\ UNCHANGED <<queue, frame, running, respInfo, startTime, net, timer, process>>

\* (fault) A timer whose executor is the io_context.
DispatchTickOutside(w) ==
  /\ Take(w, Tick)
  /\ pc' = [pc EXCEPT ![w] = "handle"]
  /\ running' = [running EXCEPT ![w] = Tick]
  /\ UNCHANGED <<strand, frame, respInfo, startTime, net, timer, process>>

\* (fault) A queued tick goes on to the logger as a request does.
DispatchTickLogs(w) ==
  /\ Take(w, Tick)
  /\ Dispatch(w, Tick, "log")
  /\ UNCHANGED <<frame, running, respInfo, startTime, net, timer, process>>

\* (fault) The timer is armed anew when it expires, not when the tick has run.
DispatchTickRearms(w) ==
  /\ Take(w, Tick)
  /\ Dispatch(w, Tick, "idle")
  /\ timer' = "armed"
  /\ UNCHANGED <<frame, running, respInfo, startTime, net, process>>

\* The completion handler of timer_, whose executor is the strand.
DispatchTick(w) ==
  /\ Take(w, Tick)
  /\ Dispatch(w, Tick, "idle")
  /\ UNCHANGED <<frame, running, respInfo, startTime, net, timer, process>>

\* The posted invoker.
ResumeStrand(w) ==
  /\ Take(w, Invoker)
  /\ pc' = [pc EXCEPT ![w] = "invoke"]
  /\ UNCHANGED <<strand, frame, running, respInfo, startTime, net, timer, process>>

\* The invoker runs the next handler.
BeginHandler(w) ==
  /\ pc[w] = "invoke" /\ ready # <<>>
  /\ running' = [running EXCEPT ![w] = Head(ready)]
  /\ ready' = Tail(ready)
  /\ pc' = [pc EXCEPT ![w] = "handle"]
  /\ UNCHANGED <<queue, locked, waiting, frame, respInfo, startTime, net, timer, process>>

EndHandler(w) ==
  /\ pc' = [pc EXCEPT ![w] = "invoke"]
  /\ running' = [running EXCEPT ![w] = NoConn]

\* (fault) log_handler holds a copy of resp_info.
HandleApiRequestCopies(w) ==
  /\ pc[w] = "handle" /\ running[w] \in Conns /\ FrameAlive(running[w])
  /\ EndHandler(w)
  /\ \E status \in Statuses : Transmit(running[w], status)
  /\ UNCHANGED <<queue, strand, frame, respInfo, startTime, target, timer, process>>

\* (fault) A handler may end by an exception, without an answer.
HandleApiRequestSilent(w) ==
  /\ pc[w] = "handle" /\ running[w] \in Conns /\ FrameAlive(running[w])
  /\ EndHandler(w)
  /\ \/ UNCHANGED <<conn, sent, respInfo>>
     \/ \E status \in Statuses, v \in Workers :
          /\ frame[v] = running[w]
          /\ Transmit(running[w], status)
          /\ respInfo' = [respInfo EXCEPT ![v] = status]
  /\ UNCHANGED <<queue, strand, frame, startTime, target, timer, process>>

\* HandleApiRequest and the transmitter, with the request's frame still there.
HandleApiRequest(w) ==
  /\ pc[w] = "handle" /\ running[w] \in Conns /\ FrameAlive(running[w])
  /\ EndHandler(w)
  /\ \E status \in Statuses, v \in Workers :
       /\ frame[v] = running[w]
       /\ Transmit(running[w], status)
       /\ respInfo' = [respInfo EXCEPT ![v] = status]
  /\ UNCHANGED <<queue, strand, frame, startTime, target, timer, process>>

\* The same through dangling references.
HandleDeadRequest(w) ==
  /\ pc[w] = "handle" /\ running[w] \in Conns /\ ~FrameAlive(running[w])
  /\ \/ /\ EndHandler(w)
        /\ \E status \in Statuses :
             /\ Transmit(running[w], status)
             /\ \/ respInfo' = respInfo
                \/ \E v \in Workers : respInfo' = [respInfo EXCEPT ![v] = status]
        /\ UNCHANGED process
     \/ /\ process' = "crashed"
        /\ UNCHANGED <<pc, running, conn, sent, respInfo>>
  /\ UNCHANGED <<queue, strand, frame, startTime, target, timer>>

\* (fault) An exception of the handler skips ScheduleTick too.
OnTickThrown(w) ==
  /\ pc[w] = "handle" /\ running[w] = Tick
  /\ EndHandler(w)
  /\ timer' \in {"armed", "off"}
  /\ UNCHANGED <<queue, strand, frame, respInfo, startTime, net, process>>

\* Ticker::OnTick; nobody else holds api_request_lock_.  ScheduleTick arms the timer.
OnTick(w) ==
  /\ pc[w] = "handle" /\ running[w] = Tick
  /\ EndHandler(w)
  /\ timer' = "armed"
  /\ UNCHANGED <<queue, strand, frame, respInfo, startTime, net, process>>

\* The invoker has run all that was ready: it posts itself for what waits, and
\* returns to the frame it was called from, if any.
LeaveStrand(w) ==
  /\ pc[w] = "invoke" /\ ready = <<>>
  /\ ready' = waiting
  /\ waiting' = <<>>
  /\ locked' = (waiting # <<>>)
  /\ queue' = IF waiting # <<>> THEN Append(queue, Invoker) ELSE queue
  /\ pc' = [pc EXCEPT ![w] = IF frame[w] = NoConn THEN "idle" ELSE "log"]
  /\ UNCHANGED <<frame, running, respInfo, startTime, net, timer, process>>

\* LogResponse of resp_info and of the time since start_time; the frame is gone.
LogResponse(w) ==
  /\ pc[w] = "log"
  /\ pc' = [pc EXCEPT ![w] = "idle"]
  /\ frame' = [frame EXCEPT ![w] = NoConn]
  /\ UNCHANGED <<queue, strand, running, respInfo, startTime, net, timer, process>>

\* The handler of signals.
OnSignal(w) ==
  /\ Take(w, Signal)
  /\ process' = "stopped"
  /\ UNCHANGED <<strand, stack, net, timer>>

Step(w) ==
  /\ process # "crashed"
  /\ \/ \E c \in Conns : OnRead(w, c)
     \/ HandleFileRequest(w) \/ DispatchRequest(w) \/ DispatchTick(w)
     \/ ResumeStrand(w) \/ BeginHandler(w) \/ LeaveStrand(w)
     \/ HandleApiRequest(w) \/ HandleDeadRequest(w) \/ OnTick(w)
     \/ LogResponse(w) \/ OnSignal(w)

Outside ==
  \/ \E c \in Conns : Arrive(c) \/ Written(c)
  \/ Expire
  \/ Interrupt

Next == Outside \/ \E w \in Workers : Step(w)

\* A thread with something to run runs it, writes complete and the clock goes on.
Fairness ==
  /\ \A w \in Workers : WF_vars(Step(w))
  /\ \A c \in Conns : WF_vars(Written(c))
  /\ WF_vars(Expire)

Spec == Init /\ [][Next]_vars /\ Fairness

-----------------------------------------------------------------------------
(* Properties.                                                             *)

InStrand(w) == pc[w] \in {"invoke", "handle"}

\* The assertion in the handler: handlers of requests and ticks never overlap, so
\* the game, which has no locks of its own, is one thread's at a time.
OneAtATime == \A v, w \in Workers : InStrand(v) /\ InStrand(w) => v = w

\* A handler finds the frame its references point into.
RequestOutlivesHandler ==
  \A w \in Workers :
    pc[w] = "handle" /\ running[w] \in Conns => FrameAlive(running[w])

\* The log line of a request has the status that was sent, and its time counts from
\* its own start.
LogMatchesResponse ==
  \A w \in Workers :
    pc[w] = "log" =>
      /\ conn[frame[w]] = "answered"
      /\ respInfo[w] = sent[frame[w]]
      /\ startTime = frame[w]

\* A line is written for a request that was answered, with the status of the answer.
LogDrawsFromResponse ==
  [][\A w \in Workers : LogResponse(w) =>
        conn[frame[w]] = "answered" /\ respInfo[w] = sent[frame[w]]]_vars

\* Where a request or a tick is between its arrival and the end of its handler: ready in
\* the io_context, read by a thread, dispatched to the strand, or running.
Places(h) ==
  LET handlers == ready \o waiting
  IN  ({"queue"} \X {i \in DOMAIN queue : queue[i] = h})
      \cup ({"read"} \X {w \in Workers : pc[w] = "dispatch" /\ frame[w] = h})
      \cup ({"strand"} \X {i \in DOMAIN handlers : handlers[i] = h})
      \cup ({"runs"} \X {w \in Workers : running[w] = h})

Due(h) == IF h = Tick THEN timer = "expired" ELSE conn[h] \in {"arrived", "served"}

\* A request that was read and not answered, and a tick that is due, is in exactly one
\* place: however the threads interleave it is neither dropped on the way nor handled
\* twice, and what is not due is nowhere.
WorkInOnePlace ==
  \A h \in Conns \cup {Tick} :
    IF Due(h) THEN \E p \in Places(h) : Places(h) = {p} ELSE Places(h) = {}

\* Every request is answered, unless the process ends.
EveryRequestAnswered ==
  \A c \in Conns : conn[c] = "arrived" ~> (conn[c] = "answered" \/ process # "running")

\* The timer goes on ticking, however many requests come, unless the process ends.
TicksGoOn ==
  TimerOn => \/ <>(process # "running")
             \/ []<>(timer = "armed") /\ []<>(timer = "expired")

\* The strand is the queue of handlers that HandlerQueue describes: what is ready goes
\* before what waits, and the handler that runs is the one some worker runs.
Active ==
  IF \E w \in Workers : running[w] # NoConn
  THEN running[CHOOSE w \in Workers : running[w] # NoConn]
  ELSE NoConn

Strand == INSTANCE HandlerQueue WITH
  Handlers <- Conns \cup {Tick},
  Nobody   <- NoConn,
  pending  <- ready \o waiting,
  active   <- Active,
  ended    <- process # "running"

\* Requests and ticks are run one at a time and in the order in which they were
\* dispatched, none is lost and none run twice, and each has its turn, although the
\* threads come and go and the invoker is posted anew for what came meanwhile.
ServesInOrder == Strand!Spec
=============================================================================
