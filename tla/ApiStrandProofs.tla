--------------------------- MODULE ApiStrandProofs ---------------------------
(***************************************************************************)
(* The strand for any number of worker threads and connections: handlers   *)
(* exclude each other and none is forgotten; and with one thread, what     *)
(* they refer to is there.                                                 *)
(***************************************************************************)
EXTENDS ApiStrand, SequenceTheorems, TLAPS

\* A piece of work is in a queue, and is there once at most.
In(q, h) == \E i \in DOMAIN q : q[i] = h

Once(q, h) == \A i, j \in DOMAIN q : q[i] = h /\ q[j] = h => i = j

Posted(q) == In(q, Invoker)

PostedOnce(q) == Once(q, Invoker)

\* An item added at the end of a queue.
LEMMA AppendIn ==
  ASSUME NEW S, NEW q \in Seq(S), NEW item \in S, NEW h
  PROVE  /\ Append(q, item) \in Seq(S)
         /\ In(Append(q, item), h) <=> In(q, h) \/ item = h
         /\ Once(q, h) /\ (item = h => ~In(q, h)) => Once(Append(q, item), h)
<1> DEFINE more == Append(q, item)
<1>1. /\ more \in Seq(S) /\ Len(q) \in Nat
      /\ DOMAIN q = 1 .. Len(q) /\ DOMAIN more = 1 .. Len(q) + 1
      /\ \A i \in 1 .. Len(q) : more[i] = q[i]
      /\ more[Len(q) + 1] = item
  BY AppendProperties, LenProperties
<1> HIDE DEF more
<1>2. In(more, h) <=> In(q, h) \/ item = h
  BY <1>1 DEF In
<1>3. Once(q, h) /\ (item = h => ~In(q, h)) => Once(more, h)
  BY <1>1 DEF In, Once
<1> QED
  BY <1>1, <1>2, <1>3 DEF more

\* An item taken from the front of a queue.
LEMMA TailIn ==
  ASSUME NEW S, NEW q \in Seq(S), q # <<>>, NEW h
  PROVE  /\ Tail(q) \in Seq(S) /\ Head(q) \in S
         /\ In(q, h) <=> In(Tail(q), h) \/ Head(q) = h
         /\ Once(q, h) => Once(Tail(q), h) /\ (Head(q) = h => ~In(Tail(q), h))
<1> DEFINE rest == Tail(q)
<1>1. /\ rest \in Seq(S) /\ Head(q) \in S /\ Head(q) = q[1]
      /\ Len(q) \in Nat \ {0}
      /\ DOMAIN q = 1 .. Len(q) /\ DOMAIN rest = 1 .. Len(q) - 1
      /\ \A i \in 1 .. Len(q) - 1 : rest[i] = q[i + 1]
  BY HeadTailProperties, LenProperties, EmptySeq
<1> HIDE DEF rest
<1>2. /\ 1 \in DOMAIN q /\ q[1] = Head(q)
      /\ \A i \in DOMAIN q : i = 1 \/ \E j \in DOMAIN rest : rest[j] = q[i]
      /\ \A j \in DOMAIN rest : \E i \in DOMAIN q : i # 1 /\ rest[j] = q[i]
  <2>1. 1 \in DOMAIN q /\ q[1] = Head(q)
    BY <1>1
  <2>2. ASSUME NEW i \in DOMAIN q, i # 1
        PROVE  \E j \in DOMAIN rest : rest[j] = q[i]
    <3>1. i - 1 \in DOMAIN rest /\ rest[i - 1] = q[i]
      BY <1>1, <2>2
    <3> QED BY <3>1
  <2>3. ASSUME NEW j \in DOMAIN rest
        PROVE  \E i \in DOMAIN q : i # 1 /\ rest[j] = q[i]
    <3>1. j + 1 \in DOMAIN q /\ j + 1 # 1 /\ rest[j] = q[j + 1]
      BY <1>1, <2>3
    <3> QED BY <3>1
  <2> QED
    BY <2>1, <2>2, <2>3
<1>3. ASSUME Once(q, h)
      PROVE  Once(rest, h)
  <2>1. SUFFICES ASSUME NEW i \in DOMAIN rest, NEW j \in DOMAIN rest,
                        rest[i] = h, rest[j] = h
                 PROVE  i = j
    BY DEF Once
  <2>2. /\ i + 1 \in DOMAIN q /\ q[i + 1] = h
        /\ j + 1 \in DOMAIN q /\ q[j + 1] = h
    BY <1>1, <2>1
  <2>3. i + 1 = j + 1
    BY <1>3, <2>2 DEF Once
  <2>4. i \in Int /\ j \in Int
    BY <1>1, <2>1
  <2> QED
    BY <2>3, <2>4
<1>4. Once(q, h) /\ Head(q) = h => ~In(rest, h)
  BY <1>2 DEF Once, In
<1>5. In(q, h) <=> In(rest, h) \/ Head(q) = h
  BY <1>2 DEF In
<1> QED
  BY <1>1, <1>3, <1>4, <1>5 DEF rest

\* Work added at the end of the io_context's queue.
LEMMA AppendPosted ==
  ASSUME NEW q \in Seq(Work), NEW item \in Work
  PROVE  /\ Append(q, item) \in Seq(Work)
         /\ Posted(Append(q, item)) <=> Posted(q) \/ item = Invoker
         /\ PostedOnce(q) /\ (item = Invoker => ~Posted(q)) => PostedOnce(Append(q, item))
BY AppendIn DEF Posted, PostedOnce

\* Work taken from the front of it.
LEMMA TailPosted ==
  ASSUME NEW q \in Seq(Work), q # <<>>
  PROVE  /\ Tail(q) \in Seq(Work) /\ Head(q) \in Work
         /\ PostedOnce(q) => PostedOnce(Tail(q))
         /\ PostedOnce(q) /\ Head(q) = Invoker => ~Posted(Tail(q))
         /\ Head(q) # Invoker => (Posted(Tail(q)) <=> Posted(q))
         /\ Head(q) = Invoker => Posted(q)
BY TailIn DEF Posted, PostedOnce

-----------------------------------------------------------------------------
(* Type correctness.                                                       *)

\* What a worker takes is a piece of work, and leaves a queue of work.
LEMMA TakeTypes ==
  ASSUME TypeOK, NEW w \in Workers, NEW item, Take(w, item)
  PROVE  /\ queue' \in Seq(Work) /\ pc[w] = "idle" /\ frame[w] = NoConn /\ running[w] = NoConn
         /\ PostedOnce(queue) => PostedOnce(queue')
         /\ item # Invoker => (Posted(queue') <=> Posted(queue))
         /\ item = Invoker => Posted(queue) /\ (PostedOnce(queue) => ~Posted(queue'))
<1>1. queue \in Seq(Work) /\ queue # <<>> /\ Head(queue) = item /\ queue' = Tail(queue)
  BY DEF Take, TypeOK
<1>2. pc[w] = "idle" /\ frame[w] = NoConn /\ running[w] = NoConn
  BY DEF Take, TypeOK
<1> QED
  BY <1>1, <1>2, TailPosted

\* Handlers that queue up for the strand.
LEMMA HandlerQueues ==
  ASSUME NEW q \in Seq(Conns \cup {Tick}), NEW h \in Conns \cup {Tick}
  PROVE  /\ Append(q, h) \in Seq(Conns \cup {Tick}) /\ Append(q, h) # <<>>
         /\ <<h>> \in Seq(Conns \cup {Tick}) /\ <<h>> # <<>>
         /\ <<>> \in Seq(Conns \cup {Tick})
         /\ q # <<>> => Tail(q) \in Seq(Conns \cup {Tick}) /\ Head(q) \in Conns \cup {Tick}
  BY AppendProperties, HeadTailProperties, EmptySeq

\* What comes from outside keeps the types.
LEMMA TypeOutside ==
  ASSUME TypeOK, Outside
  PROVE  TypeOK'
<1>1. ASSUME NEW c \in Conns, Arrive(c)
      PROVE  TypeOK'
  <2>1. queue' \in Seq(Work)
    BY <1>1, AppendPosted DEF Arrive, TypeOK, Work
  <2> QED
    BY <1>1, <2>1 DEF Arrive, TypeOK, strand, stack
<1>2. ASSUME NEW c \in Conns, Written(c)
      PROVE  TypeOK'
  BY <1>2 DEF Written, TypeOK, strand, stack
<1>3. CASE Expire
  <2>1. queue' \in Seq(Work)
    BY <1>3, AppendPosted DEF Expire, TypeOK, Work
  <2> QED
    BY <1>3, <2>1 DEF Expire, TypeOK, strand, stack, net
<1>4. CASE Interrupt
  <2>1. queue' \in Seq(Work)
    BY <1>4, AppendPosted DEF Interrupt, TypeOK, Work
  <2> QED
    BY <1>4, <2>1 DEF Interrupt, TypeOK, strand, stack, net
<1> QED
  BY <1>1, <1>2, <1>3, <1>4 DEF Outside

\* A dispatch to the strand keeps the types.
LEMMA TypeDispatch ==
  ASSUME TypeOK, NEW w \in Workers, NEW handler \in Conns \cup {Tick},
         NEW whenQueued \in {"log", "idle"}, Dispatch(w, handler, whenQueued)
  PROVE  /\ locked' \in BOOLEAN
         /\ ready' \in Seq(Conns \cup {Tick}) /\ waiting' \in Seq(Conns \cup {Tick})
         /\ pc' = [pc EXCEPT ![w] = IF locked THEN whenQueued ELSE "invoke"]
  BY HandlerQueues DEF Dispatch, TypeOK

\* What a worker does keeps the types.
LEMMA TypeWorker ==
  ASSUME TypeOK, NEW w \in Workers, Step(w)
  PROVE  TypeOK'
<1>1. ASSUME NEW c \in Conns, OnRead(w, c)
      PROVE  TypeOK'
  <2>1. queue' \in Seq(Work) /\ running[w] = NoConn /\ c # NoConn
    BY <1>1, TakeTypes, WorkAssumption DEF OnRead
  <2> QED
    BY <1>1, <2>1 DEF OnRead, TypeOK, strand
<1>2. CASE HandleFileRequest(w)
  <2>1. frame[w] \in Conns /\ running[w] = NoConn
    BY <1>2 DEF HandleFileRequest, TypeOK
  <2> QED
    BY <1>2, <2>1 DEF HandleFileRequest, Transmit, TypeOK, strand
<1>3. CASE DispatchRequest(w)
  <2>1. frame[w] \in Conns /\ frame[w] # NoConn /\ running[w] = NoConn
    BY <1>3 DEF DispatchRequest, TypeOK
  <2>2. /\ locked' \in BOOLEAN
        /\ ready' \in Seq(Conns \cup {Tick}) /\ waiting' \in Seq(Conns \cup {Tick})
        /\ pc' = [pc EXCEPT ![w] = IF locked THEN "log" ELSE "invoke"]
    BY <1>3, <2>1, TypeDispatch DEF DispatchRequest
  <2> QED
    BY <1>3, <2>1, <2>2 DEF DispatchRequest, TypeOK, net
<1>4. CASE DispatchTick(w)
  <2>1. queue' \in Seq(Work) /\ frame[w] = NoConn /\ running[w] = NoConn
    BY <1>4, TakeTypes DEF DispatchTick
  <2>2. /\ locked' \in BOOLEAN
        /\ ready' \in Seq(Conns \cup {Tick}) /\ waiting' \in Seq(Conns \cup {Tick})
        /\ pc' = [pc EXCEPT ![w] = IF locked THEN "idle" ELSE "invoke"]
    BY <1>4, TypeDispatch DEF DispatchTick
  <2> QED
    BY <1>4, <2>1, <2>2 DEF DispatchTick, TypeOK, net
<1>5. CASE ResumeStrand(w)
  <2>1. queue' \in Seq(Work) /\ frame[w] = NoConn /\ running[w] = NoConn
    BY <1>5, TakeTypes DEF ResumeStrand
  <2> QED
    BY <1>5, <2>1 DEF ResumeStrand, TypeOK, strand, net
<1>6. CASE BeginHandler(w)
  <2>1. ready' \in Seq(Conns \cup {Tick}) /\ Head(ready) \in Conns \cup {Tick}
    BY <1>6, HandlerQueues DEF BeginHandler, TypeOK
  <2>2. Head(ready) # NoConn
    BY <2>1, WorkAssumption
  <2> QED
    BY <1>6, <2>1, <2>2 DEF BeginHandler, TypeOK, net
<1>7. CASE LeaveStrand(w)
  <2>1. queue' \in Seq(Work)
    BY <1>7, AppendPosted DEF LeaveStrand, TypeOK, Work
  <2>2. locked' \in BOOLEAN /\ ready' \in Seq(Conns \cup {Tick}) /\ waiting' \in Seq(Conns \cup {Tick})
    BY <1>7, EmptySeq DEF LeaveStrand, TypeOK
  <2> QED
    BY <1>7, <2>1, <2>2 DEF LeaveStrand, TypeOK, net
<1>8. CASE HandleApiRequest(w)
  BY <1>8 DEF HandleApiRequest, EndHandler, Transmit, TypeOK, strand
<1>9. CASE HandleDeadRequest(w)
  <2>1. running[w] \in Conns /\ pc[w] = "handle" /\ UNCHANGED <<queue, strand, frame, startTime, target, timer>>
    BY <1>9 DEF HandleDeadRequest
  <2>2. CASE process' = "crashed" /\ UNCHANGED <<pc, running, conn, sent, respInfo>>
    BY <2>1, <2>2 DEF TypeOK, strand
  <2>3. ASSUME NEW status \in Statuses, EndHandler(w), Transmit(running[w], status),
               UNCHANGED process,
               respInfo' = respInfo \/ \E v \in Workers : respInfo' = [respInfo EXCEPT ![v] = status]
        PROVE  TypeOK'
    <3>1. respInfo' \in [Workers -> Statuses \cup {NoStatus}]
      BY <2>3 DEF TypeOK
    <3> QED
      BY <2>1, <2>3, <3>1 DEF EndHandler, Transmit, TypeOK, strand
  <2> QED
    BY <1>9, <2>2, <2>3 DEF HandleDeadRequest
<1>10. CASE OnTick(w)
  BY <1>10 DEF OnTick, EndHandler, TypeOK, strand, net
<1>11. CASE LogResponse(w)
  BY <1>11 DEF LogResponse, TypeOK, strand, net
<1>12. CASE OnSignal(w)
  <2>1. queue' \in Seq(Work)
    BY <1>12, TakeTypes DEF OnSignal
  <2> QED
    BY <1>12, <2>1 DEF OnSignal, TypeOK, strand, stack, net
<1> QED
  BY <1>1, <1>2, <1>3, <1>4, <1>5, <1>6, <1>7, <1>8, <1>9, <1>10, <1>11, <1>12 DEF Step

LEMMA TypeStep ==
  ASSUME TypeOK, [Next]_vars
  PROVE  TypeOK'
<1>1. CASE UNCHANGED vars
  BY <1>1 DEF vars, strand, stack, net, TypeOK
<1> QED
  BY <1>1, TypeOutside, TypeWorker DEF Next

-----------------------------------------------------------------------------
(* The strand.                                                             *)

\* The strand is locked while it has handlers, and exactly while a thread is in it or its
\* invoker is on its way to one.
StrandAwake ==
  /\ ready # <<>> \/ waiting # <<>> => locked
  /\ locked <=> (\E w \in Workers : InStrand(w)) \/ (\E i \in DOMAIN queue : queue[i] = Invoker)

\* The strand's promise holds as long as at most one invoker is there, running or
\* posted, and exactly while the strand is locked.
IInv ==
  /\ TypeOK
  /\ PostedOnce(queue)
  /\ OneAtATime
  /\ Posted(queue) => \A w \in Workers : ~InStrand(w)
  /\ StrandAwake

\* A step that leaves the strand and who is in it alone keeps its promise.
LEMMA QuietStep ==
  ASSUME IInv, TypeOK', UNCHANGED <<locked, ready, waiting>>,
         \A v \in Workers : InStrand(v)' <=> InStrand(v),
         PostedOnce(queue'), Posted(queue') <=> Posted(queue)
  PROVE  IInv'
<1>1. OneAtATime' /\ (Posted(queue') => \A w \in Workers : ~InStrand(w)')
  BY DEF IInv, OneAtATime
<1>2. StrandAwake'
  BY DEF IInv, StrandAwake, Posted, In
<1> QED
  BY <1>1, <1>2 DEF IInv

\* A dispatch enters a strand that is free, and queues for one that is not.
LEMMA DispatchStep ==
  ASSUME IInv, TypeOK', NEW w \in Workers, NEW handler \in Conns \cup {Tick},
         NEW whenQueued \in {"log", "idle"}, Dispatch(w, handler, whenQueued), ~InStrand(w),
         PostedOnce(queue'), Posted(queue') <=> Posted(queue)
  PROVE  IInv'
<1>1. pc \in [Workers -> {"idle", "dispatch", "invoke", "handle", "log"}] /\ locked \in BOOLEAN
  BY DEF IInv, TypeOK
<1>2. CASE locked
  <2>1. \A v \in Workers : InStrand(v)' <=> InStrand(v)
    BY <1>1, <1>2 DEF Dispatch, InStrand
  <2>2. OneAtATime' /\ (Posted(queue') => \A v \in Workers : ~InStrand(v)')
    BY <2>1 DEF IInv, OneAtATime
  <2>3. locked' = TRUE /\ locked = TRUE
    BY <1>1, <1>2 DEF Dispatch
  <2>4. StrandAwake'
    BY <2>1, <2>3 DEF IInv, StrandAwake, Posted, In
  <2> QED
    BY <2>2, <2>4 DEF IInv
<1>3. CASE ~locked
  <2>1. (\A v \in Workers : ~InStrand(v)) /\ ~Posted(queue)
    BY <1>3 DEF IInv, StrandAwake, Posted, In
  <2>2. InStrand(w)' /\ \A v \in Workers : InStrand(v)' => v = w
    BY <1>1, <1>3, <2>1 DEF Dispatch, InStrand
  <2>3. locked' = TRUE
    BY DEF Dispatch
  <2>4. OneAtATime' /\ ~Posted(queue')
    BY <2>1, <2>2 DEF OneAtATime
  <2>5. StrandAwake'
    BY <2>2, <2>3 DEF StrandAwake
  <2> QED
    BY <2>4, <2>5 DEF IInv
<1> QED
  BY <1>2, <1>3

\* What comes from outside adds work that is not the invoker.
LEMMA OutsideStep ==
  ASSUME IInv, TypeOK', Outside
  PROVE  IInv'
<1>1. UNCHANGED <<locked, ready, waiting, pc>>
  BY DEF Outside, Arrive, Written, Expire, Interrupt, strand, stack
<1>2. \/ queue' = queue
      \/ \E item \in Work : item # Invoker /\ queue' = Append(queue, item)
  BY WorkAssumption DEF Outside, Arrive, Written, Expire, Interrupt, Work
<1>3. PostedOnce(queue') /\ (Posted(queue') <=> Posted(queue))
  <2>1. queue \in Seq(Work) /\ PostedOnce(queue)
    BY DEF IInv, TypeOK
  <2>2. ASSUME NEW item \in Work, item # Invoker
        PROVE  /\ PostedOnce(Append(queue, item))
               /\ Posted(Append(queue, item)) <=> Posted(queue)
    BY <2>1, <2>2, AppendPosted
  <2> QED
    BY <1>2, <2>1, <2>2
<1>4. \A v \in Workers : InStrand(v)' <=> InStrand(v)
  BY <1>1 DEF InStrand
<1> QED
  BY <1>1, <1>3, <1>4, QuietStep

\* What a worker does keeps the strand's promise.
LEMMA WorkerStep ==
  ASSUME IInv, TypeOK', NEW w \in Workers, Step(w)
  PROVE  IInv'
<1>0. pc \in [Workers -> {"idle", "dispatch", "invoke", "handle", "log"}] /\ TypeOK /\ PostedOnce(queue)
  BY DEF IInv, TypeOK
<1>1. ASSUME NEW c \in Conns, OnRead(w, c)
      PROVE  IInv'
  <2>1. c # Invoker /\ pc[w] = "idle" /\ PostedOnce(queue') /\ (Posted(queue') <=> Posted(queue))
    BY <1>0, <1>1, TakeTypes, WorkAssumption DEF OnRead
  <2>2. pc' = [pc EXCEPT ![w] = "dispatch"] /\ UNCHANGED <<locked, ready, waiting>>
    BY <1>1 DEF OnRead, strand
  <2>3. \A v \in Workers : InStrand(v)' <=> InStrand(v)
    BY <1>0, <2>1, <2>2 DEF InStrand
  <2> QED
    BY <2>1, <2>2, <2>3, QuietStep
<1>2. CASE HandleFileRequest(w)
  <2>1. pc[w] = "dispatch" /\ pc' = [pc EXCEPT ![w] = "log"] /\ UNCHANGED <<queue, locked, ready, waiting>>
    BY <1>2 DEF HandleFileRequest, strand
  <2>2. \A v \in Workers : InStrand(v)' <=> InStrand(v)
    BY <1>0, <2>1 DEF InStrand
  <2> QED
    BY <1>0, <2>1, <2>2, QuietStep
<1>3. CASE DispatchRequest(w)
  <2>1. frame[w] \in Conns /\ ~InStrand(w) /\ queue' = queue
    BY <1>0, <1>3 DEF DispatchRequest, TypeOK, InStrand
  <2> QED
    BY <1>0, <1>3, <2>1, DispatchStep DEF DispatchRequest
<1>4. CASE DispatchTick(w)
  <2>1. pc[w] = "idle" /\ PostedOnce(queue') /\ (Posted(queue') <=> Posted(queue))
    BY <1>0, <1>4, TakeTypes, WorkAssumption DEF DispatchTick
  <2>2. ~InStrand(w)
    BY <2>1 DEF InStrand
  <2> QED
    BY <1>4, <2>1, <2>2, DispatchStep DEF DispatchTick
<1>5. CASE ResumeStrand(w)
  <2>1. PostedOnce(queue') /\ Posted(queue) /\ ~Posted(queue')
    BY <1>0, <1>5, TakeTypes DEF ResumeStrand
  <2>2. \A v \in Workers : ~InStrand(v)
    BY <2>1 DEF IInv
  <2>3. InStrand(w)' /\ \A v \in Workers : InStrand(v)' => v = w
    BY <1>0, <1>5, <2>2 DEF ResumeStrand, InStrand
  <2>4. UNCHANGED <<locked, ready, waiting>>
    BY <1>5 DEF ResumeStrand, strand
  <2>5. StrandAwake'
    BY <2>1, <2>3, <2>4 DEF IInv, StrandAwake, Posted, In
  <2> QED
    BY <2>1, <2>3, <2>5 DEF IInv, OneAtATime
<1>6. CASE BeginHandler(w)
  <2>1. \A v \in Workers : InStrand(v)' <=> InStrand(v)
    BY <1>0, <1>6 DEF BeginHandler, InStrand
  <2>2. InStrand(w) /\ UNCHANGED <<queue, locked>>
    BY <1>6 DEF BeginHandler, InStrand
  <2>3. StrandAwake'
    BY <2>1, <2>2 DEF IInv, StrandAwake
  <2> QED
    BY <2>1, <2>2, <2>3 DEF IInv, OneAtATime
<1>7. CASE LeaveStrand(w)
  <2>1. InStrand(w) /\ ~Posted(queue) /\ \A v \in Workers : InStrand(v) => v = w
    BY <1>7 DEF LeaveStrand, InStrand, IInv, OneAtATime
  <2>2. \A v \in Workers : ~InStrand(v)'
    BY <1>0, <1>7, <2>1 DEF LeaveStrand, InStrand
  <2>3. CASE waiting = <<>>
    <3>1. queue' = queue /\ locked' = FALSE /\ ready' = <<>> /\ waiting' = <<>>
      BY <1>7, <2>3 DEF LeaveStrand
    <3>2. StrandAwake'
      BY <2>1, <2>2, <3>1 DEF StrandAwake, Posted, In
    <3> QED
      BY <1>0, <2>2, <3>1, <3>2 DEF IInv, OneAtATime
  <2>4. CASE waiting # <<>>
    <3>1. queue' = Append(queue, Invoker) /\ locked' = TRUE
      BY <1>7, <2>4 DEF LeaveStrand
    <3>2. PostedOnce(queue') /\ Posted(queue')
      BY <1>0, <2>1, <3>1, AppendPosted DEF TypeOK, Work
    <3>3. StrandAwake'
      BY <3>1, <3>2 DEF StrandAwake, Posted, In
    <3> QED
      BY <2>2, <3>2, <3>3 DEF IInv, OneAtATime
  <2> QED
    BY <2>3, <2>4
<1>8. CASE HandleApiRequest(w) \/ HandleDeadRequest(w) \/ OnTick(w)
  <2>1. UNCHANGED <<queue, locked, ready, waiting>>
    BY <1>8 DEF HandleApiRequest, HandleDeadRequest, OnTick, strand
  <2>2. pc[w] = "handle" /\ (pc' = pc \/ pc' = [pc EXCEPT ![w] = "invoke"])
    BY <1>8 DEF HandleApiRequest, HandleDeadRequest, OnTick, EndHandler
  <2>3. \A v \in Workers : InStrand(v)' <=> InStrand(v)
    BY <1>0, <2>2 DEF InStrand
  <2> QED
    BY <1>0, <2>1, <2>3, QuietStep
<1>9. CASE LogResponse(w)
  <2>1. \A v \in Workers : InStrand(v)' <=> InStrand(v)
    BY <1>0, <1>9 DEF LogResponse, InStrand
  <2> QED
    BY <1>0, <1>9, <2>1, QuietStep DEF LogResponse, strand
<1>10. CASE OnSignal(w)
  <2>1. PostedOnce(queue') /\ (Posted(queue') <=> Posted(queue))
    BY <1>0, <1>10, TakeTypes, WorkAssumption DEF OnSignal
  <2>2. \A v \in Workers : InStrand(v)' <=> InStrand(v)
    BY <1>10 DEF OnSignal, stack, InStrand
  <2> QED
    BY <1>10, <2>1, <2>2, QuietStep DEF OnSignal, strand
<1> QED
  BY <1>1, <1>2, <1>3, <1>4, <1>5, <1>6, <1>7, <1>8, <1>9, <1>10 DEF Step

LEMMA InitInvariant ==
  ASSUME Init
  PROVE  IInv
<1>1. TypeOK
  <2>1. /\ queue \in Seq(Work)
        /\ ready \in Seq(Conns \cup {Tick}) /\ waiting \in Seq(Conns \cup {Tick})
    BY EmptySeq DEF Init
  <2>2. timer \in {"off", "armed", "expired"}
    BY DEF Init
  <2> QED
    BY <2>1, <2>2 DEF Init, TypeOK
<1>2. DOMAIN queue = {}
  BY DEF Init
<1> QED
  BY <1>1, <1>2 DEF Init, IInv, PostedOnce, Once, Posted, In, OneAtATime, InStrand, StrandAwake

LEMMA Invariant == Spec => []IInv
<1>1. Init => IInv
  BY InitInvariant
<1>2. ASSUME IInv, [Next]_vars
      PROVE  IInv'
  <2>0. TypeOK'
    BY <1>2, TypeStep DEF IInv
  <2>1. CASE UNCHANGED vars
    BY <1>2, <2>0, <2>1, QuietStep DEF vars, strand, stack, IInv, InStrand
  <2> QED
    BY <1>2, <2>0, <2>1, OutsideStep, WorkerStep DEF Next
<1> QED
  BY <1>1, <1>2, PTL DEF Spec

\* Type correctness of the threads, the strand and the connections.
THEOREM TypeCorrect == Spec => []TypeOK
<1>1. IInv => TypeOK
  BY DEF IInv
<1> QED
  BY <1>1, Invariant, PTL

\* Handlers of requests and ticks exclude each other, with any number of threads: the
\* assertion in RequestHandler::operator() holds and api_request_lock_ is not needed.
THEOREM HandlersExclude == Spec => []OneAtATime
<1>1. IInv => OneAtATime
  BY DEF IInv
<1> QED
  BY <1>1, Invariant, PTL

-----------------------------------------------------------------------------
(* ApiStrand implements HandlerQueue.                                      *)

\* Taking from, and adding to, two queues of which the first is served first.
LEMMA TwoQueues ==
  ASSUME NEW S, NEW q \in Seq(S), NEW r \in Seq(S)
  PROVE  /\ \A h \in S : q \o Append(r, h) = Append(q \o r, h)
         /\ <<>> \o r = r /\ q \o <<>> = q
         /\ q # <<>> => /\ q \o r # <<>>
                        /\ Head(q \o r) = Head(q)
                        /\ Tail(q \o r) = Tail(q) \o r
<1>1. ASSUME NEW h \in S
      PROVE  q \o Append(r, h) = Append(q \o r, h)
  <2>1. <<h>> \in Seq(S) /\ q \o r \in Seq(S)
    BY ConcatProperties
  <2>2. Append(r, h) = r \o <<h>> /\ Append(q \o r, h) = (q \o r) \o <<h>>
    BY <2>1, AppendIsConcat
  <2> QED
    BY <2>1, <2>2, ConcatAssociative
<1>2. <<>> \o r = r /\ q \o <<>> = q
  BY ConcatEmptySeq
<1>3. ASSUME q # <<>>
      PROVE  q \o r # <<>> /\ Head(q \o r) = Head(q) /\ Tail(q \o r) = Tail(q) \o r
  <2> DEFINE both == q \o r
             rest == Tail(q) \o r
  <2>1. /\ both \in Seq(S) /\ Len(both) = Len(q) + Len(r)
        /\ \A i \in 1 .. Len(q) + Len(r) :
             both[i] = IF i <= Len(q) THEN q[i] ELSE r[i - Len(q)]
    BY ConcatProperties
  <2>2. /\ Len(q) \in Nat \ {0} /\ Len(r) \in Nat
        /\ Head(q) = q[1] /\ Tail(q) \in Seq(S) /\ Len(Tail(q)) = Len(q) - 1
        /\ \A i \in 1 .. Len(q) - 1 : Tail(q)[i] = q[i + 1]
    BY <1>3, HeadTailProperties, LenProperties, EmptySeq
  <2>3. both # <<>>
    BY <1>3, <2>1, ConcatEqualIffEmpty
  <2>4. Head(both) = q[1]
    <3>1. 1 \in 1 .. Len(q) + Len(r) /\ 1 <= Len(q)
      BY <2>2
    <3> QED
      BY <2>1, <2>2, <2>3, <3>1, HeadTailProperties
  <2>5. /\ Tail(both) \in Seq(S) /\ Len(Tail(both)) = Len(q) + Len(r) - 1
        /\ \A i \in 1 .. Len(q) + Len(r) - 1 : Tail(both)[i] = both[i + 1]
    BY <2>1, <2>3, HeadTailProperties
  <2>6. /\ rest \in Seq(S) /\ Len(rest) = Len(q) - 1 + Len(r)
        /\ \A i \in 1 .. Len(q) - 1 + Len(r) :
             rest[i] = IF i <= Len(q) - 1 THEN Tail(q)[i] ELSE r[i - (Len(q) - 1)]
    BY <2>2, ConcatProperties
  <2> HIDE DEF both, rest
  <2>7. ASSUME NEW i \in 1 .. Len(q) + Len(r) - 1
        PROVE  Tail(both)[i] = rest[i]
    <3>1. /\ i \in 1 .. Len(q) - 1 + Len(r) /\ i + 1 \in 1 .. Len(q) + Len(r)
          /\ i + 1 <= Len(q) <=> i <= Len(q) - 1
          /\ i <= Len(q) - 1 => i \in 1 .. Len(q) - 1
          /\ i + 1 - Len(q) = i - (Len(q) - 1)
      BY <2>2
    <3>2. rest[i] = IF i <= Len(q) - 1 THEN q[i + 1] ELSE r[i - (Len(q) - 1)]
      BY <2>2, <2>6, <3>1
    <3>3. Tail(both)[i] = IF i + 1 <= Len(q) THEN q[i + 1] ELSE r[i + 1 - Len(q)]
      BY <2>1, <2>5, <3>1
    <3>4. CASE i <= Len(q) - 1
      BY <3>1, <3>2, <3>3, <3>4
    <3>5. CASE ~(i <= Len(q) - 1)
      BY <3>1, <3>2, <3>3, <3>5
    <3> QED
      BY <3>4, <3>5
  <2>8. Tail(both) = rest
    <3>1. Len(Tail(both)) = Len(rest)
      BY <2>2, <2>5, <2>6
    <3> QED
      BY <2>2, <2>5, <2>6, <2>7, <3>1, SeqEqual
  <2> QED
    BY <2>2, <2>3, <2>4, <2>8 DEF both, rest
<1> QED
  BY <1>1, <1>2, <1>3

\* At most one worker runs a handler, so Active is well defined.
LEMMA ActiveHandler ==
  ASSUME TypeOK, OneAtATime
  PROVE  /\ (\A w \in Workers : running[w] = NoConn) => Active = NoConn
         /\ \A w \in Workers : running[w] # NoConn => Active = running[w]
<1>1. \A v, w \in Workers : running[v] # NoConn /\ running[w] # NoConn => v = w
  BY DEF TypeOK, OneAtATime, InStrand
<1> QED
  BY <1>1 DEF Active

LEMMA ActiveUnchanged ==
  ASSUME UNCHANGED running
  PROVE  Active' = Active
BY DEF Active

\* A step that dispatches nothing, begins nothing and ends nothing is no step of the
\* queue of handlers, or the one that ends the process.
LEMMA QuietForQueue ==
  ASSUME UNCHANGED <<ready, waiting, running>>, process # "running" => process' # "running"
  PROVE  [Strand!Next]_(Strand!vars)
<1>1. Active' = Active /\ (ready \o waiting)' = ready \o waiting
  BY ActiveUnchanged
<1>2. CASE (process' # "running") = (process # "running")
  BY <1>1, <1>2 DEF Strand!vars
<1>3. CASE (process' # "running") # (process # "running")
  <2>1. process = "running" /\ process' # "running"
    BY <1>3
  <2>2. Strand!End
    BY <1>1, <2>1 DEF Strand!End
  <2> QED
    BY <2>2 DEF Strand!Next
<1> QED
  BY <1>2, <1>3

\* A dispatch is a Submit: into a locked strand behind what waits, into an unlocked one,
\* which is empty, as the only handler.
LEMMA DispatchSubmits ==
  ASSUME IInv, NEW w \in Workers, NEW handler \in Conns \cup {Tick}, NEW whenQueued,
         Dispatch(w, handler, whenQueued), UNCHANGED <<running, process>>
  PROVE  Strand!Submit(handler)
<1>1. ready \in Seq(Conns \cup {Tick}) /\ waiting \in Seq(Conns \cup {Tick})
  BY DEF IInv, TypeOK
<1>2. (ready \o waiting)' = Append(ready \o waiting, handler)
  <2>1. CASE locked
    <3>1. ready' = ready /\ waiting' = Append(waiting, handler)
      BY <2>1 DEF Dispatch
    <3>2. ready \o Append(waiting, handler) = Append(ready \o waiting, handler)
      BY <1>1, TwoQueues
    <3> QED
      BY <3>1, <3>2
  <2>2. CASE ~locked
    <3>1. ready = <<>> /\ waiting = <<>>
      BY <2>2 DEF IInv, StrandAwake
    <3>2. ready' = <<handler>> /\ waiting' = <<>>
      BY <2>2, <3>1 DEF Dispatch
    <3>3. ready' \in Seq(Conns \cup {Tick})
      BY <3>2, HandlerQueues, <1>1
    <3>4. ready' \o waiting' = <<handler>>
      BY <3>2, <3>3, ConcatEmptySeq
    <3>5. ready \o waiting = <<>>
      BY <1>1, <3>1, TwoQueues
    <3>6. Append(<<>>, handler) = <<handler>>
      OBVIOUS
    <3> QED
      BY <3>4, <3>5, <3>6
  <2> QED
    BY <2>1, <2>2
<1> QED
  BY <1>2, ActiveUnchanged DEF Strand!Submit

\* An invoker that begins a handler begins the first in the queue.
LEMMA BeginBegins ==
  ASSUME IInv, IInv', NEW w \in Workers, BeginHandler(w)
  PROVE  Strand!Begin
<1>0. /\ TypeOK /\ OneAtATime /\ TypeOK' /\ OneAtATime'
      /\ ready \in Seq(Conns \cup {Tick}) /\ waiting \in Seq(Conns \cup {Tick})
      /\ running \in [Workers -> Conns \cup {Tick, NoConn}]
  BY DEF IInv, TypeOK
<1>1. /\ ready # <<>> /\ Head(ready) \in Conns \cup {Tick}
      /\ running' = [running EXCEPT ![w] = Head(ready)]
      /\ ready' = Tail(ready) /\ UNCHANGED <<waiting, process>>
  BY <1>0, HandlerQueues DEF BeginHandler
<1>2. Active = NoConn
  <2>1. \A v \in Workers : running[v] = NoConn
    BY <1>0 DEF BeginHandler, TypeOK, OneAtATime, InStrand
  <2> QED
    BY <1>0, <2>1, ActiveHandler
<1>3. Active' = Head(ready)
  <2>1. running'[w] = Head(ready) /\ Head(ready) # NoConn
    BY <1>0, <1>1, WorkAssumption
  <2>2. \A v, u \in Workers : running'[v] # NoConn /\ running'[u] # NoConn => v = u
    BY <1>0 DEF TypeOK, OneAtATime, InStrand
  <2> QED
    BY <2>1, <2>2 DEF Active
<1>4. /\ ready \o waiting # <<>> /\ Head(ready \o waiting) = Head(ready)
      /\ Tail(ready \o waiting) = Tail(ready) \o waiting
  BY <1>0, <1>1, TwoQueues
<1> QED
  BY <1>1, <1>2, <1>3, <1>4 DEF Strand!Begin

\* The handler that ends was the only one that ran.
LEMMA EndEnds ==
  ASSUME IInv, NEW w \in Workers, pc[w] = "handle", EndHandler(w)
  PROVE  Active = running[w] /\ running[w] # NoConn /\ Active' = NoConn
<1>0. TypeOK /\ OneAtATime /\ running \in [Workers -> Conns \cup {Tick, NoConn}]
  BY DEF IInv, TypeOK
<1>1. running[w] # NoConn /\ Active = running[w]
  BY <1>0, ActiveHandler DEF TypeOK
<1>2. \A v \in Workers : running'[v] = NoConn
  <2>1. \A v, u \in Workers : running[v] # NoConn /\ running[u] # NoConn => v = u
    BY <1>0 DEF TypeOK, OneAtATime, InStrand
  <2> QED
    BY <1>0, <1>1, <2>1 DEF EndHandler
<1>3. Active' = NoConn
  BY <1>2 DEF Active
<1> QED
  BY <1>1, <1>3

\* What a worker does is a step of the queue of handlers, or none.
LEMMA WorkerRefines ==
  ASSUME IInv, IInv', NEW w \in Workers, Step(w)
  PROVE  [Strand!Next]_(Strand!vars)
<1>0. /\ TypeOK /\ OneAtATime /\ TypeOK' /\ OneAtATime'
      /\ ready \in Seq(Conns \cup {Tick}) /\ waiting \in Seq(Conns \cup {Tick})
      /\ running \in [Workers -> Conns \cup {Tick, NoConn}]
  BY DEF IInv, TypeOK
<1>1. CASE \/ \E c \in Conns : OnRead(w, c)
           \/ HandleFileRequest(w) \/ ResumeStrand(w) \/ LogResponse(w) \/ OnSignal(w)
  <2>1. UNCHANGED <<ready, waiting, running>> /\ (process # "running" => process' # "running")
    BY <1>1 DEF OnRead, HandleFileRequest, ResumeStrand, LogResponse, OnSignal, Take, strand, stack
  <2> QED
    BY <2>1, QuietForQueue
<1>2. CASE DispatchRequest(w)
  <2>1. frame[w] \in Conns
    BY <1>0, <1>2 DEF DispatchRequest, TypeOK
  <2>2. Strand!Submit(frame[w])
    BY <1>2, <2>1, DispatchSubmits DEF DispatchRequest
  <2> QED
    BY <2>1, <2>2 DEF Strand!Next
<1>3. CASE DispatchTick(w)
  <2>1. Strand!Submit(Tick)
    BY <1>3, DispatchSubmits DEF DispatchTick
  <2> QED
    BY <2>1 DEF Strand!Next
<1>4. CASE BeginHandler(w)
  BY <1>4, BeginBegins DEF Strand!Next
<1>5. CASE LeaveStrand(w)
  <2>1. /\ ready = <<>> /\ ready' = waiting /\ waiting' = <<>>
        /\ UNCHANGED <<running, process>>
    BY <1>5 DEF LeaveStrand
  <2>2. (ready \o waiting)' = ready \o waiting
    BY <1>0, <2>1, TwoQueues
  <2> QED
    BY <2>1, <2>2, ActiveUnchanged DEF Strand!vars
<1>6. CASE HandleApiRequest(w) \/ HandleDeadRequest(w) \/ OnTick(w)
  <2>1. UNCHANGED <<ready, waiting>>
    BY <1>6 DEF HandleApiRequest, HandleDeadRequest, OnTick, strand
  <2>2. CASE running' = running
    <3>1. process # "running" => process' # "running"
      BY <1>6 DEF HandleApiRequest, HandleDeadRequest, OnTick
    <3> QED
      BY <2>1, <2>2, <3>1, QuietForQueue
  <2>3. CASE EndHandler(w) /\ process' = process
    <3>1. Active # NoConn /\ Active' = NoConn
      BY <1>6, <2>3, EndEnds DEF HandleApiRequest, HandleDeadRequest, OnTick
    <3>2. Strand!Finish
      BY <2>1, <2>3, <3>1 DEF Strand!Finish
    <3> QED
      BY <3>2 DEF Strand!Next
  <2> QED
    BY <1>6, <2>2, <2>3 DEF HandleApiRequest, HandleDeadRequest, OnTick
<1> QED
  BY <1>1, <1>2, <1>3, <1>4, <1>5, <1>6 DEF Step

\* The strand is empty and nothing runs.
LEMMA InitQueue ==
  ASSUME Init
  PROVE  Strand!Init
<1>1. <<>> \in Seq(Work)
  BY EmptySeq
<1>2. <<>> \o <<>> = <<>>
  BY <1>1, ConcatEmptySeq
<1>3. ready \o waiting = <<>> /\ Active = NoConn /\ process = "running"
  BY <1>2 DEF Init, Active
<1> QED
  BY <1>3 DEF Strand!Init

\* With any number of threads and connections, api_strand_ as the code uses it is one
\* queue of handlers, run one at a time in the order of their dispatch, none lost and
\* none repeated.  (That each has its turn is checked, not proved.)
THEOREM StrandImplementsQueue == Spec => Strand!Safe
<1>1. Init => Strand!Init
  BY InitQueue
<1>2. ASSUME IInv, IInv', [Next]_vars
      PROVE  [Strand!Next]_(Strand!vars)
  <2>1. CASE Outside \/ UNCHANGED vars
    <3>1. UNCHANGED <<ready, waiting, running, process>>
      BY <2>1 DEF Outside, Arrive, Written, Expire, Interrupt, strand, stack, vars
    <3> QED
      BY <3>1, QuietForQueue
  <2>2. ASSUME NEW w \in Workers, Step(w)
        PROVE  [Strand!Next]_(Strand!vars)
    BY <1>2, <2>2, WorkerRefines
  <2> QED
    BY <1>2, <2>1, <2>2 DEF Next
<1> QED
  BY <1>1, <1>2, Invariant, PTL DEF Spec, Strand!Safe

-----------------------------------------------------------------------------
(* Nothing is lost on the way.                                             *)

Reads(w, h) == pc[w] = "dispatch" /\ frame[w] = h

\* What is due is in one of the four places and there once, and a connection whose
\* request was not yet read has it in the queue of the io_context.
Kept(h) ==
  /\ Once(queue, h) /\ Once(ready \o waiting, h)
  /\ \A v, w \in Workers : Reads(v, h) /\ Reads(w, h) => v = w
  /\ In(queue, h) => ~In(ready \o waiting, h)
  /\ In(queue, h) \/ In(ready \o waiting, h) => Active # h
  /\ In(queue, h) \/ In(ready \o waiting, h) \/ Active = h => \A w \in Workers : ~Reads(w, h)
  /\ Due(h) <=> In(queue, h) \/ In(ready \o waiting, h) \/ Active = h \/ \E w \in Workers : Reads(w, h)
  /\ h \in Conns => (conn[h] = "arrived" <=> In(queue, h))

PlaceInv == IInv /\ \A h \in Conns \cup {Tick} : Kept(h)

\* A step that is not about h leaves it where it is.
LEMMA KeptElsewhere ==
  ASSUME NEW h, Kept(h),
         Once(queue, h) => Once(queue', h), In(queue', h) <=> In(queue, h),
         Once(ready \o waiting, h) => Once((ready \o waiting)', h),
         In((ready \o waiting)', h) <=> In(ready \o waiting, h),
         Active' = h <=> Active = h,
         \A w \in Workers : Reads(w, h)' <=> Reads(w, h),
         Due(h)' <=> Due(h),
         h \in Conns => (conn'[h] = "arrived" <=> conn[h] = "arrived")
  PROVE  Kept(h)'
BY DEF Kept

\* A request arrives, a tick expires: what was nowhere is in the queue.
LEMMA KeptOutside ==
  ASSUME PlaceInv, Outside, NEW h \in Conns \cup {Tick}
  PROVE  Kept(h)'
<1>0. /\ queue \in Seq(Work) /\ Kept(h)
      /\ conn \in [Conns -> {"open", "arrived", "served", "answered"}]
      /\ Tick \notin Conns /\ h \in Work /\ h # Signal /\ Tick \in Work /\ Signal \in Work
      /\ Conns \subseteq Work
  BY WorkAssumption DEF PlaceInv, IInv, TypeOK, Work
<1>1. /\ UNCHANGED <<ready, waiting, pc, frame, running>>
      /\ (ready \o waiting)' = ready \o waiting /\ Active' = Active
      /\ \A w \in Workers : Reads(w, h)' <=> Reads(w, h)
  <2>1. UNCHANGED <<ready, waiting, pc, frame, running>>
    BY DEF Outside, Arrive, Written, Expire, Interrupt, strand, stack
  <2> QED
    BY <2>1, ActiveUnchanged DEF Reads
<1>2. ASSUME NEW item \in Work, queue' = Append(queue, item), item # h,
             Due(h)' <=> Due(h), h \in Conns => conn'[h] = conn[h]
      PROVE  Kept(h)'
  <2>1. (In(queue', h) <=> In(queue, h)) /\ (Once(queue, h) => Once(queue', h))
    BY <1>0, <1>2, AppendIn
  <2> QED
    BY <1>0, <1>1, <1>2, <2>1, KeptElsewhere
<1>3. ASSUME queue' = Append(queue, h), ~Due(h), Due(h)', h \in Conns => conn'[h] = "arrived"
      PROVE  Kept(h)'
  <2>1. /\ ~In(queue, h) /\ ~In(ready \o waiting, h) /\ Active # h
        /\ \A w \in Workers : ~Reads(w, h)
    BY <1>0, <1>3 DEF Kept
  <2>2. In(queue', h) /\ Once(queue', h)
    BY <1>0, <1>3, <2>1, AppendIn DEF Kept
  <2> QED
    BY <1>0, <1>1, <1>3, <2>1, <2>2 DEF Kept
<1>4. ASSUME NEW c \in Conns, Arrive(c)
      PROVE  Kept(h)'
  <2>1. /\ queue' = Append(queue, c) /\ conn[c] = "open" /\ timer' = timer
        /\ conn' = [conn EXCEPT ![c] = "arrived"]
    BY <1>4 DEF Arrive
  <2>2. CASE h = c
    BY <1>0, <1>3, <2>1, <2>2 DEF Due
  <2>3. CASE h # c
    BY <1>0, <1>2, <2>1, <2>3 DEF Due
  <2> QED
    BY <2>2, <2>3
<1>5. ASSUME NEW c \in Conns, Written(c)
      PROVE  Kept(h)'
  <2>1. /\ queue' = queue /\ conn[c] = "answered" /\ timer' = timer
        /\ conn' = [conn EXCEPT ![c] = "open"]
    BY <1>5 DEF Written
  <2>2. (Due(h)' <=> Due(h)) /\ (h \in Conns => (conn'[h] = "arrived" <=> conn[h] = "arrived"))
    BY <1>0, <2>1 DEF Due
  <2> QED
    BY <1>0, <1>1, <2>1, <2>2, KeptElsewhere
<1>6. CASE Expire
  <2>1. queue' = Append(queue, Tick) /\ timer = "armed" /\ timer' = "expired" /\ conn' = conn
    BY <1>6 DEF Expire, net
  <2>2. CASE h = Tick
    BY <1>0, <1>3, <2>1, <2>2 DEF Due
  <2>3. CASE h # Tick
    BY <1>0, <1>2, <2>1, <2>3 DEF Due
  <2> QED
    BY <2>2, <2>3
<1>7. CASE Interrupt
  <2>1. queue' = Append(queue, Signal) /\ timer' = timer /\ conn' = conn
    BY <1>7 DEF Interrupt, net
  <2> QED
    BY <1>0, <1>2, <2>1 DEF Due
<1> QED
  BY <1>4, <1>5, <1>6, <1>7 DEF Outside

\* What a worker takes from the queue is nowhere else, and stays where it was if it is
\* something else.
LEMMA KeptTake ==
  ASSUME PlaceInv, NEW w \in Workers, NEW item, Take(w, item), NEW h \in Conns \cup {Tick}
  PROVE  /\ Kept(h) /\ pc[w] = "idle"
         /\ item # h => (In(queue', h) <=> In(queue, h)) /\ (Once(queue, h) => Once(queue', h))
         /\ item = h => /\ In(queue, h) /\ ~In(queue', h) /\ Once(queue', h)
                        /\ ~In(ready \o waiting, h) /\ Active # h
                        /\ \A v \in Workers : ~Reads(v, h)
<1>1. queue \in Seq(Work) /\ queue # <<>> /\ Head(queue) = item /\ queue' = Tail(queue)
  BY DEF PlaceInv, IInv, TypeOK, Take
<1>2. /\ In(queue, h) <=> In(queue', h) \/ item = h
      /\ Once(queue, h) => Once(queue', h) /\ (item = h => ~In(queue', h))
  BY <1>1, TailIn
<1>3. Kept(h) /\ pc[w] = "idle"
  BY DEF PlaceInv, Take
<1> QED
  BY <1>2, <1>3 DEF Kept

\* The same of what was dispatched, with a handler more, and with one begun.
LEMMA DispatchedMore ==
  ASSUME NEW q \in Seq(Conns \cup {Tick}), NEW item \in Conns \cup {Tick}, NEW h,
         NEW more, more = Append(q, item)
  PROVE  /\ In(more, h) <=> In(q, h) \/ item = h
         /\ Once(q, h) /\ (item = h => ~In(q, h)) => Once(more, h)
BY AppendIn

LEMMA DispatchedLess ==
  ASSUME NEW q \in Seq(Conns \cup {Tick}), q # <<>>, NEW h, NEW rest, rest = Tail(q)
  PROVE  /\ In(q, h) <=> In(rest, h) \/ Head(q) = h
         /\ Once(q, h) => Once(rest, h) /\ (Head(q) = h => ~In(rest, h))
BY TailIn

\* A worker moves a request or a tick from one place to the next, or ends it.
LEMMA KeptWorker ==
  ASSUME PlaceInv, IInv', NEW w \in Workers, Step(w), NEW h \in Conns \cup {Tick}
  PROVE  Kept(h)'
<1>0. /\ queue \in Seq(Work) /\ Kept(h) /\ IInv /\ TypeOK /\ OneAtATime
      /\ pc \in [Workers -> {"idle", "dispatch", "invoke", "handle", "log"}]
      /\ frame \in [Workers -> Conns \cup {NoConn}]
      /\ running \in [Workers -> Conns \cup {Tick, NoConn}]
      /\ ready \in Seq(Conns \cup {Tick}) /\ waiting \in Seq(Conns \cup {Tick})
      /\ conn \in [Conns -> {"open", "arrived", "served", "answered"}]
      /\ Tick \notin Conns /\ h # NoConn /\ NoConn \notin Conns
      /\ h # Invoker /\ h # Signal
  BY WorkAssumption DEF PlaceInv, IInv, TypeOK
<1>1. /\ UNCHANGED <<ready, waiting>> => (ready \o waiting)' = ready \o waiting
      /\ UNCHANGED running => Active' = Active
      /\ UNCHANGED <<pc, frame>> => \A v \in Workers : Reads(v, h)' <=> Reads(v, h)
      /\ UNCHANGED <<conn, timer>> => (Due(h)' <=> Due(h))
  BY ActiveUnchanged DEF Reads, Due
<1>2. ASSUME NEW c \in Conns, OnRead(w, c)
      PROVE  Kept(h)'
  <2>1. /\ Take(w, c) /\ UNCHANGED <<ready, waiting, running, timer>>
        /\ pc' = [pc EXCEPT ![w] = "dispatch"] /\ frame' = [frame EXCEPT ![w] = c]
        /\ conn' = [conn EXCEPT ![c] = "served"]
    BY <1>2 DEF OnRead, strand
  <2>2. CASE h = c
    <3>1. /\ In(queue, h) /\ ~In(queue', h) /\ Once(queue', h)
          /\ ~In(ready \o waiting, h) /\ Active # h
          /\ \A v \in Workers : ~Reads(v, h)
      BY <2>1, <2>2, KeptTake
    <3>2. \A v \in Workers : Reads(v, h)' <=> v = w
      BY <1>0, <2>1, <2>2, <3>1 DEF Reads
    <3>3. Due(h)' /\ conn'[h] # "arrived"
      BY <1>0, <2>1, <2>2 DEF Due
    <3> QED
      BY <1>0, <1>1, <2>1, <3>1, <3>2, <3>3 DEF Kept
  <2>3. CASE h # c
    <3>1. /\ In(queue', h) <=> In(queue, h)
          /\ Once(queue, h) => Once(queue', h)
          /\ pc[w] = "idle"
      BY <2>1, <2>3, KeptTake
    <3>2. \A v \in Workers : Reads(v, h)' <=> Reads(v, h)
      BY <1>0, <2>1, <2>3, <3>1 DEF Reads
    <3>3. (Due(h)' <=> Due(h)) /\ (h \in Conns => conn'[h] = conn[h])
      BY <1>0, <2>1, <2>3 DEF Due
    <3> QED
      BY <1>0, <1>1, <2>1, <3>1, <3>2, <3>3, KeptElsewhere
  <2> QED
    BY <2>2, <2>3
<1>3. CASE HandleFileRequest(w)
  <2>1. /\ pc[w] = "dispatch" /\ frame[w] \in Conns
        /\ UNCHANGED <<queue, ready, waiting, running, frame, timer>>
        /\ pc' = [pc EXCEPT ![w] = "log"] /\ conn' = [conn EXCEPT ![frame[w]] = "answered"]
    BY <1>0, <1>3 DEF HandleFileRequest, Transmit, TypeOK, strand
  <2>2. CASE h = frame[w]
    <3>1. Reads(w, h) /\ \A v \in Workers : ~Reads(v, h)'
      BY <1>0, <2>1, <2>2 DEF Reads, Kept
    <3>2. ~Due(h)' /\ conn'[h] # "arrived"
      BY <1>0, <2>1, <2>2 DEF Due
    <3> QED
      BY <1>0, <1>1, <2>1, <3>1, <3>2 DEF Kept
  <2>3. CASE h # frame[w]
    <3>1. \A v \in Workers : Reads(v, h)' <=> Reads(v, h)
      BY <1>0, <2>1, <2>3 DEF Reads
    <3>2. (Due(h)' <=> Due(h)) /\ (h \in Conns => conn'[h] = conn[h])
      BY <1>0, <2>1, <2>3 DEF Due
    <3> QED
      BY <1>0, <1>1, <2>1, <3>1, <3>2, KeptElsewhere
  <2> QED
    BY <2>2, <2>3
<1>4. CASE DispatchRequest(w)
  <2>1. /\ pc[w] = "dispatch" /\ frame[w] \in Conns
        /\ UNCHANGED <<queue, running, frame, timer, conn, process>>
        /\ Dispatch(w, frame[w], "log")
        /\ pc' = [pc EXCEPT ![w] = IF locked THEN "log" ELSE "invoke"]
    BY <1>0, <1>4 DEF DispatchRequest, Dispatch, TypeOK, net
  <2>2. (ready \o waiting)' = Append(ready \o waiting, frame[w])
    BY <1>0, <2>1, DispatchSubmits DEF Strand!Submit
  <2>3. ready \o waiting \in Seq(Conns \cup {Tick})
    BY <1>0, ConcatProperties
  <2>4. /\ In((ready \o waiting)', h) <=> In(ready \o waiting, h) \/ frame[w] = h
        /\ Once(ready \o waiting, h) /\ (frame[w] = h => ~In(ready \o waiting, h)) =>
             Once((ready \o waiting)', h)
    BY <2>1, <2>2, <2>3, DispatchedMore
  <2>5. CASE h = frame[w]
    <3>1. Reads(w, h) /\ \A v \in Workers : ~Reads(v, h)'
      BY <1>0, <2>1, <2>5 DEF Reads, Kept
    <3>2. ~In(queue, h) /\ ~In(ready \o waiting, h) /\ Active # h /\ Due(h)
      BY <1>0, <3>1 DEF Kept
    <3>3. In((ready \o waiting)', h) /\ Once((ready \o waiting)', h)
      BY <1>0, <2>5, <2>4, <3>2 DEF Kept
    <3> QED
      BY <1>0, <1>1, <2>1, <3>1, <3>2, <3>3 DEF Kept
  <2>6. CASE h # frame[w]
    <3>1. \A v \in Workers : Reads(v, h)' <=> Reads(v, h)
      BY <1>0, <2>1, <2>6 DEF Reads
    <3>2. /\ In((ready \o waiting)', h) <=> In(ready \o waiting, h)
          /\ Once(ready \o waiting, h) => Once((ready \o waiting)', h)
      BY <2>6, <2>4
    <3> QED
      BY <1>0, <1>1, <2>1, <3>1, <3>2, KeptElsewhere
  <2> QED
    BY <2>5, <2>6
<1>5. CASE DispatchTick(w)
  <2>1. /\ Take(w, Tick) /\ UNCHANGED <<running, frame, timer, conn, process>>
        /\ Dispatch(w, Tick, "idle")
        /\ pc' = [pc EXCEPT ![w] = IF locked THEN "idle" ELSE "invoke"]
    BY <1>5 DEF DispatchTick, Dispatch, net
  <2>2. (ready \o waiting)' = Append(ready \o waiting, Tick)
    BY <1>0, <2>1, DispatchSubmits DEF Strand!Submit
  <2>3. ready \o waiting \in Seq(Conns \cup {Tick})
    BY <1>0, ConcatProperties
  <2>4. pc[w] = "idle" /\ \A v \in Workers : Reads(v, h)' <=> Reads(v, h)
    BY <1>0, <2>1 DEF Reads, Take
  <2>5. /\ In((ready \o waiting)', h) <=> In(ready \o waiting, h) \/ Tick = h
        /\ Once(ready \o waiting, h) /\ (Tick = h => ~In(ready \o waiting, h)) =>
             Once((ready \o waiting)', h)
    BY <2>2, <2>3, DispatchedMore
  <2>6. CASE h = Tick
    <3>1. /\ In(queue, h) /\ ~In(queue', h) /\ Once(queue', h)
          /\ ~In(ready \o waiting, h) /\ Active # h
          /\ \A v \in Workers : ~Reads(v, h)
      BY <2>1, <2>6, KeptTake
    <3>2. In((ready \o waiting)', h) /\ Once((ready \o waiting)', h)
      BY <1>0, <2>6, <2>5, <3>1 DEF Kept
    <3> QED
      BY <1>0, <1>1, <2>1, <2>4, <2>6, <3>1, <3>2 DEF Kept
  <2>7. CASE h # Tick
    <3>1. /\ In(queue', h) <=> In(queue, h)
          /\ Once(queue, h) => Once(queue', h)
      BY <2>1, <2>7, KeptTake
    <3>2. /\ In((ready \o waiting)', h) <=> In(ready \o waiting, h)
          /\ Once(ready \o waiting, h) => Once((ready \o waiting)', h)
      BY <2>7, <2>5
    <3> QED
      BY <1>0, <1>1, <2>1, <2>4, <3>1, <3>2, KeptElsewhere
  <2> QED
    BY <2>6, <2>7
<1>6. CASE ResumeStrand(w) \/ OnSignal(w)
  <2>1. /\ Take(w, Invoker) \/ Take(w, Signal)
        /\ UNCHANGED <<ready, waiting, running, frame, timer, conn>>
        /\ pc' = pc \/ pc' = [pc EXCEPT ![w] = "invoke"]
    BY <1>6 DEF ResumeStrand, OnSignal, strand, stack, net
  <2>2. \A v \in Workers : Reads(v, h)' <=> Reads(v, h)
    BY <1>0, <2>1 DEF Reads, Take
  <2>3. /\ In(queue', h) <=> In(queue, h)
        /\ Once(queue, h) => Once(queue', h)
    BY <1>0, <2>1, KeptTake
  <2> QED
    BY <1>0, <1>1, <2>1, <2>2, <2>3, KeptElsewhere
<1>7. CASE BeginHandler(w)
  <2>1. /\ pc[w] = "invoke" /\ ready # <<>> /\ ready' = Tail(ready)
        /\ UNCHANGED <<queue, waiting, frame, timer, conn>>
        /\ pc' = [pc EXCEPT ![w] = "handle"]
    BY <1>7 DEF BeginHandler, net
  <2>2. Strand!Begin
    BY <1>0, <1>7, BeginBegins
  <2>3. /\ (ready \o waiting)' = Tail(ready \o waiting) /\ ready \o waiting # <<>>
        /\ Active = NoConn /\ Active' = Head(ready \o waiting)
    BY <2>2 DEF Strand!Begin
  <2>4. ready \o waiting \in Seq(Conns \cup {Tick})
    BY <1>0, ConcatProperties
  <2>5. /\ In(ready \o waiting, h) <=> In((ready \o waiting)', h) \/ Active' = h
        /\ Once(ready \o waiting, h) =>
             Once((ready \o waiting)', h) /\ (Active' = h => ~In((ready \o waiting)', h))
    BY <2>3, <2>4, DispatchedLess
  <2>6. \A v \in Workers : Reads(v, h)' <=> Reads(v, h)
    BY <1>0, <2>1 DEF Reads
  <2>7. Active # h /\ (Due(h)' <=> Due(h))
    BY <1>0, <1>1, <2>1, <2>3
  <2> QED
    BY <1>0, <2>1, <2>5, <2>6, <2>7 DEF Kept
<1>8. CASE LeaveStrand(w)
  <2>1. /\ pc[w] = "invoke" /\ UNCHANGED <<running, frame, timer, conn>>
        /\ ready = <<>> /\ ready' = waiting /\ waiting' = <<>>
        /\ queue' = queue \/ queue' = Append(queue, Invoker)
        /\ pc' = [pc EXCEPT ![w] = IF frame[w] = NoConn THEN "idle" ELSE "log"]
    BY <1>8 DEF LeaveStrand, net
  <2>2. (ready \o waiting)' = ready \o waiting
    BY <1>0, <2>1, TwoQueues
  <2>3. \A v \in Workers : Reads(v, h)' <=> Reads(v, h)
    BY <1>0, <2>1 DEF Reads
  <2>4. (In(queue', h) <=> In(queue, h)) /\ (Once(queue, h) => Once(queue', h))
    <3>1. Invoker \in Work /\ Invoker # h
      BY <1>0 DEF Work
    <3>2. CASE queue' = Append(queue, Invoker)
      BY <1>0, <3>1, <3>2, AppendIn
    <3> QED
      BY <2>1, <3>2
  <2> QED
    BY <1>0, <1>1, <2>1, <2>2, <2>3, <2>4, KeptElsewhere
<1>9. CASE HandleApiRequest(w) \/ HandleDeadRequest(w) \/ OnTick(w)
  <2>1. UNCHANGED <<queue, ready, waiting, frame>> /\ pc[w] = "handle"
    BY <1>9 DEF HandleApiRequest, HandleDeadRequest, OnTick, strand
  <2>2. CASE UNCHANGED <<running, pc, conn, timer>>
    BY <1>0, <1>1, <2>1, <2>2, KeptElsewhere
  <2>3. CASE EndHandler(w)
    <3>1. /\ Active = running[w] /\ running[w] # NoConn /\ Active' = NoConn
      BY <1>0, <2>1, <2>3, EndEnds
    <3>2. \A v \in Workers : Reads(v, h)' <=> Reads(v, h)
      BY <1>0, <2>1, <2>3 DEF EndHandler, Reads
    <3>3. \/ running[w] \in Conns /\ conn' = [conn EXCEPT ![running[w]] = "answered"] /\ timer' = timer
          \/ running[w] = Tick /\ conn' = conn /\ timer' = "armed"
      <4>1. pc' # pc
        BY <1>0, <2>1, <2>3 DEF EndHandler
      <4> QED
        BY <1>9, <4>1 DEF HandleApiRequest, HandleDeadRequest, OnTick, Transmit, net
    <3>4. CASE h = running[w]
      <4>1. ~Due(h)' /\ (h \in Conns => conn'[h] # "arrived")
        BY <1>0, <3>3, <3>4 DEF Due
      <4> QED
        BY <1>0, <1>1, <2>1, <3>1, <3>2, <3>4, <4>1 DEF Kept
    <3>5. CASE h # running[w]
      <4>1. (Due(h)' <=> Due(h)) /\ (h \in Conns => conn'[h] = conn[h])
        BY <1>0, <3>3, <3>5 DEF Due
      <4> QED
        BY <1>0, <1>1, <2>1, <3>1, <3>2, <3>5, <4>1, KeptElsewhere
    <3> QED
      BY <3>4, <3>5
  <2> QED
    BY <1>9, <2>2, <2>3 DEF HandleApiRequest, HandleDeadRequest, OnTick, net
<1>10. CASE LogResponse(w)
  <2>1. /\ UNCHANGED <<queue, ready, waiting, running, timer, conn>>
        /\ pc[w] = "log" /\ pc' = [pc EXCEPT ![w] = "idle"]
        /\ frame' = [frame EXCEPT ![w] = NoConn]
    BY <1>10 DEF LogResponse, strand, net
  <2>2. \A v \in Workers : Reads(v, h)' <=> Reads(v, h)
    BY <1>0, <2>1 DEF Reads
  <2> QED
    BY <1>0, <1>1, <2>1, <2>2, KeptElsewhere
<1> QED
  BY <1>2, <1>3, <1>4, <1>5, <1>6, <1>7, <1>8, <1>9, <1>10 DEF Step

LEMMA PlaceInvariant == Spec => []PlaceInv
<1>1. Init => PlaceInv
  <2>1. ASSUME Init
        PROVE  IInv
    BY <2>1, InitInvariant
  <2>2. ASSUME Init, NEW h \in Conns \cup {Tick}
        PROVE  Kept(h)
    <3>1. /\ queue = <<>> /\ ready \o waiting = <<>> /\ Active = NoConn /\ NoConn # h
          /\ \A w \in Workers : pc[w] = "idle"
      BY <2>2, InitQueue, WorkAssumption DEF Init, Strand!Init
    <3>2. \A x : ~In(<<>>, x) /\ Once(<<>>, x)
      BY DEF In, Once
    <3>3. ~Due(h) /\ (h \in Conns => conn[h] # "arrived")
      BY <2>2, WorkAssumption DEF Init, Due
    <3> QED
      BY <3>1, <3>2, <3>3 DEF Kept, Reads
  <2> QED
    BY <2>1, <2>2 DEF PlaceInv
<1>2. ASSUME PlaceInv, IInv', [Next]_vars
      PROVE  PlaceInv'
  <2>1. SUFFICES ASSUME NEW h \in Conns \cup {Tick}
                 PROVE  Kept(h)'
    BY <1>2 DEF PlaceInv
  <2>2. CASE UNCHANGED vars
    <3>1. UNCHANGED <<queue, ready, waiting, pc, frame, running, conn, timer>>
      BY <2>2 DEF vars, strand, stack, net
    <3>2. Active' = Active /\ (Due(h)' <=> Due(h)) /\ \A w \in Workers : Reads(w, h)' <=> Reads(w, h)
      BY <3>1, ActiveUnchanged DEF Due, Reads
    <3> QED
      BY <1>2, <3>1, <3>2, KeptElsewhere DEF PlaceInv
  <2> QED
    BY <1>2, <2>2, KeptOutside, KeptWorker DEF Next
<1> QED
  BY <1>1, <1>2, Invariant, PTL DEF Spec

\* What is in a place is there once, so that there is one place: a request between its
\* arrival and its answer, and a tick that is due, is neither lost nor handled twice.
THEOREM NothingLostOrTwice == Spec => []WorkInOnePlace
<1>1. ASSUME PlaceInv
      PROVE  WorkInOnePlace
  <2> SUFFICES ASSUME NEW h \in Conns \cup {Tick}
               PROVE  IF Due(h) THEN \E p \in Places(h) : Places(h) = {p} ELSE Places(h) = {}
    BY DEF WorkInOnePlace
  <2> DEFINE handlers == ready \o waiting
             Q == {i \in DOMAIN queue : queue[i] = h}
             R == {w \in Workers : pc[w] = "dispatch" /\ frame[w] = h}
             S == {i \in DOMAIN handlers : handlers[i] = h}
             X == {w \in Workers : running[w] = h}
  <2>1. Kept(h)
    BY <1>1 DEF PlaceInv
  <2>2. Places(h) = ({"queue"} \X Q) \cup ({"read"} \X R) \cup ({"strand"} \X S) \cup ({"runs"} \X X)
    BY DEF Places
  <2>3. Q = {} \/ \E i : Q = {i}
    BY <2>1 DEF Kept, Once
  <2>4. R = {} \/ \E w : R = {w}
    BY <2>1 DEF Kept, Reads
  <2>5. S = {} \/ \E i : S = {i}
    <3>1. Once(handlers, h)
      BY <2>1 DEF Kept
    <3> HIDE DEF handlers
    <3> QED
      BY <3>1 DEF Once
  <2>6. (X # {} <=> Active = h) /\ (X = {} \/ \E w : X = {w})
    <3>1. /\ TypeOK /\ OneAtATime /\ h # NoConn
          /\ \A v, w \in Workers : running[v] # NoConn /\ running[w] # NoConn => v = w
      BY <1>1, WorkAssumption DEF PlaceInv, IInv, TypeOK, OneAtATime, InStrand
    <3> QED
      BY <3>1, ActiveHandler
  <2>7. (Q # {} <=> In(queue, h)) /\ (S # {} <=> In(handlers, h)) /\ (R # {} <=> \E w \in Workers : Reads(w, h))
    BY DEF In, Reads
  <2>8. /\ Q # {} => R = {} /\ S = {} /\ X = {}
        /\ R # {} => S = {} /\ X = {}
        /\ S # {} => X = {}
        /\ Due(h) <=> Q # {} \/ R # {} \/ S # {} \/ X # {}
    BY <2>1, <2>6, <2>7 DEF Kept
  <2> HIDE DEF Q, R, S, X, handlers
  <2>9. CASE ~Due(h)
    BY <2>2, <2>8, <2>9
  <2>10. CASE Q # {}
    <3>1. PICK i : Q = {i}
      BY <2>3, <2>10
    <3>2. Places(h) = {<<"queue", i>>}
      BY <2>2, <2>8, <2>10, <3>1
    <3> QED
      BY <2>8, <2>10, <3>2
  <2>11. CASE R # {}
    <3>1. PICK w : R = {w}
      BY <2>4, <2>11
    <3>2. Places(h) = {<<"read", w>>}
      BY <2>2, <2>8, <2>11, <3>1
    <3> QED
      BY <2>8, <2>11, <3>2
  <2>12. CASE S # {}
    <3>1. PICK i : S = {i}
      BY <2>5, <2>12
    <3>2. Places(h) = {<<"strand", i>>}
      BY <2>2, <2>8, <2>12, <3>1
    <3> QED
      BY <2>8, <2>12, <3>2
  <2>13. CASE X # {}
    <3>1. PICK w : X = {w}
      BY <2>6, <2>13
    <3>2. Places(h) = {<<"runs", w>>}
      BY <2>2, <2>8, <2>13, <3>1
    <3> QED
      BY <2>8, <2>13, <3>2
  <2> QED
    BY <2>8, <2>9, <2>10, <2>11, <2>12, <2>13
<1> QED
  BY <1>1, PlaceInvariant, PTL

-----------------------------------------------------------------------------
(* One thread, where hardware_concurrency is 1: a dispatch always finds    *)
(* the strand free, so every handler runs on top of the frame it refers to.*)

SingleWorker == \A v, w \in Workers : v = w

\* The status of the response is known where the request's handler has run.
Told(w) == conn[frame[w]] = "answered" /\ respInfo[w] = sent[frame[w]]

\* What the one thread has in its hands.
Alone(w) ==
  /\ frame[w] # NoConn => startTime = frame[w]
  /\ running[w] \in Conns => running[w] = frame[w]
  /\ running[w] = Tick => frame[w] = NoConn
  /\ ready # <<>> => /\ pc[w] = "invoke"
                     /\ \/ ready = <<frame[w]>> /\ frame[w] \in Conns
                        \/ ready = <<Tick>> /\ frame[w] = NoConn
  /\ pc[w] = "log" => Told(w)
  /\ pc[w] = "invoke" /\ ready = <<>> /\ frame[w] # NoConn => Told(w)

SingleInv ==
  /\ IInv
  /\ waiting = <<>>
  /\ ~Posted(queue)
  /\ \A w \in Workers : Alone(w)

\* Outside steps touch no connection whose request is on the stack.
LEMMA SingleOutside ==
  ASSUME SingleInv, IInv', Outside
  PROVE  SingleInv'
<1>1. UNCHANGED <<locked, ready, waiting, pc, frame, running, respInfo, startTime>>
  BY DEF Outside, Arrive, Written, Expire, Interrupt, strand, stack
<1>2. ~Posted(queue')
  <2>1. queue \in Seq(Work) /\ ~Posted(queue)
    BY DEF SingleInv, IInv, TypeOK
  <2>2. \/ queue' = queue
        \/ \E item \in Work : item # Invoker /\ queue' = Append(queue, item)
    BY WorkAssumption DEF Outside, Arrive, Written, Expire, Interrupt, Work
  <2>3. ASSUME NEW item \in Work, item # Invoker
        PROVE  ~Posted(Append(queue, item))
    BY <2>1, <2>3, AppendPosted
  <2> QED
    BY <2>1, <2>2, <2>3
<1>3. ASSUME NEW w \in Workers
      PROVE  Alone(w)'
  <2>1. Alone(w)
    BY DEF SingleInv
  <2>2. ASSUME Told(w), frame[w] \in Conns
        PROVE  Told(w)'
    <3>1. conn \in [Conns -> {"open", "arrived", "served", "answered"}]
          /\ sent \in [Conns -> Statuses \cup {NoStatus}]
      BY DEF SingleInv, IInv, TypeOK
    <3>2. conn[frame[w]] = "answered" /\ FrameAlive(frame[w])
      BY <2>2 DEF Told, FrameAlive
    <3>3. conn'[frame[w]] = conn[frame[w]] /\ sent'[frame[w]] = sent[frame[w]]
      BY <2>2, <3>1, <3>2 DEF Outside, Arrive, Written, Expire, Interrupt, net
    <3> QED
      BY <1>1, <2>2, <3>3 DEF Told
  <2>3. /\ frame[w] \in Conns \cup {NoConn}
        /\ pc[w] = "log" => frame[w] # NoConn
    BY DEF SingleInv, IInv, TypeOK
  <2> QED
    BY <1>1, <2>1, <2>2, <2>3 DEF Alone
<1> QED
  BY <1>1, <1>2, <1>3 DEF SingleInv

\* With one thread every dispatch is an immediate one.
LEMMA SingleStep ==
  ASSUME SingleWorker, SingleInv, IInv', NEW w \in Workers, Step(w)
  PROVE  SingleInv'
<1> USE DEF SingleInv
<1>0. /\ \A v \in Workers : v = w
      /\ TypeOK /\ Alone(w) /\ waiting = <<>> /\ ~Posted(queue)
  BY DEF SingleWorker, IInv
<1>1. locked <=> InStrand(w)
  BY <1>0 DEF IInv, StrandAwake, Posted, In
<1>2. SUFFICES waiting' = <<>> /\ ~Posted(queue') /\ Alone(w)'
  BY <1>0
<1>3. /\ pc \in [Workers -> {"idle", "dispatch", "invoke", "handle", "log"}]
      /\ frame \in [Workers -> Conns \cup {NoConn}]
      /\ running \in [Workers -> Conns \cup {Tick, NoConn}]
      /\ respInfo \in [Workers -> Statuses \cup {NoStatus}]
      /\ conn \in [Conns -> {"open", "arrived", "served", "answered"}]
      /\ sent \in [Conns -> Statuses \cup {NoStatus}]
      /\ pc[w] = "handle" <=> running[w] # NoConn
      /\ pc[w] \in {"dispatch", "log"} => frame[w] # NoConn
      /\ NoConn \notin Conns \cup {Tick} /\ Tick \notin Conns
  BY <1>0, WorkAssumption DEF TypeOK
<1>4. ASSUME NEW c \in Conns, OnRead(w, c)
      PROVE  waiting' = <<>> /\ ~Posted(queue') /\ Alone(w)'
  <2>1. ~Posted(queue') /\ pc[w] = "idle" /\ running[w] = NoConn
    BY <1>0, <1>4, TakeTypes, WorkAssumption DEF OnRead
  <2>2. /\ pc'[w] = "dispatch" /\ frame'[w] = c /\ startTime' = c
        /\ running' = running /\ ready' = ready /\ waiting' = waiting
    BY <1>3, <1>4 DEF OnRead, strand
  <2> QED
    BY <1>0, <1>3, <2>1, <2>2 DEF Alone
<1>5. CASE HandleFileRequest(w)
  <2>1. /\ pc[w] = "dispatch" /\ pc'[w] = "log" /\ frame[w] \in Conns
        /\ UNCHANGED <<queue, ready, waiting, frame, running, startTime>>
    BY <1>3, <1>5 DEF HandleFileRequest, strand
  <2>2. Told(w)'
    BY <1>3, <1>5, <2>1 DEF HandleFileRequest, Transmit, Told
  <2> QED
    BY <1>0, <2>1, <2>2 DEF Alone
<1>6. CASE DispatchRequest(w)
  <2>1. pc[w] = "dispatch" /\ frame[w] \in Conns /\ ~locked
    BY <1>1, <1>3, <1>6 DEF DispatchRequest, InStrand
  <2>2. /\ pc'[w] = "invoke" /\ ready' = <<frame[w]>> /\ waiting' = waiting
        /\ UNCHANGED <<queue, frame, running, startTime>>
    BY <1>3, <1>6, <2>1 DEF DispatchRequest, Dispatch
  <2>3. ready' # <<>>
    BY <2>2
  <2> QED
    BY <1>0, <2>1, <2>2, <2>3 DEF Alone
<1>7. CASE DispatchTick(w)
  <2>1. ~Posted(queue') /\ pc[w] = "idle" /\ frame[w] = NoConn /\ running[w] = NoConn
    BY <1>0, <1>7, TakeTypes, WorkAssumption DEF DispatchTick
  <2>2. ~locked
    BY <1>1, <2>1 DEF InStrand
  <2>3. /\ pc'[w] = "invoke" /\ ready' = <<Tick>> /\ waiting' = waiting
        /\ UNCHANGED <<frame, running, startTime>>
    BY <1>3, <1>7, <2>2 DEF DispatchTick, Dispatch
  <2>4. ready' # <<>>
    BY <2>3
  <2> QED
    BY <1>0, <1>3, <2>1, <2>3, <2>4 DEF Alone
<1>8. CASE ResumeStrand(w)
  BY <1>0, <1>8, TakeTypes DEF ResumeStrand
<1>9. CASE BeginHandler(w)
  <2>1. /\ pc[w] = "invoke" /\ ready # <<>> /\ pc'[w] = "handle"
        /\ ready' = Tail(ready) /\ running'[w] = Head(ready)
        /\ UNCHANGED <<queue, waiting, frame, startTime>>
    BY <1>3, <1>9 DEF BeginHandler
  <2>2. \/ ready = <<frame[w]>> /\ frame[w] \in Conns
        \/ ready = <<Tick>> /\ frame[w] = NoConn
    BY <1>0, <2>1 DEF Alone
  <2>3. ready' = <<>> /\ Head(ready) \in {frame[w], Tick}
        /\ (Head(ready) = Tick \/ frame[w] \in Conns)
        /\ (Head(ready) = Tick => frame[w] = NoConn)
    <3>1. \A h \in Conns \cup {Tick} : Head(<<h>>) = h /\ Tail(<<h>>) = <<>>
      OBVIOUS
    <3>2. CASE ready = <<frame[w]>> /\ frame[w] \in Conns
      <4>1. Head(ready) = frame[w] /\ Tail(ready) = <<>> /\ frame[w] # Tick
        BY <1>3, <3>1, <3>2
      <4> QED BY <2>1, <3>2, <4>1
    <3>3. CASE ready = <<Tick>> /\ frame[w] = NoConn
      <4>1. Head(ready) = Tick /\ Tail(ready) = <<>>
        BY <3>1, <3>3
      <4> QED BY <2>1, <3>3, <4>1
    <3> QED BY <2>2, <3>2, <3>3
  <2> QED
    BY <1>0, <1>3, <2>1, <2>3 DEF Alone
<1>10. CASE LeaveStrand(w)
  <2>1. /\ pc[w] = "invoke" /\ ready = <<>> /\ ready' = <<>> /\ waiting' = <<>>
        /\ queue' = queue /\ pc'[w] = IF frame[w] = NoConn THEN "idle" ELSE "log"
        /\ UNCHANGED <<frame, running, respInfo, startTime, conn, sent>>
    BY <1>0, <1>3, <1>10 DEF LeaveStrand, net
  <2> QED
    BY <1>0, <2>1 DEF Alone, Told
<1>11. CASE HandleApiRequest(w)
  <2>1. /\ pc[w] = "handle" /\ running[w] \in Conns /\ running[w] = frame[w]
        /\ pc'[w] = "invoke" /\ running'[w] = NoConn
        /\ UNCHANGED <<queue, ready, waiting, frame, startTime>>
    BY <1>0, <1>3, <1>11 DEF HandleApiRequest, EndHandler, Alone, strand
  <2>2. Told(w)'
    BY <1>0, <1>3, <1>11, <2>1 DEF HandleApiRequest, Transmit, Told
  <2>3. ready = <<>>
    BY <1>0, <2>1 DEF Alone
  <2> QED
    BY <1>0, <1>3, <2>1, <2>2, <2>3 DEF Alone
<1>12. CASE HandleDeadRequest(w)
  BY <1>0, <1>12 DEF HandleDeadRequest, FrameAlive, Alone
<1>13. CASE OnTick(w)
  <2>1. /\ running[w] = Tick /\ pc[w] = "handle" /\ pc'[w] = "invoke" /\ running'[w] = NoConn
        /\ UNCHANGED <<queue, ready, waiting, frame, startTime>>
    BY <1>3, <1>13 DEF OnTick, EndHandler, strand
  <2> QED
    BY <1>0, <1>3, <2>1 DEF Alone
<1>14. CASE LogResponse(w)
  <2>1. /\ pc[w] = "log" /\ pc'[w] = "idle" /\ frame'[w] = NoConn
        /\ UNCHANGED <<queue, ready, waiting, running>>
    BY <1>3, <1>14 DEF LogResponse, strand
  <2> QED
    BY <1>0, <1>3, <2>1 DEF Alone
<1>15. CASE OnSignal(w)
  <2>1. ~Posted(queue')
    BY <1>0, <1>15, TakeTypes, WorkAssumption DEF OnSignal
  <2> QED
    BY <1>0, <1>15, <2>1 DEF OnSignal, strand, stack, net, Alone, Told
<1> QED
  BY <1>4, <1>5, <1>6, <1>7, <1>8, <1>9, <1>10, <1>11, <1>12, <1>13, <1>14, <1>15 DEF Step

LEMMA SingleInvariant ==
  ASSUME SingleWorker
  PROVE  Spec => []SingleInv
<1>1. Init /\ IInv => SingleInv
  BY EmptySeq, WorkAssumption DEF Init, SingleInv, Posted, In, Alone, Told
<1>2. ASSUME SingleInv, IInv', [Next]_vars
      PROVE  SingleInv'
  <2>1. CASE UNCHANGED vars
    <3>1. UNCHANGED <<queue, waiting, ready, pc, frame, running, respInfo, startTime, conn, sent>>
      BY <2>1 DEF vars, strand, stack, net
    <3> QED
      BY <1>2, <3>1 DEF SingleInv, Posted, In, Alone, Told
  <2> QED
    BY <1>2, <2>1, SingleOutside, SingleStep DEF Next
<1> QED
  BY <1>1, <1>2, Invariant, PTL DEF Spec

\* With one thread no handler outlives the locals of RequestHandler::operator().
THEOREM SingleThreadReferences ==
  ASSUME SingleWorker
  PROVE  Spec => []RequestOutlivesHandler
<1>1. SingleInv => RequestOutlivesHandler
  BY DEF SingleInv, Alone, RequestOutlivesHandler, FrameAlive
<1> QED
  BY <1>1, SingleInvariant, PTL

\* With one thread the log line of a request is about its own response.
THEOREM SingleThreadLog ==
  ASSUME SingleWorker
  PROVE  Spec => []LogMatchesResponse
<1>1. SingleInv => LogMatchesResponse
  BY DEF SingleInv, IInv, TypeOK, Alone, Told, LogMatchesResponse
<1> QED
  BY <1>1, SingleInvariant, PTL
=============================================================================
