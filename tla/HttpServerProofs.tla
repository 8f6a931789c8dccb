-------------------------- MODULE HttpServerProofs --------------------------
(***************************************************************************)
(* Any number of clients and threads: a session does one thing at a time,  *)
(* answers in order, and leaves at most one request unanswered.            *)
(***************************************************************************)
EXTENDS HttpServer, SequenceTheorems, FiniteSetTheorems, TLAPS

\* How many answers a client has, if it can still count them.
Answered(c, n) == client[c] # "gone" => Len(received[c]) = n

\* What a session may be doing, with the requests it has done and answered then.
Before(c) ==
  /\ session[c] = "none" /\ ~reading[c] /\ handling[c] = {} /\ writing[c] = {}
  /\ taken[c] = 0 /\ done[c] = {} /\ Answered(c, 0)

Reads(c) ==
  /\ session[c] = "open" /\ reading[c] /\ handling[c] = {} /\ writing[c] = {}
  /\ done[c] = 1 .. taken[c] /\ Answered(c, taken[c])

Handles(c) ==
  /\ session[c] = "open" /\ ~reading[c] /\ handling[c] = {taken[c]} /\ writing[c] = {}
  /\ taken[c] >= 1 /\ done[c] = 1 .. taken[c] - 1 /\ Answered(c, taken[c] - 1)

Writes(c) ==
  /\ session[c] = "open" /\ ~reading[c] /\ handling[c] = {} /\ writing[c] = {taken[c]}
  /\ taken[c] >= 1 /\ done[c] = 1 .. taken[c] /\ Answered(c, taken[c] - 1)

After(c) ==
  /\ session[c] = "ended" /\ ~reading[c] /\ handling[c] = {} /\ writing[c] = {}
  /\ done[c] = 1 .. taken[c] /\ (Answered(c, taken[c]) \/ Answered(c, taken[c] - 1))

Ordered(c) == \A i \in DOMAIN received[c] : received[c][i] = i

Orderly(c) ==
  /\ Before(c) \/ Reads(c) \/ Handles(c) \/ Writes(c) \/ After(c)
  /\ Ordered(c)

IInv == TypeOK /\ \A c \in Clients : Orderly(c)

\* TypeOK but for what follows from Orderly.
Types ==
  /\ client \in [Clients -> {"away", "backlog", "up", "finished", "gone"}]
  /\ asked \in [Clients -> 0 .. MaxRequests]
  /\ received \in [Clients -> Seq(Numbers)]
  /\ session \in [Clients -> {"none", "open", "ended"}]
  /\ taken \in [Clients -> 0 .. MaxRequests]
  /\ reading \in [Clients -> BOOLEAN]
  /\ handling \in [Clients -> SUBSET Numbers]
  /\ done \in [Clients -> SUBSET Numbers]
  /\ writing \in [Clients -> SUBSET Numbers]
  /\ expiry \in [Clients -> {"none", "ahead", "over"}]
  /\ listening \in BOOLEAN /\ failed \in BOOLEAN
  /\ threads \subseteq Threads
  /\ process \in {"up", "exited", "terminated"}

\* One thing at a time, as a number.
LEMMA OnePending ==
  ASSUME NEW c \in Clients, Orderly(c)
  PROVE  Pending(c) = IF session[c] = "open" THEN 1 ELSE 0
<1>1. Cardinality({}) = 0 /\ \A x : Cardinality({x}) = 1
  BY FS_EmptySet, FS_Singleton
<1>2. CASE Reads(c)
  <2>1. /\ Cardinality(handling[c]) = 0 /\ Cardinality(writing[c]) = 0
        /\ (IF reading[c] THEN 1 ELSE 0) = 1 /\ session[c] = "open"
    BY <1>1, <1>2, Zenon DEF Reads
  <2> QED
    BY <2>1 DEF Pending
<1>3. CASE Handles(c)
  <2>1. /\ Cardinality(handling[c]) = 1 /\ Cardinality(writing[c]) = 0
        /\ (IF reading[c] THEN 1 ELSE 0) = 0 /\ session[c] = "open"
    BY <1>1, <1>3, Zenon DEF Handles
  <2> QED
    BY <2>1 DEF Pending
<1>4. CASE Writes(c)
  <2>1. /\ Cardinality(handling[c]) = 0 /\ Cardinality(writing[c]) = 1
        /\ (IF reading[c] THEN 1 ELSE 0) = 0 /\ session[c] = "open"
    BY <1>1, <1>4, Zenon DEF Writes
  <2> QED
    BY <2>1 DEF Pending
<1>5. CASE Before(c) \/ After(c)
  <2>1. /\ Cardinality(handling[c]) = 0 /\ Cardinality(writing[c]) = 0
        /\ (IF reading[c] THEN 1 ELSE 0) = 0 /\ session[c] \in {"none", "ended"}
    BY <1>1, <1>5, Zenon DEF Before, After
  <2> QED
    BY <2>1 DEF Pending
<1> QED
  BY <1>2, <1>3, <1>4, <1>5 DEF Orderly

LEMMA TypesSuffice == (Types /\ \A c \in Clients : Orderly(c)) <=> IInv
<1>1. ASSUME \A c \in Clients : Orderly(c)
      PROVE  \A c \in Clients : Pending(c) = IF session[c] = "open" THEN 1 ELSE 0
  BY <1>1, OnePending
<1> QED
  BY <1>1 DEF IInv, TypeOK, Types

LEMMA TypesSufficeNext == (Types /\ \A c \in Clients : Orderly(c))' <=> IInv'
BY TypesSuffice, PTL

LEMMA InitInv == Init => IInv
<1> SUFFICES ASSUME Init PROVE IInv
  OBVIOUS
<1>1. Types
  <2>1. <<>> \in Seq(Numbers) /\ 0 \in 0 .. MaxRequests
    BY EmptySeq, ServerAssumption
  <2> QED
    BY <2>1 DEF Types, Init
<1>2. ASSUME NEW c \in Clients PROVE Orderly(c)
  BY EmptySeq DEF Init, Orderly, Before, Answered, Ordered
<1> QED
  BY <1>1, <1>2, TypesSuffice

\* A client whose connection and session are left alone.
LEMMA Untouched ==
  ASSUME NEW c \in Clients, Orderly(c),
         client[c] = "gone" => client'[c] = "gone",
         received'[c] = received[c], session'[c] = session[c], taken'[c] = taken[c],
         reading'[c] = reading[c], handling'[c] = handling[c], done'[c] = done[c],
         writing'[c] = writing[c]
  PROVE  Orderly(c)'
BY DEF Orderly, Before, Reads, Handles, Writes, After, Answered, Ordered

\* The steps of the clients, of time and of the process as a whole.
LEMMA OutsideStep ==
  ASSUME IInv,
         \/ \E c \in Clients : Connect(c) \/ Ask(c) \/ Leave(c) \/ Expire(c) \/ AcceptThrows(c)
         \/ AcceptFails \/ Signal \/ UNCHANGED vars
  PROVE  IInv'
<1>1. Types /\ \A d \in Clients : Orderly(d)
  BY TypesSuffice
<1>2. Types' /\ UNCHANGED <<received, session, taken, reading, handling, done, writing>>
      /\ \A d \in Clients : client[d] = "gone" => client'[d] = "gone"
  <2>1. CASE \E c \in Clients : Connect(c)
    BY <1>1, <2>1 DEF Types, Connect, work, host
  <2>2. CASE \E c \in Clients : Ask(c)
    BY <1>1, <2>2, ServerAssumption DEF Types, Ask, work, host
  <2>3. CASE \E c \in Clients : Leave(c)
    BY <1>1, <2>3 DEF Types, Leave, work, host
  <2>4. CASE \E c \in Clients : Expire(c)
    BY <1>1, <2>4 DEF Types, Expire, conn, host
  <2>5. CASE \E c \in Clients : AcceptThrows(c)
    BY <1>1, <2>5 DEF Types, AcceptThrows, conn, work
  <2>6. CASE AcceptFails \/ Signal \/ UNCHANGED vars
    BY <1>1, <2>6 DEF Types, AcceptFails, Signal, vars, conn, work, host
  <2> QED
    BY <2>1, <2>2, <2>3, <2>4, <2>5, <2>6
<1>3. ASSUME NEW d \in Clients PROVE Orderly(d)'
  BY <1>1, <1>2, Untouched
<1> QED
  BY <1>2, <1>3, TypesSufficeNext

\* Of the others an accept, a read or a write changes nothing.
Apart(c) ==
  \A d \in Clients \ {c} :
    /\ client'[d] = client[d] /\ received'[d] = received[d] /\ session'[d] = session[d]
    /\ taken'[d] = taken[d] /\ reading'[d] = reading[d] /\ handling'[d] = handling[d]
    /\ done'[d] = done[d] /\ writing'[d] = writing[d]

LEMMA OneClient ==
  ASSUME IInv, NEW c \in Clients, Types', Apart(c), Orderly(c)'
  PROVE  IInv'
<1>1. ASSUME NEW d \in Clients PROVE Orderly(d)'
  <2>1. CASE d = c
    BY <2>1
  <2>2. CASE d # c
    BY <2>2, Untouched DEF IInv, Apart
  <2> QED
    BY <2>1, <2>2
<1> QED
  BY <1>1, TypesSufficeNext

LEMMA AcceptStep == ASSUME IInv, NEW c \in Clients, Accept(c) PROVE IInv'
<1>1. Types /\ Orderly(c) /\ session[c] = "none"
  BY TypesSuffice DEF Accept, Waiting
<1>2. /\ client' = [client EXCEPT ![c] = IF @ = "gone" THEN @ ELSE "up"]
      /\ session' = [session EXCEPT ![c] = "open"]
      /\ reading' = [reading EXCEPT ![c] = TRUE]
      /\ expiry' = [expiry EXCEPT ![c] = "ahead"]
      /\ UNCHANGED <<asked, received, taken, handling, done, writing, host>>
  BY DEF Accept, OnAccept, Read
<1>3. Types' /\ Apart(c)
  BY <1>1, <1>2 DEF Types, Apart, host
<1>4. Before(c) /\ Ordered(c)
  BY <1>1 DEF Orderly, Reads, Handles, Writes, After
<1>5. Orderly(c)'
  <2>1. /\ session'[c] = "open" /\ reading'[c] /\ handling'[c] = handling[c] /\ writing'[c] = writing[c]
        /\ taken'[c] = taken[c] /\ done'[c] = done[c] /\ received'[c] = received[c]
        /\ client'[c] # "gone" => client[c] # "gone"
    BY <1>1, <1>2 DEF Types
  <2>2. Reads(c)'
    BY <1>4, <2>1 DEF Before, Reads, Answered
  <2> QED
    BY <1>4, <2>1, <2>2 DEF Orderly, Ordered
<1> QED
  BY <1>3, <1>5, OneClient

\* The session closes with what it has done so far.
LEMMA ReadEndsStep == ASSUME IInv, NEW c \in Clients, ReadEnds(c) \/ ReadFails(c) PROVE IInv'
<1>1. Types /\ Orderly(c) /\ session[c] = "open" /\ reading[c]
  BY TypesSuffice DEF ReadEnds, ReadFails, Served
<1>2. /\ session' = [session EXCEPT ![c] = "ended"]
      /\ reading' = [reading EXCEPT ![c] = FALSE]
      /\ expiry' = [expiry EXCEPT ![c] = "none"]
      /\ UNCHANGED <<conn, taken, handling, done, writing, host>>
  BY DEF ReadEnds, ReadFails, Close
<1>3. Types' /\ Apart(c)
  BY <1>1, <1>2 DEF Types, Apart, host, conn
<1>4. Reads(c) /\ Ordered(c)
  BY <1>1 DEF Orderly, Before, Handles, Writes, After
<1>5. Orderly(c)'
  <2>1. /\ session'[c] = "ended" /\ ~reading'[c] /\ handling'[c] = handling[c] /\ writing'[c] = writing[c]
        /\ taken'[c] = taken[c] /\ done'[c] = done[c] /\ received'[c] = received[c]
        /\ client'[c] = client[c]
    BY <1>1, <1>2 DEF Types, conn
  <2>2. After(c)'
    BY <1>4, <2>1 DEF Reads, After, Answered
  <2> QED
    BY <1>4, <2>1, <2>2 DEF Orderly, Ordered
<1> QED
  BY <1>3, <1>5, OneClient

LEMMA ReadDoneStep == ASSUME IInv, NEW c \in Clients, ReadDone(c) PROVE IInv'
<1>1. Types /\ Orderly(c) /\ session[c] = "open" /\ reading[c] /\ taken[c] < asked[c]
  BY TypesSuffice DEF ReadDone, Served
<1>2. Reads(c) /\ Ordered(c)
  BY <1>1 DEF Orderly, Before, Handles, Writes, After
<1>3. taken[c] \in Nat /\ taken[c] + 1 \in 0 .. MaxRequests /\ taken[c] + 1 \in Numbers
  BY <1>1, ServerAssumption DEF Types, Numbers
<1>4. /\ taken' = [taken EXCEPT ![c] = @ + 1]
      /\ handling' = [handling EXCEPT ![c] = @ \cup {taken'[c]}]
      /\ reading' = [reading EXCEPT ![c] = FALSE]
      /\ UNCHANGED <<conn, session, done, writing, expiry, host>>
  BY DEF ReadDone, OnRead
<1>5. taken'[c] = taken[c] + 1 /\ handling'[c] = {taken'[c]}
  BY <1>1, <1>2, <1>4 DEF Types, Reads
<1>6. Types' /\ Apart(c)
  <2>1. handling' \in [Clients -> SUBSET Numbers]
    BY <1>1, <1>3, <1>4, <1>5 DEF Types
  <2> QED
    BY <1>1, <1>3, <1>4, <2>1 DEF Types, Apart, host, conn
<1>7. Orderly(c)'
  <2>1. /\ session'[c] = "open" /\ ~reading'[c] /\ writing'[c] = writing[c]
        /\ done'[c] = done[c] /\ received'[c] = received[c] /\ client'[c] = client[c]
    BY <1>1, <1>4 DEF Types, conn
  <2>2. taken'[c] >= 1 /\ taken'[c] - 1 = taken[c]
    BY <1>3, <1>5
  <2>3. Handles(c)'
    BY <1>2, <1>5, <2>1, <2>2 DEF Reads, Handles, Answered
  <2> QED
    BY <1>2, <2>1, <2>3 DEF Orderly, Ordered
<1> QED
  BY <1>6, <1>7, OneClient

LEMMA WriteStep == ASSUME IInv, NEW c \in Clients, Write(c) PROVE IInv'
<1>1. Types /\ Orderly(c) /\ session[c] = "open" /\ handling[c] # {}
  BY TypesSuffice DEF Write, Served
<1>2. Handles(c) /\ Ordered(c)
  BY <1>1 DEF Orderly, Before, Reads, Writes, After
<1>3. taken[c] \in Nat /\ taken[c] \in Numbers
  BY <1>1, <1>2, ServerAssumption DEF Types, Numbers, Handles
<1>4. /\ handling' = [handling EXCEPT ![c] = @ \ {taken[c]}]
      /\ done' = [done EXCEPT ![c] = @ \cup {taken[c]}]
      /\ writing' = [writing EXCEPT ![c] = @ \cup {taken[c]}]
      /\ UNCHANGED <<conn, session, taken, reading, expiry, host>>
  BY <1>2 DEF Write, Handles
<1>5. Types' /\ Apart(c)
  BY <1>1, <1>3, <1>4 DEF Types, Apart, host, conn
<1>6. Orderly(c)'
  <2>1. /\ session'[c] = session[c] /\ reading'[c] = reading[c] /\ taken'[c] = taken[c]
        /\ handling'[c] = handling[c] \ {taken[c]} /\ writing'[c] = writing[c] \cup {taken[c]}
        /\ done'[c] = done[c] \cup {taken[c]}
        /\ received'[c] = received[c] /\ client'[c] = client[c]
    BY <1>1, <1>4 DEF Types, conn
  <2>2. done'[c] = 1 .. taken[c]
    BY <1>2, <1>3, <2>1 DEF Handles
  <2>3. handling'[c] = {} /\ writing'[c] = {taken[c]}
    BY <1>2, <2>1 DEF Handles
  <2>4. Writes(c)'
    BY <1>2, <2>1, <2>2, <2>3 DEF Handles, Writes, Answered
  <2> QED
    BY <1>2, <2>1, <2>4 DEF Orderly, Ordered
<1> QED
  BY <1>5, <1>6, OneClient

LEMMA WriteFailsStep == ASSUME IInv, NEW c \in Clients, WriteFails(c) PROVE IInv'
<1>1. Types /\ Orderly(c) /\ session[c] = "open" /\ writing[c] # {}
  BY TypesSuffice DEF WriteFails, Served
<1>2. Writes(c) /\ Ordered(c)
  BY <1>1 DEF Orderly, Before, Reads, Handles, After
<1>3. /\ session' = [session EXCEPT ![c] = "ended"]
      /\ reading' = [reading EXCEPT ![c] = FALSE]
      /\ expiry' = [expiry EXCEPT ![c] = "none"]
      /\ writing' = [writing EXCEPT ![c] = {}]
      /\ UNCHANGED <<conn, taken, handling, done, host>>
  BY DEF WriteFails, OnWriteError, Close
<1>4. Types' /\ Apart(c)
  BY <1>1, <1>3 DEF Types, Apart, host, conn
<1>5. Orderly(c)'
  <2>1. /\ session'[c] = "ended" /\ ~reading'[c] /\ handling'[c] = handling[c] /\ writing'[c] = {}
        /\ taken'[c] = taken[c] /\ done'[c] = done[c] /\ received'[c] = received[c]
        /\ client'[c] = client[c]
    BY <1>1, <1>3 DEF Types, conn
  <2>2. After(c)'
    BY <1>2, <2>1 DEF Writes, After, Answered
  <2> QED
    BY <1>2, <2>1, <2>2 DEF Orderly, Ordered
<1> QED
  BY <1>4, <1>5, OneClient

LEMMA WriteDoneStep == ASSUME IInv, NEW c \in Clients, WriteDone(c) PROVE IInv'
<1>1. Types /\ Orderly(c) /\ session[c] = "open" /\ writing[c] # {}
  BY TypesSuffice DEF WriteDone, Served
<1>2. Writes(c) /\ Ordered(c)
  BY <1>1 DEF Orderly, Before, Reads, Handles, After
<1>3. taken[c] \in Nat /\ taken[c] \in Numbers
  BY <1>1, <1>2, ServerAssumption DEF Types, Numbers, Writes
<1>4. PICK close \in BOOLEAN :
        /\ writing' = [writing EXCEPT ![c] = @ \ {taken[c]}]
        /\ received' = IF client[c] = "gone" THEN received
                       ELSE [received EXCEPT ![c] = Append(@, taken[c])]
        /\ OnWrite(c, close)
  BY <1>2 DEF WriteDone, Writes
<1>5. UNCHANGED <<client, asked, taken, handling, done, host>>
  BY DEF WriteDone
<1>6. /\ session' \in [Clients -> {"none", "open", "ended"}]
      /\ reading' \in [Clients -> BOOLEAN]
      /\ expiry' \in [Clients -> {"none", "ahead", "over"}]
      /\ \A d \in Clients \ {c} : session'[d] = session[d] /\ reading'[d] = reading[d]
      /\ \/ session'[c] = "open" /\ reading'[c]
         \/ session'[c] = "ended" /\ ~reading'[c]
  <2>1. CASE close
    BY <1>1, <1>4, <2>1 DEF OnWrite, Close, Types
  <2>2. CASE ~close
    BY <1>1, <1>4, <2>2 DEF OnWrite, Read, Types
  <2> QED
    BY <2>1, <2>2
<1>7. /\ received[c] \in Seq(Numbers) /\ Len(received[c]) \in Nat
      /\ DOMAIN received[c] = 1 .. Len(received[c])
      /\ Append(received[c], taken[c]) \in Seq(Numbers)
      /\ Len(Append(received[c], taken[c])) = Len(received[c]) + 1
      /\ \A i \in 1 .. Len(received[c]) : Append(received[c], taken[c])[i] = received[c][i]
      /\ Append(received[c], taken[c])[Len(received[c]) + 1] = taken[c]
      /\ DOMAIN Append(received[c], taken[c]) = 1 .. Len(received[c]) + 1
  BY <1>1, <1>3, AppendProperties, LenProperties DEF Types
<1>8. Types' /\ Apart(c)
  BY <1>1, <1>4, <1>5, <1>6, <1>7 DEF Types, Apart, host
<1>9. Orderly(c)'
  <2>1. /\ writing'[c] = writing[c] \ {taken[c]} /\ handling'[c] = handling[c]
        /\ taken'[c] = taken[c] /\ done'[c] = done[c] /\ client'[c] = client[c]
        /\ client[c] = "gone" => received'[c] = received[c]
        /\ client[c] # "gone" => received'[c] = Append(received[c], taken[c])
    BY <1>1, <1>4, <1>5 DEF Types
  <2>2. Answered(c, taken[c])'
    BY <1>2, <1>3, <1>7, <2>1 DEF Writes, Answered
  <2>3. Ordered(c)'
    <3>1. CASE client[c] = "gone"
      BY <1>2, <2>1, <3>1 DEF Ordered
    <3>2. CASE client[c] # "gone"
      <4>1. Len(received[c]) + 1 = taken[c]
        BY <1>2, <1>3, <1>7, <3>2 DEF Writes, Answered
      <4>2. \A i \in 1 .. Len(received[c]) + 1 : Append(received[c], taken[c])[i] = i
        BY <1>2, <1>7, <4>1 DEF Ordered
      <4> QED
        BY <1>7, <2>1, <3>2, <4>2 DEF Ordered
    <3> QED
      BY <3>1, <3>2
  <2>4. Reads(c)' \/ After(c)'
    BY <1>2, <1>6, <2>1, <2>2 DEF Writes, Reads, After, Answered
  <2> QED
    BY <2>3, <2>4 DEF Orderly
<1> QED
  BY <1>8, <1>9, OneClient

LEMMA NextInv == IInv /\ [Next]_vars => IInv'
BY OutsideStep, AcceptStep, ReadEndsStep, ReadDoneStep, WriteStep, WriteFailsStep, WriteDoneStep
   DEF Next

LEMMA Invariance == Spec => []IInv
<1>1. Init => IInv
  BY InitInv
<1>2. IInv /\ [Next]_vars => IInv'
  BY NextInv
<1> QED
  BY <1>1, <1>2, PTL DEF Spec

\* For any number of clients, threads and requests, a session has one thing under way as
\* long as it is open, and nothing afterwards.
THEOREM TypeCorrect == Spec => []TypeOK
<1>1. IInv => TypeOK
  BY DEF IInv
<1> QED
  BY <1>1, Invariance, PTL

\* Whoever sends requests ahead is answered in their order, each once.
THEOREM OrderKept == Spec => []AnswersInOrder
<1>1. IInv => AnswersInOrder
  BY DEF IInv, Orderly, Ordered, AnswersInOrder
<1> QED
  BY <1>1, Invariance, PTL

\* Of an orderly session at most the last request is done and not answered.
LEMMA LastMissing ==
  ASSUME IInv, NEW c \in Clients, client[c] # "gone"
  PROVE  done[c] \ Range(received[c]) \subseteq {taken[c]}
<1>1. Types /\ Orderly(c)
  BY TypesSuffice
<1>2. /\ taken[c] \in Nat /\ Len(received[c]) \in Nat
      /\ DOMAIN received[c] = 1 .. Len(received[c])
      /\ \A i \in 1 .. Len(received[c]) : received[c][i] = i
  BY <1>1, LenProperties, ServerAssumption DEF Types, Orderly, Ordered
<1>3. 1 .. Len(received[c]) \subseteq Range(received[c])
  BY <1>2 DEF Range
<1>4. done[c] \subseteq 1 .. taken[c] /\ Len(received[c]) >= taken[c] - 1
  BY <1>1, <1>2 DEF Orderly, Before, Reads, Handles, Writes, After, Answered
<1> QED
  BY <1>2, <1>3, <1>4

\* However a session ends, at most one request of a client that is still there was done
\* and not answered.
THEOREM OneUnanswered == Spec => []AtMostOneUnanswered
<1>1. ASSUME IInv, NEW c \in Clients, client[c] # "gone"
      PROVE  Cardinality(done[c] \ Range(received[c])) <= 1
  <2>1. Cardinality({taken[c]}) = 1 /\ IsFiniteSet({taken[c]})
    BY FS_Singleton
  <2>2. Cardinality(done[c] \ Range(received[c])) <= Cardinality({taken[c]})
    BY <1>1, <2>1, LastMissing, FS_Subset
  <2> QED
    BY <2>1, <2>2
<1>2. IInv => AtMostOneUnanswered
  BY <1>1 DEF AtMostOneUnanswered
<1> QED
  BY <1>2, Invariance, PTL
=============================================================================
