------------------------------ MODULE HttpServer ------------------------------
(***************************************************************************)
(* Connections: Listener and Session of http_server.h, the threads of      *)
(* main.cpp that run them, and the clients.  What a handler does with a    *)
(* request is module ApiStrand's; here it only takes its time to answer.   *)
(*                                                                         *)
(* A definition marked (fault) is no part of the model: it is the next one *)
(* with a mistake in it, that a property below tells from the real one.    *)
(***************************************************************************)
EXTENDS Naturals, Sequences, FiniteSets, SequencesExt

CONSTANTS
  Clients,      \* each makes one connection
  Threads,      \* the threads that run the io_context
  Main,         \* the one of them that main() is on
  MaxRequests   \* bound on the requests a client sends

ASSUME ServerAssumption ==
  /\ Main \in Threads
  /\ MaxRequests \in Nat

VARIABLES
  client,      \* "away", in the "backlog", "up", "finished" sending, "gone" with a reset
  asked,       \* how many requests each client has sent, one after the other
  received,    \* the answers it has received, by the numbers of their requests
  session,     \* "none" yet, "open" or "ended"
  taken,       \* how many requests the session has read
  reading,     \* an async_read is under way
  handling,    \* the requests that are with the handler
  done,        \* the requests the handler has done
  writing,     \* the answers that are being written
  expiry,      \* the 30 s of expires_after: not set, "ahead" or "over"
  listening,   \* an async_accept is under way
  failed,      \* an accept failed, or its handler threw
  threads,     \* the threads that are in io_context::run
  process      \* "up", "exited" or "terminated"

conn == <<client, asked, received>>
host == <<listening, failed, threads, process>>
work == <<session, taken, reading, handling, done, writing, expiry>>
vars == <<conn, work, host>>

Numbers == 1 .. MaxRequests

\* What a session has under way.
Pending(c) == Cardinality(handling[c]) + Cardinality(writing[c]) + IF reading[c] THEN 1 ELSE 0

\* Every variable has its type; only an open session has anything under way, and one
\* thing at a time: expires_after must not be called while an operation is pending.
TypeOK ==
  /\ client \in [Clients -> {"away", "backlog", "up", "finished", "gone"}]
  /\ asked \in [Clients -> 0 .. MaxRequests]
  /\ received \in [Clients -> Seq(Numbers)]
  /\ session \in [Clients -> {"none", "open", "ended"}]
  /\ taken \in [Clients -> 0 .. MaxRequests]
  /\ reading \in [Clients -> BOOLEAN]
  /\ handling \in [Clients -> SUBSET Numbers]
  /\ done \in [Clients -> SUBSET Numbers]
  /\ writing \in [Clients -> SUBSET Numbers]
  /\ expiry \in [Clients -> {"none", "ahead", "over"}]
  /\ listening \in BOOLEAN /\ failed \in BOOLEAN
  /\ threads \subseteq Threads
  /\ process \in {"up", "exited", "terminated"}
  /\ \A c \in Clients : Pending(c) = IF session[c] = "open" THEN 1 ELSE 0

Init ==
  /\ client = [c \in Clients |-> "away"]
  /\ asked = [c \in Clients |-> 0]
  /\ received = [c \in Clients |-> <<>>]
  /\ session = [c \in Clients |-> "none"]
  /\ taken = [c \in Clients |-> 0]
  /\ reading = [c \in Clients |-> FALSE]
  /\ handling = [c \in Clients |-> {}]
  /\ done = [c \in Clients |-> {}]
  /\ writing = [c \in Clients |-> {}]
  /\ expiry = [c \in Clients |-> "none"]
  /\ listening = TRUE /\ failed = FALSE
  /\ threads = Threads /\ process = "up"

-----------------------------------------------------------------------------
(* The clients.                                                            *)

Connect(c) ==
  /\ process = "up" /\ client[c] = "away"
  /\ client' = [client EXCEPT ![c] = "backlog"]
  /\ UNCHANGED <<asked, received, work, host>>

\* A client may send its next request before it has the answer to the last.
Ask(c) ==
  /\ client[c] \in {"backlog", "up"} /\ asked[c] < MaxRequests
  /\ asked' = [asked EXCEPT ![c] = @ + 1]
  /\ UNCHANGED <<client, received, work, host>>

\* It closes its sending side, or its connection breaks.
Leave(c) ==
  /\ \/ client[c] = "up" /\ client' = [client EXCEPT ![c] = "finished"]
     \/ client[c] \in {"backlog", "up", "finished"} /\ client' = [client EXCEPT ![c] = "gone"]
  /\ UNCHANGED <<asked, received, work, host>>

-----------------------------------------------------------------------------
(* Listener.                                                               *)

\* (fault) The time of a read is not limited.
ReadUnlimited(c) == reading' = [reading EXCEPT ![c] = TRUE] /\ UNCHANGED expiry

\* Session::Read: from now the client has 30 s.
Read(c) ==
  /\ reading' = [reading EXCEPT ![c] = TRUE]
  /\ expiry' = [expiry EXCEPT ![c] = "ahead"]

\* (fault) DoAccept is left out.
OnAcceptOnce(c) ==
  /\ listening' = FALSE
  /\ client' = [client EXCEPT ![c] = IF @ = "gone" THEN @ ELSE "up"]
  /\ session' = [session EXCEPT ![c] = "open"]
  /\ Read(c)
  /\ UNCHANGED <<failed, threads, process>>

\* OnAccept: a session is made and run, and the next connection accepted.
OnAccept(c) ==
  /\ client' = [client EXCEPT ![c] = IF @ = "gone" THEN @ ELSE "up"]
  /\ session' = [session EXCEPT ![c] = "open"]
  /\ Read(c)
  /\ UNCHANGED host

\* Connections are accepted that were reset while they waited, too.
Waiting(c) == client[c] \in {"backlog", "gone"} /\ session[c] = "none"

Accept(c) ==
  /\ process = "up" /\ listening /\ Waiting(c)
  /\ OnAccept(c)
  /\ UNCHANGED <<asked, received, taken, handling, done, writing>>

\* OnAccept with an error: it returns, and nothing is accepted any more.
AcceptFails ==
  /\ process = "up" /\ listening /\ \E c \in Clients : Waiting(c)
  /\ listening' = FALSE /\ failed' = TRUE
  /\ UNCHANGED <<conn, work, threads, process>>

\* remote_endpoint() throws for a connection that was reset.  The exception leaves
\* io_context::run: a thread of RunWorkers takes the process with it; main() catches it,
\* but only after the other threads of RunWorkers have been joined, and they run on.
AcceptThrows(c) ==
  /\ process = "up" /\ listening /\ Waiting(c) /\ client[c] = "gone"
  /\ listening' = FALSE /\ failed' = TRUE
  /\ \E t \in threads :
       /\ threads' = threads \ {t}
       /\ process' = CASE t # Main -> "terminated"
                       [] t = Main /\ threads = {Main} -> "exited"
                       [] OTHER -> "up"
  /\ UNCHANGED <<conn, work>>

-----------------------------------------------------------------------------
(* Session.                                                                *)

\* The session ends and with it its socket.
Close(c) ==
  /\ session' = [session EXCEPT ![c] = "ended"]
  /\ reading' = [reading EXCEPT ![c] = FALSE]
  /\ expiry' = [expiry EXCEPT ![c] = "none"]

Served(c) == process = "up" /\ session[c] = "open"

\* (fault) The next request is read while this one is handled.
OnReadReadsOn(c) ==
  /\ taken' = [taken EXCEPT ![c] = @ + 1]
  /\ handling' = [handling EXCEPT ![c] = @ \cup {taken'[c]}]
  /\ Read(c)

\* OnRead with a request: HandleRequest.
OnRead(c) ==
  /\ taken' = [taken EXCEPT ![c] = @ + 1]
  /\ handling' = [handling EXCEPT ![c] = @ \cup {taken'[c]}]
  /\ reading' = [reading EXCEPT ![c] = FALSE]
  /\ UNCHANGED expiry

ReadDone(c) ==
  /\ Served(c) /\ reading[c] /\ taken[c] < asked[c]
  /\ OnRead(c)
  /\ UNCHANGED <<conn, session, done, writing, host>>

\* OnRead with end_of_stream.
ReadEnds(c) ==
  /\ Served(c) /\ reading[c]
  /\ client[c] = "finished" /\ taken[c] = asked[c]
  /\ Close(c)
  /\ UNCHANGED <<conn, taken, handling, done, writing, host>>

\* The handler is done with a request and calls send, which is Write.
Write(c) ==
  /\ Served(c)
  /\ \E n \in handling[c] :
       /\ handling' = [handling EXCEPT ![c] = @ \ {n}]
       /\ done' = [done EXCEPT ![c] = @ \cup {n}]
       /\ writing' = [writing EXCEPT ![c] = @ \cup {n}]
  /\ UNCHANGED <<conn, session, taken, reading, expiry, host>>

\* OnWrite: an answer that needs an end of the stream ends the session.
OnWrite(c, close) == IF close THEN Close(c) ELSE Read(c) /\ UNCHANGED session

\* The client gets the answer, unless it is gone.
WriteDone(c) ==
  /\ Served(c)
  /\ \E n \in writing[c], close \in BOOLEAN :
       /\ writing' = [writing EXCEPT ![c] = @ \ {n}]
       /\ received' = IF client[c] = "gone" THEN received
                      ELSE [received EXCEPT ![c] = Append(@, n)]
       /\ OnWrite(c, close)
  /\ UNCHANGED <<client, asked, taken, handling, done, host>>

\* The 30 s of the last Read are over, also while a request is handled or its answer
\* written: Write sets no time of its own.
Expire(c) ==
  /\ Served(c) /\ expiry[c] = "ahead"
  /\ expiry' = [expiry EXCEPT ![c] = "over"]
  /\ UNCHANGED <<conn, session, taken, reading, handling, done, writing, host>>

\* OnRead with an error: the client was silent for too long, or is gone.
ReadFails(c) ==
  /\ Served(c) /\ reading[c]
  /\ expiry[c] = "over" \/ client[c] = "gone"
  /\ Close(c)
  /\ UNCHANGED <<conn, taken, handling, done, writing, host>>

\* (fault) OnWrite does not look at its error.
OnWriteErrorReads(c) == Read(c) /\ UNCHANGED session

\* OnWrite with an error ends the session.
OnWriteError(c) == Close(c)

\* A write that comes late or takes long is given up; one to a client that is gone fails.
WriteFails(c) ==
  /\ Served(c) /\ writing[c] # {}
  /\ expiry[c] = "over" \/ client[c] = "gone"
  /\ OnWriteError(c)
  /\ writing' = [writing EXCEPT ![c] = {}]
  /\ UNCHANGED <<conn, taken, handling, done, host>>

\* SIGINT or SIGTERM: ioc.stop(), every run returns and main() with them.
Signal ==
  /\ process = "up"
  /\ process' = "exited" /\ threads' = {}
  /\ UNCHANGED <<conn, work, listening, failed>>

Next ==
  \/ \E c \in Clients : Connect(c) \/ Ask(c) \/ Leave(c)
  \/ \E c \in Clients : Accept(c) \/ AcceptThrows(c)
  \/ AcceptFails
  \/ \E c \in Clients : ReadDone(c) \/ ReadEnds(c) \/ Write(c) \/ WriteDone(c)
  \/ \E c \in Clients : Expire(c) \/ ReadFails(c) \/ WriteFails(c)
  \/ Signal

\* The threads run what is ready, handlers answer (ApiStrand), and time passes.
Fairness ==
  \A c \in Clients :
    /\ WF_vars(Accept(c))
    /\ WF_vars(ReadDone(c) \/ ReadEnds(c) \/ ReadFails(c))
    /\ WF_vars(Write(c))
    /\ WF_vars(WriteFails(c))
    /\ WF_vars(Expire(c))

Spec == Init /\ [][Next]_vars /\ Fairness

-----------------------------------------------------------------------------
(* Properties.                                                             *)

\* However many requests a client sends ahead, it is answered in their order, each once.
AnswersInOrder == \A c \in Clients : \A i \in DOMAIN received[c] : received[c][i] = i

\* Of what was done for a client at most the last may have gone unanswered, however the
\* session ended: a timeout, a reset, a signal or an exception in another handler.
AtMostOneUnanswered ==
  \A c \in Clients :
    client[c] # "gone" => Cardinality(done[c] \ Range(received[c])) <= 1

\* Until an accept fails or the process ends, nobody waits in the backlog for good.
Accepted ==
  \A c \in Clients :
    client[c] = "backlog" ~> client[c] # "backlog" \/ failed \/ process # "up"

\* No session outlives a client that has nothing more to send: silent, stuck in a write,
\* half closed or reset, its session and its socket are given up.
SessionsEnd == \A c \in Clients : session[c] = "open" ~> session[c] = "ended" \/ process # "up"
=============================================================================
