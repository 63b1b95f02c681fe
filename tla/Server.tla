------------------------------- MODULE Server -------------------------------
(***************************************************************************)
(* Server::run (lib/Cserve.cpp): the main loop that polls every socket,    *)
(* the worker threads of process_request, the signal thread sig_thread,    *)
(* and the clients that connect, send requests and hang up.                *)
(*                                                                         *)
(* The main loop takes a snapshot of the polled sockets                    *)
(* (get_sockets_arr + poll) and then walks an index over it while its      *)
(* iterations add sockets to and remove sockets from the list the index    *)
(* refers to.  One iteration is one step here; the steps of the workers,   *)
(* of the signal thread and of the clients interleave with them.           *)
(*                                                                         *)
(* Clients do not pipeline: a client sends its next request only when the  *)
(* previous one has been read.                                             *)
(***************************************************************************)
EXTENDS SocketControl, FiniteSets

CONSTANTS Conns,            \* client connections
          BadSock,          \* the descriptor -1 of a failed accept()
          NoConn,           \* "no connection"
          UseSsl,           \* _ssl_port > 0
          KeepAliveTimeout, \* _keep_alive_timeout, seconds
          MaxReqs,          \* bound: requests one client sends
          FdLimit,          \* connections open at once before accept() fails
          PollLimit,        \* RLIMIT_NOFILE, above which poll() fails
          OutOfRange,       \* what a read behind the snapshot may yield
          HangupRevents     \* what poll() reports for a closed peer

Revents == {"NONE", "IN", "HUP"}

ASSUME ServerAssumption ==
  /\ UseSsl \in BOOLEAN
  /\ KeepAliveTimeout \in Nat
  /\ MaxReqs \in Nat
  /\ FdLimit \in Nat
  /\ PollLimit \in Nat
  /\ OutOfRange \in SUBSET Revents /\ OutOfRange # {}
  /\ HangupRevents \in SUBSET {"IN", "HUP"} /\ HangupRevents # {}

ASSUME SocketsDistinct ==
  /\ Workers \cap (Conns \cup {StopSock, HttpSock, SslSock, BadSock, NoConn}) = {}
  /\ Conns \cap {StopSock, HttpSock, SslSock, BadSock, NoConn} = {}
  /\ BadSock \notin {StopSock, HttpSock, SslSock, NoConn}
  /\ StopSock # HttpSock /\ StopSock # SslSock /\ HttpSock # SslSock

Ports == {"http", "ssl"}

VARIABLES
  sc,           \* the SocketControl instance
  threadQueue,  \* thread_queue of ThreadControl: the idle threads
  main,         \* control point of Server::run
  idx,          \* the index i of the loop over the snapshot
  snap,         \* revents of the snapshot open_sockets
  running,      \* Server::running
  accepting,    \* connection in the TLS handshake of accept_connection
  toWorker,     \* control pipes, main to worker
  toMain,       \* control pipes, worker to main
  wpc,          \* control point of each worker
  job,          \* connection each worker is serving
  sig,          \* the signal thread
  sigPending,   \* SIGINT or SIGTERM delivered to the process
  stoppipe,     \* "none" before socketpair(), then "empty" or "exit"
  fd,           \* server side descriptor of each connection
  peer,         \* client side of each connection
  inbox,        \* requests the client has sent and no worker has read
  reqs,         \* requests the client has sent so far
  backlog       \* connections in the backlog of each listener

mainVars   == <<sc, threadQueue, main, idx, snap, running, accepting>>
pipeVars   == <<toWorker, toMain>>
workerVars == <<wpc, job>>
sigVars    == <<sig, sigPending, stoppipe>>
connVars   == <<fd, peer, inbox, reqs, backlog>>
vars == <<mainVars, pipeVars, workerVars, sigVars, connVars>>

Msg(type, c) == [type |-> type, sock |-> c]

Jobs == Conns \cup {BadSock}

ToWorkerMsgs == {Msg("PROCESS_REQUEST", c) : c \in Jobs} \cup {Msg("EXIT", NoConn)}

ToMainMsgs ==
  {Msg(t, c) : t \in {"FINISHED_AND_CONTINUE", "FINISHED_AND_CLOSE"}, c \in Jobs}

Sockets == Workers \cup Jobs \cup {StopSock, HttpSock, SslSock}

SocketControls ==
  [open : Seq(Sockets), waiting : Seq(Jobs), working : SUBSET Jobs,
   nmsg : Int, stop : Int, http : Int, ssl : Int, dyn : Int]

(* Type correctness of the main loop, the threads, the pipes between them  *)
(* and the connections.                                                    *)
TypeOK ==
  /\ sc \in SocketControls
  /\ threadQueue \in Seq(Workers)
  /\ main \in {"start", "setup", "poll", "scan", "handshake", "join_sig",
               "join_workers", "done", "aborted"}
  /\ idx \in Nat
  /\ snap \in Seq(Revents)
  /\ running \in BOOLEAN
  /\ accepting \in Conns \cup {NoConn}
  /\ toWorker \in [Workers -> Seq(ToWorkerMsgs)]
  /\ toMain \in [Workers -> Seq(ToMainMsgs)]
  /\ wpc \in [Workers -> {"poll", "reading", "handling", "gone"}]
  /\ job \in [Workers -> Jobs \cup {NoConn}]
  /\ sig \in {"off", "wait", "returned"}
  /\ sigPending \in BOOLEAN
  /\ stoppipe \in {"none", "empty", "exit"}
  /\ fd \in [Conns -> {"none", "open", "closed", "reclosed"}]
  /\ peer \in [Conns -> {"none", "open", "closed"}]
  /\ inbox \in [Conns -> 0..1]
  /\ reqs \in [Conns -> 0..MaxReqs]
  /\ backlog \in [Ports -> Seq(Conns)]

Init ==
  /\ sc = NewSocketControl
  /\ threadQueue = [k \in 1..NThreads |-> k - 1]
  /\ main = "start"
  /\ idx = 0 /\ snap = <<>> /\ running = FALSE /\ accepting = NoConn
  /\ toWorker = [w \in Workers |-> <<>>]
  /\ toMain = [w \in Workers |-> <<>>]
  /\ wpc = [w \in Workers |-> "poll"]
  /\ job = [w \in Workers |-> NoConn]
  /\ sig = "off" /\ sigPending = FALSE /\ stoppipe = "none"
  /\ fd = [c \in Conns |-> "none"]
  /\ peer = [c \in Conns |-> "none"]
  /\ inbox = [c \in Conns |-> 0]
  /\ reqs = [c \in Conns |-> 0]
  /\ backlog = [p \in Ports |-> <<>>]

-----------------------------------------------------------------------------
(* close_socket on a set of descriptors.  Closing -1 does nothing; closing *)
(* a descriptor a second time is remembered as "reclosed".                 *)
close_socket(S) ==
  [c \in Conns |-> IF c \notin S THEN fd[c]
                   ELSE IF fd[c] = "open" THEN "closed" ELSE "reclosed"]

OpenFds == {c \in Conns : fd[c] = "open"}

-----------------------------------------------------------------------------
(* The clients and the sender of signals: the environment.                 *)

Connect(c, p) ==
  /\ peer[c] = "none"
  /\ p = "ssl" => UseSsl
  /\ main \in {"poll", "scan", "handshake"} /\ running
  /\ peer' = [peer EXCEPT ![c] = "open"]
  /\ backlog' = [backlog EXCEPT ![p] = Append(@, c)]
  /\ UNCHANGED <<mainVars, pipeVars, workerVars, sigVars, fd, inbox, reqs>>

ClientSend(c) ==
  /\ peer[c] = "open" /\ inbox[c] = 0 /\ reqs[c] < MaxReqs
  /\ inbox' = [inbox EXCEPT ![c] = 1]
  /\ reqs' = [reqs EXCEPT ![c] = @ + 1]
  /\ UNCHANGED <<mainVars, pipeVars, workerVars, sigVars, fd, peer, backlog>>

ClientClose(c) ==
  /\ peer[c] = "open"
  /\ peer' = [peer EXCEPT ![c] = "closed"]
  /\ UNCHANGED <<mainVars, pipeVars, workerVars, sigVars, fd, inbox, reqs, backlog>>

Signal ==
  /\ sig # "off" /\ ~sigPending
  /\ sigPending' = TRUE
  /\ UNCHANGED <<mainVars, pipeVars, workerVars, connVars, sig, stoppipe>>

-----------------------------------------------------------------------------
(* sig_thread: sigwait(), then stop(), which sends EXIT into stoppipe[1].  *)
(* Before socketpair() has run, stoppipe[1] is -1 and the message is lost. *)

SigThread ==
  /\ sig = "wait" /\ sigPending
  /\ sig' = "returned"
  /\ stoppipe' = IF stoppipe = "none" THEN "none" ELSE "exit"
  /\ UNCHANGED <<mainVars, pipeVars, workerVars, connVars, sigPending>>

-----------------------------------------------------------------------------
(* process_request: the loop of a worker thread.                           *)

WorkerReceive(w) ==
  /\ wpc[w] = "poll" /\ toWorker[w] # <<>>
  /\ toWorker' = [toWorker EXCEPT ![w] = Tail(@)]
  /\ LET m == Head(toWorker[w])
     IN  \/ /\ m.type = "PROCESS_REQUEST"
            /\ wpc' = [wpc EXCEPT ![w] = "reading"]
            /\ job' = [job EXCEPT ![w] = m.sock]
         \/ /\ m.type = "EXIT"
            /\ wpc' = [wpc EXCEPT ![w] = "gone"]
            /\ UNCHANGED job
  /\ UNCHANGED <<mainVars, toMain, sigVars, connVars>>

(* The worker's last act on a request: the finished message. *)
Finish_AfterReset(w, type) ==
  /\ toMain' = [toMain EXCEPT ![w] = Append(@, Msg(type, NoConn))]
  /\ wpc' = [wpc EXCEPT ![w] = "poll"]
  /\ job' = [job EXCEPT ![w] = NoConn]

Finish(w, type) ==
  /\ toMain' = [toMain EXCEPT ![w] = Append(@, Msg(type, job[w]))]
  /\ wpc' = [wpc EXCEPT ![w] = "poll"]
  /\ job' = [job EXCEPT ![w] = NoConn]

(* The constructor of Connection reads the request from the socket. *)
WorkerRead(w) ==
  /\ wpc[w] = "reading"
  /\ job[w] \in OpenFds /\ inbox[job[w]] = 1
  /\ inbox' = [inbox EXCEPT ![job[w]] = 0]
  /\ wpc' = [wpc EXCEPT ![w] = "handling"]
  /\ UNCHANGED <<mainVars, pipeVars, job, sigVars, fd, peer, reqs, backlog>>

(* The read fails at the end of the input, on a descriptor that is closed  *)
(* or -1, and after SO_RCVTIMEO, which is set when the timeout is not 0.   *)
(* InputFailure makes processRequest return CLOSE.                         *)
WorkerReadFails(w) ==
  /\ wpc[w] = "reading"
  /\ \/ job[w] \notin OpenFds
     \/ /\ job[w] \in OpenFds /\ inbox[job[w]] = 0
        /\ peer[job[w]] = "closed" \/ KeepAliveTimeout > 0
  /\ Finish(w, "FINISHED_AND_CLOSE")
  /\ UNCHANGED <<mainVars, toWorker, sigVars, connVars>>

(* The handler has run.  processRequest returns CONTINUE for a request     *)
(* with a Connection header other than "close", whatever the timeout; it   *)
(* returns CLOSE otherwise and after an Error or an InputFailure.          *)
WorkerDone(w, type) ==
  /\ wpc[w] = "handling"
  /\ Finish(w, type)
  /\ UNCHANGED <<mainVars, toWorker, sigVars, connVars>>

Worker(w) ==
  \/ WorkerReceive(w)
  \/ WorkerRead(w)
  \/ WorkerReadFails(w)
  \/ \E type \in {"FINISHED_AND_CONTINUE", "FINISHED_AND_CLOSE"} : WorkerDone(w, type)

-----------------------------------------------------------------------------
(* Server::run up to the loop.                                             *)

StartSigThread ==
  /\ main = "start"
  /\ main' = "setup" /\ sig' = "wait"
  /\ UNCHANGED <<sc, threadQueue, idx, snap, running, accepting, pipeVars,
                 workerVars, sigPending, stoppipe, connVars>>

OpenSockets ==
  /\ main = "setup"
  /\ stoppipe' = "empty"
  /\ sc' = LET plain == add_http_socket(add_stop_socket(sc))
           IN  IF UseSsl THEN add_ssl_socket(plain) ELSE plain
  /\ running' = TRUE
  /\ main' = "poll"
  /\ UNCHANGED <<threadQueue, idx, snap, accepting, pipeVars, workerVars, sig,
                 sigPending, connVars>>

-----------------------------------------------------------------------------
(* poll(): what the kernel reports for one socket.                         *)

Hangup(c) == peer[c] = "closed" /\ inbox[c] = 0

Ready(s) ==
  CASE s \in Workers -> toMain[s] # <<>>
    [] s = StopSock  -> stoppipe = "exit"
    [] s = HttpSock  -> backlog["http"] # <<>>
    [] s = SslSock   -> backlog["ssl"] # <<>>
    [] s \in Conns   -> inbox[s] = 1 \/ peer[s] = "closed"
    [] OTHER         -> FALSE

revents(s, hup) ==
  CASE ~Ready(s)                             -> "NONE"
    [] Ready(s) /\ s \in Conns /\ Hangup(s)  -> hup[s]
    [] OTHER                                 -> "IN"

Poll ==
  /\ main = "poll" /\ Len(sc.open) <= PollLimit
  /\ \E s \in ToSet(sc.open) : Ready(s)
  /\ \E hup \in [Conns -> HangupRevents] :
       snap' = [k \in DOMAIN sc.open |-> revents(sc.open[k], hup)]
  /\ idx' = 0
  /\ main' = "scan"
  /\ UNCHANGED <<sc, threadQueue, running, accepting, pipeVars, workerVars,
                 sigVars, connVars>>

PollFails ==
  /\ main = "poll" /\ Len(sc.open) > PollLimit
  /\ running' = FALSE
  /\ main' = "join_sig"
  /\ UNCHANGED <<sc, threadQueue, idx, snap, accepting, pipeVars, workerVars,
                 sigVars, connVars>>

-----------------------------------------------------------------------------
(* One iteration of the loop over the snapshot.  The bound of the loop is  *)
(* the present length of the list, so the index may run past the snapshot: *)
(* what sockets[i].revents then yields is undefined.                       *)

Scanning(rev) ==
  /\ main = "scan" /\ idx < Len(sc.open)
  /\ IF idx < Len(snap) THEN rev = At(snap, idx) ELSE rev \in OutOfRange

IsMsgSocket == idx < sc.nmsg

(* The freed worker w takes the first waiting connection or becomes idle.  *)
ReuseThread_AlwaysIdle(s, w) ==
  /\ sc' = s
  /\ threadQueue' = Append(threadQueue, w)
  /\ UNCHANGED toWorker

ReuseThread_NotWorking(s, w) ==
  IF s.waiting # <<>>
  THEN /\ sc' = get_waiting(s)
       /\ toWorker' = [toWorker EXCEPT
                         ![w] = Append(@, Msg("PROCESS_REQUEST", Head(s.waiting)))]
       /\ UNCHANGED threadQueue
  ELSE ReuseThread_AlwaysIdle(s, w)

ReuseThread(s, w) ==
  IF s.waiting # <<>>
  THEN /\ sc' = add_to_working_socket(get_waiting(s), Head(s.waiting))
       /\ toWorker' = [toWorker EXCEPT
                         ![w] = Append(@, Msg("PROCESS_REQUEST", Head(s.waiting)))]
       /\ UNCHANGED threadQueue
  ELSE /\ sc' = s
       /\ threadQueue' = Append(threadQueue, w)
       /\ UNCHANGED toWorker

FinishedAndContinue_NotPolled ==
  /\ Scanning("IN") /\ IsMsgSocket
  /\ LET m == Head(toMain[idx])
     IN  /\ m.type = "FINISHED_AND_CONTINUE"
         /\ ReuseThread(remove_from_working_socket(sc, m.sock), idx)
  /\ toMain' = [toMain EXCEPT ![idx] = Tail(@)]
  /\ idx' = idx + 1
  /\ UNCHANGED <<main, snap, running, accepting, workerVars, sigVars, connVars>>

FinishedAndContinue ==
  /\ Scanning("IN") /\ IsMsgSocket
  /\ LET m == Head(toMain[idx])
     IN  /\ m.type = "FINISHED_AND_CONTINUE"
         /\ ReuseThread(add_dyn_socket(remove_from_working_socket(sc, m.sock),
                                       m.sock), idx)
  /\ toMain' = [toMain EXCEPT ![idx] = Tail(@)]
  /\ idx' = idx + 1
  /\ UNCHANGED <<main, snap, running, accepting, workerVars, sigVars, connVars>>

FinishedAndClose_SameIndex ==
  /\ Scanning("IN") /\ IsMsgSocket
  /\ LET m == Head(toMain[idx])
     IN  /\ m.type = "FINISHED_AND_CLOSE"
         /\ ReuseThread(remove_from_working_socket(sc, m.sock), idx)
         /\ fd' = close_socket({m.sock})
  /\ toMain' = [toMain EXCEPT ![idx] = Tail(@)]
  /\ UNCHANGED <<main, idx, snap, running, accepting, workerVars, sigVars, peer,
                 inbox, reqs, backlog>>

FinishedAndClose ==
  /\ Scanning("IN") /\ IsMsgSocket
  /\ LET m == Head(toMain[idx])
     IN  /\ m.type = "FINISHED_AND_CLOSE"
         /\ ReuseThread(remove_from_working_socket(sc, m.sock), idx)
         /\ fd' = close_socket({m.sock})
  /\ toMain' = [toMain EXCEPT ![idx] = Tail(@)]
  /\ idx' = idx + 1
  /\ UNCHANGED <<main, snap, running, accepting, workerVars, sigVars, peer,
                 inbox, reqs, backlog>>

Stop_NoExit ==
  LET noHttp == remove(sc, sc.http)
      noSsl  == remove(noHttp, noHttp.ssl)
  IN  /\ Scanning("IN") /\ ~IsMsgSocket /\ idx = sc.stop
      /\ stoppipe' = "empty"
      /\ sc' = close_all_dynsocks(noSsl)
      /\ fd' = close_socket(noSsl.working)
      /\ running' = FALSE
      /\ idx' = idx + 1
      /\ UNCHANGED <<threadQueue, main, snap, accepting, pipeVars, workerVars, sig,
                     sigPending, peer, inbox, reqs, backlog>>

(* The stop message: remove both listeners, close the client sockets, send *)
(* EXIT to every thread.  Without a TLS listener the second remove() is    *)
(* called with a negative index and throws; nothing above run() catches.   *)
Stop ==
  LET noHttp == remove(sc, sc.http)
      noSsl  == remove(noHttp, noHttp.ssl)
  IN  /\ Scanning("IN") /\ ~IsMsgSocket /\ idx = sc.stop
      /\ stoppipe' = "empty"
      /\ IF RemoveThrows(noHttp, noHttp.ssl)
         THEN /\ main' = "aborted" /\ sc' = noHttp
              /\ UNCHANGED <<idx, running, fd, toWorker>>
         ELSE /\ sc' = close_all_dynsocks(noSsl)
              /\ fd' = close_socket({noSsl.open[k] : k \in ClosedByCloseAll(noSsl)}
                                      \cup noSsl.working)
              /\ toWorker' = [w \in Workers |-> Append(toWorker[w], Msg("EXIT", NoConn))]
              /\ running' = FALSE
              /\ idx' = idx + 1
              /\ UNCHANGED main
      /\ UNCHANGED <<threadQueue, snap, accepting, toMain, workerVars, sig,
                     sigPending, peer, inbox, reqs, backlog>>

(* A listener is ready: accept_connection.  When accept() fails the entry  *)
(* with descriptor -1 is added all the same.                               *)
AcceptFails ==
  /\ Scanning("IN") /\ ~IsMsgSocket /\ idx # sc.stop /\ idx \in {sc.http, sc.ssl}
  /\ Cardinality(OpenFds) >= FdLimit
  /\ sc' = add_dyn_socket(sc, BadSock)
  /\ idx' = idx + 1
  /\ UNCHANGED <<threadQueue, main, snap, running, accepting, pipeVars,
                 workerVars, sigVars, connVars>>

AcceptHttp ==
  /\ Scanning("IN") /\ ~IsMsgSocket /\ idx # sc.stop /\ idx = sc.http
  /\ Cardinality(OpenFds) < FdLimit
  /\ LET c == Head(backlog["http"])
     IN  /\ sc' = add_dyn_socket(sc, c)
         /\ fd' = [fd EXCEPT ![c] = "open"]
  /\ backlog' = [backlog EXCEPT !["http"] = Tail(@)]
  /\ idx' = idx + 1
  /\ UNCHANGED <<threadQueue, main, snap, running, accepting, pipeVars,
                 workerVars, sigVars, peer, inbox, reqs>>

(* SSL_accept runs in the main thread and blocks it. *)
AcceptSsl ==
  /\ Scanning("IN") /\ ~IsMsgSocket /\ idx \notin {sc.stop, sc.http} /\ idx = sc.ssl
  /\ Cardinality(OpenFds) < FdLimit
  /\ LET c == Head(backlog["ssl"])
     IN  /\ accepting' = c
         /\ fd' = [fd EXCEPT ![c] = "open"]
  /\ backlog' = [backlog EXCEPT !["ssl"] = Tail(@)]
  /\ main' = "handshake"
  /\ UNCHANGED <<sc, threadQueue, idx, snap, running, pipeVars, workerVars,
                 sigVars, peer, inbox, reqs>>

(* The handshake ends, successfully or not; after a failure the TLS state  *)
(* is released and the connection is added as a plain one.                 *)
HandshakeEnds ==
  /\ main = "handshake"
  /\ sc' = add_dyn_socket(sc, accepting)
  /\ accepting' = NoConn
  /\ main' = "scan"
  /\ idx' = idx + 1
  /\ UNCHANGED <<threadQueue, snap, running, pipeVars, workerVars, sigVars, connVars>>

(* Input on a client socket: hand entry i of the list to an idle thread or *)
(* queue it.                                                               *)
IsDynSocket == ~IsMsgSocket /\ idx \notin {sc.stop, sc.http, sc.ssl}

Dispatch_KeepsThread ==
  /\ Scanning("IN") /\ IsDynSocket
  /\ threadQueue # <<>>
  /\ LET c == At(sc.open, idx)
         w == Head(threadQueue)
     IN  /\ sc' = add_to_working_socket(remove(sc, idx), c)
         /\ toWorker' = [toWorker EXCEPT ![w] = Append(@, Msg("PROCESS_REQUEST", c))]
  /\ idx' = idx + 1
  /\ UNCHANGED <<threadQueue, main, snap, running, accepting, toMain, workerVars,
                 sigVars, connVars>>

Dispatch ==
  /\ Scanning("IN") /\ IsDynSocket
  /\ threadQueue # <<>>
  /\ LET c == At(sc.open, idx)
         w == Head(threadQueue)
     IN  /\ sc' = add_to_working_socket(remove(sc, idx), c)
         /\ toWorker' = [toWorker EXCEPT ![w] = Append(@, Msg("PROCESS_REQUEST", c))]
  /\ threadQueue' = Tail(threadQueue)
  /\ idx' = idx + 1
  /\ UNCHANGED <<main, snap, running, accepting, toMain, workerVars, sigVars, connVars>>

Enqueue ==
  /\ Scanning("IN") /\ IsDynSocket
  /\ threadQueue = <<>>
  /\ sc' = move_to_waiting(sc, idx)
  /\ idx' = idx + 1
  /\ UNCHANGED <<threadQueue, main, snap, running, accepting, pipeVars,
                 workerVars, sigVars, connVars>>

(* A hangup of a client socket: close entry i of the list. *)
CloseHangup ==
  /\ Scanning("HUP") /\ idx >= sc.dyn
  /\ LET c == At(sc.open, idx)
     IN  /\ sc' = remove_from_working_socket(remove(sc, idx), c)
         /\ fd' = close_socket({c})
  /\ idx' = idx + 1
  /\ UNCHANGED <<threadQueue, main, snap, running, accepting, pipeVars,
                 workerVars, sigVars, peer, inbox, reqs, backlog>>

NoEvent ==
  /\ Scanning("NONE")
  /\ idx' = idx + 1
  /\ UNCHANGED <<sc, threadQueue, main, snap, running, accepting, pipeVars,
                 workerVars, sigVars, connVars>>

EndOfScan ==
  /\ main = "scan" /\ idx >= Len(sc.open)
  /\ main' = IF running THEN "poll" ELSE "join_sig"
  /\ idx' = 0 /\ snap' = <<>>
  /\ UNCHANGED <<sc, threadQueue, running, accepting, pipeVars, workerVars,
                 sigVars, connVars>>

(* Behind the loop: pthread_join, then the destructors, of which           *)
(* ~ThreadControl joins every worker.                                      *)
JoinSigThread ==
  /\ main = "join_sig" /\ sig = "returned"
  /\ main' = "join_workers"
  /\ UNCHANGED <<sc, threadQueue, idx, snap, running, accepting, pipeVars,
                 workerVars, sigVars, connVars>>

JoinWorkers ==
  /\ main = "join_workers" /\ \A w \in Workers : wpc[w] = "gone"
  /\ main' = "done"
  /\ UNCHANGED <<sc, threadQueue, idx, snap, running, accepting, pipeVars,
                 workerVars, sigVars, connVars>>

ScanStep ==
  \/ FinishedAndContinue \/ FinishedAndClose \/ Stop
  \/ AcceptFails \/ AcceptHttp \/ AcceptSsl
  \/ Dispatch \/ Enqueue \/ CloseHangup \/ NoEvent \/ EndOfScan

Main ==
  \/ StartSigThread \/ OpenSockets \/ Poll \/ PollFails
  \/ ScanStep
  \/ JoinSigThread \/ JoinWorkers

(* An uncaught exception aborts the process: then nothing moves any more.  *)
Alive == main \notin {"done", "aborted"}

Environment ==
  \/ \E c \in Conns, p \in Ports : Connect(c, p)
  \/ \E c \in Conns : ClientSend(c) \/ ClientClose(c)
  \/ Signal

Next ==
  /\ Alive
  /\ Main \/ HandshakeEnds \/ (\E w \in Workers : Worker(w)) \/ SigThread \/ Environment

Spec == Init /\ [][Next]_vars

-----------------------------------------------------------------------------
(* Fairness: every thread of the process keeps running.  A blocked read    *)
(* ends by input, by the peer closing or by the receive timeout, and so    *)
(* does the TLS handshake; without a timeout neither is fair.              *)
HandshakeExpires ==
  HandshakeEnds /\ (peer[accepting] = "closed" \/ KeepAliveTimeout > 0)

Fairness ==
  /\ WF_vars(Alive /\ Main)
  /\ WF_vars(Alive /\ HandshakeExpires)
  /\ WF_vars(Alive /\ SigThread)
  /\ \A w \in Workers : WF_vars(Alive /\ Worker(w))

FairSpec == Spec /\ Fairness

-----------------------------------------------------------------------------
(* Safety.                                                                 *)

Serving == running /\ main \in {"poll", "scan", "handshake"}

(* Everything that holds connection c: entries of the polled list and of   *)
(* the waiting queue, messages in the control pipes, a worker's job.       *)
AtWorker(c, w) ==
  {<<"sent", w, k>> : k \in {k \in DOMAIN toWorker[w] : toWorker[w][k].sock = c}}
    \cup {<<"job", w, 0>> : x \in {job[w]} \cap {c}}
    \cup {<<"back", w, k>> : k \in {k \in DOMAIN toMain[w] : toMain[w][k].sock = c}}

Holders(c) ==
  {<<"open", 0, k>> : k \in {k \in DOMAIN sc.open : sc.open[k] = c}}
    \cup {<<"waiting", 0, k>> : k \in {k \in DOMAIN sc.waiting : sc.waiting[k] = c}}
    \cup UNION {AtWorker(c, w) : w \in Workers}

(* While the server serves, every open connection is held exactly once: it *)
(* is polled, or queued, or with one worker, never lost and never with two *)
(* of them; and a closed one is held nowhere.  (The index juggling of the  *)
(* loop in Server::run must not lose or duplicate a descriptor.)           *)
OneHolder ==
  Serving => \A c \in Conns :
    Cardinality(Holders(c)) = IF fd[c] = "open" /\ c # accepting THEN 1 ELSE 0

(* A connection waits only while no thread is idle: the pop in Dispatch    *)
(* and the hand-over in the two FINISHED branches leave no lost wakeup.    *)
NoIdleThreadWhileWaiting == sc.waiting # <<>> => threadQueue = <<>>

(* While the server serves, a thread is either once in thread_queue or has *)
(* one task in its pipe, in hand or reported back: no thread gets a second *)
(* task, and none is forgotten.                                            *)
ThreadsAccountedFor ==
  Serving => \A w \in Workers :
    Cardinality({k \in DOMAIN threadQueue : threadQueue[k] = w})
      + Len(toWorker[w]) + (IF job[w] = NoConn THEN 0 ELSE 1) + Len(toMain[w]) = 1

(* The ids SocketControl keeps next to its vector point where they claim,  *)
(* through start, service and shutdown: below n_msg_sockets the control    *)
(* sockets, at the three ids their sockets, from dyn_socket_base on the    *)
(* client sockets and nothing else.                                        *)
IdsPointRight ==
  main \notin {"start", "setup", "aborted"} =>
    /\ \A w \in Workers : At(sc.open, w) = w
    /\ sc.nmsg = NThreads
    /\ At(sc.open, sc.stop) = StopSock
    /\ \A k \in DOMAIN sc.open :
         /\ sc.open[k] = HttpSock <=> k - 1 = sc.http
         /\ sc.open[k] = SslSock <=> k - 1 = sc.ssl
         /\ sc.open[k] \in Jobs => sc.dyn >= 0 /\ k - 1 >= sc.dyn
         /\ sc.dyn >= 0 /\ k - 1 >= sc.dyn => sc.open[k] \in Jobs

(* The main loop never blocks in the middle of a scan: what the snapshot   *)
(* reports for a control socket, the stop pipe or a listener still holds   *)
(* when the index gets there, so the read() of receive_control_message and *)
(* the accept() behind it find their input; and a hangup is only reported  *)
(* from dyn_socket_base on.                                                *)
SnapshotStaysTrue ==
  main = "scan" /\ idx < Len(snap) =>
    /\ \A w \in Workers : At(snap, w) = "IN" /\ idx <= w => toMain[w] # <<>>
    /\ At(snap, sc.stop) = "IN" /\ idx <= sc.stop => stoppipe = "exit"
    /\ sc.http >= 0 /\ At(snap, sc.http) = "IN" /\ idx <= sc.http => backlog["http"] # <<>>
    /\ sc.ssl >= 0 /\ At(snap, sc.ssl) = "IN" /\ idx <= sc.ssl => backlog["ssl"] # <<>>
    /\ \A k \in DOMAIN snap : snap[k] = "HUP" => sc.dyn >= 0 /\ k - 1 >= sc.dyn

-----------------------------------------------------------------------------
(* Liveness.                                                               *)

(* A request on a connection the server has accepted is read by a worker,  *)
(* unless the connection is closed or the server is stopped: no request is *)
(* starved, whatever the other connections do.                             *)
RequestIsRead ==
  \A c \in Conns :
    (inbox[c] = 1 /\ fd[c] = "open") ~> (inbox[c] = 0 \/ fd[c] # "open" \/ ~Serving)

(* "Stop the server gracefully (all destructors are called etc.)": once    *)
(* stop() has sent its message through the stop pipe, run() returns and    *)
(* the destructors behind it finish, in whatever state the workers are.    *)
GracefulStopOnceUp == (stoppipe = "exit") ~> main = "done"

-----------------------------------------------------------------------------
(* The inductive invariant behind TypeOK, IdsPointRight, SnapshotStaysTrue *)
(* and NoIdleThreadWhileWaiting: the layout of generic_open_sockets while  *)
(* the listeners are there (LayoutUp) and after the stop branch has taken  *)
(* them out (LayoutDown), and what the snapshot still says truly.          *)

Base == NThreads + (IF UseSsl THEN 3 ELSE 2)

Prefix(s) ==
  /\ s.nmsg = NThreads /\ s.stop = NThreads
  /\ Len(s.open) >= NThreads + 1
  /\ \A k \in 1..NThreads : s.open[k] = k - 1
  /\ s.open[NThreads + 1] = StopSock

LayoutUp(s) ==
  /\ Prefix(s)
  /\ s.http = NThreads + 1
  /\ s.ssl = IF UseSsl THEN NThreads + 2 ELSE -1
  /\ Len(s.open) >= Base
  /\ s.open[NThreads + 2] = HttpSock
  /\ UseSsl => s.open[NThreads + 3] = SslSock
  /\ \A k \in Base + 1 .. Len(s.open) : s.open[k] \in Jobs
  /\ s.dyn = Base \/ (s.dyn = -1 /\ Len(s.open) = Base)

LayoutDown(s) ==
  /\ Prefix(s)
  /\ s.http = -1 /\ s.ssl = -1
  /\ \A k \in NThreads + 2 .. Len(s.open) : s.open[k] \in Jobs
  /\ s.dyn = NThreads + 1 \/ (s.dyn = -3 /\ Len(s.open) = NThreads + 1)

Layout ==
  /\ main \in {"start", "setup"} => sc = NewSocketControl
  /\ main \in {"poll", "handshake"} => LayoutUp(sc)
  /\ main \in {"scan", "join_sig", "join_workers", "done"} =>
       LayoutUp(sc) \/ (LayoutDown(sc) /\ ~running)
  /\ main = "scan" /\ LayoutDown(sc) => idx > NThreads
  /\ main = "handshake" => accepting \in Conns /\ idx = NThreads + 2 /\ UseSsl

SnapInv ==
  main \in {"scan", "handshake"} =>
    /\ Len(snap) >= Base
    /\ sc.dyn < 0 => Len(snap) = Base
    /\ \A k \in 1..Base : snap[k] # "HUP"
    /\ \A w \in Workers : snap[w + 1] = "IN" /\ idx <= w => toMain[w] # <<>>
    /\ snap[NThreads + 1] = "IN" /\ idx <= NThreads => stoppipe = "exit"
    /\ snap[NThreads + 2] = "IN" /\ idx <= NThreads + 1 => backlog["http"] # <<>>
    /\ main = "scan" /\ UseSsl /\ snap[NThreads + 3] = "IN" /\ idx <= NThreads + 2
         => backlog["ssl"] # <<>>

BusyHasJob == \A w \in Workers : wpc[w] \in {"reading", "handling"} => job[w] \in Jobs

IndInv == TypeOK /\ Layout /\ SnapInv /\ NoIdleThreadWhileWaiting /\ BusyHasJob

=============================================================================
