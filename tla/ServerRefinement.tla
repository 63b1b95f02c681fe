-------------------------- MODULE ServerRefinement --------------------------
(***************************************************************************)
(* Server::run implements the pool of connections and threads of           *)
(* ConnectionPool.  The stage of a connection is read off what the code    *)
(* keeps: its descriptor, generic_open_sockets, waiting_sockets, and       *)
(* working_sockets together with the control pipes and the workers.  A     *)
(* connection for which these disagree, or which is closed twice, is       *)
(* "lost", a stage the pool does not have.                                 *)
(***************************************************************************)
EXTENDS Server

WithWorker(c) ==
  /\ c \in sc.working
  /\ \E w \in Workers : job[w] = c \/ Contains(toWorker[w], Msg("PROCESS_REQUEST", c))
                                   \/ \E k \in DOMAIN toMain[w] : toMain[w][k].sock = c

StageOf(c) ==
  CASE fd[c] = "closed"                                    -> "closed"
    [] fd[c] = "none" \/ c = accepting                     -> "outside"
    [] fd[c] = "open" /\ c # accepting /\ Contains(sc.open, c) -> "polled"
    [] fd[c] = "open" /\ Contains(sc.waiting, c)           -> "waiting"
    [] fd[c] = "open" /\ WithWorker(c)                     -> "served"
    [] OTHER                                               -> "lost"

ModeOf ==
  CASE main \in {"start", "setup"}                 -> "starting"
    [] main \notin {"start", "setup"} /\ running   -> "serving"
    [] OTHER                                       -> "stopped"

Pool == INSTANCE ConnectionPool WITH
          Conns <- Conns, Failed <- BadSock, N <- NThreads,
          mode <- ModeOf, stage <- [c \in Conns |-> StageOf(c)],
          queue <- sc.waiting, idle <- Len(threadQueue)

(* Every step of the main loop, the workers and the clients is a step of   *)
(* the pool or does not concern it: through all shifts of the socket list  *)
(* under the index of the loop a connection moves only from accepted to    *)
(* polled, on to the queue or a thread, back or closed, once; the queue is *)
(* first in, first out; and working_sockets, which shutdown closes, is     *)
(* what the threads really serve.  (Server::run, SocketControl.)           *)
ImplementsPool == Pool!PoolSpec

=============================================================================
