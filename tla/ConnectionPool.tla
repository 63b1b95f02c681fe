--------------------------- MODULE ConnectionPool ---------------------------
(***************************************************************************)
(* What the main loop of the server promises, without its vectors, ids,    *)
(* pipes and snapshots: a pool of threads that serves connections.  Every  *)
(* connection is outside, polled for input, waiting in a FIFO queue,       *)
(* served by one thread, or closed for good; a thread that becomes free    *)
(* takes the head of the queue before it is idle.                          *)
(*                                                                         *)
(* A failed accept() leaves a job without a connection in the pool, which  *)
(* takes its turn like the others.                                         *)
(***************************************************************************)
EXTENDS Integers, Sequences

CONSTANTS Conns,    \* connections
          Failed,   \* the job a failed accept() leaves behind, not in Conns
          N         \* number of threads, not 0

VARIABLES mode,     \* "starting", "serving" or "stopped"
          stage,    \* stage of every connection
          queue,    \* jobs that wait for a thread
          idle      \* number of idle threads

poolVars == <<mode, stage, queue, idle>>

PoolInit ==
  /\ mode = "starting"
  /\ stage = [c \in Conns |-> "outside"]
  /\ queue = <<>> /\ idle = N

Open == mode = "starting" /\ mode' = "serving" /\ UNCHANGED <<stage, queue, idle>>

(* Connection c goes from stage s to stage t, the others stay. *)
Moves(c, s, t) ==
  /\ stage[c] = s /\ stage'[c] = t
  /\ stage' = [stage EXCEPT ![c] = t]

(* Stages with job j in stage t; that of a failed accept is not kept. *)
With(f, j, t) == IF j \in Conns THEN [f EXCEPT ![j] = t] ELSE f

(* A connection is accepted. *)
Enter(c) ==
  /\ mode = "serving" /\ Moves(c, "outside", "polled")
  /\ UNCHANGED <<mode, queue, idle>>

(* A polled job gets an idle thread, or a place at the end of the queue. *)
Take(j) ==
  /\ mode # "starting" /\ UNCHANGED mode
  /\ \/ /\ idle > 0 /\ idle' = idle - 1
        /\ UNCHANGED queue
        /\ stage' = With(stage, j, "served")
     \/ /\ idle = 0 /\ queue' = Append(queue, j)
        /\ UNCHANGED idle
        /\ stage' = With(stage, j, "waiting")
  /\ j \in Conns => stage[j] = "polled"

(* A thread has finished job j, which is polled again or closed, and goes  *)
(* on with the head of the queue.                                          *)
Finish(j, after) ==
  /\ mode = "serving" /\ UNCHANGED mode
  /\ idle < N
  /\ \/ /\ queue = <<>> /\ UNCHANGED queue
        /\ idle' = idle + 1
        /\ stage' = With(stage, j, after)
     \/ /\ queue # <<>> /\ queue' = Tail(queue)
        /\ UNCHANGED idle
        /\ stage' = With(With(stage, j, after), Head(queue), "served")
  /\ j \in Conns => stage[j] = "served"

(* A polled connection is closed without being served. *)
Leave(c) ==
  /\ mode # "starting" /\ Moves(c, "polled", "closed")
  /\ UNCHANGED <<mode, queue, idle>>

(* The stop message closes what is being served and some of what is        *)
(* polled; after a failure of poll() everything is left as it is.          *)
Shutdown ==
  /\ mode = "serving" /\ mode' = "stopped"
  /\ \/ UNCHANGED stage
     \/ \E S \in SUBSET {c \in Conns : stage[c] = "polled"} :
          stage' = [c \in Conns |-> IF c \in S \/ stage[c] = "served"
                                      THEN "closed" ELSE stage[c]]
  /\ UNCHANGED <<queue, idle>>

PoolNext ==
  \/ Open \/ Shutdown
  \/ \E c \in Conns : Enter(c) \/ Leave(c)
  \/ \E j \in Conns \cup {Failed} :
       Take(j) \/ \E after \in {"polled", "closed"} : Finish(j, after)

PoolSpec == PoolInit /\ [][PoolNext]_poolVars

=============================================================================
