--------------------------- MODULE SocketControl ---------------------------
(***************************************************************************)
(* The bookkeeping of class SocketControl (lib/SocketControl.cpp) and of   *)
(* the queue of class ThreadControl (lib/ThreadControl.cpp), as operators  *)
(* on the record                                                           *)
(*                                                                         *)
(*   open     generic_open_sockets: the sockets the main loop polls        *)
(*   waiting  waiting_sockets: FIFO of connections waiting for a thread    *)
(*   working  working_sockets: connections handed to a thread              *)
(*   nmsg, stop, http, ssl, dyn                                            *)
(*            n_msg_sockets, stop_sock_id, http_sock_id, ssl_sock_id,      *)
(*            dyn_socket_base                                              *)
(*                                                                         *)
(* A SocketInfo is represented by the identity of its descriptor; its      *)
(* message type travels with the control messages of module Server.  The   *)
(* ids are the 0-based vector indices of the source, with -1 for "not set" *)
(* and whatever the decrements of remove() make of it.                     *)
(***************************************************************************)
EXTENDS Integers, Sequences, SequencesExt

CONSTANTS NThreads,   \* number of worker threads
          StopSock,   \* stoppipe[0]
          HttpSock,   \* the HTTP listener
          SslSock     \* the TLS listener

ASSUME NThreadsAssumption == NThreads \in Nat \ {0}

Workers == 0 .. NThreads - 1

(* The vector accesses of the source: v[pos] and v.erase(begin + pos). *)
At(s, pos) == s[pos + 1]

Erase(s, pos) == RemoveAt(s, pos + 1)

(* SocketControl(ThreadControl&): one control socket per thread. *)
NewSocketControl ==
  [open |-> [k \in 1..NThreads |-> k - 1], waiting |-> <<>>, working |-> {},
   nmsg |-> NThreads, stop |-> -1, http |-> -1, ssl |-> -1, dyn |-> -1]

add_stop_socket(sc) ==
  [sc EXCEPT !.open = Append(@, StopSock), !.stop = Len(sc.open)]

add_http_socket(sc) ==
  [sc EXCEPT !.open = Append(@, HttpSock), !.http = Len(sc.open)]

add_ssl_socket(sc) ==
  [sc EXCEPT !.open = Append(@, SslSock), !.ssl = Len(sc.open)]

add_dyn_socket_Rebase(sc, c) ==
  [sc EXCEPT !.open = Append(@, c), !.dyn = Len(sc.open)]

add_dyn_socket(sc, c) ==
  [sc EXCEPT !.open = Append(@, c),
             !.dyn = IF @ = -1 THEN Len(sc.open) ELSE @]

(* remove(pos) throws when pos is out of range ... *)
RemoveThrows(sc, pos) == ~(pos >= 0 /\ pos < Len(sc.open))

(* ... and otherwise erases the entry and shifts the ids behind it. *)
remove(sc, pos) ==
  LET erased == [sc EXCEPT !.open = Erase(@, pos)]
  IN  CASE pos < sc.nmsg ->
             [erased EXCEPT !.nmsg = @ - 1, !.stop = @ - 1, !.http = @ - 1,
                            !.ssl = @ - 1, !.dyn = @ - 1]
        [] pos >= sc.nmsg /\ pos = sc.http ->
             [erased EXCEPT !.http = -1, !.ssl = @ - 1, !.dyn = @ - 1]
        [] pos >= sc.nmsg /\ pos # sc.http /\ pos = sc.ssl ->
             [erased EXCEPT !.ssl = -1, !.dyn = @ - 1]
        [] OTHER -> erased

add_to_working_socket(sc, c) == [sc EXCEPT !.working = @ \cup {c}]

remove_from_working_socket(sc, c) == [sc EXCEPT !.working = @ \ {c}]

move_to_waiting(sc, pos) ==
  [sc EXCEPT !.open = Erase(@, pos), !.waiting = Append(@, At(sc.open, pos))]

(* get_waiting(): pops the head; the caller has tested that there is one. *)
get_waiting(sc) == [sc EXCEPT !.waiting = Tail(@)]

(* The loop of close_all_dynsocks erases entry i and then increments i, so *)
(* it visits the entries at even distance from dyn_socket_base; a negative *)
(* base compares as a huge unsigned number and the loop does not start.    *)
ClosedByCloseAll(sc) ==
  {k \in DOMAIN sc.open : sc.dyn >= 0 /\ k > sc.dyn /\ (k - 1 - sc.dyn) % 2 = 0}

close_all_dynsocks(sc) ==
  IF sc.dyn < 0 THEN sc
  ELSE [sc EXCEPT !.open =
          LET rest == (Len(@) - sc.dyn) \div 2
          IN  SubSeq(@, 1, sc.dyn)
                \o [j \in 1..rest |-> sc.open[sc.dyn + 2 * j]]]

=============================================================================
