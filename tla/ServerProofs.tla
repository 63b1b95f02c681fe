---------------------------- MODULE ServerProofs ----------------------------
(***************************************************************************)
(* Proofs about module Server, for every number of threads and of          *)
(* connections, with and without a TLS listener, and for every outcome of  *)
(* the reads behind the snapshot.                                          *)
(*                                                                         *)
(* First part: IndInv is inductive; the properties about the wakeups, the  *)
(* snapshot of the scan and the ids follow from it.                        *)
(*                                                                         *)
(* Second part: Server::run neither loses nor duplicates a connection or a *)
(* thread (OneHolder, ThreadsAccountedFor).  Both follow from HolderInv,   *)
(* which says for every connection where it is kept and for every thread   *)
(* what it is doing, in all phases of the server; HolderInv is inductive   *)
(* together with IndInv.  From where the connections are kept follows that *)
(* Server::run implements ConnectionPool.                                  *)
(***************************************************************************)
EXTENDS Server, ServerRefinement, SequenceTheorems, FiniteSetTheorems, TLAPS

-----------------------------------------------------------------------------
(* The vector operations of SocketControl.                                 *)

(* What vector::erase leaves: the entries behind pos move up by one. *)
LEMMA EraseProperties ==
  ASSUME NEW S, NEW s \in Seq(S), NEW pos \in Nat, pos < Len(s)
  PROVE  /\ Erase(s, pos) \in Seq(S)
         /\ Len(Erase(s, pos)) = Len(s) - 1
         /\ \A i \in 1 .. Len(s) - 1 :
              Erase(s, pos)[i] = IF i <= pos THEN s[i] ELSE s[i + 1]
<1> DEFINE p == pos + 1
           a == SubSeq(s, 1, p - 1)
           b == SubSeq(s, p + 1, Len(s))
<1>1. Len(s) \in Nat /\ \A i \in 1 .. Len(s) : s[i] \in S
  BY LenProperties, ElementOfSeq
<1>2. a \in Seq(S) /\ Len(a) = pos /\ \A i \in 1 .. pos : a[i] = s[i]
  BY <1>1, SubSeqProperties, Z3
<1>3. b \in Seq(S) /\ Len(b) = Len(s) - pos - 1
      /\ \A i \in 1 .. Len(s) - pos - 1 : b[i] = s[pos + 1 + i]
  BY <1>1, SubSeqProperties, Z3
<1>4. Erase(s, pos) = a \o b
  <2>1. Erase(s, pos) = RemoveAt(s, p)
    BY DEF Erase
  <2> HIDE DEF p
  <2> QED BY <2>1 DEF RemoveAt
<1> HIDE DEF a, b
<1>c. /\ a \o b \in Seq(S)
      /\ Len(a \o b) = Len(a) + Len(b)
      /\ \A i \in 1 .. Len(a) + Len(b) :
           (a \o b)[i] = IF i <= Len(a) THEN a[i] ELSE b[i - Len(a)]
  BY <1>2, <1>3, ConcatProperties, Zenon
<1>5. /\ a \o b \in Seq(S)
      /\ Len(a \o b) = Len(s) - 1
      /\ \A i \in 1 .. Len(s) - 1 :
           (a \o b)[i] = IF i <= pos THEN a[i] ELSE b[i - pos]
  BY <1>1, <1>2, <1>3, <1>c, Z3
<1>6. \A i \in 1 .. Len(s) - 1 :
        (a \o b)[i] = IF i <= pos THEN s[i] ELSE s[i + 1]
  <2> SUFFICES ASSUME NEW i \in 1 .. Len(s) - 1
               PROVE  (a \o b)[i] = IF i <= pos THEN s[i] ELSE s[i + 1]
    OBVIOUS
  <2>1. CASE i <= pos
    <3>1. i \in 1 .. pos
      BY <2>1
    <3> QED BY <1>2, <1>5, <2>1, <3>1
  <2>2. CASE ~(i <= pos)
    <3>1. i - pos \in 1 .. Len(s) - pos - 1 /\ pos + 1 + (i - pos) = i + 1
      BY <1>1, <2>2
    <3>2. b[i - pos] = s[i + 1]
      BY <1>3, <3>1
    <3> QED BY <1>5, <2>2, <3>2
  <2> QED BY <2>1, <2>2
<1> QED BY <1>4, <1>5, <1>6

(* The record after an erase at a position of a client socket: the ids     *)
(* stay, and so does the layout they describe.                             *)
LEMMA EraseDyn ==
  ASSUME NEW s \in SocketControls, NEW pos \in Nat, pos < Len(s.open),
         \/ LayoutUp(s) /\ pos >= Base
         \/ LayoutDown(s) /\ pos > NThreads
  PROVE  LET t == [s EXCEPT !.open = Erase(s.open, pos)]
         IN  /\ t \in SocketControls
             /\ t.dyn = s.dyn /\ s.dyn >= 0
             /\ LayoutUp(s) => LayoutUp(t)
             /\ LayoutDown(s) => LayoutDown(t)
<1> DEFINE e == Erase(s.open, pos)
           t == [s EXCEPT !.open = e]
<1>1. /\ s.open \in Seq(Sockets) /\ Len(s.open) \in Nat
      /\ NThreads \in Nat /\ Base \in Nat /\ Base >= NThreads + 2
  BY LenProperties, NThreadsAssumption DEF SocketControls, Base
<1>2. /\ e \in Seq(Sockets)
      /\ Len(e) = Len(s.open) - 1
      /\ \A i \in 1 .. Len(s.open) - 1 :
           e[i] = IF i <= pos THEN s.open[i] ELSE s.open[i + 1]
  BY <1>1, EraseProperties
<1> HIDE DEF e
<1>b. \A i \in 1 .. pos : e[i] = s.open[i]
  BY <1>1, <1>2, Z3
<1>a. \A i \in pos + 1 .. Len(e) : e[i] = s.open[i + 1]
  BY <1>1, <1>2, Z3
<1>3. /\ t \in SocketControls
      /\ t.open = e /\ t.nmsg = s.nmsg /\ t.stop = s.stop
      /\ t.http = s.http /\ t.ssl = s.ssl /\ t.dyn = s.dyn
  BY <1>2 DEF SocketControls
<1>4. s.dyn >= 0
  BY <1>1, Z3 DEF LayoutUp, LayoutDown
<1> HIDE DEF t
<1>5. ASSUME LayoutUp(s) PROVE LayoutUp(t)
  <2>1. pos >= Base
    BY <1>1, <1>5, NThreadsAssumption DEF LayoutUp, LayoutDown
  <2>2. Prefix(t)
    BY <1>1, <1>2, <1>b, <1>3, <1>5, <2>1 DEF LayoutUp, Prefix
  <2>3. ASSUME NEW k \in Base + 1 .. Len(e) PROVE e[k] \in Jobs
    <3>1. \A j \in Base + 1 .. Len(s.open) : s.open[j] \in Jobs
      BY <1>5 DEF LayoutUp
    <3>2. k \in Base + 1 .. Len(s.open) /\ k + 1 \in Base + 1 .. Len(s.open)
      BY <1>1, <1>2
    <3>3. CASE k <= pos
      <4>1. e[k] = s.open[k]
        BY <1>1, <1>b, <3>3
      <4> QED BY <3>1, <3>2, <4>1
    <3>4. CASE k > pos
      <4>1. e[k] = s.open[k + 1]
        BY <1>1, <1>a, <3>4
      <4> QED BY <3>1, <3>2, <4>1
    <3> QED BY <1>1, <3>3, <3>4
  <2>4. Len(t.open) >= Base /\ t.open[NThreads + 2] = HttpSock
    <3>1. s.open[NThreads + 2] = HttpSock
      BY <1>5 DEF LayoutUp
    <3>2. NThreads + 2 \in 1 .. pos /\ Len(e) >= Base
      BY <1>1, <1>2, <2>1
    <3> QED BY <1>b, <1>3, <3>1, <3>2
  <2>5. ASSUME UseSsl PROVE t.open[NThreads + 3] = SslSock
    <3>1. s.open[NThreads + 3] = SslSock
      BY <1>5, <2>5 DEF LayoutUp
    <3>2. NThreads + 3 \in 1 .. pos
      BY <1>1, <2>1, <2>5 DEF Base
    <3> QED BY <1>b, <1>3, <3>1, <3>2
  <2> QED BY <1>1, <1>3, <1>4, <1>5, <2>2, <2>3, <2>4, <2>5 DEF LayoutUp
<1>6. ASSUME LayoutDown(s) PROVE LayoutDown(t)
  <2>1. pos > NThreads
    BY <1>1, <1>6, NThreadsAssumption DEF LayoutUp, LayoutDown
  <2>2. Prefix(t)
    BY <1>1, <1>2, <1>b, <1>3, <1>6, <2>1 DEF LayoutDown, Prefix
  <2>3. ASSUME NEW k \in NThreads + 2 .. Len(t.open) PROVE t.open[k] \in Jobs
    <3>1. \A j \in NThreads + 2 .. Len(s.open) : s.open[j] \in Jobs
      BY <1>6 DEF LayoutDown
    <3>2. /\ k \in NThreads + 2 .. Len(s.open) /\ k + 1 \in NThreads + 2 .. Len(s.open)
          /\ k \in 1 .. Len(e)
      BY <1>1, <1>2, <1>3
    <3>3. CASE k <= pos
      <4>1. e[k] = s.open[k]
        BY <1>1, <1>b, <3>2, <3>3
      <4> QED BY <1>3, <3>1, <3>2, <4>1
    <3>4. CASE k > pos
      <4>1. e[k] = s.open[k + 1]
        BY <1>1, <1>a, <3>2, <3>4
      <4> QED BY <1>3, <3>1, <3>2, <4>1
    <3> QED BY <1>1, <3>2, <3>3, <3>4
  <2> QED BY <1>1, <1>3, <1>4, <1>6, <2>2, <2>3 DEF LayoutDown
<1> QED BY <1>3, <1>4, <1>5, <1>6 DEF t, e

(* remove() of a client socket only erases it. *)
LEMMA RemoveDyn ==
  ASSUME NEW s \in SocketControls, NEW pos \in Nat, pos < Len(s.open),
         \/ LayoutUp(s) /\ pos >= Base
         \/ LayoutDown(s) /\ pos > NThreads
  PROVE  remove(s, pos) = [s EXCEPT !.open = Erase(s.open, pos)]
<1>1. pos >= s.nmsg /\ pos # s.http /\ pos # s.ssl
  BY NThreadsAssumption, ServerAssumption, Z3 DEF LayoutUp, LayoutDown, Prefix, Base
<1>2. s.nmsg \in Int
  BY DEF SocketControls
<1> QED BY <1>1, <1>2 DEF remove

(* add_dyn_socket appends behind the layout and sets dyn_socket_base once. *)
LEMMA AddDyn ==
  ASSUME NEW s \in SocketControls, NEW c \in Jobs,
         LayoutUp(s)
  PROVE  /\ add_dyn_socket(s, c) \in SocketControls
         /\ LayoutUp(add_dyn_socket(s, c))
         /\ add_dyn_socket(s, c).dyn >= 0
         /\ add_dyn_socket(s, c).waiting = s.waiting
<1> DEFINE t == add_dyn_socket(s, c)
           o == Append(s.open, c)
<1>1. /\ s.open \in Seq(Sockets) /\ Len(s.open) \in Nat
      /\ NThreads \in Nat /\ Base \in Nat /\ Base >= NThreads + 2 /\ c \in Sockets
  BY LenProperties, NThreadsAssumption DEF SocketControls, Base, Sockets
<1>2. /\ o \in Seq(Sockets) /\ Len(o) = Len(s.open) + 1
      /\ \A i \in 1 .. Len(s.open) : o[i] = s.open[i]
      /\ o[Len(s.open) + 1] = c
  BY <1>1, AppendProperties
<1>3. /\ t \in SocketControls /\ t.open = o /\ t.waiting = s.waiting
      /\ t.nmsg = s.nmsg /\ t.stop = s.stop /\ t.http = s.http /\ t.ssl = s.ssl
      /\ t.dyn = IF s.dyn = -1 THEN Len(s.open) ELSE s.dyn
  <2> DEFINE d == IF s.dyn = -1 THEN Len(s.open) ELSE s.dyn
  <2>1. t = [s EXCEPT !.open = o, !.dyn = d]
    BY DEF SocketControls, add_dyn_socket
  <2>2. d \in Int
    BY <1>1 DEF SocketControls
  <2>3. o \in Seq(Sockets)
    BY <1>2
  <2> HIDE DEF t, o, d
  <2>4. /\ t \in SocketControls /\ t.open = o /\ t.waiting = s.waiting
        /\ t.nmsg = s.nmsg /\ t.stop = s.stop /\ t.http = s.http /\ t.ssl = s.ssl
        /\ t.dyn = d
    BY <2>1, <2>2, <2>3 DEF SocketControls
  <2> QED BY <2>4 DEF d
<1>4. t.dyn = Base
  BY <1>1, <1>3 DEF LayoutUp
<1> HIDE DEF t, o
<1>5. Prefix(t)
  <2>1. Prefix(s) /\ Len(s.open) >= Base
    BY DEF LayoutUp
  <2>2. \A k \in 1 .. NThreads + 1 : k \in 1 .. Len(s.open) /\ o[k] = s.open[k]
    BY <1>1, <1>2, <2>1
  <2>3. NThreads + 1 \in 1 .. NThreads + 1 /\ \A k \in 1 .. NThreads : k \in 1 .. NThreads + 1
    BY <1>1
  <2>4. Len(o) >= NThreads + 1
    BY <1>1, <1>2, <2>1
  <2> QED BY <1>3, <2>1, <2>2, <2>3, <2>4 DEF Prefix
<1>6. ASSUME NEW k \in Base + 1 .. Len(t.open) PROVE t.open[k] \in Jobs
  <2>1. \A j \in Base + 1 .. Len(s.open) : s.open[j] \in Jobs
    BY DEF LayoutUp
  <2>2. k \in 1 .. Len(s.open) \/ k = Len(s.open) + 1
    BY <1>1, <1>2, <1>3
  <2>3. CASE k = Len(s.open) + 1
    BY <1>2, <1>3, <2>3
  <2>4. CASE k \in 1 .. Len(s.open)
    <3>1. k \in Base + 1 .. Len(s.open)
      BY <1>1, <2>4
    <3> QED BY <1>2, <1>3, <2>1, <2>4, <3>1
  <2> QED BY <2>2, <2>3, <2>4
<1>7. Len(t.open) >= Base /\ t.open[NThreads + 2] = HttpSock
  BY <1>1, <1>2, <1>3, Z3 DEF LayoutUp
<1>8. UseSsl => t.open[NThreads + 3] = SslSock
  BY <1>1, <1>2, <1>3, ServerAssumption, Z3 DEF LayoutUp, Base
<1>9. LayoutUp(t)
  BY <1>1, <1>3, <1>4, <1>5, <1>6, <1>7, <1>8 DEF LayoutUp
<1> QED BY <1>1, <1>3, <1>4, <1>9 DEF t

(* Assigning one field keeps the type. *)
LEMMA SetField ==
  ASSUME NEW s \in SocketControls, NEW x \in Int, NEW o \in Seq(Sockets)
  PROVE  /\ [s EXCEPT !.open = o] \in SocketControls
         /\ [s EXCEPT !.http = x] \in SocketControls
         /\ [s EXCEPT !.ssl = x] \in SocketControls
         /\ [s EXCEPT !.dyn = x] \in SocketControls
  BY DEF SocketControls

(* The first remove() of the stop branch takes the HTTP listener out. *)
LEMMA RemoveHttp ==
  ASSUME NEW s \in SocketControls, LayoutUp(s)
  PROVE  LET t == remove(s, s.http)
         IN  /\ t = [s EXCEPT !.open = Erase(s.open, NThreads + 1), !.http = -1,
                              !.ssl = s.ssl - 1, !.dyn = s.dyn - 1]
             /\ t \in SocketControls
<1>1. /\ s.http = NThreads + 1 /\ s.nmsg = NThreads /\ NThreads \in Nat
      /\ NThreads + 1 < Len(s.open) /\ s.open \in Seq(Sockets)
  BY LenProperties, NThreadsAssumption DEF SocketControls, LayoutUp, Prefix, Base
<1>2. remove(s, s.http) = [s EXCEPT !.open = Erase(s.open, NThreads + 1), !.http = -1,
                                    !.ssl = s.ssl - 1, !.dyn = s.dyn - 1]
  BY <1>1 DEF remove, SocketControls
<1>3. Erase(s.open, NThreads + 1) \in Seq(Sockets)
  BY <1>1, EraseProperties
<1>4. s.ssl - 1 \in Int /\ s.dyn - 1 \in Int
  BY DEF SocketControls
<1>5. ASSUME NEW o \in Seq(Sockets), NEW x \in Int, NEW y \in Int
      PROVE  [s EXCEPT !.open = o, !.http = -1, !.ssl = x, !.dyn = y] \in SocketControls
  <2>1. [s EXCEPT !.open = o] \in SocketControls
    BY SetField, -1 \in Int
  <2>2. [s EXCEPT !.open = o, !.http = -1] \in SocketControls
    BY <2>1, SetField, -1 \in Int
  <2>3. [s EXCEPT !.open = o, !.http = -1, !.ssl = x] \in SocketControls
    BY <2>2, SetField
  <2> QED BY <2>3, SetField
<1> QED BY <1>2, <1>3, <1>4, <1>5

(* The second one takes the TLS listener out, or throws without one. *)
LEMMA RemoveBoth ==
  ASSUME NEW s \in SocketControls, LayoutUp(s)
  PROVE  LET t == remove(s, s.http)
             u == remove(t, t.ssl)
         IN  /\ RemoveThrows(t, t.ssl) <=> ~UseSsl
             /\ UseSsl => /\ u \in SocketControls
                          /\ LayoutDown(u)
                          /\ u.waiting = s.waiting
                          /\ u.dyn = s.dyn - 2
<1> DEFINE t == remove(s, s.http)
           u == remove(t, t.ssl)
           o == Erase(s.open, NThreads + 1)
           p == Erase(o, NThreads + 1)
<1>1. /\ s.open \in Seq(Sockets) /\ Len(s.open) \in Nat
      /\ NThreads \in Nat /\ Base \in Nat /\ Len(s.open) >= Base
      /\ s.dyn \in Int /\ s.ssl \in Int /\ s.http \in Int /\ s.nmsg = NThreads
  BY LenProperties, NThreadsAssumption DEF SocketControls, LayoutUp, Prefix, Base
<1>2. /\ o \in Seq(Sockets) /\ Len(o) = Len(s.open) - 1
      /\ \A i \in 1 .. Len(s.open) - 1 :
           o[i] = IF i <= NThreads + 1 THEN s.open[i] ELSE s.open[i + 1]
  <2>1. NThreads + 1 \in Nat /\ NThreads + 1 < Len(s.open)
    BY <1>1 DEF Base
  <2> QED BY <1>1, <2>1, EraseProperties
<1> HIDE DEF o
<1>3. /\ t \in SocketControls /\ t.open = o /\ t.http = -1 /\ t.ssl = s.ssl - 1
      /\ t.dyn = s.dyn - 1 /\ t.nmsg = NThreads /\ t.stop = s.stop
      /\ t.waiting = s.waiting
  <2>1. /\ t \in SocketControls
        /\ t = [s EXCEPT !.open = o, !.http = -1, !.ssl = s.ssl - 1, !.dyn = s.dyn - 1]
    BY RemoveHttp DEF o
  <2> HIDE DEF t
  <2> QED BY <1>1, <2>1 DEF SocketControls
<1> HIDE DEF t
<1>4. RemoveThrows(t, t.ssl) <=> ~UseSsl
  <2>1. s.ssl = IF UseSsl THEN NThreads + 2 ELSE -1
    BY DEF LayoutUp
  <2>2. CASE UseSsl
    BY <1>1, <1>2, <1>3, <2>1, <2>2 DEF RemoveThrows, Base
  <2>3. CASE ~UseSsl
    BY <1>1, <1>2, <1>3, <2>1, <2>3 DEF RemoveThrows
  <2> QED BY <2>2, <2>3
<1>5. ASSUME UseSsl
      PROVE  u \in SocketControls /\ LayoutDown(u) /\ u.waiting = s.waiting
             /\ u.dyn = s.dyn - 2
  <2>1. Base = NThreads + 3 /\ t.ssl = NThreads + 1
    BY <1>1, <1>3, <1>5 DEF Base, LayoutUp
  <2>2. /\ p \in Seq(Sockets) /\ Len(p) = Len(s.open) - 2
        /\ \A i \in 1 .. Len(o) - 1 :
             p[i] = IF i <= NThreads + 1 THEN o[i] ELSE o[i + 1]
    <3>1. NThreads + 1 \in Nat /\ NThreads + 1 < Len(o)
      BY <1>1, <1>2, <2>1
    <3>2. Len(o) - 1 = Len(s.open) - 2
      BY <1>1, <1>2
    <3> QED BY <1>2, <3>1, <3>2, EraseProperties
  <2> HIDE DEF p
  <2>3. ASSUME NEW i \in 1 .. Len(s.open) - 2
        PROVE  p[i] = IF i <= NThreads + 1 THEN s.open[i] ELSE s.open[i + 2]
    <3>1. /\ i \in 1 .. Len(o) - 1 /\ i \in 1 .. Len(s.open) - 1
          /\ i + 1 \in 1 .. Len(s.open) - 1 /\ i + 1 + 1 = i + 2
      BY <1>1, <1>2
    <3>2. CASE i <= NThreads + 1
      BY <1>2, <2>2, <3>1, <3>2
    <3>3. CASE ~(i <= NThreads + 1)
      <4>1. p[i] = o[i + 1]
        BY <2>2, <3>1, <3>3
      <4>2. ~(i + 1 <= NThreads + 1)
        BY <1>1, <3>3
      <4>3. o[i + 1] = s.open[i + 1 + 1]
        BY <1>2, <3>1, <4>2
      <4> QED BY <3>1, <3>3, <4>1, <4>3
    <3> QED BY <3>2, <3>3
  <2>4. u = [t EXCEPT !.open = p, !.ssl = -1, !.dyn = t.dyn - 1]
    <3>1. ~(t.ssl < t.nmsg) /\ t.ssl >= t.nmsg /\ t.ssl # t.http /\ t.dyn \in Int
      BY <1>1, <1>3, <2>1
    <3>2. p = Erase(t.open, t.ssl)
      BY <1>3, <2>1 DEF p
    <3> QED BY <3>1, <3>2, <1>3 DEF remove, SocketControls
  <2>5. t.dyn - 1 \in Int
    BY <1>1, <1>3
  <2>6. /\ u \in SocketControls /\ u.open = p /\ u.http = -1 /\ u.ssl = -1
        /\ u.dyn = s.dyn - 2 /\ u.nmsg = NThreads /\ u.stop = s.stop
        /\ u.waiting = s.waiting
    <3> DEFINE v == [t EXCEPT !.open = p]
               w == [v EXCEPT !.ssl = -1]
    <3> HIDE DEF u
    <3>1. v \in SocketControls /\ v.open = p /\ v.http = -1 /\ v.dyn = t.dyn
          /\ v.nmsg = NThreads /\ v.stop = s.stop /\ v.waiting = s.waiting
      BY <1>3, <2>2 DEF SocketControls
    <3>2. u = [w EXCEPT !.dyn = t.dyn - 1]
      BY <2>4
    <3> HIDE DEF v
    <3>3. w \in SocketControls /\ w.open = p /\ w.http = -1 /\ w.ssl = -1
          /\ w.nmsg = NThreads /\ w.stop = s.stop /\ w.waiting = s.waiting
      BY <3>1 DEF SocketControls
    <3> HIDE DEF w
    <3>4. u \in SocketControls /\ u.open = p /\ u.http = -1 /\ u.ssl = -1
          /\ u.dyn = t.dyn - 1 /\ u.nmsg = NThreads /\ u.stop = s.stop
          /\ u.waiting = s.waiting
      BY <2>5, <3>2, <3>3 DEF SocketControls
    <3>5. t.dyn - 1 = s.dyn - 2
      BY <1>1, <1>3
    <3> QED BY <3>4, <3>5
  <2> HIDE DEF u
  <2>7. Prefix(u)
    <3>1. \A k \in 1 .. NThreads + 1 : p[k] = s.open[k]
      BY <1>1, <2>1, <2>3
    <3> QED BY <1>1, <2>1, <2>2, <2>6, <3>1 DEF LayoutUp, Prefix
  <2>8. ASSUME NEW k \in NThreads + 2 .. Len(p) PROVE p[k] \in Jobs
    <3>1. p[k] = s.open[k + 2]
      BY <1>1, <2>1, <2>2, <2>3
    <3>2. k + 2 \in Base + 1 .. Len(s.open)
      BY <1>1, <2>1, <2>2
    <3> QED BY <3>1, <3>2 DEF LayoutUp
  <2>9. u.dyn = NThreads + 1 \/ (u.dyn = -3 /\ Len(u.open) = NThreads + 1)
    BY <1>1, <2>1, <2>2, <2>6 DEF LayoutUp
  <2> QED BY <2>6, <2>7, <2>8, <2>9 DEF LayoutDown
<1> QED BY <1>4, <1>5 DEF t

(* close_all_dynsocks leaves a shorter list of the same layout. *)
LEMMA CloseAll ==
  ASSUME NEW s \in SocketControls, LayoutDown(s)
  PROVE  /\ close_all_dynsocks(s) \in SocketControls
         /\ LayoutDown(close_all_dynsocks(s))
         /\ close_all_dynsocks(s).waiting = s.waiting
         /\ close_all_dynsocks(s).dyn = s.dyn
<1> DEFINE n == NThreads + 1
           rest == (Len(s.open) - n) \div 2
           a == SubSeq(s.open, 1, n)
           b == [j \in 1..rest |-> s.open[n + 2 * j]]
           t == close_all_dynsocks(s)
<1>1. /\ s.open \in Seq(Sockets) /\ Len(s.open) \in Nat /\ NThreads \in Nat
      /\ Len(s.open) >= n /\ s.dyn \in Int
      /\ \A i \in 1 .. Len(s.open) : s.open[i] \in Sockets
  BY LenProperties, ElementOfSeq, NThreadsAssumption DEF SocketControls, LayoutDown, Prefix
<1>2. CASE s.dyn < 0
  BY <1>2 DEF close_all_dynsocks
<1>3. CASE s.dyn >= 0
  <2>1. s.dyn = n
    BY <1>1, <1>3 DEF LayoutDown
  <2>2. a \in Seq(Sockets) /\ Len(a) = n /\ \A i \in 1 .. n : a[i] = s.open[i]
    BY <1>1, SubSeqProperties, Z3
  <2>3. rest \in Nat /\ \A j \in 1 .. rest : n + 2 * j \in n + 1 .. Len(s.open)
    <3>1. \A m \in Nat : m \div 2 \in Nat /\ 2 * (m \div 2) <= m
      OBVIOUS
    <3>2. Len(s.open) - n \in Nat
      BY <1>1
    <3>3. rest \in Nat /\ 2 * rest <= Len(s.open) - n
      BY <3>1, <3>2
    <3> HIDE DEF rest
    <3> QED BY <1>1, <3>3
  <2>4. b \in Seq(Sockets) /\ Len(b) = rest
    <3> HIDE DEF rest
    <3>1. b \in [1..rest -> Sockets] /\ DOMAIN b = 1 .. rest
      BY <1>1, <2>3
    <3> HIDE DEF b
    <3>2. b \in Seq(Sockets)
      BY <2>3, <3>1, SeqDef, Zenon
    <3>3. DOMAIN b = 1 .. Len(b) /\ Len(b) \in Nat
      BY <3>2, LenProperties, Zenon
    <3>4. rest = Len(b)
      BY <2>3, <3>1, <3>3
    <3> QED BY <3>2, <3>4, Zenon
  <2>5. t = [s EXCEPT !.open = a \o b]
    BY <1>1, <1>3, <2>1 DEF close_all_dynsocks
  <2>6. \A j \in 1 .. rest : b[j] \in Jobs
    <3> SUFFICES ASSUME NEW j \in 1 .. rest PROVE b[j] \in Jobs
      OBVIOUS
    <3>1. b[j] = s.open[n + 2 * j]
      OBVIOUS
    <3>2. n + 2 * j \in NThreads + 2 .. Len(s.open)
      <4>1. n + 2 * j \in n + 1 .. Len(s.open)
        BY <2>3
      <4> QED BY <1>1, <4>1
    <3> QED BY <3>1, <3>2 DEF LayoutDown
  <2> HIDE DEF a, b, rest
  <2>7. /\ a \o b \in Seq(Sockets)
        /\ Len(a \o b) = Len(a) + Len(b)
        /\ \A i \in 1 .. Len(a) + Len(b) :
             (a \o b)[i] = IF i <= Len(a) THEN a[i] ELSE b[i - Len(a)]
    BY <2>2, <2>4, ConcatProperties, Zenon
  <2> DEFINE c == a \o b
  <2>8. /\ c \in Seq(Sockets) /\ Len(c) = n + rest
        /\ \A i \in 1 .. n : c[i] = s.open[i]
        /\ \A i \in n + 1 .. n + rest : c[i] \in Jobs
    BY <1>1, <2>2, <2>3, <2>4, <2>6, <2>7, Z3
  <2>9. t = [s EXCEPT !.open = c]
    BY <2>5
  <2> HIDE DEF c, t, n
  <2>10. /\ t \in SocketControls /\ t.open = c /\ t.nmsg = s.nmsg
         /\ t.stop = s.stop /\ t.http = s.http /\ t.ssl = s.ssl
         /\ t.dyn = s.dyn /\ t.waiting = s.waiting
    BY <2>8, <2>9 DEF SocketControls
  <2>11. Prefix(t)
    BY <1>1, <2>3, <2>8, <2>10 DEF LayoutDown, Prefix, n
  <2>12. LayoutDown(t)
    BY <1>1, <2>1, <2>3, <2>8, <2>10, <2>11 DEF LayoutDown, n
  <2> QED BY <2>10, <2>12 DEF t
<1> QED BY <1>1, <1>2, <1>3

-----------------------------------------------------------------------------
(* The invariant holds initially and every step keeps it.                  *)

(* The constructor of SocketControl builds a well-typed record. *)
LEMMA NewType == NewSocketControl \in SocketControls
<1>1. NThreads \in Nat
  BY NThreadsAssumption
<1>2. [k \in 1..NThreads |-> k - 1] \in Seq(Sockets)
  <2>1. [k \in 1..NThreads |-> k - 1] \in [1..NThreads -> Sockets]
    BY <1>1 DEF Workers, Sockets
  <2> QED BY <1>1, <2>1, IsASeq
<1>3. <<>> \in Seq(Jobs)
  BY EmptySeq
<1>4. -1 \in Int /\ NThreads \in Int
  BY <1>1
<1> QED BY <1>2, <1>3, <1>4, Zenon DEF NewSocketControl, SocketControls

(* A freshly constructed server satisfies the invariant. *)
LEMMA InitIndInv == Init => IndInv
<1> SUFFICES ASSUME Init PROVE IndInv
  OBVIOUS
<1> USE DEF Init
<1>1. NThreads \in Nat
  BY NThreadsAssumption
<1>2. [k \in 1..NThreads |-> k - 1] \in Seq(Workers)
  <2>1. [k \in 1..NThreads |-> k - 1] \in [1..NThreads -> Workers]
    BY <1>1 DEF Workers
  <2> QED BY <1>1, <2>1, IsASeq
<1>3. NewSocketControl \in SocketControls
  BY NewType
<1>4. TypeOK
  <2>1. /\ \A S : <<>> \in Seq(S)
        /\ NoConn \in Conns \cup {NoConn} /\ 0 \in Nat
        /\ 0 \in 0..1 /\ 0 \in 0..MaxReqs
    BY EmptySeq, ServerAssumption
  <2> QED BY <1>2, <1>3, <2>1 DEF TypeOK
<1>5. Layout /\ SnapInv
  BY DEF Layout, SnapInv
<1>6. NoIdleThreadWhileWaiting /\ BusyHasJob
  BY DEF NoIdleThreadWhileWaiting, NewSocketControl, BusyHasJob
<1> QED BY <1>4, <1>5, <1>6 DEF IndInv

(* Messages, jobs and their pipes keep their types. *)
LEMMA MsgTypes ==
  /\ \A c \in Jobs : Msg("PROCESS_REQUEST", c) \in ToWorkerMsgs
  /\ Msg("EXIT", NoConn) \in ToWorkerMsgs
  /\ \A c \in Jobs : /\ Msg("FINISHED_AND_CONTINUE", c) \in ToMainMsgs
                      /\ Msg("FINISHED_AND_CLOSE", c) \in ToMainMsgs
  /\ \A m \in ToMainMsgs : m.sock \in Jobs
  /\ \A m \in ToWorkerMsgs : m.type = "PROCESS_REQUEST" => m.sock \in Jobs
<1>1. \A c \in Jobs : Msg("PROCESS_REQUEST", c) \in ToWorkerMsgs
  BY Zenon DEF ToWorkerMsgs
<1>2. Msg("EXIT", NoConn) \in ToWorkerMsgs
  BY Zenon DEF ToWorkerMsgs
<1>3. ASSUME NEW c \in Jobs
      PROVE  /\ Msg("FINISHED_AND_CONTINUE", c) \in ToMainMsgs
             /\ Msg("FINISHED_AND_CLOSE", c) \in ToMainMsgs
  <2>1. ASSUME NEW t \in {"FINISHED_AND_CONTINUE", "FINISHED_AND_CLOSE"}
        PROVE  Msg(t, c) \in ToMainMsgs
    BY DEF ToMainMsgs, Msg
  <2> QED BY <2>1
<1>4. \A m \in ToMainMsgs : m.sock \in Jobs
  BY DEF ToMainMsgs, Msg
<1>5. \A m \in ToWorkerMsgs : m.type = "PROCESS_REQUEST" => m.sock \in Jobs
  BY DEF ToWorkerMsgs, Msg
<1> QED BY <1>1, <1>2, <1>3, <1>4, <1>5

(* The clients and the signals do not disturb the main loop. *)
LEMMA EnvironmentStep ==
  ASSUME IndInv, Environment
  PROVE  IndInv'
<1> USE DEF IndInv
<1>1. ASSUME NEW c \in Conns, NEW p \in Ports, Connect(c, p)
      PROVE  IndInv'
  <2>1. TypeOK'
    BY <1>1 DEF TypeOK, Connect, mainVars, pipeVars, workerVars, sigVars
  <2>2. Layout'
    BY <1>1 DEF Layout, Connect, mainVars
  <2>3. /\ backlog["http"] # <<>> => backlog'["http"] # <<>>
        /\ backlog["ssl"] # <<>> => backlog'["ssl"] # <<>>
    <3>1. backlog[p] \in Seq(Conns)
      BY DEF TypeOK
    <3>2. Append(backlog[p], c) # <<>>
      BY <3>1, AppendProperties
    <3> QED BY <1>1, <3>2 DEF TypeOK, Connect, Ports
  <2>4. SnapInv'
    BY <1>1, <2>3 DEF SnapInv, Connect, mainVars, pipeVars, sigVars
  <2>5. NoIdleThreadWhileWaiting' /\ BusyHasJob'
    BY <1>1 DEF NoIdleThreadWhileWaiting, BusyHasJob, Connect, mainVars, workerVars
  <2> QED BY <2>1, <2>2, <2>4, <2>5
<1>2. ASSUME NEW c \in Conns, ClientSend(c)
      PROVE  IndInv'
  <2>1. TypeOK'
    BY <1>2, ServerAssumption DEF TypeOK, ClientSend, mainVars, pipeVars, workerVars, sigVars
  <2>2. Layout' /\ SnapInv' /\ NoIdleThreadWhileWaiting' /\ BusyHasJob'
    BY <1>2 DEF Layout, SnapInv, NoIdleThreadWhileWaiting, BusyHasJob, ClientSend, mainVars,
                pipeVars, workerVars, sigVars
  <2> QED BY <2>1, <2>2
<1>3. ASSUME NEW c \in Conns, ClientClose(c)
      PROVE  IndInv'
  <2>1. TypeOK'
    BY <1>3 DEF TypeOK, ClientClose, mainVars, pipeVars, workerVars, sigVars
  <2>2. Layout' /\ SnapInv' /\ NoIdleThreadWhileWaiting' /\ BusyHasJob'
    BY <1>3 DEF Layout, SnapInv, NoIdleThreadWhileWaiting, BusyHasJob, ClientClose, mainVars,
                pipeVars, workerVars, sigVars
  <2> QED BY <2>1, <2>2
<1>4. ASSUME Signal PROVE IndInv'
  <2>1. TypeOK'
    BY <1>4 DEF TypeOK, Signal, mainVars, pipeVars, workerVars, connVars
  <2>2. Layout' /\ SnapInv' /\ NoIdleThreadWhileWaiting' /\ BusyHasJob'
    BY <1>4 DEF Layout, SnapInv, NoIdleThreadWhileWaiting, BusyHasJob, Signal, mainVars,
                pipeVars, workerVars, connVars
  <2> QED BY <2>1, <2>2
<1> QED BY <1>1, <1>2, <1>3, <1>4 DEF Environment

(* The finished message of a worker is well typed and is never lost. *)
LEMMA FinishStep ==
  ASSUME TypeOK, NEW w \in Workers, job[w] \in Jobs,
         NEW type \in {"FINISHED_AND_CONTINUE", "FINISHED_AND_CLOSE"}, Finish(w, type)
  PROVE  /\ toMain' \in [Workers -> Seq(ToMainMsgs)]
         /\ wpc' \in [Workers -> {"poll", "reading", "handling", "gone"}]
         /\ job' \in [Workers -> Jobs \cup {NoConn}]
         /\ \A v \in Workers : toMain[v] # <<>> => toMain'[v] # <<>>
<1>1. toMain[w] \in Seq(ToMainMsgs) /\ Msg(type, job[w]) \in ToMainMsgs
  BY MsgTypes DEF TypeOK
<1>2. /\ Append(toMain[w], Msg(type, job[w])) \in Seq(ToMainMsgs)
      /\ Append(toMain[w], Msg(type, job[w])) # <<>>
  BY <1>1, AppendProperties
<1> QED BY <1>2 DEF TypeOK, Finish

(* The steps of the workers. *)
LEMMA WorkerStep ==
  ASSUME IndInv, NEW w \in Workers, Worker(w)
  PROVE  IndInv'
<1> USE DEF IndInv
<1>1. CASE WorkerReceive(w)
  <2>1. /\ Head(toWorker[w]) \in ToWorkerMsgs
        /\ Tail(toWorker[w]) \in Seq(ToWorkerMsgs)
    BY <1>1, HeadTailProperties DEF WorkerReceive, TypeOK
  <2>2. Head(toWorker[w]).type = "PROCESS_REQUEST" => Head(toWorker[w]).sock \in Jobs
    BY <2>1, MsgTypes
  <2>3. TypeOK'
    <3>1. toWorker' \in [Workers -> Seq(ToWorkerMsgs)]
      BY <1>1, <2>1 DEF WorkerReceive, TypeOK
    <3>2. /\ wpc' \in [Workers -> {"poll", "reading", "handling", "gone"}]
          /\ job' \in [Workers -> Jobs \cup {NoConn}]
      BY <1>1, <2>2 DEF WorkerReceive, TypeOK
    <3>3. UNCHANGED <<mainVars, toMain, sigVars, connVars>>
      BY <1>1 DEF WorkerReceive
    <3> QED BY <3>1, <3>2, <3>3 DEF TypeOK, mainVars, sigVars, connVars
  <2>4. Layout' /\ SnapInv' /\ NoIdleThreadWhileWaiting'
    BY <1>1 DEF WorkerReceive, Layout, SnapInv, NoIdleThreadWhileWaiting, mainVars, sigVars,
                connVars
  <2>5. BusyHasJob'
    BY <1>1, <2>2 DEF WorkerReceive, BusyHasJob, TypeOK
  <2> QED BY <2>3, <2>4, <2>5
<1>2. CASE WorkerRead(w)
  <2>1. job[w] \in Conns
    BY <1>2 DEF WorkerRead, OpenFds
  <2>2. TypeOK'
    BY <1>2, <2>1 DEF WorkerRead, TypeOK, mainVars, pipeVars, sigVars
  <2>3. Layout' /\ SnapInv' /\ NoIdleThreadWhileWaiting'
    BY <1>2 DEF WorkerRead, Layout, SnapInv, NoIdleThreadWhileWaiting, mainVars, pipeVars,
                sigVars
  <2>4. BusyHasJob'
    BY <1>2, <2>1 DEF WorkerRead, BusyHasJob, TypeOK, Jobs
  <2> QED BY <2>2, <2>3, <2>4
<1>3. ASSUME NEW type \in {"FINISHED_AND_CONTINUE", "FINISHED_AND_CLOSE"},
             wpc[w] \in {"reading", "handling"}, Finish(w, type),
             UNCHANGED <<mainVars, toWorker, sigVars, connVars>>
      PROVE  IndInv'
  <2>1. job[w] \in Jobs
    BY <1>3 DEF BusyHasJob
  <2>2. /\ toMain' \in [Workers -> Seq(ToMainMsgs)]
        /\ wpc' \in [Workers -> {"poll", "reading", "handling", "gone"}]
        /\ job' \in [Workers -> Jobs \cup {NoConn}]
        /\ \A v \in Workers : toMain[v] # <<>> => toMain'[v] # <<>>
    BY <1>3, <2>1, FinishStep
  <2>3. TypeOK'
    BY <1>3, <2>2 DEF TypeOK, mainVars, sigVars, connVars
  <2>4. Layout' /\ NoIdleThreadWhileWaiting'
    BY <1>3 DEF Layout, NoIdleThreadWhileWaiting, mainVars
  <2>5. SnapInv'
    BY <1>3, <2>2 DEF SnapInv, mainVars, sigVars, connVars
  <2>6. BusyHasJob'
    BY <1>3 DEF BusyHasJob, Finish, TypeOK
  <2> QED BY <2>3, <2>4, <2>5, <2>6
<1>4. CASE WorkerReadFails(w)
  BY <1>3, <1>4 DEF WorkerReadFails
<1>5. ASSUME NEW type \in {"FINISHED_AND_CONTINUE", "FINISHED_AND_CLOSE"},
             WorkerDone(w, type)
      PROVE  IndInv'
  BY <1>3, <1>5 DEF WorkerDone
<1> QED BY <1>1, <1>2, <1>4, <1>5 DEF Worker

(* The signal thread only ever fills the stop pipe. *)
LEMMA SigThreadStep ==
  ASSUME IndInv, SigThread
  PROVE  IndInv'
<1>1. TypeOK'
  BY DEF IndInv, SigThread, TypeOK, mainVars, pipeVars, workerVars, connVars
<1>2. stoppipe = "exit" => stoppipe' = "exit"
  BY DEF SigThread
<1>3. Layout' /\ NoIdleThreadWhileWaiting' /\ BusyHasJob'
  BY DEF IndInv, SigThread, Layout, NoIdleThreadWhileWaiting, BusyHasJob, mainVars, workerVars
<1>4. SnapInv'
  BY <1>2 DEF IndInv, SigThread, SnapInv, mainVars, pipeVars, connVars
<1> QED BY <1>1, <1>3, <1>4 DEF IndInv

-----------------------------------------------------------------------------
(* The steps of the main thread.                                           *)

(* Type facts every step of the scan uses. *)
LEMMA Types ==
  ASSUME TypeOK
  PROVE  /\ NThreads \in Nat /\ NThreads > 0 /\ idx \in Nat
         /\ Base \in Nat /\ Base >= NThreads + 2 /\ Base <= NThreads + 3
         /\ UseSsl <=> Base = NThreads + 3
         /\ sc \in SocketControls
         /\ sc.open \in Seq(Sockets) /\ Len(sc.open) \in Nat
         /\ sc.waiting \in Seq(Jobs)
         /\ snap \in Seq(Revents) /\ Len(snap) \in Nat
         /\ threadQueue \in Seq(Workers)
<1>1. NThreads \in Nat /\ NThreads > 0 /\ UseSsl \in BOOLEAN
  BY NThreadsAssumption, ServerAssumption
<1>2. sc \in SocketControls /\ idx \in Nat /\ snap \in Seq(Revents)
      /\ threadQueue \in Seq(Workers)
  BY DEF TypeOK
<1>3. sc.open \in Seq(Sockets) /\ sc.waiting \in Seq(Jobs)
  BY <1>2 DEF SocketControls
<1>4. Base \in Nat /\ Base >= NThreads + 2 /\ Base <= NThreads + 3
      /\ (UseSsl <=> Base = NThreads + 3)
  BY <1>1 DEF Base
<1> QED BY <1>1, <1>2, <1>3, <1>4, LenProperties

(* Start-up, poll() and the joins. *)
LEMMA StartSigThreadStep ==
  ASSUME IndInv, StartSigThread
  PROVE  IndInv'
<1> USE DEF IndInv, StartSigThread
<1>1. TypeOK'
  BY DEF TypeOK, pipeVars, workerVars, connVars
<1>2. Layout' /\ SnapInv' /\ NoIdleThreadWhileWaiting' /\ BusyHasJob'
  BY DEF Layout, SnapInv, NoIdleThreadWhileWaiting, BusyHasJob, workerVars
<1> QED BY <1>1, <1>2

(* The listeners are added behind the control sockets. *)
LEMMA OpenLayout ==
  LET plain == add_http_socket(add_stop_socket(NewSocketControl))
      all   == IF UseSsl THEN add_ssl_socket(plain) ELSE plain
  IN  all \in SocketControls /\ LayoutUp(all) /\ all.waiting = <<>>
<1> DEFINE a == NewSocketControl.open
           b == Append(a, StopSock)
           c == Append(b, HttpSock)
           d == Append(c, SslSock)
           plain == add_http_socket(add_stop_socket(NewSocketControl))
           all   == IF UseSsl THEN add_ssl_socket(plain) ELSE plain
<1> SUFFICES all \in SocketControls /\ LayoutUp(all) /\ all.waiting = <<>>
  OBVIOUS
<1>1. NThreads \in Nat /\ UseSsl \in BOOLEAN
      /\ {StopSock, HttpSock, SslSock} \subseteq Sockets
  BY NThreadsAssumption, ServerAssumption DEF Sockets
<1>2. a \in Seq(Sockets) /\ Len(a) = NThreads /\ \A k \in 1..NThreads : a[k] = k - 1
  <2>1. a = [k \in 1..NThreads |-> k - 1]
    BY DEF NewSocketControl
  <2>2. a \in [1..NThreads -> Sockets]
    BY <1>1, <2>1 DEF Workers, Sockets
  <2>3. a \in Seq(Sockets)
    BY <1>1, <2>2, IsASeq
  <2> HIDE DEF a
  <2> QED BY <1>1, <2>1, <2>2, <2>3, LenProperties
<1> HIDE DEF a
<1>3. b \in Seq(Sockets) /\ Len(b) = NThreads + 1
      /\ (\A k \in 1..NThreads : b[k] = k - 1) /\ b[NThreads + 1] = StopSock
  BY <1>1, <1>2, AppendProperties
<1> HIDE DEF b
<1>4. c \in Seq(Sockets) /\ Len(c) = NThreads + 2
      /\ (\A k \in 1..NThreads : c[k] = k - 1) /\ c[NThreads + 1] = StopSock
      /\ c[NThreads + 2] = HttpSock
  BY <1>1, <1>3, AppendProperties
<1> HIDE DEF c
<1>5. d \in Seq(Sockets) /\ Len(d) = NThreads + 3
      /\ (\A k \in 1..NThreads : d[k] = k - 1) /\ d[NThreads + 1] = StopSock
      /\ d[NThreads + 2] = HttpSock /\ d[NThreads + 3] = SslSock
  BY <1>1, <1>4, AppendProperties
<1> HIDE DEF d
<1>6. /\ plain \in SocketControls /\ plain.open = c /\ plain.waiting = <<>>
      /\ plain.nmsg = NThreads /\ plain.stop = NThreads /\ plain.http = NThreads + 1
      /\ plain.ssl = -1 /\ plain.dyn = -1
  <2> DEFINE n == NewSocketControl
             x == add_stop_socket(n)
  <2>1. /\ n \in SocketControls /\ n.open = a /\ n.waiting = <<>> /\ n.nmsg = NThreads
        /\ n.ssl = -1 /\ n.dyn = -1
    BY NewType DEF NewSocketControl, a
  <2> HIDE DEF n
  <2>2. x = [n EXCEPT !.open = b, !.stop = NThreads]
    BY <1>2, <2>1 DEF add_stop_socket, b
  <2> HIDE DEF x
  <2>3. /\ x \in SocketControls /\ x.open = b /\ x.waiting = <<>> /\ x.nmsg = NThreads
        /\ x.stop = NThreads /\ x.ssl = -1 /\ x.dyn = -1
    BY <1>1, <1>3, <2>1, <2>2 DEF SocketControls
  <2> DEFINE h == NThreads + 1
  <2>4. plain = [x EXCEPT !.open = c, !.http = h]
    BY <1>3, <2>3 DEF add_http_socket, c, x, n
  <2>5. h \in Int
    BY <1>1
  <2> HIDE DEF plain, h
  <2>6. /\ plain \in SocketControls /\ plain.open = c /\ plain.waiting = <<>>
        /\ plain.nmsg = NThreads /\ plain.stop = NThreads /\ plain.http = h
        /\ plain.ssl = -1 /\ plain.dyn = -1
    BY <1>4, <2>3, <2>4, <2>5 DEF SocketControls
  <2> QED BY <2>6 DEF h
<1> HIDE DEF plain
<1>7. CASE UseSsl
  <2> DEFINE h == NThreads + 2
  <2>1. all = [plain EXCEPT !.open = d, !.ssl = h]
    BY <1>4, <1>6, <1>7 DEF add_ssl_socket, d
  <2>h. h \in Int
    BY <1>1
  <2> HIDE DEF all, h
  <2>2. /\ all \in SocketControls /\ all.open = d /\ all.waiting = <<>>
        /\ all.nmsg = NThreads /\ all.stop = NThreads /\ all.http = NThreads + 1
        /\ all.ssl = h /\ all.dyn = -1
    BY <1>5, <1>6, <2>1, <2>h DEF SocketControls
  <2>3. LayoutUp(all)
    BY <1>1, <1>5, <1>7, <2>2 DEF LayoutUp, Prefix, Base, h
  <2> QED BY <2>2, <2>3
<1>8. CASE ~UseSsl
  <2>1. all = plain
    BY <1>8
  <2> HIDE DEF all
  <2>2. LayoutUp(all)
    BY <1>1, <1>4, <1>6, <1>8, <2>1 DEF LayoutUp, Prefix, Base
  <2> QED BY <1>6, <2>1, <2>2
<1> QED BY <1>1, <1>7, <1>8

(* Opening the stop pipe and the listeners establishes the layout. *)
LEMMA OpenSocketsStep ==
  ASSUME IndInv, OpenSockets
  PROVE  IndInv'
<1> USE DEF IndInv, OpenSockets
<1>1. sc' \in SocketControls /\ LayoutUp(sc') /\ sc'.waiting = <<>>
  BY OpenLayout DEF Layout
<1>2. TypeOK'
  BY <1>1 DEF TypeOK, pipeVars, workerVars, connVars
<1>3. Layout' /\ SnapInv' /\ NoIdleThreadWhileWaiting' /\ BusyHasJob'
  BY <1>1 DEF Layout, SnapInv, NoIdleThreadWhileWaiting, BusyHasJob, workerVars
<1> QED BY <1>2, <1>3

(* What a socket of the fixed part can report. *)
LEMMA ReventsProperties ==
  ASSUME NEW s \in Sockets, NEW hup \in [Conns -> HangupRevents]
  PROVE  /\ revents(s, hup) \in Revents
         /\ revents(s, hup) = "HUP" => s \in Conns
         /\ revents(s, hup) = "IN" => Ready(s)
<1>1. \A c \in Conns : hup[c] \in {"IN", "HUP"}
  BY ServerAssumption
<1> QED BY <1>1 DEF revents, Revents

(* poll() takes a snapshot that is true when it is taken. *)
LEMMA PollStep ==
  ASSUME IndInv, Poll
  PROVE  IndInv'
<1> USE DEF IndInv
<1>1. LayoutUp(sc) /\ LayoutUp(sc)'
  BY DEF Layout, Poll
<1>2. PICK hup \in [Conns -> HangupRevents] :
        snap' = [k \in DOMAIN sc.open |-> revents(sc.open[k], hup)]
  BY DEF Poll
<1>t. /\ NThreads \in Nat /\ Base \in Nat /\ Base >= NThreads + 2
      /\ Base <= NThreads + 3 /\ (UseSsl <=> Base = NThreads + 3)
      /\ sc.open \in Seq(Sockets) /\ Len(sc.open) \in Nat
  BY Types
<1>3. DOMAIN sc.open = 1 .. Len(sc.open)
      /\ \A k \in 1 .. Len(sc.open) : sc.open[k] \in Sockets
  BY <1>t, LenProperties, ElementOfSeq
<1>4. /\ snap' \in Seq(Revents) /\ Len(snap') = Len(sc.open)
      /\ \A k \in 1 .. Len(sc.open) : snap'[k] = revents(sc.open[k], hup)
  <2>1. snap' \in [1 .. Len(sc.open) -> Revents]
    BY <1>2, <1>3, ReventsProperties
  <2>2. snap' \in Seq(Revents)
    BY <1>t, <2>1, IsASeq
  <2> QED BY <1>2, <1>3, <1>t, <2>1, <2>2, LenProperties
<1>5. TypeOK'
  BY <1>4 DEF TypeOK, Poll, pipeVars, workerVars, sigVars, connVars
<1>6. Layout' /\ NoIdleThreadWhileWaiting' /\ BusyHasJob'
  BY <1>1, <1>t, NThreadsAssumption
     DEF Layout, Poll, NoIdleThreadWhileWaiting, BusyHasJob, workerVars, LayoutUp, LayoutDown
<1>7. SnapInv'
  <2>1. \A k \in 1 .. Base : sc.open[k] \notin Conns
    <3> SUFFICES ASSUME NEW k \in 1 .. Base PROVE sc.open[k] \notin Conns
      OBVIOUS
    <3>1. sc.open[k] \in Workers \cup {StopSock, HttpSock, SslSock}
      <4>1. CASE k <= NThreads
        <5>1. sc.open[k] = k - 1
          BY <1>1, <1>t, <4>1 DEF LayoutUp, Prefix
        <5>2. k - 1 \in Workers
          BY <1>t, <4>1 DEF Workers
        <5> QED BY <5>1, <5>2
      <4>2. CASE k > NThreads
        <5>1. k = NThreads + 1 \/ k = NThreads + 2 \/ (k = NThreads + 3 /\ UseSsl)
          BY <1>t, <4>2
        <5> QED BY <1>1, <5>1 DEF LayoutUp, Prefix
      <4> QED BY <1>t, <4>1, <4>2
    <3> QED BY <3>1, SocketsDistinct
  <2>2. \A k \in 1 .. Base : snap'[k] # "HUP"
    BY <1>1, <1>3, <1>4, <1>t, <2>1, ReventsProperties DEF LayoutUp
  <2>3. \A k \in 1 .. Base : snap'[k] = "IN" => Ready(sc.open[k])
    BY <1>1, <1>3, <1>4, <1>t, ReventsProperties DEF LayoutUp
  <2>4. \A w \in Workers : snap'[w + 1] = "IN" => toMain[w] # <<>>
    <3> SUFFICES ASSUME NEW w \in Workers, snap'[w + 1] = "IN" PROVE toMain[w] # <<>>
      OBVIOUS
    <3>a. w + 1 \in 1 .. NThreads /\ w + 1 \in 1 .. Base /\ (w + 1) - 1 = w
      BY <1>t DEF Workers
    <3>1. w + 1 \in 1 .. Base /\ sc.open[w + 1] = w
      BY <1>1, <3>a DEF LayoutUp, Prefix
    <3>2. Ready(w)
      BY <2>3, <3>1
    <3> QED BY <3>2, SocketsDistinct DEF Ready
  <2>5. snap'[NThreads + 1] = "IN" => stoppipe = "exit"
    <3>1. NThreads + 1 \in 1 .. Base /\ sc.open[NThreads + 1] = StopSock
      BY <1>1, <1>t DEF LayoutUp, Prefix
    <3> QED BY <2>3, <3>1, SocketsDistinct DEF Ready
  <2>6. snap'[NThreads + 2] = "IN" => backlog["http"] # <<>>
    <3>1. NThreads + 2 \in 1 .. Base /\ sc.open[NThreads + 2] = HttpSock
      BY <1>1, <1>t DEF LayoutUp, Prefix
    <3> QED BY <2>3, <3>1, SocketsDistinct DEF Ready
  <2>7. UseSsl /\ snap'[NThreads + 3] = "IN" => backlog["ssl"] # <<>>
    <3>1. UseSsl => NThreads + 3 \in 1 .. Base /\ sc.open[NThreads + 3] = SslSock
      BY <1>1, <1>t DEF LayoutUp, Prefix
    <3> QED BY <2>3, <3>1, SocketsDistinct DEF Ready
  <2>8. Len(snap') >= Base /\ (sc.dyn < 0 => Len(snap') = Base)
    BY <1>1, <1>4, <1>t DEF LayoutUp
  <2> QED BY <2>2, <2>4, <2>5, <2>6, <2>7, <2>8
          DEF SnapInv, Poll, pipeVars, sigVars, connVars
<1> QED BY <1>5, <1>6, <1>7

(* Steps that leave the list alone: a failed poll, the end of a scan, the  *)
(* joins, an entry without an event.                                       *)
LEMMA PlainStep ==
  ASSUME IndInv, PollFails \/ EndOfScan \/ JoinSigThread \/ JoinWorkers \/ NoEvent
  PROVE  IndInv'
<1> USE DEF IndInv
<1>1. CASE PollFails
  BY <1>1 DEF PollFails, TypeOK, Layout, SnapInv, NoIdleThreadWhileWaiting, BusyHasJob,
              pipeVars, workerVars, sigVars, connVars
<1>2. CASE EndOfScan
  <2>1. TypeOK'
    BY <1>2, EmptySeq DEF EndOfScan, TypeOK, pipeVars, workerVars, sigVars, connVars
  <2>2. Layout' /\ SnapInv' /\ NoIdleThreadWhileWaiting' /\ BusyHasJob'
    BY <1>2 DEF EndOfScan, Layout, SnapInv, NoIdleThreadWhileWaiting, BusyHasJob, workerVars
  <2> QED BY <2>1, <2>2
<1>3. CASE JoinSigThread
  BY <1>3 DEF JoinSigThread, TypeOK, Layout, SnapInv, NoIdleThreadWhileWaiting, BusyHasJob,
              pipeVars, workerVars, sigVars, connVars
<1>4. CASE JoinWorkers
  BY <1>4 DEF JoinWorkers, TypeOK, Layout, SnapInv, NoIdleThreadWhileWaiting, BusyHasJob,
              pipeVars, workerVars, sigVars, connVars
<1>5. CASE NoEvent
  <2>1. TypeOK'
    BY <1>5 DEF NoEvent, TypeOK, pipeVars, workerVars, sigVars, connVars
  <2>2. main = "scan" /\ idx \in Nat /\ NThreads \in Nat
    BY <1>5, NThreadsAssumption DEF NoEvent, Scanning, TypeOK
  <2>3. Layout' /\ NoIdleThreadWhileWaiting' /\ BusyHasJob'
    BY <1>5, <2>2 DEF NoEvent, Layout, NoIdleThreadWhileWaiting, BusyHasJob, workerVars
  <2>4. SnapInv'
    BY <1>5, <2>2 DEF NoEvent, SnapInv, Workers, pipeVars, sigVars, connVars
  <2> QED BY <2>1, <2>3, <2>4
<1> QED BY <1>1, <1>2, <1>3, <1>4, <1>5

(* working_sockets and waiting_sockets are not part of the layout. *)
LEMMA QueuesKeepLayout ==
  ASSUME NEW s \in SocketControls, NEW t \in SocketControls,
         t.open = s.open /\ t.nmsg = s.nmsg /\ t.stop = s.stop
         /\ t.http = s.http /\ t.ssl = s.ssl /\ t.dyn = s.dyn
  PROVE  /\ LayoutUp(t) <=> LayoutUp(s)
         /\ LayoutDown(t) <=> LayoutDown(s)
  BY DEF LayoutUp, LayoutDown, Prefix

(* The freed thread gets a waiting connection, or is queued when there is  *)
(* none.                                                                   *)
LEMMA ReuseThreadStep ==
  ASSUME TypeOK, NoIdleThreadWhileWaiting, NEW w \in Workers,
         NEW s \in SocketControls, LayoutUp(s), s.waiting = sc.waiting,
         ReuseThread(s, w)
  PROVE  /\ sc' \in SocketControls /\ LayoutUp(sc') /\ sc'.dyn = s.dyn
         /\ threadQueue' \in Seq(Workers)
         /\ toWorker' \in [Workers -> Seq(ToWorkerMsgs)]
         /\ NoIdleThreadWhileWaiting'
<1>1. CASE s.waiting # <<>>
  <2>1. s.waiting \in Seq(Jobs)
    BY DEF SocketControls
  <2>2. Head(s.waiting) \in Jobs /\ Tail(s.waiting) \in Seq(Jobs)
    BY <1>1, <2>1, HeadTailProperties
  <2> DEFINE h == Head(s.waiting)
             tl == Tail(s.waiting)
             u == [s EXCEPT !.waiting = tl]
  <2>3. sc' = [u EXCEPT !.working = u.working \cup {h}]
    BY <1>1 DEF ReuseThread, add_to_working_socket, get_waiting
  <2> HIDE DEF h, tl
  <2>4. /\ u \in SocketControls /\ u.waiting = tl /\ u.open = s.open /\ u.nmsg = s.nmsg
        /\ u.stop = s.stop /\ u.http = s.http /\ u.ssl = s.ssl /\ u.dyn = s.dyn
    BY <2>2 DEF SocketControls, tl
  <2> HIDE DEF u
  <2>5. /\ sc' \in SocketControls /\ sc'.open = s.open /\ sc'.nmsg = s.nmsg
        /\ sc'.stop = s.stop /\ sc'.http = s.http /\ sc'.ssl = s.ssl /\ sc'.dyn = s.dyn
    BY <2>2, <2>3, <2>4 DEF SocketControls, h
  <2>6. LayoutUp(sc')
    BY <2>5, QueuesKeepLayout
  <2>7. threadQueue' = threadQueue /\ threadQueue = <<>>
    BY <1>1 DEF ReuseThread, NoIdleThreadWhileWaiting
  <2>8. toWorker' \in [Workers -> Seq(ToWorkerMsgs)]
    <3>1. toWorker[w] \in Seq(ToWorkerMsgs) /\ Msg("PROCESS_REQUEST", h) \in ToWorkerMsgs
      BY <2>2, MsgTypes DEF TypeOK, h
    <3>2. Append(toWorker[w], Msg("PROCESS_REQUEST", h)) \in Seq(ToWorkerMsgs)
      BY <3>1, AppendProperties
    <3> QED BY <1>1, <3>2 DEF ReuseThread, TypeOK, h
  <2> QED BY <2>5, <2>6, <2>7, <2>8 DEF TypeOK, NoIdleThreadWhileWaiting
<1>2. CASE s.waiting = <<>>
  <2>1. sc' = s /\ threadQueue' = Append(threadQueue, w) /\ toWorker' = toWorker
    BY <1>2 DEF ReuseThread
  <2>2. threadQueue' \in Seq(Workers)
    BY <2>1, AppendProperties DEF TypeOK
  <2> QED BY <1>2, <2>1, <2>2 DEF TypeOK, NoIdleThreadWhileWaiting
<1> QED BY <1>1, <1>2

(* What is known when the index stands on a control socket with input. *)
LEMMA AtMsgSocket ==
  ASSUME IndInv, Scanning("IN"), IsMsgSocket
  PROVE  /\ idx \in Workers /\ LayoutUp(sc)
         /\ toMain[idx] # <<>>
         /\ Head(toMain[idx]) \in ToMainMsgs
         /\ Tail(toMain[idx]) \in Seq(ToMainMsgs)
         /\ Head(toMain[idx]).sock \in Jobs
<1> USE DEF IndInv
<1>t. /\ NThreads \in Nat /\ idx \in Nat /\ Base \in Nat /\ Base >= NThreads + 2
      /\ Len(snap) \in Nat
  BY Types
<1>1. main = "scan" /\ (LayoutUp(sc) \/ LayoutDown(sc)) /\ sc.nmsg = NThreads
  BY DEF Scanning, Layout, LayoutUp, LayoutDown, Prefix
<1>2. idx < NThreads
  BY <1>1 DEF IsMsgSocket
<1>3. LayoutUp(sc)
  BY <1>1, <1>2, <1>t DEF Layout
<1>4. idx \in Workers
  BY <1>2, <1>t DEF Workers
<1>5. snap[idx + 1] = "IN"
  BY <1>1, <1>2, <1>t DEF Scanning, SnapInv, At
<1>6. toMain[idx] # <<>>
  BY <1>1, <1>4, <1>5, <1>t DEF SnapInv
<1>7. toMain[idx] \in Seq(ToMainMsgs)
  BY <1>4 DEF TypeOK
<1> QED BY <1>3, <1>4, <1>6, <1>7, HeadTailProperties, MsgTypes

(* The two FINISHED messages. *)
LEMMA FinishedStep ==
  ASSUME IndInv, FinishedAndContinue \/ FinishedAndClose
  PROVE  IndInv'
<1> USE DEF IndInv
<1> DEFINE m == Head(toMain[idx])
           r == remove_from_working_socket(sc, m.sock)
<1>1. /\ Scanning("IN") /\ IsMsgSocket /\ main = "scan"
      /\ toMain' = [toMain EXCEPT ![idx] = Tail(@)]
      /\ idx' = idx + 1
      /\ UNCHANGED <<main, snap, running, accepting, workerVars, sigVars>>
      /\ UNCHANGED <<peer, inbox, reqs, backlog>>
  BY DEF FinishedAndContinue, FinishedAndClose, Scanning, connVars
<1>2. /\ idx \in Workers /\ LayoutUp(sc) /\ Tail(toMain[idx]) \in Seq(ToMainMsgs)
      /\ m.sock \in Jobs
  BY <1>1, AtMsgSocket
<1>t. /\ NThreads \in Nat /\ idx \in Nat /\ idx < NThreads /\ sc \in SocketControls
      /\ Base >= NThreads + 2 /\ Base \in Nat
  BY <1>2, Types DEF Workers
<1>3. /\ r \in SocketControls /\ r.waiting = sc.waiting /\ r.dyn = sc.dyn
      /\ r.open = sc.open /\ r.nmsg = sc.nmsg /\ r.stop = sc.stop
      /\ r.http = sc.http /\ r.ssl = sc.ssl
  BY <1>t DEF remove_from_working_socket, SocketControls
<1>4. LayoutUp(r)
  BY <1>2, <1>3, <1>t, QueuesKeepLayout
<1> HIDE DEF r, m
<1>5. PICK s \in SocketControls :
        LayoutUp(s) /\ s.waiting = sc.waiting /\ ReuseThread(s, idx)
        /\ (s.dyn < 0 => sc.dyn < 0)
  <2>1. CASE FinishedAndContinue
    <3> DEFINE s == add_dyn_socket(r, m.sock)
    <3>1. s \in SocketControls /\ LayoutUp(s) /\ s.dyn >= 0 /\ s.waiting = sc.waiting
      BY <1>2, <1>3, <1>4, AddDyn
    <3>2. ReuseThread(s, idx)
      BY <2>1 DEF FinishedAndContinue, m, r
    <3>3. s.dyn \in Int
      BY <3>1 DEF SocketControls
    <3> HIDE DEF s
    <3> QED BY <3>1, <3>2, <3>3
  <2>2. CASE FinishedAndClose
    <3>1. ReuseThread(r, idx)
      BY <2>2 DEF FinishedAndClose, m, r
    <3> QED BY <1>3, <1>4, <3>1
  <2> QED BY <2>1, <2>2
<1>6. /\ sc' \in SocketControls /\ LayoutUp(sc') /\ sc'.dyn = s.dyn
      /\ threadQueue' \in Seq(Workers)
      /\ toWorker' \in [Workers -> Seq(ToWorkerMsgs)]
      /\ NoIdleThreadWhileWaiting'
  BY <1>2, <1>5, ReuseThreadStep
<1>7. fd' \in [Conns -> {"none", "open", "closed", "reclosed"}]
  BY DEF FinishedAndContinue, FinishedAndClose, TypeOK, connVars, close_socket
<1>8. TypeOK'
  <2>1. toMain' \in [Workers -> Seq(ToMainMsgs)] /\ idx' \in Nat
    BY <1>1, <1>2, <1>t DEF TypeOK
  <2> QED BY <1>1, <1>6, <1>7, <2>1 DEF TypeOK, workerVars, sigVars
<1>9. Layout' /\ BusyHasJob'
  BY <1>1, <1>6, <1>t DEF Layout, BusyHasJob, workerVars, LayoutUp, LayoutDown
<1>10. SnapInv'
  <2>1. /\ Len(snap) >= Base
        /\ sc.dyn < 0 => Len(snap) = Base
        /\ \A k \in 1..Base : snap[k] # "HUP"
        /\ \A w \in Workers : snap[w + 1] = "IN" /\ idx <= w => toMain[w] # <<>>
        /\ snap[NThreads + 1] = "IN" => stoppipe = "exit"
        /\ snap[NThreads + 2] = "IN" => backlog["http"] # <<>>
        /\ UseSsl /\ snap[NThreads + 3] = "IN" => backlog["ssl"] # <<>>
    BY <1>1, <1>t DEF SnapInv
  <2>2. ASSUME NEW w \in Workers, idx' <= w PROVE idx <= w /\ toMain'[w] = toMain[w]
    BY <1>1, <1>t, <2>2 DEF Workers, TypeOK
  <2>3. sc'.dyn < 0 => sc.dyn < 0
    BY <1>5, <1>6
  <2>4. snap' = snap /\ stoppipe' = stoppipe /\ backlog' = backlog
    BY <1>1 DEF sigVars
  <2> QED BY <2>1, <2>2, <2>3, <2>4 DEF SnapInv
<1> QED BY <1>6, <1>8, <1>9, <1>10

(* The stop message: the listeners leave the list, or run() is left by the *)
(* exception.                                                              *)
LEMMA StopStep ==
  ASSUME IndInv, Stop
  PROVE  IndInv'
<1> USE DEF IndInv
<1> DEFINE noHttp == remove(sc, sc.http)
           noSsl  == remove(noHttp, noHttp.ssl)
           last   == close_all_dynsocks(noSsl)
<1>1. /\ main = "scan" /\ idx = sc.stop
      /\ UNCHANGED <<threadQueue, snap, accepting, toMain, workerVars, sig, sigPending>>
      /\ UNCHANGED <<peer, inbox, reqs, backlog>>
      /\ stoppipe' = "empty"
  BY DEF Stop, Scanning
<1>t. NThreads \in Nat /\ idx \in Nat /\ sc \in SocketControls
  BY Types
<1>2. idx = NThreads /\ LayoutUp(sc)
  BY <1>1, <1>t DEF Layout, LayoutUp, LayoutDown, Prefix
<1>3. /\ RemoveThrows(noHttp, noHttp.ssl) <=> ~UseSsl
      /\ UseSsl => noSsl \in SocketControls /\ LayoutDown(noSsl)
                   /\ noSsl.waiting = sc.waiting /\ noSsl.dyn = sc.dyn - 2
  BY <1>2, <1>t, RemoveBoth
<1>4. noHttp \in SocketControls
  BY <1>2, <1>t, RemoveHttp
<1>h. noHttp.waiting = sc.waiting
  BY <1>2, <1>t, RemoveHttp DEF SocketControls
<1>5. CASE ~UseSsl
  <2>1. /\ main' = "aborted" /\ sc' = noHttp
        /\ UNCHANGED <<idx, running, fd, toWorker>>
    BY <1>3, <1>5 DEF Stop
  <2> HIDE DEF noHttp
  <2>2. TypeOK'
    BY <1>1, <1>4, <2>1 DEF TypeOK, workerVars
  <2>3. Layout' /\ SnapInv' /\ BusyHasJob' /\ NoIdleThreadWhileWaiting'
    BY <1>1, <1>h, <2>1 DEF Layout, SnapInv, BusyHasJob, NoIdleThreadWhileWaiting, workerVars
  <2> QED BY <2>2, <2>3
<1>6. CASE UseSsl
  <2>1. /\ last \in SocketControls /\ LayoutDown(last) /\ last.waiting = sc.waiting
        /\ last.dyn = sc.dyn - 2
    BY <1>3, <1>6, CloseAll
  <2>2. /\ sc' = last /\ running' = FALSE /\ idx' = idx + 1 /\ main' = main
        /\ toWorker' = [w \in Workers |-> Append(toWorker[w], Msg("EXIT", NoConn))]
    BY <1>3, <1>6 DEF Stop
  <2>3. fd' \in [Conns -> {"none", "open", "closed", "reclosed"}]
    BY <1>3, <1>6 DEF Stop, TypeOK, close_socket
  <2> HIDE DEF noHttp, noSsl, last
  <2>4. toWorker' \in [Workers -> Seq(ToWorkerMsgs)]
    <3>1. ASSUME NEW w \in Workers
          PROVE  Append(toWorker[w], Msg("EXIT", NoConn)) \in Seq(ToWorkerMsgs)
      BY AppendProperties, MsgTypes DEF TypeOK
    <3> QED BY <2>2, <3>1
  <2>5. TypeOK'
    <3>0. running' \in BOOLEAN
      BY <2>2, Zenon
    <3>1. idx' \in Nat /\ sc' \in SocketControls
      BY <1>t, <2>1, <2>2
    <3>2. main' = main
      BY <2>2
    <3> QED BY <1>1, <2>3, <2>4, <3>0, <3>1, <3>2 DEF TypeOK, workerVars
  <2>6. Layout' /\ BusyHasJob' /\ NoIdleThreadWhileWaiting'
    BY <1>1, <1>2, <1>t, <2>1, <2>2
       DEF Layout, BusyHasJob, NoIdleThreadWhileWaiting, workerVars, LayoutUp, LayoutDown
  <2>7. sc'.dyn < 0 => sc.dyn < 0
    <3>1. Base = NThreads + 3 /\ NThreads > 0
      BY <1>6, Types
    <3> QED BY <1>2, <1>t, <2>1, <2>2, <3>1 DEF LayoutUp
  <2>8. SnapInv'
    BY <1>1, <1>2, <1>t, <2>2, <2>7 DEF SnapInv, Workers, workerVars
  <2> QED BY <2>5, <2>6, <2>8
<1>7. UseSsl \in BOOLEAN
  BY ServerAssumption
<1> QED BY <1>5, <1>6, <1>7

(* What is known when the index stands on a listener. *)
LEMMA AtListener ==
  ASSUME IndInv, Scanning("IN"), ~IsMsgSocket, idx # sc.stop, idx \in {sc.http, sc.ssl}
  PROVE  /\ LayoutUp(sc) /\ main = "scan" /\ idx \in NThreads + 1 .. Base - 1
         /\ idx = sc.http => idx = NThreads + 1 /\ backlog["http"] # <<>>
         /\ idx # sc.http => UseSsl /\ idx = NThreads + 2 /\ backlog["ssl"] # <<>>
<1> USE DEF IndInv
<1>t. /\ NThreads \in Nat /\ idx \in Nat /\ Base \in Nat /\ Base >= NThreads + 2
      /\ Base <= NThreads + 3 /\ (UseSsl <=> Base = NThreads + 3) /\ Len(snap) \in Nat
  BY Types
<1>1. main = "scan"
  BY DEF Scanning
<1>2. LayoutUp(sc)
  BY <1>1, <1>t DEF Layout, LayoutDown
<1>3. idx \in NThreads + 1 .. Base - 1
  BY <1>2, <1>t, ServerAssumption DEF LayoutUp, Base
<1>4. snap[idx + 1] = "IN"
  BY <1>1, <1>3, <1>t DEF Scanning, SnapInv, At
<1>5. idx = sc.http => idx = NThreads + 1 /\ backlog["http"] # <<>>
  BY <1>1, <1>2, <1>4, <1>t DEF SnapInv, LayoutUp
<1>6. idx # sc.http => UseSsl /\ idx = NThreads + 2
  BY <1>2, <1>t, ServerAssumption DEF LayoutUp
<1>7. idx # sc.http => backlog["ssl"] # <<>>
  BY <1>1, <1>4, <1>6, <1>t DEF SnapInv
<1> QED BY <1>1, <1>2, <1>3, <1>5, <1>6, <1>7

(* A connection is added behind the layout, whatever accept() returned. *)
LEMMA AcceptStep ==
  ASSUME IndInv, AcceptFails \/ AcceptHttp \/ AcceptSsl
  PROVE  IndInv'
<1> USE DEF IndInv
<1>t. /\ NThreads \in Nat /\ idx \in Nat /\ Base \in Nat /\ Base >= NThreads + 2
      /\ sc \in SocketControls
  BY Types
<1>1. CASE AcceptFails
  <2>1. LayoutUp(sc) /\ main = "scan" /\ idx \in NThreads + 1 .. Base - 1
    BY <1>1, AtListener DEF AcceptFails
  <2>2. BadSock \in Jobs
    BY DEF Jobs
  <2>3. /\ sc' \in SocketControls /\ LayoutUp(sc') /\ sc'.dyn >= 0
        /\ sc'.waiting = sc.waiting
    BY <1>1, <1>t, <2>1, <2>2, AddDyn DEF AcceptFails
  <2>4. TypeOK'
    BY <1>1, <1>t, <2>3 DEF AcceptFails, TypeOK, pipeVars, workerVars, sigVars, connVars
  <2>5. Layout' /\ NoIdleThreadWhileWaiting' /\ BusyHasJob'
    BY <1>1, <1>t, <2>1, <2>3 DEF AcceptFails, Layout, NoIdleThreadWhileWaiting, BusyHasJob,
       workerVars, LayoutUp, LayoutDown
  <2>6. sc'.dyn \in Int
    BY <2>3 DEF SocketControls
  <2>7. SnapInv'
    BY <1>1, <1>t, <2>1, <2>3, <2>6
       DEF AcceptFails, SnapInv, Workers, pipeVars, sigVars, connVars
  <2> QED BY <2>4, <2>5, <2>7
<1>2. CASE AcceptHttp
  <2> DEFINE c == Head(backlog["http"])
  <2>1. /\ LayoutUp(sc) /\ main = "scan" /\ idx = NThreads + 1
        /\ backlog["http"] # <<>>
    BY <1>2, AtListener DEF AcceptHttp
  <2>2. c \in Conns /\ Tail(backlog["http"]) \in Seq(Conns)
    BY <2>1, HeadTailProperties DEF TypeOK, Ports
  <2>3. c \in Jobs /\ sc' = add_dyn_socket(sc, c)
    BY <1>2, <2>2 DEF Jobs, AcceptHttp
  <2> HIDE DEF c
  <2>4. /\ sc' \in SocketControls /\ LayoutUp(sc') /\ sc'.dyn >= 0
        /\ sc'.waiting = sc.waiting
    BY <1>t, <2>1, <2>3, AddDyn
  <2>5. TypeOK'
    <3>1. idx' \in Nat
      BY <1>2, <1>t DEF AcceptHttp
    <3>2. fd' \in [Conns -> {"none", "open", "closed", "reclosed"}]
      BY <1>2 DEF AcceptHttp, TypeOK
    <3>3. backlog' \in [Ports -> Seq(Conns)]
      BY <1>2, <2>2 DEF AcceptHttp, TypeOK
    <3> QED BY <1>2, <2>4, <3>1, <3>2, <3>3
            DEF AcceptHttp, TypeOK, pipeVars, workerVars, sigVars
  <2>6. Layout' /\ NoIdleThreadWhileWaiting' /\ BusyHasJob'
    BY <1>2, <1>t, <2>1, <2>4 DEF AcceptHttp, Layout, NoIdleThreadWhileWaiting, BusyHasJob,
       workerVars, LayoutUp, LayoutDown
  <2>7. sc'.dyn \in Int /\ backlog'["ssl"] = backlog["ssl"]
    BY <1>2, <2>4 DEF SocketControls, AcceptHttp, TypeOK, Ports
  <2>8. SnapInv'
    BY <1>2, <1>t, <2>1, <2>4, <2>7 DEF AcceptHttp, SnapInv, Workers, pipeVars, sigVars
  <2> QED BY <2>5, <2>6, <2>8
<1>3. CASE AcceptSsl
  <2> DEFINE c == Head(backlog["ssl"])
  <2>1. /\ LayoutUp(sc) /\ main = "scan" /\ idx = NThreads + 2 /\ UseSsl
        /\ backlog["ssl"] # <<>>
    BY <1>3, AtListener DEF AcceptSsl
  <2>2. c \in Conns /\ Tail(backlog["ssl"]) \in Seq(Conns)
    BY <2>1, HeadTailProperties DEF TypeOK, Ports
  <2>3. accepting' = c
    BY <1>3 DEF AcceptSsl
  <2>4. TypeOK'
    BY <1>3, <2>2, <2>3 DEF AcceptSsl, TypeOK, pipeVars, workerVars, sigVars
  <2>5. Layout' /\ NoIdleThreadWhileWaiting' /\ BusyHasJob'
    BY <1>3, <2>1, <2>2, <2>3
       DEF AcceptSsl, Layout, NoIdleThreadWhileWaiting, BusyHasJob, workerVars
  <2>6. backlog'["http"] = backlog["http"]
    BY <1>3 DEF AcceptSsl, TypeOK, Ports
  <2>7. SnapInv'
    BY <1>3, <2>1, <2>6 DEF AcceptSsl, SnapInv, pipeVars, sigVars
  <2> QED BY <2>4, <2>5, <2>7
<1> QED BY <1>1, <1>2, <1>3

(* The end of the handshake. *)
LEMMA HandshakeStep ==
  ASSUME IndInv, HandshakeEnds
  PROVE  IndInv'
<1> USE DEF IndInv
<1>t. /\ NThreads \in Nat /\ idx \in Nat /\ sc \in SocketControls
  BY Types
<1>1. /\ LayoutUp(sc) /\ main = "handshake" /\ accepting \in Jobs /\ idx = NThreads + 2
  BY DEF HandshakeEnds, Layout, Jobs
<1>2. sc' \in SocketControls /\ LayoutUp(sc') /\ sc'.dyn >= 0 /\ sc'.waiting = sc.waiting
  BY <1>1, <1>t, AddDyn DEF HandshakeEnds
<1>3. TypeOK'
  BY <1>2, <1>t DEF HandshakeEnds, TypeOK, pipeVars, workerVars, sigVars, connVars
<1>4. Layout' /\ NoIdleThreadWhileWaiting' /\ BusyHasJob'
  BY <1>1, <1>2, <1>t DEF HandshakeEnds, Layout, NoIdleThreadWhileWaiting, BusyHasJob,
     workerVars, LayoutUp, LayoutDown
<1>5. sc'.dyn \in Int
  BY <1>2 DEF SocketControls
<1>6. SnapInv'
  BY <1>1, <1>2, <1>5, <1>t DEF HandshakeEnds, SnapInv, Workers, pipeVars, sigVars, connVars
<1> QED BY <1>3, <1>4, <1>6

(* What is known when the index stands on a client socket. *)
LEMMA AtDynSocket ==
  ASSUME IndInv, main = "scan", idx < Len(sc.open),
         IsDynSocket \/ (Scanning("HUP") /\ idx >= sc.dyn)
  PROVE  /\ \/ LayoutUp(sc) /\ idx >= Base
            \/ LayoutDown(sc) /\ idx > NThreads
         /\ LayoutUp(sc) \/ (LayoutDown(sc) /\ ~running)
         /\ At(sc.open, idx) \in Jobs
<1> USE DEF IndInv
<1>t. /\ NThreads \in Nat /\ idx \in Nat /\ Base \in Nat /\ Base >= NThreads + 2
      /\ Base <= NThreads + 3 /\ (UseSsl <=> Base = NThreads + 3) /\ Len(snap) \in Nat
      /\ Len(sc.open) \in Nat
  BY Types
<1>1. LayoutUp(sc) \/ (LayoutDown(sc) /\ ~running)
  BY DEF Layout
<1>2. CASE LayoutUp(sc)
  <2>1. idx >= Base
    <3>1. CASE IsDynSocket
      BY <1>2, <1>t, <3>1 DEF IsDynSocket, IsMsgSocket, LayoutUp, Prefix
    <3>2. CASE Scanning("HUP")
      <4> SUFFICES ASSUME idx < Base PROVE FALSE
        BY <1>t
      <4>1. idx < Len(snap) /\ snap[idx + 1] # "HUP"
        BY <1>t DEF SnapInv
      <4> QED BY <3>2, <4>1 DEF Scanning, At
    <3> QED BY <3>1, <3>2
  <2>2. sc.open[idx + 1] \in Jobs
    BY <1>2, <1>t, <2>1 DEF LayoutUp
  <2> QED BY <1>2, <2>1, <2>2 DEF At
<1>3. CASE LayoutDown(sc) /\ ~running
  <2>1. idx > NThreads
    BY <1>3 DEF Layout
  <2>2. sc.open[idx + 1] \in Jobs
    <3>1. \A k \in NThreads + 2 .. Len(sc.open) : sc.open[k] \in Jobs
      BY <1>3 DEF LayoutDown
    <3>2. idx + 1 \in NThreads + 2 .. Len(sc.open)
      BY <1>t, <2>1
    <3> QED BY <3>1, <3>2
  <2> QED BY <1>3, <2>1, <2>2 DEF At
<1> QED BY <1>1, <1>2, <1>3

(* Invariant parts that a step on a client socket keeps. *)
LEMMA DynStep ==
  ASSUME IndInv, main = "scan", idx' = idx + 1,
         UNCHANGED <<main, snap, running, accepting, toMain, workerVars, sigVars, backlog>>,
         sc'.dyn = sc.dyn,
         LayoutUp(sc) => LayoutUp(sc'), LayoutDown(sc) => LayoutDown(sc')
  PROVE  Layout' /\ SnapInv' /\ BusyHasJob'
<1> USE DEF IndInv
<1>t. NThreads \in Nat /\ idx \in Nat
  BY Types
<1>1. Layout'
  <2>1. LayoutUp(sc') \/ (LayoutDown(sc') /\ ~running')
    BY DEF Layout
  <2>2. LayoutDown(sc') => idx' > NThreads
    BY <1>t DEF Layout, LayoutUp, LayoutDown
  <2> QED BY <2>1, <2>2 DEF Layout
<1>2. SnapInv'
  BY <1>t DEF SnapInv, Workers, sigVars
<1>3. BusyHasJob'
  BY DEF BusyHasJob, workerVars
<1> QED BY <1>1, <1>2, <1>3

(* Input on a client socket, with and without an idle thread; a hangup. *)
LEMMA ClientSocketStep ==
  ASSUME IndInv, Dispatch \/ Enqueue \/ CloseHangup
  PROVE  IndInv'
<1> USE DEF IndInv
<1> DEFINE c == At(sc.open, idx)
           e == [sc EXCEPT !.open = Erase(sc.open, idx)]
<1>t. NThreads \in Nat /\ idx \in Nat /\ sc \in SocketControls /\ threadQueue \in Seq(Workers)
  BY Types
<1>1. main = "scan" /\ idx < Len(sc.open)
  BY DEF Dispatch, Enqueue, CloseHangup, Scanning
<1>2. /\ \/ LayoutUp(sc) /\ idx >= Base
         \/ LayoutDown(sc) /\ idx > NThreads
      /\ c \in Jobs
  BY <1>1, AtDynSocket DEF Dispatch, Enqueue, CloseHangup
<1>3. /\ e \in SocketControls /\ e.dyn = sc.dyn
      /\ LayoutUp(sc) => LayoutUp(e)
      /\ LayoutDown(sc) => LayoutDown(e)
  BY <1>1, <1>2, <1>t, EraseDyn
<1>4. remove(sc, idx) = e
  BY <1>1, <1>2, <1>t, RemoveDyn
<1>5. e.waiting = sc.waiting /\ e.open = Erase(sc.open, idx)
  BY <1>t DEF SocketControls
<1> HIDE DEF e
<1>6. CASE Dispatch
  <2>1. sc' = [e EXCEPT !.working = e.working \cup {c}]
    BY <1>4, <1>6 DEF Dispatch, add_to_working_socket
  <2> HIDE DEF c
  <2>2. /\ sc' \in SocketControls /\ sc'.open = e.open /\ sc'.waiting = e.waiting
        /\ sc'.nmsg = e.nmsg /\ sc'.stop = e.stop /\ sc'.http = e.http
        /\ sc'.ssl = e.ssl /\ sc'.dyn = e.dyn
    BY <1>2, <1>3, <2>1 DEF SocketControls
  <2>3. /\ LayoutUp(sc) => LayoutUp(sc')
        /\ LayoutDown(sc) => LayoutDown(sc')
    BY <1>3, <2>2, QueuesKeepLayout
  <2>4. Layout' /\ SnapInv' /\ BusyHasJob'
    BY <1>1, <1>3, <1>6, <2>2, <2>3, DynStep DEF Dispatch, connVars
  <2>5. threadQueue # <<>> /\ sc.waiting = <<>>
    BY <1>6 DEF Dispatch, NoIdleThreadWhileWaiting
  <2>6. Head(threadQueue) \in Workers /\ Tail(threadQueue) \in Seq(Workers)
    BY <1>t, <2>5, HeadTailProperties
  <2>7. NoIdleThreadWhileWaiting'
    BY <1>5, <2>2, <2>5 DEF NoIdleThreadWhileWaiting
  <2>8. toWorker' \in [Workers -> Seq(ToWorkerMsgs)]
    <3> DEFINE w == Head(threadQueue)
    <3>1. toWorker[w] \in Seq(ToWorkerMsgs) /\ Msg("PROCESS_REQUEST", c) \in ToWorkerMsgs
      BY <1>2, <2>6, MsgTypes DEF TypeOK
    <3>2. Append(toWorker[w], Msg("PROCESS_REQUEST", c)) \in Seq(ToWorkerMsgs)
      BY <3>1, AppendProperties
    <3>3. toWorker' = [toWorker EXCEPT ![w] = Append(toWorker[w], Msg("PROCESS_REQUEST", c))]
      BY <1>6 DEF Dispatch, c
    <3> HIDE DEF w
    <3> QED BY <3>2, <3>3 DEF TypeOK
  <2>9. idx' \in Nat /\ threadQueue' \in Seq(Workers)
    BY <1>6, <1>t, <2>6 DEF Dispatch
  <2>10. TypeOK'
    BY <1>6, <2>2, <2>8, <2>9 DEF Dispatch, TypeOK, workerVars, sigVars, connVars
  <2> QED BY <2>4, <2>7, <2>10
<1>7. CASE Enqueue
  <2> DEFINE q == Append(sc.waiting, c)
  <2>1. sc' = [e EXCEPT !.waiting = q]
    BY <1>7 DEF Enqueue, move_to_waiting, e
  <2>2. q \in Seq(Jobs)
    BY <1>2, <1>t, AppendProperties DEF SocketControls
  <2> HIDE DEF q
  <2>3. /\ sc' \in SocketControls /\ sc'.open = e.open
        /\ sc'.nmsg = e.nmsg /\ sc'.stop = e.stop /\ sc'.http = e.http
        /\ sc'.ssl = e.ssl /\ sc'.dyn = e.dyn
    BY <1>3, <2>1, <2>2 DEF SocketControls
  <2>4. /\ LayoutUp(sc) => LayoutUp(sc')
        /\ LayoutDown(sc) => LayoutDown(sc')
    BY <1>3, <2>3, QueuesKeepLayout
  <2>5. Layout' /\ SnapInv' /\ BusyHasJob'
    BY <1>1, <1>3, <1>7, <2>3, <2>4, DynStep DEF Enqueue, pipeVars, connVars
  <2>6. NoIdleThreadWhileWaiting'
    BY <1>7 DEF Enqueue, NoIdleThreadWhileWaiting
  <2>7. idx' \in Nat
    BY <1>7, <1>t DEF Enqueue
  <2>8. TypeOK'
    BY <1>7, <2>3, <2>7 DEF Enqueue, TypeOK, pipeVars, workerVars, sigVars, connVars
  <2> QED BY <2>5, <2>6, <2>8
<1>8. CASE CloseHangup
  <2>1. sc' = [e EXCEPT !.working = e.working \ {c}]
    BY <1>4, <1>8 DEF CloseHangup, remove_from_working_socket
  <2>2. fd' \in [Conns -> {"none", "open", "closed", "reclosed"}]
    BY <1>8 DEF CloseHangup, TypeOK, close_socket
  <2> HIDE DEF c
  <2>3. /\ sc' \in SocketControls /\ sc'.open = e.open /\ sc'.waiting = e.waiting
        /\ sc'.nmsg = e.nmsg /\ sc'.stop = e.stop /\ sc'.http = e.http
        /\ sc'.ssl = e.ssl /\ sc'.dyn = e.dyn
    BY <1>3, <2>1 DEF SocketControls
  <2>4. /\ LayoutUp(sc) => LayoutUp(sc')
        /\ LayoutDown(sc) => LayoutDown(sc')
    BY <1>3, <2>3, QueuesKeepLayout
  <2>5. Layout' /\ SnapInv' /\ BusyHasJob'
    BY <1>1, <1>3, <1>8, <2>3, <2>4, DynStep DEF CloseHangup, pipeVars
  <2>6. NoIdleThreadWhileWaiting'
    BY <1>5, <1>8, <2>3 DEF CloseHangup, NoIdleThreadWhileWaiting
  <2>7. idx' \in Nat
    BY <1>8, <1>t DEF CloseHangup
  <2>8. TypeOK'
    BY <1>8, <2>2, <2>3, <2>7 DEF CloseHangup, TypeOK, pipeVars, workerVars, sigVars
  <2> QED BY <2>5, <2>6, <2>8
<1> QED BY <1>6, <1>7, <1>8

-----------------------------------------------------------------------------
(* The theorems.                                                           *)

(* Every step of the server, of its threads and of its clients keeps the   *)
(* invariant.                                                              *)
THEOREM Inductive == IndInv /\ [Next]_vars => IndInv'
<1> SUFFICES ASSUME IndInv, [Next]_vars PROVE IndInv'
  OBVIOUS
<1>1. CASE Next
  <2>1. CASE Main
    <3>1. CASE ScanStep
      BY <3>1, FinishedStep, StopStep, AcceptStep, ClientSocketStep, PlainStep DEF ScanStep
    <3> QED BY <2>1, <3>1, StartSigThreadStep, OpenSocketsStep, PollStep, PlainStep DEF Main
  <2> QED BY <1>1, <2>1, HandshakeStep, WorkerStep, SigThreadStep, EnvironmentStep DEF Next
<1>2. CASE UNCHANGED vars
  BY <1>2 DEF IndInv, TypeOK, Layout, SnapInv, NoIdleThreadWhileWaiting, BusyHasJob, vars,
              mainVars, pipeVars, workerVars, sigVars, connVars
<1> QED BY <1>1, <1>2

(* The invariant holds throughout. *)
THEOREM Invariance == Spec => []IndInv
  BY InitIndInv, Inductive, PTL DEF Spec

(* Type correctness: in particular every message the main loop reads from  *)
(* a control pipe and every connection it pops is there.                   *)
THEOREM TypeCorrect == Spec => []TypeOK
<1>1. IndInv => TypeOK
  BY DEF IndInv
<1> QED BY Invariance, <1>1, PTL

(* No lost wakeup: no connection waits while a thread is idle. *)
THEOREM NoLostWakeup == Spec => []NoIdleThreadWhileWaiting
<1>1. IndInv => NoIdleThreadWhileWaiting
  BY DEF IndInv
<1> QED BY Invariance, <1>1, PTL

(* The ids point where they claim: the layout determines every entry. *)
LEMMA LayoutGivesIds ==
  ASSUME IndInv
  PROVE  IdsPointRight
<1> SUFFICES ASSUME main \notin {"start", "setup", "aborted"}
             PROVE  /\ \A w \in Workers : At(sc.open, w) = w
                    /\ sc.nmsg = NThreads
                    /\ At(sc.open, sc.stop) = StopSock
                    /\ \A k \in DOMAIN sc.open :
                         /\ sc.open[k] = HttpSock <=> k - 1 = sc.http
                         /\ sc.open[k] = SslSock <=> k - 1 = sc.ssl
                         /\ sc.open[k] \in Jobs => sc.dyn >= 0 /\ k - 1 >= sc.dyn
                         /\ sc.dyn >= 0 /\ k - 1 >= sc.dyn => sc.open[k] \in Jobs
  BY DEF IdsPointRight
<1> USE DEF IndInv
<1>t. /\ NThreads \in Nat /\ Base \in Nat /\ Base >= NThreads + 2
      /\ Base <= NThreads + 3 /\ (UseSsl <=> Base = NThreads + 3)
      /\ sc.open \in Seq(Sockets) /\ Len(sc.open) \in Nat
  BY Types
<1>1. (LayoutUp(sc) \/ LayoutDown(sc)) /\ Prefix(sc)
  BY DEF Layout, TypeOK, LayoutUp, LayoutDown
<1>2. \A w \in Workers : At(sc.open, w) = w
  <2> SUFFICES ASSUME NEW w \in Workers PROVE sc.open[w + 1] = w
    BY DEF At
  <2>1. w + 1 \in 1 .. NThreads /\ (w + 1) - 1 = w
    BY <1>t DEF Workers
  <2> QED BY <1>1, <2>1 DEF Prefix
<1>3. sc.nmsg = NThreads /\ At(sc.open, sc.stop) = StopSock
  BY <1>1 DEF Prefix, At
<1>4. ASSUME NEW k \in DOMAIN sc.open
      PROVE  /\ sc.open[k] = HttpSock <=> k - 1 = sc.http
             /\ sc.open[k] = SslSock <=> k - 1 = sc.ssl
             /\ sc.open[k] \in Jobs => sc.dyn >= 0 /\ k - 1 >= sc.dyn
             /\ sc.dyn >= 0 /\ k - 1 >= sc.dyn => sc.open[k] \in Jobs
  <2>k. k \in 1 .. Len(sc.open)
    BY <1>t, LenProperties
  <2>d. /\ HttpSock \notin Jobs /\ SslSock \notin Jobs /\ StopSock \notin Jobs
        /\ StopSock # HttpSock /\ StopSock # SslSock /\ HttpSock # SslSock
        /\ \A w \in Workers : w \notin Jobs /\ w # HttpSock /\ w # SslSock
    BY SocketsDistinct DEF Jobs
  <2>1. CASE k <= NThreads
    <3>1. sc.open[k] = k - 1 /\ k - 1 \in Workers
      BY <1>1, <1>t, <2>1, <2>k DEF Prefix, Workers
    <3> QED BY <1>1, <1>t, <2>1, <2>d, <2>k, <3>1, ServerAssumption
            DEF LayoutUp, LayoutDown
  <2>2. CASE k = NThreads + 1
    <3>1. sc.open[k] = StopSock
      BY <1>1, <2>2 DEF Prefix
    <3> QED BY <1>1, <1>t, <2>2, <2>d, <3>1, ServerAssumption
            DEF LayoutUp, LayoutDown
  <2>3. CASE k > NThreads + 1 /\ LayoutDown(sc)
    <3>1. sc.open[k] \in Jobs
      BY <1>t, <2>3, <2>k DEF LayoutDown
    <3>2. sc.open[k] # HttpSock /\ sc.open[k] # SslSock
      BY <2>d, <3>1
    <3> QED BY <1>t, <2>3, <2>k, <3>1, <3>2 DEF LayoutDown
  <2>4. CASE k = NThreads + 2 /\ LayoutUp(sc)
    <3>1. sc.open[k] = HttpSock /\ sc.http = k - 1 /\ sc.ssl # k - 1
      BY <1>t, <2>4, ServerAssumption DEF LayoutUp
    <3>2. ~(sc.dyn >= 0 /\ k - 1 >= sc.dyn)
      BY <1>t, <2>4 DEF LayoutUp
    <3> QED BY <2>d, <3>1, <3>2
  <2>5. CASE k = NThreads + 3 /\ LayoutUp(sc) /\ UseSsl
    <3>1. sc.open[k] = SslSock /\ sc.http # k - 1 /\ sc.ssl = k - 1
      BY <1>t, <2>5 DEF LayoutUp
    <3>2. ~(sc.dyn >= 0 /\ k - 1 >= sc.dyn)
      BY <1>t, <2>5 DEF LayoutUp
    <3> QED BY <2>d, <3>1, <3>2
  <2>6. CASE k > Base /\ LayoutUp(sc)
    <3>1. sc.open[k] \in Jobs /\ sc.dyn = Base
      BY <1>t, <2>6, <2>k DEF LayoutUp
    <3>2. sc.open[k] # HttpSock /\ sc.open[k] # SslSock
      BY <2>d, <3>1
    <3>3. sc.http # k - 1 /\ sc.ssl # k - 1 /\ sc.dyn >= 0 /\ k - 1 >= sc.dyn
      BY <1>t, <2>6, <2>k, <3>1, ServerAssumption DEF LayoutUp
    <3> QED BY <3>1, <3>2, <3>3
  <2>7. \/ k <= NThreads \/ k = NThreads + 1 \/ k > Base \/ k = NThreads + 2
        \/ k = NThreads + 3 /\ UseSsl
    BY <1>t, <2>k
  <2>8. k > Base => k > NThreads + 1
    BY <1>t, <2>k
  <2> QED BY <1>1, <1>t, <2>k, <2>1, <2>2, <2>3, <2>4, <2>5, <2>6, <2>7, <2>8
<1> QED BY <1>2, <1>3, <1>4

(* The index arithmetic of SocketControl is right, shutdown included. *)
THEOREM IdsCorrect == Spec => []IdsPointRight
  BY Invariance, LayoutGivesIds, PTL

(* The main thread never blocks on a socket in the middle of a scan. *)
THEOREM ScanNeverBlocks == Spec => []SnapshotStaysTrue
<1>1. ASSUME IndInv PROVE SnapshotStaysTrue
  <2> SUFFICES ASSUME main = "scan", idx < Len(snap)
               PROVE  /\ \A w \in Workers : At(snap, w) = "IN" /\ idx <= w => toMain[w] # <<>>
                      /\ At(snap, sc.stop) = "IN" /\ idx <= sc.stop => stoppipe = "exit"
                      /\ sc.http >= 0 /\ At(snap, sc.http) = "IN" /\ idx <= sc.http
                           => backlog["http"] # <<>>
                      /\ sc.ssl >= 0 /\ At(snap, sc.ssl) = "IN" /\ idx <= sc.ssl
                           => backlog["ssl"] # <<>>
                      /\ \A k \in DOMAIN snap :
                           snap[k] = "HUP" => sc.dyn >= 0 /\ k - 1 >= sc.dyn
    BY DEF SnapshotStaysTrue
  <2> USE <1>1 DEF IndInv
  <2>t. /\ NThreads \in Nat /\ NThreads > 0 /\ idx \in Nat /\ Base \in Nat
        /\ Base >= NThreads + 2
        /\ Base <= NThreads + 3 /\ (UseSsl <=> Base = NThreads + 3)
        /\ snap \in Seq(Revents) /\ Len(snap) \in Nat
    BY Types
  <2>1. LayoutUp(sc) \/ LayoutDown(sc)
    BY DEF Layout
  <2>2. \A w \in Workers : At(snap, w) = "IN" /\ idx <= w => toMain[w] # <<>>
    BY DEF SnapInv, At
  <2>3. sc.stop = NThreads
    BY <2>1 DEF LayoutUp, LayoutDown, Prefix
  <2>4. At(snap, sc.stop) = "IN" /\ idx <= sc.stop => stoppipe = "exit"
    BY <2>3 DEF SnapInv, At
  <2>5. sc.http >= 0 => sc.http = NThreads + 1 /\ sc.http + 1 = NThreads + 2
    BY <2>1, <2>t DEF LayoutUp, LayoutDown
  <2>6. sc.ssl >= 0 => sc.ssl = NThreads + 2 /\ sc.ssl + 1 = NThreads + 3 /\ UseSsl
    BY <2>1, <2>t, ServerAssumption DEF LayoutUp, LayoutDown
  <2>7. sc.http >= 0 /\ At(snap, sc.http) = "IN" /\ idx <= sc.http => backlog["http"] # <<>>
    BY <2>5 DEF SnapInv, At
  <2>8. sc.ssl >= 0 /\ At(snap, sc.ssl) = "IN" /\ idx <= sc.ssl => backlog["ssl"] # <<>>
    BY <2>6 DEF SnapInv, At
  <2>9. ASSUME NEW k \in DOMAIN snap, snap[k] = "HUP"
        PROVE  sc.dyn >= 0 /\ k - 1 >= sc.dyn
    <3>1. k \in 1 .. Len(snap)
      BY <2>t, LenProperties
    <3>2. k > Base
      BY <2>9, <2>t, <3>1 DEF SnapInv
    <3>3. sc.dyn \in Int /\ ~(sc.dyn < 0)
      BY <2>t, <3>1, <3>2 DEF SnapInv, TypeOK, SocketControls
    <3>4. sc.dyn <= Base
      BY <2>1, <2>t, <3>3 DEF LayoutUp, LayoutDown
    <3> QED BY <2>t, <3>1, <3>2, <3>3, <3>4
  <2> QED BY <2>2, <2>4, <2>7, <2>8, <2>9
<1> QED BY Invariance, <1>1, PTL

-----------------------------------------------------------------------------
(* Where the connections are and what the threads do.                      *)

(* Entry c of a list, and that it is there no more than once.              *)
Member(s, c) == \E k \in DOMAIN s : s[k] = c

Once(s, c) == \A i, j \in DOMAIN s : s[i] = c /\ s[j] = c => i = j

(* A message about c in a control pipe; what worker w has to do with c.    *)
MsgFor(q, c) == \E k \in DOMAIN q : q[k].sock = c

HasTask(w, c) == MsgFor(toWorker[w], c) \/ job[w] = c \/ MsgFor(toMain[w], c)

(* The tasks of a thread: sent to it, in hand or reported back.            *)
Tasks(w) == Len(toWorker[w]) + (IF job[w] = NoConn THEN 0 ELSE 1) + Len(toMain[w])

(* Before the stop branch has run.                                         *)
Unstopped == main \in {"start", "setup"} \/ Serving

(* The stop branch takes the listeners out and ends the service at once;   *)
(* only the handshake has a connection in hand.                            *)
PhaseInv ==
  /\ main \in {"poll", "handshake"} => running
  /\ main = "scan" /\ ~running => LayoutDown(sc)
  /\ main \in {"start", "setup"} => ~running
  /\ main = "handshake" \/ accepting = NoConn

ThreadInv(w) ==
  /\ wpc[w] = "poll" => job[w] = NoConn
  /\ Unstopped =>
       /\ \A k \in DOMAIN toWorker[w] : toWorker[w][k].type = "PROCESS_REQUEST"
       /\ Once(threadQueue, w)
       /\ Tasks(w) = IF Member(threadQueue, w) THEN 0 ELSE 1

(* Connections that are not accepted yet. *)
BacklogInv(c) ==
  /\ \A p \in Ports : /\ Once(backlog[p], c)
                      /\ Member(backlog[p], c) => fd[c] = "none" /\ peer[c] # "none"
  /\ ~(Member(backlog["http"], c) /\ Member(backlog["ssl"], c))
  /\ peer[c] = "none" => fd[c] = "none"

(* A connection is in one place only, and an open one is somewhere. *)
PlaceInv(c) ==
  /\ Once(sc.open, c) /\ Once(sc.waiting, c)
  /\ Member(sc.open, c) => fd[c] = "open" /\ ~Member(sc.waiting, c)
  /\ Member(sc.waiting, c) => fd[c] = "open"
  /\ c \in sc.working => ~Member(sc.open, c) /\ ~Member(sc.waiting, c)
  /\ c = accepting => /\ fd[c] = "open" /\ c \notin sc.working
                      /\ ~Member(sc.open, c) /\ ~Member(sc.waiting, c)
  /\ fd[c] # "reclosed"
  /\ fd[c] = "open" => \/ c = accepting \/ c \in sc.working
                       \/ Member(sc.open, c) \/ Member(sc.waiting, c)

(* working_sockets is what the threads serve, each connection by one. *)
WorkingInv(c) ==
  /\ c \in sc.working /\ fd[c] = "open" => \E w \in Workers : HasTask(w, c)
  /\ Unstopped =>
       /\ c \in sc.working => fd[c] = "open"
       /\ \A w \in Workers : HasTask(w, c) => c \in sc.working
       /\ \A v, w \in Workers : HasTask(v, c) /\ HasTask(w, c) => v = w

HolderInv ==
  /\ PhaseInv
  /\ \A w \in Workers : ThreadInv(w)
  /\ \A c \in Conns : BacklogInv(c) /\ PlaceInv(c) /\ WorkingInv(c)

-----------------------------------------------------------------------------
(* What the vector and queue operations do to membership.                  *)

(* vector::push_back and queue::push *)
LEMMA AppendMember ==
  ASSUME NEW S, NEW s \in Seq(S), NEW x \in S, NEW c
  PROVE  /\ Member(Append(s, x), c) <=> Member(s, c) \/ x = c
         /\ Once(s, c) /\ (x = c => ~Member(s, c)) => Once(Append(s, x), c)
<1>1. /\ Len(s) \in Nat /\ DOMAIN s = 1 .. Len(s)
      /\ DOMAIN Append(s, x) = 1 .. Len(s) + 1
      /\ \A i \in 1 .. Len(s) : Append(s, x)[i] = s[i]
      /\ Append(s, x)[Len(s) + 1] = x
  <2>1. Append(s, x) \in Seq(S)
    BY AppendProperties
  <2> QED BY <2>1, AppendProperties, LenProperties
<1> QED BY <1>1 DEF Member, Once

(* queue::pop *)
LEMMA TailMember ==
  ASSUME NEW S, NEW s \in Seq(S), s # <<>>, NEW c
  PROVE  /\ Member(s, c) <=> Head(s) = c \/ Member(Tail(s), c)
         /\ Once(s, c) => Once(Tail(s), c) /\ (Head(s) = c => ~Member(Tail(s), c))
<1>1. /\ Len(s) \in Nat /\ Len(s) > 0 /\ DOMAIN s = 1 .. Len(s)
      /\ Tail(s) \in Seq(S) /\ Head(s) = s[1]
      /\ DOMAIN Tail(s) = 1 .. Len(s) - 1
      /\ \A i \in 1 .. Len(s) - 1 : Tail(s)[i] = s[i + 1]
  <2>1. Len(s) \in Nat /\ DOMAIN s = 1 .. Len(s) /\ Len(s) # 0
    BY LenProperties, EmptySeq
  <2>2. Tail(s) \in Seq(S) /\ Head(s) = s[1] /\ Len(Tail(s)) = Len(s) - 1
        /\ \A i \in 1 .. Len(Tail(s)) : Tail(s)[i] = s[i + 1]
    BY HeadTailProperties
  <2> QED BY <2>1, <2>2, LenProperties
<1>2. Member(s, c) => Head(s) = c \/ Member(Tail(s), c)
  <2> SUFFICES ASSUME NEW k \in 1 .. Len(s), s[k] = c, k # 1
               PROVE  Member(Tail(s), c)
    BY <1>1 DEF Member
  <2>1. k - 1 \in 1 .. Len(s) - 1 /\ (k - 1) + 1 = k
    BY <1>1
  <2>2. Tail(s)[k - 1] = c
    BY <1>1, <2>1
  <2> QED BY <1>1, <2>1, <2>2 DEF Member
<1>3. Head(s) = c \/ Member(Tail(s), c) => Member(s, c)
  BY <1>1 DEF Member
<1>4. Once(s, c) => Once(Tail(s), c) /\ (Head(s) = c => ~Member(Tail(s), c))
  BY <1>1 DEF Once, Member
<1> QED BY <1>2, <1>3, <1>4

(* vector::erase *)
LEMMA EraseMember ==
  ASSUME NEW S, NEW s \in Seq(S), NEW pos \in Nat, pos < Len(s), NEW c
  PROVE  /\ Member(Erase(s, pos), c) => Member(s, c)
         /\ Once(s, c) => /\ Once(Erase(s, pos), c)
                          /\ s[pos + 1] = c => ~Member(Erase(s, pos), c)
         /\ s[pos + 1] # c /\ Member(s, c) => Member(Erase(s, pos), c)
<1> DEFINE e == Erase(s, pos)
<1>1. /\ Len(s) \in Nat /\ DOMAIN s = 1 .. Len(s)
      /\ DOMAIN e = 1 .. Len(s) - 1
      /\ \A i \in 1 .. Len(s) - 1 : e[i] = IF i <= pos THEN s[i] ELSE s[i + 1]
  <2>1. e \in Seq(S) /\ Len(e) = Len(s) - 1
        /\ \A i \in 1 .. Len(s) - 1 : e[i] = IF i <= pos THEN s[i] ELSE s[i + 1]
    BY EraseProperties
  <2> QED BY <2>1, LenProperties
<1> HIDE DEF e
<1> DEFINE at(i) == IF i <= pos THEN i ELSE i + 1
<1>2. /\ \A i \in DOMAIN e : at(i) \in DOMAIN s /\ e[i] = s[at(i)] /\ at(i) # pos + 1
      /\ \A i, j \in DOMAIN e : at(i) = at(j) => i = j
  BY <1>1
<1>3. \A k \in DOMAIN s : k # pos + 1 => \E i \in DOMAIN e : at(i) = k
  <2> SUFFICES ASSUME NEW k \in DOMAIN s, k # pos + 1
               PROVE  \E i \in DOMAIN e : at(i) = k
    OBVIOUS
  <2>1. CASE k <= pos
    <3>1. k \in DOMAIN e /\ at(k) = k
      BY <1>1, <2>1
    <3> QED BY <3>1
  <2>2. CASE ~(k <= pos)
    <3>1. k - 1 \in DOMAIN e /\ at(k - 1) = k
      BY <1>1, <2>2
    <3> QED BY <3>1
  <2> QED BY <2>1, <2>2
<1>p. pos + 1 \in DOMAIN s
  BY <1>1
<1> HIDE DEF at
<1>4. Member(e, c) => Member(s, c)
  BY <1>2 DEF Member
<1>5. Once(s, c) => Once(e, c) /\ (s[pos + 1] = c => ~Member(e, c))
  BY <1>2, <1>p DEF Member, Once
<1>6. s[pos + 1] # c /\ Member(s, c) => Member(e, c)
  BY <1>2, <1>3 DEF Member
<1> QED BY <1>4, <1>5, <1>6 DEF e

(* The same for the messages in a control pipe. *)
LEMMA AppendMsg ==
  ASSUME NEW S, NEW q \in Seq(S), NEW m \in S, NEW c
  PROVE  MsgFor(Append(q, m), c) <=> MsgFor(q, c) \/ m.sock = c
<1>1. /\ Len(q) \in Nat /\ DOMAIN q = 1 .. Len(q)
      /\ DOMAIN Append(q, m) = 1 .. Len(q) + 1
      /\ \A i \in 1 .. Len(q) : Append(q, m)[i] = q[i]
      /\ Append(q, m)[Len(q) + 1] = m
  <2>1. Append(q, m) \in Seq(S)
    BY AppendProperties
  <2> QED BY <2>1, AppendProperties, LenProperties
<1> QED BY <1>1 DEF MsgFor

LEMMA TailMsg ==
  ASSUME NEW S, NEW q \in Seq(S), q # <<>>, NEW c
  PROVE  MsgFor(q, c) <=> Head(q).sock = c \/ MsgFor(Tail(q), c)
<1>1. /\ Len(q) \in Nat /\ Len(q) > 0 /\ DOMAIN q = 1 .. Len(q)
      /\ Tail(q) \in Seq(S) /\ Head(q) = q[1]
      /\ DOMAIN Tail(q) = 1 .. Len(q) - 1
      /\ \A i \in 1 .. Len(q) - 1 : Tail(q)[i] = q[i + 1]
  <2>1. Len(q) \in Nat /\ DOMAIN q = 1 .. Len(q) /\ Len(q) # 0
    BY LenProperties, EmptySeq
  <2>2. Tail(q) \in Seq(S) /\ Head(q) = q[1] /\ Len(Tail(q)) = Len(q) - 1
        /\ \A i \in 1 .. Len(Tail(q)) : Tail(q)[i] = q[i + 1]
    BY HeadTailProperties
  <2> QED BY <2>1, <2>2, LenProperties
<1>2. MsgFor(q, c) => Head(q).sock = c \/ MsgFor(Tail(q), c)
  <2> SUFFICES ASSUME NEW k \in 1 .. Len(q), q[k].sock = c, k # 1
               PROVE  MsgFor(Tail(q), c)
    BY <1>1 DEF MsgFor
  <2>1. k - 1 \in 1 .. Len(q) - 1 /\ (k - 1) + 1 = k
    BY <1>1
  <2>2. Tail(q)[k - 1].sock = c
    BY <1>1, <2>1
  <2> QED BY <1>1, <2>1, <2>2 DEF MsgFor
<1>3. Head(q).sock = c \/ MsgFor(Tail(q), c) => MsgFor(q, c)
  BY <1>1 DEF MsgFor
<1> QED BY <1>2, <1>3

-----------------------------------------------------------------------------
(* What a step leaves alone keeps its part of the invariant.               *)

LEMMA ThreadFrame ==
  ASSUME NEW w \in Workers, ThreadInv(w), Unstopped' => Unstopped,
         UNCHANGED <<threadQueue, pipeVars, workerVars>>
  PROVE  ThreadInv(w)'
<1>1. /\ threadQueue' = threadQueue /\ toWorker' = toWorker /\ toMain' = toMain
      /\ wpc' = wpc /\ job' = job
  BY DEF pipeVars, workerVars
<1>2. Tasks(w)' = Tasks(w)
  BY <1>1 DEF Tasks
<1> QED BY <1>1, <1>2 DEF ThreadInv, Member, Once

LEMMA BacklogFrame ==
  ASSUME NEW c \in Conns, BacklogInv(c), UNCHANGED <<backlog, fd, peer>>
  PROVE  BacklogInv(c)'
  BY DEF BacklogInv, Member, Once

LEMMA PlaceFrame ==
  ASSUME NEW c \in Conns, PlaceInv(c), UNCHANGED <<sc, fd, accepting>>
  PROVE  PlaceInv(c)'
  BY DEF PlaceInv, Member, Once

LEMMA TaskFrame ==
  ASSUME NEW c, UNCHANGED <<toWorker, toMain, job>>
  PROVE  \A w \in Workers : HasTask(w, c)' <=> HasTask(w, c)
  BY DEF HasTask, MsgFor

LEMMA WorkingFrame ==
  ASSUME NEW c \in Conns, WorkingInv(c), Unstopped' => Unstopped,
         c \in sc'.working <=> c \in sc.working, fd'[c] = fd[c],
         \A w \in Workers : HasTask(w, c)' <=> HasTask(w, c)
  PROVE  WorkingInv(c)'
  BY DEF WorkingInv

(* Up to the stop message the listeners are there. *)
LEMMA UpIsServing ==
  ASSUME IndInv, PhaseInv, main = "scan", LayoutUp(sc)
  PROVE  running /\ Serving /\ Unstopped /\ ~LayoutDown(sc)
<1>1. NThreads \in Nat
  BY NThreadsAssumption
<1>2. ~LayoutDown(sc)
  BY <1>1 DEF LayoutUp, LayoutDown
<1> QED BY <1>2 DEF PhaseInv, Serving, Unstopped

-----------------------------------------------------------------------------
(* The steps that move no connection and no thread.                        *)

LEMMA InitHolder == Init => HolderInv
<1> SUFFICES ASSUME Init PROVE HolderInv
  OBVIOUS
<1>n. NThreads \in Nat /\ NThreads > 0
  BY NThreadsAssumption
<1>1. PhaseInv
  BY DEF Init, PhaseInv
<1>2. ASSUME NEW w \in Workers PROVE ThreadInv(w)
  <2>1. toWorker[w] = <<>> /\ toMain[w] = <<>> /\ job[w] = NoConn /\ wpc[w] = "poll"
    BY DEF Init
  <2>2. Tasks(w) = 0
    BY <2>1 DEF Tasks
  <2>3. DOMAIN threadQueue = 1 .. NThreads /\ \A k \in 1 .. NThreads : threadQueue[k] = k - 1
    BY DEF Init
  <2>4. w + 1 \in 1 .. NThreads /\ (w + 1) - 1 = w
    BY <1>n DEF Workers
  <2>5. Member(threadQueue, w)
    BY <2>3, <2>4 DEF Member
  <2>6. Once(threadQueue, w)
    BY <1>n, <2>3 DEF Once
  <2>7. \A k \in DOMAIN toWorker[w] : FALSE
    BY <2>1
  <2> QED BY <2>1, <2>2, <2>5, <2>6, <2>7 DEF ThreadInv
<1>3. ASSUME NEW c \in Conns PROVE BacklogInv(c) /\ PlaceInv(c) /\ WorkingInv(c)
  <2>1. /\ fd[c] = "none" /\ peer[c] = "none" /\ accepting = NoConn /\ c # NoConn
        /\ \A p \in Ports : backlog[p] = <<>>
        /\ sc.working = {} /\ sc.waiting = <<>>
        /\ \A w \in Workers : toWorker[w] = <<>> /\ toMain[w] = <<>> /\ job[w] = NoConn
    BY SocketsDistinct DEF Init, NewSocketControl
  <2>2. ~Member(sc.open, c) /\ Once(sc.open, c)
    <3>1. DOMAIN sc.open = 1 .. NThreads /\ \A k \in 1 .. NThreads : sc.open[k] = k - 1
      BY DEF Init, NewSocketControl
    <3>2. \A k \in 1 .. NThreads : k - 1 \in Workers /\ k - 1 # c
      BY <1>n, SocketsDistinct DEF Workers
    <3> QED BY <3>1, <3>2 DEF Member, Once
  <2>3. BacklogInv(c)
    BY <2>1 DEF BacklogInv, Member, Once, Ports
  <2>4. PlaceInv(c)
    BY <2>1, <2>2 DEF PlaceInv, Member, Once
  <2>5. WorkingInv(c)
    BY <2>1 DEF WorkingInv, HasTask, MsgFor
  <2> QED BY <2>3, <2>4, <2>5
<1> QED BY <1>1, <1>2, <1>3 DEF HolderInv

(* Signals, the passage of the loop through its phases, and what clients   *)
(* do on a connection they have.                                           *)
LEMMA HolderPlain ==
  ASSUME IndInv, HolderInv,
         \/ \E c \in Conns : ClientSend(c) \/ ClientClose(c)
         \/ Signal \/ SigThread \/ StartSigThread \/ Poll \/ PollFails
         \/ NoEvent \/ EndOfScan \/ JoinSigThread \/ JoinWorkers
  PROVE  HolderInv'
<1> USE DEF HolderInv
<1>1. UNCHANGED <<sc, threadQueue, accepting, pipeVars, workerVars, fd, backlog>>
  BY DEF ClientSend, ClientClose, Signal, SigThread, StartSigThread, Poll, PollFails,
         NoEvent, EndOfScan, JoinSigThread, JoinWorkers, mainVars, connVars
<1>2. PhaseInv' /\ (Unstopped' => Unstopped)
  <2>1. running \in BOOLEAN
    BY DEF IndInv, TypeOK
  <2>2. CASE UNCHANGED <<main, running>>
    BY <1>1, <2>2 DEF PhaseInv, Unstopped, Serving, LayoutDown, Prefix
  <2>3. CASE StartSigThread
    BY <1>1, <2>3 DEF StartSigThread, PhaseInv, Unstopped, Serving
  <2>4. CASE Poll
    BY <1>1, <2>1, <2>4 DEF Poll, PhaseInv, Unstopped, Serving
  <2>5. CASE PollFails
    BY <1>1, <2>1, <2>5 DEF PollFails, PhaseInv, Unstopped, Serving
  <2>6. CASE EndOfScan
    BY <1>1, <2>1, <2>6 DEF EndOfScan, PhaseInv, Unstopped, Serving
  <2>7. CASE JoinSigThread \/ JoinWorkers
    BY <1>1, <2>1, <2>7 DEF JoinSigThread, JoinWorkers, PhaseInv, Unstopped, Serving
  <2> QED BY <2>2, <2>3, <2>4, <2>5, <2>6, <2>7
          DEF ClientSend, ClientClose, Signal, SigThread, NoEvent, mainVars
<1>3. \A w \in Workers : ThreadInv(w)'
  BY <1>1, <1>2, ThreadFrame
<1>4. ASSUME NEW c \in Conns PROVE BacklogInv(c)'
  <2>1. BacklogInv(c)
    OBVIOUS
  <2>2. peer[c] # "none" <=> peer'[c] # "none"
    BY DEF ClientSend, ClientClose, Signal, SigThread, StartSigThread, Poll, PollFails,
           NoEvent, EndOfScan, JoinSigThread, JoinWorkers, connVars, IndInv, TypeOK
  <2> QED BY <1>1, <2>1, <2>2 DEF BacklogInv, Member, Once
<1>5. ASSUME NEW c \in Conns PROVE PlaceInv(c)'
  BY <1>1, PlaceFrame
<1>6. ASSUME NEW c \in Conns PROVE WorkingInv(c)'
  <2>1. \A w \in Workers : HasTask(w, c)' <=> HasTask(w, c)
    BY <1>1, TaskFrame DEF pipeVars, workerVars
  <2> QED BY <1>1, <1>2, <2>1, WorkingFrame
<1> QED BY <1>2, <1>3, <1>4, <1>5, <1>6

(* A connection request joins the backlog of a listener. *)
LEMMA HolderConnect ==
  ASSUME IndInv, HolderInv, NEW d \in Conns, NEW q \in Ports, Connect(d, q)
  PROVE  HolderInv'
<1> USE DEF HolderInv
<1>1. UNCHANGED <<mainVars, pipeVars, workerVars, fd>>
  BY DEF Connect
<1>2. PhaseInv' /\ (Unstopped' => Unstopped)
  BY <1>1 DEF mainVars, PhaseInv, Unstopped, Serving, LayoutDown, Prefix
<1>3. \A w \in Workers : ThreadInv(w)'
  BY <1>1, <1>2, ThreadFrame DEF mainVars
<1>4. ASSUME NEW c \in Conns PROVE BacklogInv(c)'
  <2>1. BacklogInv(c) /\ BacklogInv(d)
    OBVIOUS
  <2>2. /\ peer[d] = "none" /\ peer' = [peer EXCEPT ![d] = "open"]
        /\ backlog' = [backlog EXCEPT ![q] = Append(backlog[q], d)]
        /\ peer \in [Conns -> {"none", "open", "closed"}]
        /\ backlog \in [Ports -> Seq(Conns)] /\ fd' = fd
    BY <1>1 DEF Connect, IndInv, TypeOK
  <2>3. \A p \in Ports : ~Member(backlog[p], d)
    BY <2>1, <2>2 DEF BacklogInv
  <2>4. /\ Member(Append(backlog[q], d), c) <=> Member(backlog[q], c) \/ c = d
        /\ Once(Append(backlog[q], d), c)
    <3>1. backlog[q] \in Seq(Conns) /\ Once(backlog[q], c) /\ (c = d => ~Member(backlog[q], c))
      BY <2>1, <2>2, <2>3 DEF BacklogInv
    <3> QED BY <3>1, AppendMember
  <2>5. \A p \in Ports :
          /\ Once(backlog'[p], c)
          /\ Member(backlog'[p], c) <=> Member(backlog[p], c) \/ (p = q /\ c = d)
    BY <2>1, <2>2, <2>4 DEF BacklogInv
  <2> HIDE DEF HolderInv
  <2>6. peer'[c] = IF c = d THEN "open" ELSE peer[c]
    BY <2>2
  <2>7. fd[d] = "none"
    BY <2>1, <2>2 DEF BacklogInv
  <2> QED BY <2>1, <2>2, <2>3, <2>5, <2>6, <2>7 DEF BacklogInv, Ports
<1>5. ASSUME NEW c \in Conns PROVE PlaceInv(c)'
  BY <1>1, PlaceFrame DEF mainVars
<1>6. ASSUME NEW c \in Conns PROVE WorkingInv(c)'
  <2>1. \A w \in Workers : HasTask(w, c)' <=> HasTask(w, c)
    BY <1>1, TaskFrame DEF pipeVars, workerVars
  <2> QED BY <1>1, <1>2, <2>1, WorkingFrame DEF mainVars
<1> QED BY <1>2, <1>3, <1>4, <1>5, <1>6

(* The sockets the server opens for itself are not connections. *)
LEMMA HolderOpenSockets ==
  ASSUME IndInv, HolderInv, OpenSockets
  PROVE  HolderInv'
<1> USE DEF HolderInv
<1>1. /\ UNCHANGED <<threadQueue, accepting, pipeVars, workerVars, fd, backlog, peer>>
      /\ main = "setup" /\ main' = "poll" /\ running' = TRUE
  BY DEF OpenSockets, connVars
<1>2. PhaseInv' /\ (Unstopped' => Unstopped)
  BY <1>1 DEF PhaseInv, Unstopped, Serving
<1>3. \A w \in Workers : ThreadInv(w)'
  BY <1>1, <1>2, ThreadFrame
<1>4. \A c \in Conns : BacklogInv(c)'
  BY <1>1, BacklogFrame
<1> DEFINE o1 == Append(sc.open, StopSock)
           o2 == Append(o1, HttpSock)
           o3 == Append(o2, SslSock)
<1>5. /\ sc = NewSocketControl
      /\ sc'.open = (IF UseSsl THEN o3 ELSE o2)
      /\ sc'.waiting = sc.waiting /\ sc'.working = sc.working
  <2>1. sc = NewSocketControl
    BY <1>1 DEF IndInv, Layout
  <2> QED BY <2>1 DEF OpenSockets, NewSocketControl, add_stop_socket, add_http_socket,
                      add_ssl_socket
<1>6. ASSUME NEW c \in Conns
      PROVE  /\ Member(sc'.open, c) <=> Member(sc.open, c)
             /\ Once(sc'.open, c)
  <2>1. /\ sc.open \in Seq(Sockets) /\ StopSock \in Sockets /\ HttpSock \in Sockets
        /\ SslSock \in Sockets /\ c # StopSock /\ c # HttpSock /\ c # SslSock
    BY Types, SocketsDistinct DEF IndInv, Sockets
  <2>2. Once(sc.open, c)
    BY DEF PlaceInv
  <2>3. o1 \in Seq(Sockets) /\ Once(o1, c) /\ (Member(o1, c) <=> Member(sc.open, c))
    BY <2>1, <2>2, AppendMember, AppendProperties
  <2> HIDE DEF o1
  <2>4. o2 \in Seq(Sockets) /\ Once(o2, c) /\ (Member(o2, c) <=> Member(sc.open, c))
    BY <2>1, <2>3, AppendMember, AppendProperties
  <2> HIDE DEF o2
  <2>5. Once(o3, c) /\ (Member(o3, c) <=> Member(sc.open, c))
    BY <2>1, <2>4, AppendMember
  <2> QED BY <1>5, <2>4, <2>5
<1>7. ASSUME NEW c \in Conns PROVE PlaceInv(c)'
  <2>1. PlaceInv(c)
    OBVIOUS
  <2> QED BY <1>1, <1>5, <1>6, <2>1 DEF PlaceInv
<1>8. ASSUME NEW c \in Conns PROVE WorkingInv(c)'
  <2>1. \A w \in Workers : HasTask(w, c)' <=> HasTask(w, c)
    BY <1>1, TaskFrame DEF pipeVars, workerVars
  <2> QED BY <1>1, <1>2, <1>5, <2>1, WorkingFrame
<1> QED BY <1>2, <1>3, <1>4, <1>7, <1>8

-----------------------------------------------------------------------------
(* The workers: a task moves from the pipe into the hand and back.         *)

(* Invariant parts that every step of a worker keeps when its task stays   *)
(* with it.                                                                *)
LEMMA WorkerKeeps ==
  ASSUME IndInv, HolderInv, UNCHANGED <<mainVars, fd, peer, backlog>>,
         \A v \in Workers : ThreadInv(v)',
         \A v \in Workers, c \in Conns : HasTask(v, c)' <=> HasTask(v, c)
  PROVE  HolderInv'
<1> USE DEF HolderInv
<1>1. PhaseInv' /\ (Unstopped' => Unstopped)
  BY DEF mainVars, PhaseInv, Unstopped, Serving, LayoutDown, Prefix
<1>2. ASSUME NEW c \in Conns PROVE BacklogInv(c)' /\ PlaceInv(c)' /\ WorkingInv(c)'
  <2>1. BacklogInv(c) /\ PlaceInv(c) /\ WorkingInv(c)
    OBVIOUS
  <2>2. BacklogInv(c)' /\ PlaceInv(c)'
    BY <2>1, BacklogFrame, PlaceFrame DEF mainVars
  <2>3. WorkingInv(c)'
    BY <1>1, <2>1, WorkingFrame DEF mainVars
  <2> QED BY <2>2, <2>3
<1> QED BY <1>1, <1>2

(* A worker takes its message from the pipe. *)
LEMMA HolderReceive ==
  ASSUME IndInv, HolderInv, NEW w \in Workers, WorkerReceive(w)
  PROVE  HolderInv'
<1> DEFINE m == Head(toWorker[w])
<1>1. /\ toWorker[w] \in Seq(ToWorkerMsgs) /\ toWorker[w] # <<>>
      /\ toWorker \in [Workers -> Seq(ToWorkerMsgs)]
      /\ wpc \in [Workers -> {"poll", "reading", "handling", "gone"}]
      /\ job \in [Workers -> Jobs \cup {NoConn}]
  BY DEF WorkerReceive, IndInv, TypeOK
<1>2. /\ toWorker' = [toWorker EXCEPT ![w] = Tail(toWorker[w])]
      /\ \/ /\ m.type = "PROCESS_REQUEST"
            /\ wpc' = [wpc EXCEPT ![w] = "reading"]
            /\ job' = [job EXCEPT ![w] = m.sock]
         \/ /\ m.type = "EXIT"
            /\ wpc' = [wpc EXCEPT ![w] = "gone"]
            /\ job' = job
      /\ wpc[w] = "poll" /\ toMain' = toMain
      /\ UNCHANGED <<mainVars, fd, peer, backlog>>
  BY DEF WorkerReceive, connVars
<1>3. /\ Len(toWorker[w]) \in Nat /\ Len(toWorker[w]) > 0
      /\ DOMAIN toWorker[w] = 1 .. Len(toWorker[w])
      /\ m = toWorker[w][1] /\ m \in ToWorkerMsgs
      /\ Tail(toWorker[w]) \in Seq(ToWorkerMsgs)
      /\ Len(Tail(toWorker[w])) = Len(toWorker[w]) - 1
      /\ DOMAIN Tail(toWorker[w]) = 1 .. Len(toWorker[w]) - 1
      /\ \A k \in 1 .. Len(toWorker[w]) - 1 : Tail(toWorker[w])[k] = toWorker[w][k + 1]
  <2>1. Len(toWorker[w]) \in Nat /\ DOMAIN toWorker[w] = 1 .. Len(toWorker[w])
        /\ Len(toWorker[w]) # 0
    BY <1>1, LenProperties, EmptySeq
  <2>2. /\ m = toWorker[w][1] /\ m \in ToWorkerMsgs
        /\ Tail(toWorker[w]) \in Seq(ToWorkerMsgs)
        /\ Len(Tail(toWorker[w])) = Len(toWorker[w]) - 1
        /\ \A k \in 1 .. Len(Tail(toWorker[w])) : Tail(toWorker[w])[k] = toWorker[w][k + 1]
    BY <1>1, HeadTailProperties
  <2> QED BY <2>1, <2>2, LenProperties
<1>4. m.type = "PROCESS_REQUEST" \/ (m.type = "EXIT" /\ m.sock = NoConn)
  BY <1>3 DEF ToWorkerMsgs, Msg
<1>5. m.type = "PROCESS_REQUEST" => m.sock \in Jobs /\ m.sock # NoConn
  <2>1. NoConn \notin Jobs
    BY SocketsDistinct DEF Jobs
  <2> QED BY <1>3, <2>1, MsgTypes
<1>6. job[w] = NoConn
  BY <1>2 DEF HolderInv, ThreadInv
<1> HIDE DEF m
<1>7. ASSUME NEW v \in Workers, NEW c \in Conns PROVE HasTask(v, c)' <=> HasTask(v, c)
  <2>1. CASE v # w
    <3>1. toWorker'[v] = toWorker[v] /\ job'[v] = job[v] /\ toMain' = toMain
      BY <1>1, <1>2, <2>1
    <3> QED BY <3>1 DEF HasTask, MsgFor
  <2>2. CASE v = w
    <3>1. MsgFor(toWorker[w], c) <=> m.sock = c \/ MsgFor(Tail(toWorker[w]), c)
      BY <1>1, TailMsg DEF m
    <3>2. toWorker'[w] = Tail(toWorker[w]) /\ toMain'[w] = toMain[w]
      BY <1>1, <1>2
    <3>3. m.sock = c <=> job'[w] = c
      <4>1. NoConn # c
        BY SocketsDistinct
      <4> QED BY <1>1, <1>2, <1>4, <1>6, <4>1
    <3>4. job[w] # c
      BY <1>6, SocketsDistinct
    <3> QED BY <2>2, <3>1, <3>2, <3>3, <3>4 DEF HasTask
  <2> QED BY <2>1, <2>2
<1>8. ASSUME NEW v \in Workers PROVE ThreadInv(v)'
  <2>0. ThreadInv(v) /\ ThreadInv(w)
    BY DEF HolderInv
  <2>u. threadQueue' = threadQueue /\ (Unstopped' <=> Unstopped)
    BY <1>2 DEF mainVars, Unstopped, Serving
  <2>1. CASE v # w
    <3>1. toWorker'[v] = toWorker[v] /\ job'[v] = job[v] /\ toMain' = toMain /\ wpc'[v] = wpc[v]
      BY <1>1, <1>2, <2>1
    <3>2. Tasks(v)' = Tasks(v)
      BY <3>1 DEF Tasks
    <3> QED BY <2>0, <2>u, <3>1, <3>2 DEF ThreadInv
  <2>2. CASE v = w
    <3>1. toWorker'[w] = Tail(toWorker[w]) /\ toMain'[w] = toMain[w] /\ wpc'[w] # "poll"
      BY <1>1, <1>2
    <3>2. ASSUME Unstopped
          PROVE  /\ \A k \in DOMAIN toWorker'[w] : toWorker'[w][k].type = "PROCESS_REQUEST"
                 /\ Once(threadQueue, w)
                 /\ Tasks(w)' = IF Member(threadQueue, w) THEN 0 ELSE 1
      <4>1. /\ \A k \in DOMAIN toWorker[w] : toWorker[w][k].type = "PROCESS_REQUEST"
            /\ Once(threadQueue, w)
            /\ Tasks(w) = IF Member(threadQueue, w) THEN 0 ELSE 1
        BY <2>0, <3>2 DEF ThreadInv
      <4>2. \A k \in DOMAIN toWorker'[w] : toWorker'[w][k].type = "PROCESS_REQUEST"
        BY <1>3, <3>1, <4>1
      <4>3. m.type = "PROCESS_REQUEST"
        BY <1>3, <4>1
      <4>4. job'[w] = m.sock /\ job'[w] # NoConn
        BY <1>1, <1>2, <1>5, <4>3
      <4>5. Len(toMain[w]) \in Nat
        BY LenProperties DEF IndInv, TypeOK
      <4>6. /\ Tasks(w) = Len(toWorker[w]) + 0 + Len(toMain[w])
            /\ Tasks(w)' = Len(Tail(toWorker[w])) + 1 + Len(toMain[w])
        BY <1>6, <3>1, <4>4 DEF Tasks
      <4>7. Len(toWorker[w]) \in Nat /\ Len(Tail(toWorker[w])) = Len(toWorker[w]) - 1
        BY <1>3
      <4>a. Len(Tail(toWorker[w])) + 1 + Len(toMain[w]) = Len(toWorker[w]) + 0 + Len(toMain[w])
        <5> DEFINE a == Len(toWorker[w])
                   b == Len(toMain[w])
                   d == Len(Tail(toWorker[w]))
        <5>1. a \in Nat /\ b \in Nat /\ d = a - 1
          BY <4>5, <4>7
        <5> HIDE DEF a, b, d
        <5>2. d + 1 + b = a + 0 + b
          BY <5>1
        <5> QED BY <5>2 DEF a, b, d
      <4>8. Tasks(w)' = Tasks(w)
        BY <4>6, <4>a, Zenon
      <4> QED BY <4>1, <4>2, <4>8
    <3> QED BY <2>2, <2>u, <3>1, <3>2 DEF ThreadInv
  <2> QED BY <2>1, <2>2
<1> QED BY <1>2, <1>7, <1>8, WorkerKeeps

(* A worker reports its task back. *)
LEMMA HolderFinish ==
  ASSUME IndInv, HolderInv, NEW w \in Workers, wpc[w] \in {"reading", "handling"},
         NEW type \in {"FINISHED_AND_CONTINUE", "FINISHED_AND_CLOSE"}, Finish(w, type),
         UNCHANGED <<mainVars, toWorker, fd, peer, backlog>>
  PROVE  HolderInv'
<1> DEFINE m == Msg(type, job[w])
<1>1. /\ toMain \in [Workers -> Seq(ToMainMsgs)]
      /\ toMain[w] \in Seq(ToMainMsgs) /\ Len(toMain[w]) \in Nat
      /\ Len(toWorker[w]) \in Nat
      /\ wpc \in [Workers -> {"poll", "reading", "handling", "gone"}]
      /\ job \in [Workers -> Jobs \cup {NoConn}]
      /\ job[w] \in Jobs
  BY LenProperties DEF IndInv, TypeOK, BusyHasJob
<1>j. job[w] # NoConn
  BY <1>1, SocketsDistinct DEF Jobs
<1>2. m \in ToMainMsgs /\ m.sock = job[w]
  BY <1>1, MsgTypes DEF Msg
<1>3. /\ toMain' = [toMain EXCEPT ![w] = Append(toMain[w], m)]
      /\ wpc' = [wpc EXCEPT ![w] = "poll"]
      /\ job' = [job EXCEPT ![w] = NoConn]
      /\ toWorker' = toWorker
  BY DEF Finish
<1> HIDE DEF m
<1>4. /\ toMain'[w] = Append(toMain[w], m) /\ job'[w] = NoConn
      /\ Len(Append(toMain[w], m)) = Len(toMain[w]) + 1
      /\ \A v \in Workers : v # w => toMain'[v] = toMain[v] /\ job'[v] = job[v] /\ wpc'[v] = wpc[v]
  BY <1>1, <1>2, <1>3, AppendProperties
<1>5. ASSUME NEW v \in Workers, NEW c \in Conns PROVE HasTask(v, c)' <=> HasTask(v, c)
  <2>1. CASE v # w
    BY <1>3, <1>4, <2>1 DEF HasTask, MsgFor
  <2>2. CASE v = w
    <3>1. MsgFor(Append(toMain[w], m), c) <=> MsgFor(toMain[w], c) \/ job[w] = c
      BY <1>1, <1>2, AppendMsg
    <3>2. NoConn # c
      BY SocketsDistinct
    <3> QED BY <1>3, <1>4, <2>2, <3>1, <3>2 DEF HasTask
  <2> QED BY <2>1, <2>2
<1>6. ASSUME NEW v \in Workers PROVE ThreadInv(v)'
  <2>0. ThreadInv(v)
    BY DEF HolderInv
  <2>u. threadQueue' = threadQueue /\ (Unstopped' <=> Unstopped)
    BY DEF mainVars, Unstopped, Serving
  <2>1. Tasks(v)' = Tasks(v)
    <3>1. CASE v # w
      BY <1>3, <1>4, <3>1 DEF Tasks
    <3>2. CASE v = w
      <4>1. /\ Tasks(w) = Len(toWorker[w]) + 1 + Len(toMain[w])
            /\ Tasks(w)' = Len(toWorker[w]) + 0 + Len(Append(toMain[w], m))
        BY <1>3, <1>4, <1>j DEF Tasks
      <4>a. Len(toWorker[w]) + 0 + Len(Append(toMain[w], m)) = Len(toWorker[w]) + 1 + Len(toMain[w])
        <5> DEFINE a == Len(toWorker[w])
                   b == Len(toMain[w])
                   d == Len(Append(toMain[w], m))
        <5>1. a \in Nat /\ b \in Nat /\ d = b + 1
          BY <1>1, <1>4
        <5> HIDE DEF a, b, d
        <5>2. a + 0 + d = a + 1 + b
          BY <5>1
        <5> QED BY <5>2 DEF a, b, d
      <4>2. Tasks(w)' = Tasks(w)
        BY <4>1, <4>a, Zenon
      <4> QED BY <3>2, <4>2
    <3> QED BY <3>1, <3>2
  <2>2. wpc'[v] = "poll" => job'[v] = NoConn
    BY <1>4, <2>0 DEF ThreadInv
  <2> QED BY <1>3, <2>0, <2>u, <2>1, <2>2 DEF ThreadInv
<1> QED BY <1>5, <1>6, WorkerKeeps

LEMMA HolderWorker ==
  ASSUME IndInv, HolderInv, NEW w \in Workers, Worker(w)
  PROVE  HolderInv'
<1>1. CASE WorkerReceive(w)
  BY <1>1, HolderReceive
<1>2. CASE WorkerRead(w)
  <2>1. /\ UNCHANGED <<mainVars, pipeVars, job, fd, peer, backlog>>
        /\ wpc' = [wpc EXCEPT ![w] = "handling"]
        /\ wpc \in [Workers -> {"poll", "reading", "handling", "gone"}]
    BY <1>2 DEF WorkerRead, IndInv, TypeOK
  <2>2. toWorker' = toWorker /\ toMain' = toMain /\ job' = job
        /\ threadQueue' = threadQueue /\ (Unstopped' <=> Unstopped)
    BY <2>1 DEF mainVars, pipeVars, Unstopped, Serving
  <2>3. ASSUME NEW v \in Workers PROVE ThreadInv(v)'
    <3>1. ThreadInv(v)
      BY DEF HolderInv
    <3>2. wpc'[v] = "poll" => wpc[v] = "poll"
      BY <2>1
    <3>3. Tasks(v)' = Tasks(v)
      BY <2>2 DEF Tasks
    <3> QED BY <2>2, <3>1, <3>2, <3>3 DEF ThreadInv
  <2>4. \A c \in Conns, v \in Workers : HasTask(v, c)' <=> HasTask(v, c)
    BY <2>2 DEF HasTask, MsgFor
  <2> QED BY <2>1, <2>3, <2>4, WorkerKeeps
<1>3. CASE WorkerReadFails(w)
  BY <1>3, HolderFinish DEF WorkerReadFails, connVars
<1>4. ASSUME NEW type \in {"FINISHED_AND_CONTINUE", "FINISHED_AND_CLOSE"},
             WorkerDone(w, type)
      PROVE  HolderInv'
  BY <1>4, HolderFinish DEF WorkerDone, connVars
<1> QED BY <1>1, <1>2, <1>3, <1>4 DEF Worker

-----------------------------------------------------------------------------
(* FINISHED_AND_CONTINUE and FINISHED_AND_CLOSE.                           *)

(* A queue of one is empty once it is popped. *)
LEMMA TailOfOne ==
  ASSUME NEW S, NEW q \in Seq(S), Len(q) = 1
  PROVE  /\ q # <<>> /\ Tail(q) = <<>> /\ DOMAIN q = {1} /\ Head(q) = q[1]
<1>1. q # <<>> /\ DOMAIN q = 1 .. 1
  BY EmptySeq, LenProperties
<1>2. Tail(q) \in Seq(S) /\ Len(Tail(q)) = 0 /\ Head(q) = q[1]
  BY <1>1, HeadTailProperties
<1>3. Tail(q) = <<>>
  BY <1>2, EmptySeq
<1> QED BY <1>1, <1>2, <1>3

(* A thread whose message is read has no other task. *)
LEMMA FinishedTask ==
  ASSUME IndInv, HolderInv, Scanning("IN"), IsMsgSocket
  PROVE  /\ idx \in Workers /\ LayoutUp(sc) /\ running /\ Serving /\ Unstopped
         /\ toWorker[idx] = <<>> /\ job[idx] = NoConn /\ Tail(toMain[idx]) = <<>>
         /\ ~Member(threadQueue, idx)
         /\ \A c \in Conns : HasTask(idx, c) <=> c = Head(toMain[idx]).sock
<1>1. idx \in Workers /\ LayoutUp(sc) /\ toMain[idx] # <<>> /\ main = "scan"
  BY AtMsgSocket DEF Scanning
<1>2. running /\ Serving /\ Unstopped
  BY <1>1, UpIsServing DEF HolderInv
<1>3. Tasks(idx) = IF Member(threadQueue, idx) THEN 0 ELSE 1
  BY <1>1, <1>2 DEF HolderInv, ThreadInv
<1>4. toWorker[idx] \in Seq(ToWorkerMsgs) /\ toMain[idx] \in Seq(ToMainMsgs)
  BY <1>1 DEF IndInv, TypeOK
<1>5. /\ Len(toWorker[idx]) = 0 /\ Len(toMain[idx]) = 1 /\ job[idx] = NoConn
      /\ ~Member(threadQueue, idx)
  <2> DEFINE a == Len(toWorker[idx])
             b == Len(toMain[idx])
             j == IF job[idx] = NoConn THEN 0 ELSE 1
  <2>1. a \in Nat /\ b \in Nat /\ b # 0
    BY <1>1, <1>4, LenProperties, EmptySeq
  <2>2. j \in 0 .. 1 /\ (j = 0 <=> job[idx] = NoConn)
    OBVIOUS
  <2>3. a + j + b = IF Member(threadQueue, idx) THEN 0 ELSE 1
    BY <1>3 DEF Tasks
  <2> HIDE DEF a, b, j
  <2>4. a = 0 /\ b = 1 /\ j = 0 /\ ~Member(threadQueue, idx)
    BY <2>1, <2>2, <2>3
  <2> QED BY <2>2, <2>4 DEF a, b
<1>6. toWorker[idx] = <<>>
  BY <1>4, <1>5, EmptySeq
<1>7. Tail(toMain[idx]) = <<>> /\ DOMAIN toMain[idx] = {1} /\ Head(toMain[idx]) = toMain[idx][1]
  BY <1>4, <1>5, TailOfOne
<1>8. \A c \in Conns : HasTask(idx, c) <=> c = Head(toMain[idx]).sock
  BY <1>5, <1>6, <1>7, SocketsDistinct DEF HasTask, MsgFor
<1> QED BY <1>1, <1>2, <1>5, <1>6, <1>7, <1>8

(* The thread that is free again takes the head of the waiting queue or    *)
(* queues itself.                                                          *)
LEMMA ReuseThreadTasks ==
  ASSUME IndInv, HolderInv, NEW w \in Workers, Unstopped,
         toWorker[w] = <<>>, job[w] = NoConn, ~Member(threadQueue, w),
         NEW s \in SocketControls, s.waiting = sc.waiting, ReuseThread(s, w),
         toMain' = [toMain EXCEPT ![w] = <<>>], UNCHANGED workerVars
  PROVE  LET h == Head(sc.waiting)
         IN  /\ sc'.open = s.open
             /\ sc.waiting = <<>> => sc'.waiting = sc.waiting /\ sc'.working = s.working
             /\ sc.waiting # <<>> => /\ sc'.waiting = Tail(sc.waiting) /\ h \in Jobs
                                     /\ sc'.working = s.working \cup {h}
             /\ \A v \in Workers : ThreadInv(v)'
             /\ \A c \in Conns : HasTask(w, c)' <=> (sc.waiting # <<>> /\ c = h)
             /\ \A c \in Conns, v \in Workers : v # w => (HasTask(v, c)' <=> HasTask(v, c))
<1> DEFINE h == Head(sc.waiting)
           m == Msg("PROCESS_REQUEST", h)
<1>t. /\ threadQueue \in Seq(Workers) /\ sc.waiting \in Seq(Jobs)
      /\ toWorker \in [Workers -> Seq(ToWorkerMsgs)]
      /\ toMain \in [Workers -> Seq(ToMainMsgs)]
      /\ wpc' = wpc /\ job' = job
  BY Types DEF IndInv, TypeOK, workerVars
<1>1. CASE sc.waiting = <<>>
  <2>1. sc' = s /\ threadQueue' = Append(threadQueue, w) /\ toWorker' = toWorker
    BY <1>1 DEF ReuseThread
  <2>2. toWorker'[w] = <<>> /\ toMain'[w] = <<>> /\ job'[w] = NoConn
    BY <1>t, <2>1
  <2>3. \A v \in Workers : v # w => toMain'[v] = toMain[v]
    BY <1>t
  <2>4. ASSUME NEW v \in Workers PROVE ThreadInv(v)'
    <3>0. ThreadInv(v)
      BY DEF HolderInv
    <3>1. Once(threadQueue, v)
      BY <3>0 DEF ThreadInv
    <3>2. /\ Once(Append(threadQueue, w), v)
          /\ Member(Append(threadQueue, w), v) <=> Member(threadQueue, v) \/ v = w
      BY <1>t, <3>1, AppendMember
    <3>3. CASE v = w
      <4>1. Tasks(w)' = 0
        BY <2>2 DEF Tasks
      <4>2. \A k \in DOMAIN toWorker'[w] : FALSE
        BY <2>2
      <4> QED BY <2>1, <2>2, <3>2, <3>3, <4>1, <4>2 DEF ThreadInv
    <3>4. CASE v # w
      <4>1. Tasks(v)' = Tasks(v)
        BY <1>t, <2>1, <2>3, <3>4 DEF Tasks
      <4> QED BY <1>t, <2>1, <3>0, <3>2, <3>4, <4>1 DEF ThreadInv
    <3> QED BY <3>3, <3>4
  <2>5. \A c \in Conns : ~HasTask(w, c)'
    BY <2>2, SocketsDistinct DEF HasTask, MsgFor
  <2>6. \A c \in Conns, v \in Workers : v # w => (HasTask(v, c)' <=> HasTask(v, c))
    BY <1>t, <2>1, <2>3 DEF HasTask, MsgFor
  <2> QED BY <1>1, <2>1, <2>4, <2>5, <2>6
<1>2. CASE sc.waiting # <<>>
  <2>1. /\ sc' = add_to_working_socket(get_waiting(s), h)
        /\ toWorker' = [toWorker EXCEPT ![w] = Append(toWorker[w], m)]
        /\ threadQueue' = threadQueue
    BY <1>2 DEF ReuseThread
  <2>2. h \in Jobs
    BY <1>t, <1>2, HeadTailProperties
  <2>3. m \in ToWorkerMsgs /\ m.sock = h /\ m.type = "PROCESS_REQUEST"
    BY <2>2, MsgTypes DEF Msg
  <2> HIDE DEF h, m
  <2>4. /\ sc'.open = s.open /\ sc'.waiting = Tail(sc.waiting)
        /\ sc'.working = s.working \cup {h}
    BY <2>1 DEF add_to_working_socket, get_waiting, SocketControls
  <2>5. /\ toWorker'[w] = Append(<<>>, m) /\ toMain'[w] = <<>> /\ job'[w] = NoConn
        /\ \A v \in Workers : v # w => toMain'[v] = toMain[v] /\ toWorker'[v] = toWorker[v]
    BY <1>t, <2>1
  <2>6. <<>> \in Seq(ToWorkerMsgs) /\ Len(<<>>) = 0
    BY <1>t
  <2>7. /\ Len(Append(<<>>, m)) = 1 /\ DOMAIN Append(<<>>, m) = {1}
        /\ Append(<<>>, m)[1] = m
    <3>1. /\ Append(<<>>, m) \in Seq(ToWorkerMsgs) /\ Len(Append(<<>>, m)) = 0 + 1
          /\ Append(<<>>, m)[0 + 1] = m
      BY <2>3, <2>6, AppendProperties
    <3> QED BY <3>1, LenProperties
  <2>8. ASSUME NEW v \in Workers PROVE ThreadInv(v)'
    <3>0. ThreadInv(v)
      BY DEF HolderInv
    <3>3. CASE v = w
      <4>1. Tasks(w)' = 1
        BY <2>5, <2>6, <2>7 DEF Tasks
      <4>2. \A k \in DOMAIN toWorker'[w] : toWorker'[w][k].type = "PROCESS_REQUEST"
        BY <2>3, <2>5, <2>7
      <4> QED BY <2>1, <2>5, <3>0, <3>3, <4>1, <4>2 DEF ThreadInv
    <3>4. CASE v # w
      <4>1. Tasks(v)' = Tasks(v)
        BY <1>t, <2>5, <3>4 DEF Tasks
      <4> QED BY <1>t, <2>1, <2>5, <3>0, <3>4, <4>1 DEF ThreadInv
    <3> QED BY <3>3, <3>4
  <2>9. \A c \in Conns : HasTask(w, c)' <=> c = h
    BY <2>3, <2>5, <2>7, SocketsDistinct DEF HasTask, MsgFor
  <2>10. \A c \in Conns, v \in Workers : v # w => (HasTask(v, c)' <=> HasTask(v, c))
    BY <1>t, <2>5 DEF HasTask, MsgFor
  <2> QED BY <1>2, <2>2, <2>4, <2>8, <2>9, <2>10 DEF h
<1> QED BY <1>1, <1>2

(* Where the two branches leave every connection c: that of the message    *)
(* is polled again (d = "polled") or closed, the head of the queue is      *)
(* served.                                                                 *)
LEMMA FinishedMoves ==
  ASSUME IndInv, HolderInv, FinishedAndContinue \/ FinishedAndClose,
         NEW w \in Workers, w = idx
  PROVE  LET j == Head(toMain[idx]).sock
             h == Head(sc.waiting)
         IN  /\ j \in Jobs /\ running /\ Unstopped
             /\ \A v \in Workers : ThreadInv(v)'
             /\ j \in Conns => /\ j \in sc.working /\ fd[j] = "open"
             /\ \A c \in Conns :
                  /\ HasTask(w, c) <=> c = j
                  /\ HasTask(w, c)' <=> (sc.waiting # <<>> /\ c = h)
                  /\ \A v \in Workers : v # w => (HasTask(v, c)' <=> HasTask(v, c))
                  /\ Once(sc'.open, c) /\ Once(sc'.waiting, c)
                  /\ Member(sc'.open, c) <=> \/ Member(sc.open, c)
                                             \/ FinishedAndContinue /\ c = j
                  /\ Member(sc.waiting, c)
                       <=> Member(sc'.waiting, c) \/ (sc.waiting # <<>> /\ c = h)
                  /\ sc.waiting # <<>> /\ c = h => ~Member(sc'.waiting, c)
                  /\ c \in sc'.working <=> \/ c \in sc.working /\ c # j
                                           \/ sc.waiting # <<>> /\ c = h
                  /\ fd'[c] = IF ~FinishedAndContinue /\ c = j THEN "closed" ELSE fd[c]
<1> DEFINE j == Head(toMain[idx]).sock
           h == Head(sc.waiting)
           r == remove_from_working_socket(sc, j)
           s == IF FinishedAndContinue THEN add_dyn_socket(r, j) ELSE r
<1>1. Scanning("IN") /\ IsMsgSocket
  BY DEF FinishedAndContinue, FinishedAndClose
<1>2. /\ idx \in Workers /\ LayoutUp(sc) /\ running /\ Unstopped
      /\ toWorker[idx] = <<>> /\ job[idx] = NoConn /\ Tail(toMain[idx]) = <<>>
      /\ ~Member(threadQueue, idx)
      /\ \A c \in Conns : HasTask(idx, c) <=> c = j
  BY <1>1, FinishedTask
<1>3. j \in Jobs
  BY <1>1, AtMsgSocket
<1>t. sc \in SocketControls /\ sc.open \in Seq(Sockets) /\ sc.waiting \in Seq(Jobs)
      /\ j \in Sockets
  BY <1>3, Types DEF IndInv, Sockets
<1>4. /\ ReuseThread(s, w)
      /\ toMain' = [toMain EXCEPT ![w] = Tail(toMain[idx])]
      /\ UNCHANGED workerVars
      /\ FinishedAndContinue => fd' = fd
      /\ ~FinishedAndContinue => fd' = close_socket({j})
  BY DEF FinishedAndContinue, FinishedAndClose, connVars
<1>5. /\ r \in SocketControls /\ r.open = sc.open /\ r.waiting = sc.waiting
      /\ r.working = sc.working \ {j}
      /\ r.nmsg = sc.nmsg /\ r.stop = sc.stop /\ r.http = sc.http
      /\ r.ssl = sc.ssl /\ r.dyn = sc.dyn
  <2> HIDE DEF j
  <2> QED BY <1>t DEF remove_from_working_socket, SocketControls
<1> HIDE DEF r
<1>6. /\ s \in SocketControls /\ s.waiting = sc.waiting /\ s.working = sc.working \ {j}
      /\ s.open = IF FinishedAndContinue THEN Append(sc.open, j) ELSE sc.open
  <2>1. LayoutUp(r)
    BY <1>2, <1>5, <1>t, QueuesKeepLayout
  <2>2. add_dyn_socket(r, j) \in SocketControls /\ add_dyn_socket(r, j).waiting = r.waiting
    BY <1>3, <1>5, <2>1, AddDyn
  <2>3. /\ add_dyn_socket(r, j).open = Append(r.open, j)
        /\ add_dyn_socket(r, j).working = r.working
    <3> HIDE DEF j
    <3> QED BY <1>5 DEF add_dyn_socket, SocketControls
  <2> HIDE DEF j
  <2> QED BY <1>5, <2>2, <2>3
<1> HIDE DEF s
<1>7. /\ sc'.open = s.open
      /\ sc.waiting = <<>> => sc'.waiting = sc.waiting /\ sc'.working = s.working
      /\ sc.waiting # <<>> => /\ sc'.waiting = Tail(sc.waiting) /\ h \in Jobs
                              /\ sc'.working = s.working \cup {h}
      /\ \A v \in Workers : ThreadInv(v)'
      /\ \A c \in Conns : HasTask(w, c)' <=> (sc.waiting # <<>> /\ c = h)
      /\ \A c \in Conns, v \in Workers : v # w => (HasTask(v, c)' <=> HasTask(v, c))
  <2>1. toMain' = [toMain EXCEPT ![w] = <<>>]
    BY <1>2, <1>4
  <2> HIDE DEF h, j
  <2> QED BY <1>2, <1>4, <1>6, <2>1, ReuseThreadTasks DEF h
<1>8. ASSUME j \in Conns
      PROVE  /\ j \in sc.working /\ fd[j] = "open"
             /\ ~Member(sc.open, j) /\ ~Member(sc.waiting, j)
  <2>1. WorkingInv(j) /\ PlaceInv(j)
    BY <1>8 DEF HolderInv
  <2>2. HasTask(idx, j)
    BY <1>2, <1>8
  <2> HIDE DEF j
  <2> QED BY <1>2, <2>1, <2>2 DEF WorkingInv, PlaceInv
<1>9. ASSUME NEW c \in Conns
      PROVE  /\ Once(sc'.open, c) /\ Once(sc'.waiting, c)
             /\ Member(sc'.open, c) <=> \/ Member(sc.open, c)
                                        \/ FinishedAndContinue /\ c = j
             /\ Member(sc.waiting, c)
                  <=> Member(sc'.waiting, c) \/ (sc.waiting # <<>> /\ c = h)
             /\ sc.waiting # <<>> /\ c = h => ~Member(sc'.waiting, c)
             /\ c \in sc'.working <=> \/ c \in sc.working /\ c # j
                                      \/ sc.waiting # <<>> /\ c = h
             /\ fd'[c] = IF ~FinishedAndContinue /\ c = j THEN "closed" ELSE fd[c]
  <2> HIDE DEF j, h
  <2>0. Once(sc.open, c) /\ Once(sc.waiting, c)
    BY DEF HolderInv, PlaceInv
  <2>1. /\ Member(Append(sc.open, j), c) <=> Member(sc.open, c) \/ j = c
        /\ Once(Append(sc.open, j), c)
    BY <1>8, <1>t, <2>0, AppendMember
  <2>2. sc.waiting # <<>> =>
          /\ Member(sc.waiting, c) <=> h = c \/ Member(Tail(sc.waiting), c)
          /\ Once(Tail(sc.waiting), c) /\ (h = c => ~Member(Tail(sc.waiting), c))
    BY <1>t, <2>0, TailMember DEF h
  <2>3. /\ Once(sc'.open, c)
        /\ Member(sc'.open, c) <=> Member(sc.open, c) \/ (FinishedAndContinue /\ c = j)
    BY <1>6, <1>7, <2>0, <2>1
  <2>4. /\ Once(sc'.waiting, c)
        /\ Member(sc.waiting, c) <=> Member(sc'.waiting, c) \/ (sc.waiting # <<>> /\ c = h)
        /\ sc.waiting # <<>> /\ c = h => ~Member(sc'.waiting, c)
    BY <1>7, <2>0, <2>2
  <2>5. c \in sc'.working <=> \/ c \in sc.working /\ c # j
                              \/ sc.waiting # <<>> /\ c = h
    BY <1>6, <1>7
  <2>6. fd'[c] = IF ~FinishedAndContinue /\ c = j THEN "closed" ELSE fd[c]
    BY <1>4, <1>8 DEF close_socket
  <2> QED BY <2>3, <2>4, <2>5, <2>6
<1> QED BY <1>2, <1>3, <1>7, <1>8, <1>9

LEMMA HolderFinished ==
  ASSUME IndInv, HolderInv, FinishedAndContinue \/ FinishedAndClose
  PROVE  HolderInv'
<1> DEFINE j == Head(toMain[idx]).sock
           h == Head(sc.waiting)
           W == sc.waiting # <<>>
           C == FinishedAndContinue
<1> HIDE DEF j, h, W, C
<1>0. PICK w \in Workers : w = idx
  BY AtMsgSocket DEF FinishedAndContinue, FinishedAndClose
<1>1. /\ j \in Jobs /\ running /\ Unstopped
      /\ \A v \in Workers : ThreadInv(v)'
      /\ j \in Conns => /\ j \in sc.working /\ fd[j] = "open"
      /\ \A c \in Conns :
           /\ HasTask(w, c) <=> c = j
           /\ HasTask(w, c)' <=> (W /\ c = h)
           /\ \A v \in Workers : v # w => (HasTask(v, c)' <=> HasTask(v, c))
           /\ Once(sc'.open, c) /\ Once(sc'.waiting, c)
           /\ Member(sc'.open, c) <=> Member(sc.open, c) \/ (C /\ c = j)
           /\ Member(sc.waiting, c) <=> Member(sc'.waiting, c) \/ (W /\ c = h)
           /\ W /\ c = h => ~Member(sc'.waiting, c)
           /\ c \in sc'.working <=> (c \in sc.working /\ c # j) \/ (W /\ c = h)
           /\ fd'[c] = IF ~C /\ c = j THEN "closed" ELSE fd[c]
  BY <1>0, FinishedMoves DEF j, h, W, C
<1>2. UNCHANGED <<main, running, accepting, backlog, peer>>
  BY DEF FinishedAndContinue, FinishedAndClose, connVars
<1>3. PhaseInv' /\ (Unstopped' => Unstopped)
  BY <1>1, <1>2 DEF HolderInv, PhaseInv, Unstopped, Serving
<1>4. ASSUME NEW c \in Conns PROVE BacklogInv(c)' /\ PlaceInv(c)' /\ WorkingInv(c)'
  <2>1. BacklogInv(c) /\ PlaceInv(c) /\ WorkingInv(c)
    BY DEF HolderInv
  <2>2. BacklogInv(c)'
    BY <1>1, <1>2, <2>1 DEF BacklogInv, Ports
  <2>3. PlaceInv(c)'
    BY <1>1, <1>2, <2>1 DEF PlaceInv
  <2>4. WorkingInv(c)'
    <3>1. ASSUME c \in sc'.working PROVE \E v \in Workers : HasTask(v, c)'
      <4>1. CASE W /\ c = h
        BY <1>1, <4>1
      <4>2. CASE c \in sc.working /\ c # j
        <5>1. PICK v \in Workers : HasTask(v, c)
          BY <1>1, <2>1, <4>2 DEF WorkingInv
        <5>2. v # w
          BY <1>1, <4>2, <5>1
        <5> QED BY <1>1, <5>1, <5>2
      <4> QED BY <1>1, <3>1, <4>1, <4>2
    <3>2. \A v \in Workers : HasTask(v, c)' => c \in sc'.working
      BY <1>1, <2>1 DEF WorkingInv
    <3>3. \A u, v \in Workers : HasTask(u, c)' /\ HasTask(v, c)' => u = v
      <4>1. W /\ c = h => \A v \in Workers : ~HasTask(v, c)
        BY <1>1, <2>1 DEF WorkingInv, PlaceInv
      <4>2. \A u, v \in Workers : HasTask(u, c) /\ HasTask(v, c) => u = v
        BY <1>1, <2>1 DEF WorkingInv
      <4> QED BY <1>1, <4>1, <4>2
    <3>4. c \in sc'.working => fd'[c] = "open"
      BY <1>1, <2>1 DEF WorkingInv, PlaceInv
    <3> QED BY <3>1, <3>2, <3>3, <3>4 DEF WorkingInv
  <2> QED BY <2>2, <2>3, <2>4
<1> QED BY <1>1, <1>3, <1>4 DEF HolderInv

-----------------------------------------------------------------------------
(* The stop message.                                                       *)

(* The loop of close_all_dynsocks closes an entry or leaves it in the      *)
(* list, and never both.                                                   *)
LEMMA CloseAllMember ==
  ASSUME NEW s \in SocketControls, LayoutDown(s), NEW c \in Conns, Once(s.open, c)
  PROVE  LET t == close_all_dynsocks(s)
             closed == {s.open[k] : k \in ClosedByCloseAll(s)}
         IN  /\ t.waiting = s.waiting /\ t.working = s.working
             /\ Once(t.open, c)
             /\ Member(s.open, c) <=> c \in closed \/ Member(t.open, c)
             /\ ~(c \in closed /\ Member(t.open, c))
<1> DEFINE n == NThreads + 1
           rest == (Len(s.open) - n) \div 2
           a == SubSeq(s.open, 1, n)
           b == [j \in 1..rest |-> s.open[n + 2 * j]]
           t == close_all_dynsocks(s)
           closed == {s.open[k] : k \in ClosedByCloseAll(s)}
<1>1. /\ s.open \in Seq(Sockets) /\ Len(s.open) \in Nat /\ NThreads \in Nat
      /\ Len(s.open) >= n /\ s.dyn \in Int /\ DOMAIN s.open = 1 .. Len(s.open)
      /\ \A i \in 1 .. Len(s.open) : s.open[i] \in Sockets
  BY LenProperties, ElementOfSeq, NThreadsAssumption DEF SocketControls, LayoutDown, Prefix
<1>2. CASE s.dyn < 0
  <2>1. t = s /\ ClosedByCloseAll(s) = {}
    BY <1>1, <1>2 DEF close_all_dynsocks, ClosedByCloseAll
  <2> QED BY <2>1
<1>3. CASE s.dyn >= 0
  <2>1. s.dyn = n
    BY <1>1, <1>3 DEF LayoutDown
  <2>2. a \in Seq(Sockets) /\ Len(a) = n /\ \A i \in 1 .. n : a[i] = s.open[i]
    BY <1>1, SubSeqProperties, Z3
  <2>3. rest \in Nat /\ 2 * rest <= Len(s.open) - n /\ Len(s.open) - n <= 2 * rest + 1
    <3>1. \A m \in Nat : m \div 2 \in Nat /\ 2 * (m \div 2) <= m /\ m <= 2 * (m \div 2) + 1
      OBVIOUS
    <3>2. Len(s.open) - n \in Nat
      BY <1>1
    <3> QED BY <3>1, <3>2
  <2>r. \A j \in 1 .. rest : n + 2 * j \in n + 1 .. Len(s.open)
    <3> HIDE DEF rest
    <3> QED BY <1>1, <2>3
  <2>4. b \in Seq(Sockets) /\ Len(b) = rest /\ \A j \in 1 .. rest : b[j] = s.open[n + 2 * j]
    <3> HIDE DEF rest
    <3>1. /\ b \in [1..rest -> Sockets] /\ DOMAIN b = 1 .. rest
          /\ \A j \in 1 .. rest : b[j] = s.open[n + 2 * j]
      BY <1>1, <2>r
    <3> HIDE DEF b
    <3>2. b \in Seq(Sockets)
      BY <2>3, <3>1, SeqDef, Zenon
    <3>3. DOMAIN b = 1 .. Len(b) /\ Len(b) \in Nat
      BY <3>2, LenProperties, Zenon
    <3>4. rest = Len(b)
      BY <2>3, <3>1, <3>3
    <3> QED BY <3>1, <3>2, <3>4, Zenon
  <2>5. t = [s EXCEPT !.open = a \o b]
    BY <1>1, <1>3, <2>1 DEF close_all_dynsocks
  <2> HIDE DEF a, b, rest
  <2>6. /\ a \o b \in Seq(Sockets)
        /\ Len(a \o b) = Len(a) + Len(b)
        /\ \A i \in 1 .. Len(a) + Len(b) :
             (a \o b)[i] = IF i <= Len(a) THEN a[i] ELSE b[i - Len(a)]
    BY <2>2, <2>4, ConcatProperties, Zenon
  <2> DEFINE o == a \o b
             at(i) == IF i <= n THEN i ELSE n + 2 * (i - n)
  <2>7. /\ t.open = o /\ t.waiting = s.waiting /\ t.working = s.working
    BY <2>5 DEF SocketControls
  <2>8. DOMAIN o = 1 .. n + rest
    BY <2>2, <2>4, <2>6, LenProperties
  <2>9. ASSUME NEW i \in 1 .. n + rest
        PROVE  o[i] = s.open[at(i)] /\ at(i) \in DOMAIN s.open
    <3>1. CASE i <= n
      <4>1. i \in 1 .. n /\ i \in 1 .. Len(a) + Len(b) /\ i <= Len(a)
        BY <1>1, <2>2, <2>3, <2>4, <3>1
      <4>2. o[i] = a[i]
        BY <2>6, <4>1
      <4> QED BY <1>1, <2>2, <3>1, <4>1, <4>2
    <3>2. CASE ~(i <= n)
      <4>1. i - n \in 1 .. rest /\ i \in 1 .. Len(a) + Len(b) /\ ~(i <= Len(a))
            /\ i - Len(a) = i - n
        BY <1>1, <2>2, <2>3, <2>4, <3>2
      <4>2. o[i] = b[i - n]
        BY <2>6, <4>1
      <4>3. b[i - n] = s.open[n + 2 * (i - n)] /\ n + 2 * (i - n) \in n + 1 .. Len(s.open)
        BY <2>4, <2>r, <4>1
      <4> QED BY <1>1, <3>2, <4>2, <4>3
    <3> QED BY <3>1, <3>2
  <2>10. \A i, j \in 1 .. n + rest : at(i) = at(j) => i = j
    BY <1>1, <2>3
  <2>11. \A k \in DOMAIN s.open :
           k \in ClosedByCloseAll(s) <=> k > n /\ (k - 1 - n) % 2 = 0
    BY <1>3, <2>1 DEF ClosedByCloseAll
  <2>12. ASSUME NEW i \in 1 .. n + rest PROVE at(i) \notin ClosedByCloseAll(s)
    <3>1. CASE i <= n
      BY <1>1, <2>9, <2>11, <3>1
    <3>2. CASE ~(i <= n)
      <4>1. at(i) - 1 - n = 2 * (i - n) - 1
        BY <1>1, <2>3, <3>2
      <4>2. \A m \in Int : (2 * m - 1) % 2 = 1
        OBVIOUS
      <4>3. (at(i) - 1 - n) % 2 # 0
        <5>1. i - n \in Int
          BY <1>1, <2>3
        <5>2. (2 * (i - n) - 1) % 2 = 1
          BY <4>2, <5>1
        <5> HIDE DEF at
        <5> QED BY <4>1, <5>2
      <4> QED BY <2>9, <2>11, <4>3
    <3> QED BY <3>1, <3>2
  <2>13. ASSUME NEW k \in DOMAIN s.open, k \notin ClosedByCloseAll(s)
         PROVE  \E i \in 1 .. n + rest : at(i) = k
    <3>1. CASE k <= n
      <4>1. k \in 1 .. n + rest /\ at(k) = k
        BY <1>1, <2>3, <3>1
      <4> QED BY <4>1
    <3>2. CASE k > n
      <4>1. (k - 1 - n) % 2 # 0
        BY <2>11, <2>13, <3>2
      <4>2. \A m \in Nat : m % 2 # 0 => \E q \in Nat : m = 2 * q + 1
        <5> SUFFICES ASSUME NEW m \in Nat, m % 2 # 0 PROVE m = 2 * (m \div 2) + 1 /\ m \div 2 \in Nat
          OBVIOUS
        <5> QED OBVIOUS
      <4>3. k - 1 - n \in Nat
        BY <1>1, <3>2
      <4>4. PICK q \in Nat : k - 1 - n = 2 * q + 1
        BY <4>1, <4>2, <4>3
      <4>5. n \in Nat /\ k \in Nat /\ k <= Len(s.open) /\ k = n + 2 * q + 2
        <5>1. n \in Nat /\ k \in 1 .. Len(s.open)
          BY <1>1
        <5> HIDE DEF n
        <5>2. k = n + 2 * q + 2
          BY <4>4, <5>1
        <5> QED BY <5>1, <5>2
      <4>6. q + 1 <= rest
        BY <1>1, <2>3, <4>5
      <4>7. n + q + 1 \in 1 .. n + rest
        BY <2>3, <4>5, <4>6, SMTT(30)
      <4>8. at(n + q + 1) = k
        <5>1. ~(n + q + 1 <= n) /\ n + 2 * ((n + q + 1) - n) = k
          BY <4>5
        <5> QED BY <5>1
      <4> QED BY <4>7, <4>8
    <3> QED BY <1>1, <3>1, <3>2
  <2> HIDE DEF at, o, t
  <2>14. Once(o, c)
    BY <2>8, <2>9, <2>10 DEF Once
  <2>15. Member(s.open, c) => c \in closed \/ Member(o, c)
    BY <2>8, <2>9, <2>13 DEF Member
  <2>16. c \in closed \/ Member(o, c) => Member(s.open, c)
    <3>1. ClosedByCloseAll(s) \subseteq DOMAIN s.open
      BY DEF ClosedByCloseAll
    <3> QED BY <2>8, <2>9, <3>1 DEF Member
  <2>17. ~(c \in closed /\ Member(o, c))
    <3>1. ClosedByCloseAll(s) \subseteq DOMAIN s.open
      BY DEF ClosedByCloseAll
    <3> SUFFICES ASSUME NEW k \in ClosedByCloseAll(s), s.open[k] = c,
                        NEW i \in DOMAIN o, o[i] = c
                 PROVE  FALSE
      BY DEF Member
    <3>2. at(i) = k
      BY <2>8, <2>9, <3>1 DEF Once
    <3> QED BY <2>8, <2>12, <3>2
  <2> QED BY <2>7, <2>14, <2>15, <2>16, <2>17 DEF t
<1> QED BY <1>1, <1>2, <1>3

(* Taking the listeners out moves no connection. *)
LEMMA ListenersOut ==
  ASSUME NEW s \in SocketControls, LayoutUp(s), NEW c \in Conns, Once(s.open, c)
  PROVE  LET t == remove(s, s.http)
             u == remove(t, t.ssl)
         IN  /\ t.waiting = s.waiting /\ t.working = s.working
             /\ Once(t.open, c)
             /\ Member(t.open, c) <=> Member(s.open, c)
             /\ UseSsl => /\ u.waiting = s.waiting /\ u.working = s.working
                          /\ Once(u.open, c)
                          /\ Member(u.open, c) <=> Member(s.open, c)
<1> DEFINE t == remove(s, s.http)
           u == remove(t, t.ssl)
           o == Erase(s.open, NThreads + 1)
           p == Erase(o, NThreads + 1)
<1>1. /\ s.open \in Seq(Sockets) /\ Len(s.open) \in Nat
      /\ NThreads \in Nat /\ Base \in Nat /\ Len(s.open) >= Base
      /\ NThreads + 1 \in Nat /\ NThreads + 1 < Len(s.open)
      /\ s.dyn \in Int /\ s.ssl \in Int /\ s.http \in Int /\ s.nmsg = NThreads
      /\ c # HttpSock /\ c # SslSock /\ s.open[NThreads + 2] = HttpSock
      /\ (NThreads + 1) + 1 = NThreads + 2
  BY LenProperties, NThreadsAssumption, SocketsDistinct
     DEF SocketControls, LayoutUp, Prefix, Base
<1>2. /\ o \in Seq(Sockets) /\ Len(o) = Len(s.open) - 1
      /\ \A i \in 1 .. Len(s.open) - 1 :
           o[i] = IF i <= NThreads + 1 THEN s.open[i] ELSE s.open[i + 1]
  BY <1>1, EraseProperties
<1>3. Once(o, c) /\ (Member(o, c) <=> Member(s.open, c))
  BY <1>1, EraseMember
<1> HIDE DEF o
<1>4. /\ t \in SocketControls /\ t.open = o /\ t.http = -1 /\ t.ssl = s.ssl - 1
      /\ t.nmsg = NThreads /\ t.waiting = s.waiting /\ t.working = s.working
  <2>1. /\ t \in SocketControls
        /\ t = [s EXCEPT !.open = o, !.http = -1, !.ssl = s.ssl - 1, !.dyn = s.dyn - 1]
    BY RemoveHttp DEF o
  <2> HIDE DEF t
  <2> QED BY <1>1, <2>1 DEF SocketControls
<1> HIDE DEF t
<1>5. ASSUME UseSsl
      PROVE  /\ u.waiting = s.waiting /\ u.working = s.working
             /\ Once(u.open, c)
             /\ Member(u.open, c) <=> Member(s.open, c)
  <2>1. t.ssl = NThreads + 1 /\ NThreads + 1 < Len(o) /\ o[NThreads + 2] = SslSock
    <3>1. /\ s.ssl = NThreads + 2 /\ Len(s.open) >= NThreads + 3
          /\ s.open[NThreads + 3] = SslSock
      BY <1>5 DEF LayoutUp, Base
    <3>2. NThreads + 2 \in 1 .. Len(s.open) - 1 /\ ~(NThreads + 2 <= NThreads + 1)
          /\ (NThreads + 2) + 1 = NThreads + 3
      BY <1>1, <3>1
    <3>3. o[NThreads + 2] = s.open[NThreads + 3]
      BY <1>2, <3>2
    <3> QED BY <1>1, <1>2, <1>4, <3>1, <3>3
  <2>2. Once(p, c) /\ (Member(p, c) <=> Member(o, c))
    BY <1>1, <1>2, <1>3, <2>1, EraseMember
  <2>3. u = [t EXCEPT !.open = p, !.ssl = -1, !.dyn = t.dyn - 1]
    <3>1. ~(t.ssl < t.nmsg) /\ t.ssl >= t.nmsg /\ t.ssl # t.http
      BY <1>1, <1>4, <2>1
    <3>2. p = Erase(t.open, t.ssl)
      BY <1>4, <2>1 DEF p
    <3> QED BY <3>1, <3>2, <1>4 DEF remove, SocketControls
  <2> HIDE DEF u, p
  <2>4. u.open = p /\ u.waiting = t.waiting /\ u.working = t.working
    BY <1>4, <2>3 DEF SocketControls
  <2> QED BY <1>3, <1>4, <2>2, <2>4
<1> QED BY <1>3, <1>4, <1>5 DEF t

(* What the stop branch does with the connections: it closes those that    *)
(* are served and those close_all_dynsocks takes out of the list; without  *)
(* a TLS listener it does nothing of the kind.                             *)
LEMMA StopMoves ==
  ASSUME IndInv, HolderInv, Stop
  PROVE  /\ LayoutUp(sc) /\ main = "scan" /\ running /\ Unstopped
         /\ sc'.waiting = sc.waiting /\ sc'.working = sc.working
         /\ \A c \in Conns : /\ Once(sc'.open, c)
                             /\ Member(sc'.open, c) => Member(sc.open, c)
         /\ UseSsl => /\ LayoutDown(sc') /\ running' = FALSE /\ main' = main
                      /\ \A c \in Conns :
                           fd'[c] = IF \/ Member(sc.open, c) /\ ~Member(sc'.open, c)
                                       \/ c \in sc.working
                                      THEN "closed" ELSE fd[c]
                      /\ toWorker' = [w \in Workers |-> Append(toWorker[w], Msg("EXIT", NoConn))]
         /\ ~UseSsl => /\ main' = "aborted" /\ running' = running /\ fd' = fd
                       /\ toWorker' = toWorker
                       /\ \A c \in Conns : Member(sc'.open, c) <=> Member(sc.open, c)
<1> DEFINE noHttp == remove(sc, sc.http)
           noSsl  == remove(noHttp, noHttp.ssl)
           last   == close_all_dynsocks(noSsl)
           closed == {noSsl.open[k] : k \in ClosedByCloseAll(noSsl)}
<1>1. main = "scan" /\ idx = sc.stop
  BY DEF Stop, Scanning
<1>t. NThreads \in Nat /\ idx \in Nat /\ sc \in SocketControls
  BY Types DEF IndInv
<1>2. LayoutUp(sc)
  BY <1>1, <1>t DEF IndInv, Layout, LayoutUp, LayoutDown, Prefix
<1>3. running /\ Unstopped
  BY <1>1, <1>2, UpIsServing DEF HolderInv
<1>4. ASSUME NEW c \in Conns PROVE PlaceInv(c) /\ WorkingInv(c) /\ Once(sc.open, c)
  BY DEF HolderInv, PlaceInv
<1>5. RemoveThrows(noHttp, noHttp.ssl) <=> ~UseSsl
  BY <1>2, <1>t, RemoveBoth
<1>w. /\ noHttp.waiting = sc.waiting /\ noHttp.working = sc.working
      /\ UseSsl => noSsl.waiting = sc.waiting /\ noSsl.working = sc.working
  <2>1. noHttp = [sc EXCEPT !.open = Erase(sc.open, NThreads + 1), !.http = -1,
                            !.ssl = sc.ssl - 1, !.dyn = sc.dyn - 1]
    BY <1>2, <1>t, RemoveHttp
  <2>2. /\ noHttp \in SocketControls /\ noHttp.ssl = sc.ssl - 1 /\ noHttp.nmsg = sc.nmsg
        /\ noHttp.http = -1
    <3>1. noHttp \in SocketControls
      BY <1>2, <1>t, RemoveHttp
    <3> HIDE DEF noHttp
    <3> QED BY <1>t, <2>1, <3>1 DEF SocketControls
  <2>3. noHttp.waiting = sc.waiting /\ noHttp.working = sc.working
    <3> HIDE DEF noHttp
    <3> QED BY <1>t, <2>1 DEF SocketControls
  <2>4. ASSUME UseSsl PROVE noSsl.waiting = noHttp.waiting /\ noSsl.working = noHttp.working
    <3>1. noHttp.ssl = NThreads + 1 /\ noHttp.nmsg = NThreads
      BY <1>2, <1>t, <2>2, <2>4 DEF LayoutUp, Prefix
    <3> HIDE DEF noHttp
    <3>2. ~(noHttp.ssl < noHttp.nmsg) /\ noHttp.ssl >= noHttp.nmsg /\ noHttp.ssl # noHttp.http
      BY <1>t, <2>2, <3>1
    <3>3. noSsl = [noHttp EXCEPT !.open = Erase(noHttp.open, noHttp.ssl), !.ssl = -1,
                                 !.dyn = noHttp.dyn - 1]
      BY <2>2, <3>2 DEF remove, SocketControls
    <3> HIDE DEF noSsl
    <3> QED BY <2>2, <3>3 DEF SocketControls
  <2> QED BY <2>3, <2>4
<1>6. CASE ~UseSsl
  <2>1. /\ main' = "aborted" /\ sc' = noHttp /\ UNCHANGED <<running, fd, toWorker>>
    BY <1>5, <1>6 DEF Stop
  <2>2. ASSUME NEW c \in Conns
        PROVE  /\ Once(noHttp.open, c)
               /\ Member(noHttp.open, c) <=> Member(sc.open, c)
    BY <1>2, <1>4, <1>t, ListenersOut
  <2> QED BY <1>1, <1>2, <1>3, <1>6, <1>w, <2>1, <2>2
<1>7. CASE UseSsl
  <2>1. /\ sc' = last /\ running' = FALSE /\ main' = main
        /\ toWorker' = [w \in Workers |-> Append(toWorker[w], Msg("EXIT", NoConn))]
        /\ fd' = close_socket(closed \cup noSsl.working)
    BY <1>5, <1>7 DEF Stop
  <2>2. noSsl \in SocketControls /\ LayoutDown(noSsl) /\ LayoutDown(last)
    BY <1>2, <1>7, <1>t, RemoveBoth, CloseAll
  <2>3. last.waiting = noSsl.waiting /\ last.working = noSsl.working
    <3> HIDE DEF noSsl
    <3> QED BY <2>2 DEF close_all_dynsocks, SocketControls
  <2>4. ASSUME NEW c \in Conns
        PROVE  /\ Once(noSsl.open, c)
               /\ Member(noSsl.open, c) <=> Member(sc.open, c)
    BY <1>2, <1>4, <1>7, <1>t, ListenersOut
  <2>5. ASSUME NEW c \in Conns
        PROVE  /\ Once(last.open, c)
               /\ Member(noSsl.open, c) <=> c \in closed \/ Member(last.open, c)
               /\ ~(c \in closed /\ Member(last.open, c))
    <3>1. Once(noSsl.open, c)
      BY <2>4
    <3> HIDE DEF noSsl
    <3> QED BY <2>2, <3>1, CloseAllMember
  <2> HIDE DEF noHttp, noSsl, last, closed
  <2>6. ASSUME NEW c \in Conns
        PROVE  /\ Once(last.open, c)
               /\ Member(last.open, c) => Member(sc.open, c)
               /\ c \in closed <=> Member(sc.open, c) /\ ~Member(last.open, c)
    BY <2>4, <2>5
  <2>7. ASSUME NEW c \in Conns
        PROVE  fd'[c] = IF \/ Member(sc.open, c) /\ ~Member(sc'.open, c)
                           \/ c \in sc.working
                          THEN "closed" ELSE fd[c]
    <3>1. Member(sc.open, c) \/ c \in sc.working => fd[c] = "open"
      BY <1>3, <1>4 DEF PlaceInv, WorkingInv
    <3>2. c \in closed \cup noSsl.working <=> \/ Member(sc.open, c) /\ ~Member(sc'.open, c)
                                              \/ c \in sc.working
      BY <1>7, <1>w, <2>1, <2>6
    <3>3. c \in closed \cup noSsl.working => fd[c] = "open"
      BY <3>1, <3>2
    <3> QED BY <2>1, <3>2, <3>3 DEF close_socket
  <2>8. ASSUME NEW c \in Conns
        PROVE  /\ Once(sc'.open, c) /\ (Member(sc'.open, c) => Member(sc.open, c))
    BY <2>1, <2>6
  <2>9. sc'.waiting = sc.waiting /\ sc'.working = sc.working /\ LayoutDown(sc')
    BY <1>7, <1>w, <2>1, <2>2, <2>3
  <2> QED BY <1>1, <1>2, <1>3, <1>7, <2>1, <2>7, <2>8, <2>9
<1>8. UseSsl \in BOOLEAN
  BY ServerAssumption
<1> QED BY <1>6, <1>7, <1>8

LEMMA HolderStop ==
  ASSUME IndInv, HolderInv, Stop
  PROVE  HolderInv'
<1>1. /\ LayoutUp(sc) /\ main = "scan" /\ running /\ Unstopped
      /\ sc'.waiting = sc.waiting /\ sc'.working = sc.working
      /\ \A c \in Conns : /\ Once(sc'.open, c)
                          /\ Member(sc'.open, c) => Member(sc.open, c)
      /\ UseSsl => /\ LayoutDown(sc') /\ running' = FALSE /\ main' = main
                   /\ \A c \in Conns :
                        fd'[c] = IF \/ Member(sc.open, c) /\ ~Member(sc'.open, c)
                                    \/ c \in sc.working
                                   THEN "closed" ELSE fd[c]
                   /\ toWorker' = [w \in Workers |-> Append(toWorker[w], Msg("EXIT", NoConn))]
      /\ ~UseSsl => /\ main' = "aborted" /\ running' = running /\ fd' = fd
                    /\ toWorker' = toWorker
                    /\ \A c \in Conns : Member(sc'.open, c) <=> Member(sc.open, c)
  BY StopMoves
<1>2. UNCHANGED <<threadQueue, accepting, toMain, workerVars, peer, backlog>>
  BY DEF Stop
<1>s. UseSsl \in BOOLEAN
  BY ServerAssumption
<1>3. accepting = NoConn
  BY <1>1 DEF HolderInv, PhaseInv
<1>4. PhaseInv' /\ ~Unstopped'
  BY <1>1, <1>2, <1>3, <1>s DEF PhaseInv, Unstopped, Serving
<1>5. ASSUME NEW w \in Workers PROVE ThreadInv(w)'
  BY <1>2, <1>4 DEF HolderInv, ThreadInv, workerVars
<1>6. ASSUME NEW c \in Conns, NEW w \in Workers PROVE HasTask(w, c)' <=> HasTask(w, c)
  <2>1. MsgFor(toWorker[w], c) <=> MsgFor(toWorker'[w], c)
    <3>1. CASE ~UseSsl
      BY <1>1, <3>1
    <3>2. CASE UseSsl
      <4> DEFINE m == Msg("EXIT", NoConn)
      <4>1. toWorker[w] \in Seq(ToWorkerMsgs) /\ m \in ToWorkerMsgs /\ m.sock # c
        BY MsgTypes, SocketsDistinct DEF IndInv, TypeOK, Msg
      <4>2. toWorker'[w] = Append(toWorker[w], m)
        BY <1>1, <3>2
      <4> HIDE DEF m
      <4> QED BY <4>1, <4>2, AppendMsg
    <3> QED BY <1>s, <3>1, <3>2
  <2> QED BY <1>2, <2>1 DEF HasTask, workerVars
<1>7. ASSUME NEW c \in Conns PROVE BacklogInv(c)' /\ PlaceInv(c)' /\ WorkingInv(c)'
  <2>1. BacklogInv(c) /\ PlaceInv(c) /\ WorkingInv(c)
    BY DEF HolderInv
  <2>2. BacklogInv(c)'
    <3>1. fd[c] = "none" => fd'[c] = "none"
      BY <1>1, <1>s, <2>1 DEF PlaceInv, WorkingInv
    <3> QED BY <1>2, <2>1, <3>1 DEF BacklogInv, Ports
  <2>3. PlaceInv(c)'
    <3>0. c # NoConn
      BY SocketsDistinct
    <3>1. CASE ~UseSsl
      BY <1>1, <1>2, <2>1, <3>1 DEF PlaceInv
    <3>2. CASE UseSsl
      BY <1>1, <1>2, <1>3, <2>1, <3>0, <3>2 DEF PlaceInv, WorkingInv
    <3> QED BY <1>s, <3>1, <3>2
  <2>4. WorkingInv(c)'
    <3>1. fd'[c] = "open" => fd[c] = "open"
      BY <1>1, <1>s
    <3> QED BY <1>1, <1>4, <1>6, <2>1, <3>1 DEF WorkingInv
  <2> QED BY <2>2, <2>3, <2>4
<1> QED BY <1>4, <1>5, <1>7 DEF HolderInv

-----------------------------------------------------------------------------
(* New connections.                                                        *)

LEMMA AddDynLists ==
  ASSUME NEW s \in SocketControls, NEW j
  PROVE  /\ add_dyn_socket(s, j).open = Append(s.open, j)
         /\ add_dyn_socket(s, j).waiting = s.waiting
         /\ add_dyn_socket(s, j).working = s.working
  BY DEF add_dyn_socket, SocketControls

(* The head of a backlog is a connection the server does not have yet. *)
LEMMA AcceptedIsNew ==
  ASSUME IndInv, HolderInv, Unstopped, NEW p \in Ports, backlog[p] # <<>>
  PROVE  LET d == Head(backlog[p])
         IN  /\ d \in Conns /\ fd[d] = "none" /\ peer[d] # "none"
             /\ ~Member(sc.open, d) /\ ~Member(sc.waiting, d) /\ d \notin sc.working
             /\ d # accepting
             /\ backlog' = [backlog EXCEPT ![p] = Tail(@)] =>
                  \A c \in Conns, q \in Ports :
                    /\ Once(backlog'[q], c)
                    /\ Member(backlog'[q], c) <=> Member(backlog[q], c) /\ c # d
<1> DEFINE d == Head(backlog[p])
<1>1. backlog \in [Ports -> Seq(Conns)] /\ backlog[p] \in Seq(Conns)
  BY DEF IndInv, TypeOK
<1>2. d \in Conns
  BY <1>1, HeadTailProperties
<1>3. Member(backlog[p], d)
  BY <1>1, TailMember
<1> HIDE DEF d
<1>4. BacklogInv(d) /\ PlaceInv(d) /\ WorkingInv(d)
  BY <1>2 DEF HolderInv
<1>5. fd[d] = "none" /\ peer[d] # "none"
  BY <1>3, <1>4 DEF BacklogInv
<1>6. ~Member(sc.open, d) /\ ~Member(sc.waiting, d) /\ d \notin sc.working /\ d # accepting
  BY <1>4, <1>5 DEF PlaceInv, WorkingInv
<1>7. ASSUME backlog' = [backlog EXCEPT ![p] = Tail(backlog[p])], NEW c \in Conns, NEW q \in Ports
      PROVE  /\ Once(backlog'[q], c)
             /\ Member(backlog'[q], c) <=> Member(backlog[q], c) /\ c # d
  <2>1. BacklogInv(c)
    BY DEF HolderInv
  <2>2. CASE q = p
    <3>1. Once(backlog[p], c) /\ backlog'[p] = Tail(backlog[p])
      BY <1>1, <1>7, <2>1 DEF BacklogInv
    <3>2. /\ Member(backlog[p], c) <=> d = c \/ Member(Tail(backlog[p]), c)
          /\ Once(Tail(backlog[p]), c) /\ (d = c => ~Member(Tail(backlog[p]), c))
      BY <1>1, <3>1, TailMember DEF d
    <3> QED BY <2>2, <3>1, <3>2
  <2>3. CASE q # p
    <3>1. backlog'[q] = backlog[q]
      BY <1>1, <1>7, <2>3
    <3>2. ~Member(backlog[q], d)
      <4>1. \/ p = "http" /\ q = "ssl"
            \/ p = "ssl" /\ q = "http"
        BY <2>3 DEF Ports
      <4> QED BY <1>3, <1>4, <4>1 DEF BacklogInv
    <3> QED BY <2>1, <3>1, <3>2 DEF BacklogInv
  <2> QED BY <2>2, <2>3
<1> QED BY <1>2, <1>5, <1>6, <1>7 DEF d

(* accept_connection *)
LEMMA HolderAccept ==
  ASSUME IndInv, HolderInv, AcceptFails \/ AcceptHttp \/ AcceptSsl
  PROVE  HolderInv'
<1>1. /\ Scanning("IN") /\ ~IsMsgSocket /\ idx # sc.stop /\ idx \in {sc.http, sc.ssl}
      /\ UNCHANGED <<threadQueue, running, pipeVars, workerVars, peer>>
      /\ \/ (AcceptFails \/ AcceptHttp) /\ main' = main /\ accepting' = accepting
         \/ AcceptSsl /\ main' = "handshake" /\ idx # sc.http
  BY DEF AcceptFails, AcceptHttp, AcceptSsl, connVars
<1>2. /\ LayoutUp(sc) /\ main = "scan"
      /\ idx = sc.http => backlog["http"] # <<>>
      /\ idx # sc.http => backlog["ssl"] # <<>>
  BY <1>1, AtListener
<1>3. running /\ Unstopped /\ accepting = NoConn
  BY <1>2, UpIsServing DEF HolderInv, PhaseInv
<1>4. PhaseInv' /\ Unstopped'
  BY <1>1, <1>2, <1>3 DEF PhaseInv, Unstopped, Serving
<1>5. \A w \in Workers : ThreadInv(w)'
  BY <1>1, <1>3, ThreadFrame DEF HolderInv
<1>t. sc \in SocketControls /\ sc.open \in Seq(Sockets)
  BY Types DEF IndInv
<1>6. ASSUME NEW c \in Conns, NEW w \in Workers PROVE HasTask(w, c)' <=> HasTask(w, c)
  BY <1>1, TaskFrame DEF pipeVars, workerVars
<1>7. ASSUME NEW c \in Conns PROVE BacklogInv(c)' /\ PlaceInv(c)' /\ WorkingInv(c)'
  <2>1. BacklogInv(c) /\ PlaceInv(c) /\ WorkingInv(c) /\ c # NoConn /\ c # BadSock
    BY SocketsDistinct DEF HolderInv
  <2>2. Once(sc.open, c) /\ Once(sc.waiting, c)
    BY <2>1 DEF PlaceInv
  <2>3. CASE AcceptFails
    <3>1. sc' = add_dyn_socket(sc, BadSock) /\ UNCHANGED <<fd, backlog>>
      BY <2>3 DEF AcceptFails, connVars
    <3>2. /\ sc'.open = Append(sc.open, BadSock)
          /\ sc'.waiting = sc.waiting /\ sc'.working = sc.working
      BY <1>t, <3>1, AddDynLists
    <3>3. BadSock \in Sockets
      BY DEF Sockets, Jobs
    <3>4. Once(sc'.open, c) /\ (Member(sc'.open, c) <=> Member(sc.open, c))
      BY <1>t, <2>1, <2>2, <3>2, <3>3, AppendMember
    <3>5. BacklogInv(c)'
      BY <1>1, <2>1, <3>1, BacklogFrame
    <3>6. accepting' = accepting
      BY <2>3 DEF AcceptFails
    <3>7. PlaceInv(c)'
      BY <2>1, <3>1, <3>2, <3>4, <3>6 DEF PlaceInv
    <3>8. WorkingInv(c)'
      BY <1>3, <1>6, <2>1, <3>1, <3>2, WorkingFrame
    <3> QED BY <3>5, <3>7, <3>8
  <2>4. ASSUME NEW p \in Ports, backlog[p] # <<>>, NEW d, d = Head(backlog[p]),
               backlog' = [backlog EXCEPT ![p] = Tail(@)],
               fd' = [fd EXCEPT ![d] = "open"],
               sc'.waiting = sc.waiting, sc'.working = sc.working,
               \/ sc'.open = Append(sc.open, d) /\ accepting' = accepting
               \/ sc'.open = sc.open /\ accepting' = d
        PROVE  BacklogInv(c)' /\ PlaceInv(c)' /\ WorkingInv(c)'
    <3>1. /\ d \in Conns /\ fd[d] = "none" /\ peer[d] # "none"
          /\ ~Member(sc.open, d) /\ ~Member(sc.waiting, d) /\ d \notin sc.working
          /\ \A q \in Ports :
               /\ Once(backlog'[q], c)
               /\ Member(backlog'[q], c) <=> Member(backlog[q], c) /\ c # d
      BY <1>3, <2>4, AcceptedIsNew
    <3>2. fd'[c] = IF c = d THEN "open" ELSE fd[c]
      BY <2>4, <3>1 DEF IndInv, TypeOK
    <3>3. BacklogInv(c)'
      BY <1>1, <2>1, <3>1, <3>2 DEF BacklogInv, Ports
    <3>4. /\ Once(sc'.open, c)
          /\ Member(sc'.open, c) <=> Member(sc.open, c) \/ (c = d /\ accepting' = accepting)
      <4>1. d \in Sockets
        BY <3>1 DEF Sockets, Jobs
      <4>2. /\ Member(Append(sc.open, d), c) <=> Member(sc.open, c) \/ d = c
            /\ Once(Append(sc.open, d), c)
        BY <1>t, <2>2, <3>1, <4>1, AppendMember
      <4>3. d # NoConn
        BY <3>1, SocketsDistinct
      <4> QED BY <1>3, <2>2, <2>4, <4>2, <4>3
    <3>5. PlaceInv(c)'
      BY <1>3, <2>1, <2>4, <3>1, <3>2, <3>4 DEF PlaceInv
    <3>6. WorkingInv(c)'
      BY <1>3, <1>6, <2>1, <2>4, <3>1, <3>2 DEF WorkingInv
    <3> QED BY <3>3, <3>5, <3>6
  <2>5. CASE AcceptHttp
    <3>1. /\ sc' = add_dyn_socket(sc, Head(backlog["http"])) /\ accepting' = accepting
          /\ fd' = [fd EXCEPT ![Head(backlog["http"])] = "open"]
          /\ backlog' = [backlog EXCEPT !["http"] = Tail(@)] /\ idx = sc.http
      BY <2>5 DEF AcceptHttp
    <3>2. /\ sc'.open = Append(sc.open, Head(backlog["http"]))
          /\ sc'.waiting = sc.waiting /\ sc'.working = sc.working
      BY <1>t, <3>1, AddDynLists
    <3>3. "http" \in Ports
      BY DEF Ports
    <3> QED BY <1>2, <2>4, <3>1, <3>2, <3>3
  <2>6. CASE AcceptSsl
    <3>1. /\ sc' = sc /\ accepting' = Head(backlog["ssl"])
          /\ fd' = [fd EXCEPT ![Head(backlog["ssl"])] = "open"]
          /\ backlog' = [backlog EXCEPT !["ssl"] = Tail(@)]
      BY <2>6 DEF AcceptSsl
    <3>2. "ssl" \in Ports /\ idx # sc.http
      BY <2>6 DEF Ports, AcceptSsl
    <3> QED BY <1>2, <2>4, <3>1, <3>2
  <2> QED BY <2>3, <2>5, <2>6
<1> QED BY <1>4, <1>5, <1>7 DEF HolderInv

(* The end of the TLS handshake: the connection is polled from now on. *)
LEMMA HolderHandshake ==
  ASSUME IndInv, HolderInv, HandshakeEnds
  PROVE  HolderInv'
<1>1. /\ main = "handshake" /\ main' = "scan" /\ accepting' = NoConn
      /\ sc' = add_dyn_socket(sc, accepting)
      /\ UNCHANGED <<threadQueue, running, pipeVars, workerVars, fd, peer, backlog>>
  BY DEF HandshakeEnds, connVars
<1>2. running /\ accepting \in Conns /\ Unstopped
  BY <1>1 DEF HolderInv, PhaseInv, IndInv, Layout, Unstopped, Serving
<1>3. PhaseInv' /\ Unstopped'
  BY <1>1, <1>2 DEF PhaseInv, Unstopped, Serving
<1>4. \A w \in Workers : ThreadInv(w)'
  BY <1>1, <1>2, ThreadFrame DEF HolderInv
<1>t. sc \in SocketControls /\ sc.open \in Seq(Sockets) /\ accepting \in Sockets
  BY <1>2, Types DEF IndInv, Sockets, Jobs
<1>5. /\ sc'.open = Append(sc.open, accepting)
      /\ sc'.waiting = sc.waiting /\ sc'.working = sc.working
  BY <1>1, <1>t, AddDynLists
<1>6. ASSUME NEW c \in Conns, NEW w \in Workers PROVE HasTask(w, c)' <=> HasTask(w, c)
  BY <1>1, TaskFrame DEF pipeVars, workerVars
<1>7. ASSUME NEW c \in Conns PROVE BacklogInv(c)' /\ PlaceInv(c)' /\ WorkingInv(c)'
  <2>1. BacklogInv(c) /\ PlaceInv(c) /\ WorkingInv(c) /\ c # NoConn
    BY SocketsDistinct DEF HolderInv
  <2>2. /\ Once(sc'.open, c)
        /\ Member(sc'.open, c) <=> Member(sc.open, c) \/ c = accepting
    <3>1. Once(sc.open, c) /\ (c = accepting => ~Member(sc.open, c))
      BY <2>1 DEF PlaceInv
    <3> QED BY <1>5, <1>t, <3>1, AppendMember
  <2>3. BacklogInv(c)'
    BY <1>1, <2>1, BacklogFrame
  <2>4. PlaceInv(c)'
    BY <1>1, <1>5, <2>1, <2>2 DEF PlaceInv
  <2>5. WorkingInv(c)'
    BY <1>1, <1>2, <1>5, <1>6, <2>1, WorkingFrame
  <2> QED BY <2>3, <2>4, <2>5
<1> QED BY <1>3, <1>4, <1>7 DEF HolderInv

-----------------------------------------------------------------------------
(* Events on a client socket.                                              *)

(* The entry the index stands on, and the list without it. *)
LEMMA EntryOut ==
  ASSUME IndInv, HolderInv, Dispatch \/ Enqueue \/ CloseHangup
  PROVE  LET j == At(sc.open, idx)
             e == [sc EXCEPT !.open = Erase(sc.open, idx)]
         IN  /\ j \in Jobs /\ main = "scan"
             /\ remove(sc, idx) = e
             /\ e.open = Erase(sc.open, idx)
             /\ e.waiting = sc.waiting /\ e.working = sc.working
             /\ j \in Conns => /\ fd[j] = "open" /\ j # accepting
                               /\ j \notin sc.working /\ ~Member(sc.waiting, j)
                               /\ Member(sc.open, j)
             /\ \A c \in Conns :
                  /\ Once(e.open, c)
                  /\ Member(e.open, c) <=> Member(sc.open, c) /\ c # j
<1> DEFINE j == At(sc.open, idx)
           e == [sc EXCEPT !.open = Erase(sc.open, idx)]
<1>t. /\ NThreads \in Nat /\ idx \in Nat /\ sc \in SocketControls /\ sc.open \in Seq(Sockets)
      /\ Len(sc.open) \in Nat
  BY Types DEF IndInv
<1>1. main = "scan" /\ idx < Len(sc.open)
  BY DEF Dispatch, Enqueue, CloseHangup, Scanning
<1>2. /\ \/ LayoutUp(sc) /\ idx >= Base
         \/ LayoutDown(sc) /\ idx > NThreads
      /\ j \in Jobs
  BY <1>1, AtDynSocket DEF Dispatch, Enqueue, CloseHangup
<1>3. remove(sc, idx) = e
  BY <1>1, <1>2, <1>t, RemoveDyn
<1>4. e.open = Erase(sc.open, idx) /\ e.waiting = sc.waiting /\ e.working = sc.working
  BY <1>t DEF SocketControls
<1>5. Member(sc.open, j)
  <2>1. idx + 1 \in DOMAIN sc.open
    BY <1>1, <1>t, LenProperties
  <2> QED BY <2>1 DEF Member, At
<1>j. sc.open[idx + 1] = j
  BY DEF At
<1> HIDE DEF e, j
<1>6. ASSUME j \in Conns
      PROVE  fd[j] = "open" /\ j # accepting /\ j \notin sc.working /\ ~Member(sc.waiting, j)
  <2>1. PlaceInv(j)
    BY <1>6 DEF HolderInv
  <2> QED BY <1>5, <2>1 DEF PlaceInv
<1>7. ASSUME NEW c \in Conns
      PROVE  /\ Once(e.open, c)
             /\ Member(e.open, c) <=> Member(sc.open, c) /\ c # j
  <2>1. Once(sc.open, c)
    BY DEF HolderInv, PlaceInv
  <2> QED BY <1>1, <1>4, <1>j, <1>t, <2>1, EraseMember
<1> QED BY <1>1, <1>2, <1>3, <1>4, <1>5, <1>6, <1>7 DEF e, j

(* The head of thread_queue is free, and it is the only one to get the     *)
(* message.                                                                *)
LEMMA DispatchTasks ==
  ASSUME IndInv, HolderInv, NEW w \in Workers, w = Head(threadQueue),
         threadQueue # <<>>, threadQueue' = Tail(threadQueue),
         NEW j \in Jobs,
         toWorker' = [toWorker EXCEPT ![w] = Append(@, Msg("PROCESS_REQUEST", j))],
         UNCHANGED <<main, running, toMain, workerVars>>
  PROVE  /\ \A v \in Workers : ThreadInv(v)'
         /\ \A c \in Conns, v \in Workers :
              HasTask(v, c)' <=> HasTask(v, c) \/ (v = w /\ c = j)
<1> DEFINE m == Msg("PROCESS_REQUEST", j)
<1>t. /\ threadQueue \in Seq(Workers) /\ toWorker[w] \in Seq(ToWorkerMsgs)
      /\ Len(toWorker[w]) \in Nat /\ Len(toMain[w]) \in Nat
      /\ toWorker \in [Workers -> Seq(ToWorkerMsgs)]
  BY LenProperties DEF IndInv, TypeOK
<1>1. m \in ToWorkerMsgs /\ m.sock = j /\ m.type = "PROCESS_REQUEST"
  BY MsgTypes DEF Msg
<1>2. /\ toWorker'[w] = Append(toWorker[w], m)
      /\ \A v \in Workers : v # w => toWorker'[v] = toWorker[v]
  BY <1>t
<1>u. wpc' = wpc /\ job' = job /\ toMain' = toMain /\ (Unstopped' <=> Unstopped)
  BY DEF workerVars, Unstopped, Serving
<1> HIDE DEF m
<1>3. \A c \in Conns, v \in Workers : HasTask(v, c)' <=> HasTask(v, c) \/ (v = w /\ c = j)
  <2> SUFFICES ASSUME NEW c \in Conns, NEW v \in Workers
               PROVE  HasTask(v, c)' <=> HasTask(v, c) \/ (v = w /\ c = j)
    OBVIOUS
  <2>1. MsgFor(Append(toWorker[w], m), c) <=> MsgFor(toWorker[w], c) \/ c = j
    BY <1>1, <1>t, AppendMsg
  <2>2. MsgFor(toWorker'[v], c) <=> MsgFor(toWorker[v], c) \/ (v = w /\ c = j)
    BY <1>2, <2>1
  <2> QED BY <1>u, <2>2 DEF HasTask
<1>4. ASSUME NEW v \in Workers PROVE ThreadInv(v)'
  <2>0. ThreadInv(v)
    BY DEF HolderInv
  <2>1. wpc'[v] = "poll" => job'[v] = NoConn
    BY <1>u, <2>0 DEF ThreadInv
  <2>2. ASSUME Unstopped
        PROVE  /\ \A k \in DOMAIN toWorker'[v] : toWorker'[v][k].type = "PROCESS_REQUEST"
               /\ Once(threadQueue', v)
               /\ Tasks(v)' = IF Member(threadQueue', v) THEN 0 ELSE 1
    <3>1. /\ \A k \in DOMAIN toWorker[v] : toWorker[v][k].type = "PROCESS_REQUEST"
          /\ Once(threadQueue, v)
          /\ Tasks(v) = IF Member(threadQueue, v) THEN 0 ELSE 1
      BY <2>0, <2>2 DEF ThreadInv
    <3>2. /\ Member(threadQueue, v) <=> v = w \/ Member(Tail(threadQueue), v)
          /\ Once(Tail(threadQueue), v) /\ (v = w => ~Member(Tail(threadQueue), v))
      BY <1>t, <3>1, TailMember
    <3>3. CASE v # w
      <4>1. Tasks(v)' = Tasks(v)
        BY <1>2, <1>u, <3>3 DEF Tasks
      <4> QED BY <1>2, <3>1, <3>2, <3>3, <4>1
    <3>4. CASE v = w
      <4>1. /\ Len(Append(toWorker[w], m)) = Len(toWorker[w]) + 1
            /\ Append(toWorker[w], m) \in Seq(ToWorkerMsgs)
            /\ \A k \in 1 .. Len(toWorker[w]) : Append(toWorker[w], m)[k] = toWorker[w][k]
            /\ Append(toWorker[w], m)[Len(toWorker[w]) + 1] = m
        BY <1>1, <1>t, AppendProperties
      <4>2. /\ DOMAIN Append(toWorker[w], m) = 1 .. Len(toWorker[w]) + 1
            /\ DOMAIN toWorker[w] = 1 .. Len(toWorker[w])
        BY <1>t, <4>1, LenProperties
      <4>3. \A k \in DOMAIN toWorker'[w] : toWorker'[w][k].type = "PROCESS_REQUEST"
        <5>1. ASSUME NEW k \in 1 .. Len(toWorker[w]) + 1
              PROVE  Append(toWorker[w], m)[k].type = "PROCESS_REQUEST"
          <6>1. CASE k = Len(toWorker[w]) + 1
            BY <1>1, <4>1, <6>1
          <6>2. CASE k # Len(toWorker[w]) + 1
            <7>1. k \in 1 .. Len(toWorker[w])
              BY <1>t, <6>2
            <7> QED BY <3>1, <3>4, <4>1, <4>2, <7>1
          <6> QED BY <6>1, <6>2
        <5> QED BY <1>2, <4>2, <5>1
      <4>4. Tasks(w)' = 1
        <5> DEFINE a == Len(toWorker[w])
                   b == Len(toMain[w])
                   x == IF job[w] = NoConn THEN 0 ELSE 1
        <5>1. a \in Nat /\ b \in Nat /\ x \in Nat
          BY <1>t
        <5>2. a + x + b = 0
          BY <3>1, <3>2, <3>4 DEF Tasks
        <5>3. Tasks(w)' = (a + 1) + x + b
          BY <1>2, <1>u, <4>1 DEF Tasks
        <5> HIDE DEF a, b, x
        <5>4. (a + 1) + x + b = 1
          BY <5>1, <5>2
        <5> QED BY <5>3, <5>4, Zenon
      <4> QED BY <3>2, <3>4, <4>3, <4>4
    <3> QED BY <3>3, <3>4
  <2> QED BY <1>u, <2>1, <2>2 DEF ThreadInv
<1> QED BY <1>3, <1>4

LEMMA HolderClientSocket ==
  ASSUME IndInv, HolderInv, Dispatch \/ Enqueue \/ CloseHangup
  PROVE  HolderInv'
<1> DEFINE j == At(sc.open, idx)
           e == [sc EXCEPT !.open = Erase(sc.open, idx)]
<1>1. /\ j \in Jobs /\ main = "scan"
      /\ remove(sc, idx) = e
      /\ e.open = Erase(sc.open, idx)
      /\ e.waiting = sc.waiting /\ e.working = sc.working
      /\ j \in Conns => /\ fd[j] = "open" /\ j # accepting
                        /\ j \notin sc.working /\ ~Member(sc.waiting, j)
                        /\ Member(sc.open, j)
      /\ \A c \in Conns :
           /\ Once(e.open, c)
           /\ Member(e.open, c) <=> Member(sc.open, c) /\ c # j
  BY EntryOut
<1>2. UNCHANGED <<main, running, accepting, toMain, workerVars, peer, backlog>>
  BY DEF Dispatch, Enqueue, CloseHangup, pipeVars, connVars
<1>t. sc \in SocketControls /\ sc.waiting \in Seq(Jobs) /\ threadQueue \in Seq(Workers)
  BY Types DEF IndInv
<1>3. /\ Dispatch => sc' = add_to_working_socket(e, j)
      /\ Enqueue => sc' = move_to_waiting(sc, idx)
      /\ CloseHangup => sc' = remove_from_working_socket(e, j) /\ fd' = close_socket({j})
      /\ Dispatch \/ Enqueue => fd' = fd
      /\ Enqueue \/ CloseHangup => UNCHANGED <<threadQueue, pipeVars>>
  BY <1>1 DEF Dispatch, Enqueue, CloseHangup, connVars
<1>4. /\ sc'.open = e.open
      /\ Dispatch => sc'.waiting = sc.waiting /\ sc'.working = sc.working \cup {j}
      /\ Enqueue => sc'.waiting = Append(sc.waiting, j) /\ sc'.working = sc.working
      /\ CloseHangup => sc'.waiting = sc.waiting /\ sc'.working = sc.working \ {j}
  BY <1>1, <1>3, <1>t
     DEF add_to_working_socket, move_to_waiting, remove_from_working_socket, SocketControls
<1> HIDE DEF e, j
<1>5. PhaseInv' /\ (Unstopped' <=> Unstopped)
  <2>1. LayoutDown(sc) => LayoutDown(sc')
    <3>1. IndInv'
      BY ClientSocketStep
    <3>2. main' = "scan" /\ sc'.http = sc.http
      <4>1. sc'.http = sc.http
        BY <1>3, <1>t DEF add_to_working_socket, move_to_waiting, remove_from_working_socket,
                          SocketControls, e
      <4> QED BY <1>1, <1>2, <4>1
    <3>3. LayoutUp(sc') \/ LayoutDown(sc')
      BY <3>1, <3>2 DEF IndInv, Layout
    <3>4. NThreads \in Nat
      BY NThreadsAssumption
    <3> QED BY <3>2, <3>3, <3>4 DEF LayoutUp, LayoutDown
  <2> QED BY <1>1, <1>2, <2>1 DEF HolderInv, PhaseInv, Unstopped, Serving
<1>6. /\ \A v \in Workers : ThreadInv(v)'
      /\ \A c \in Conns, v \in Workers : HasTask(v, c) => HasTask(v, c)'
      /\ \A c \in Conns, v \in Workers :
           HasTask(v, c)' => HasTask(v, c) \/ (Dispatch /\ c = j /\ v = Head(threadQueue))
      /\ Dispatch => \E v \in Workers : v = Head(threadQueue) /\ \A c \in Conns :
                                           c = j => HasTask(v, c)'
  <2>1. CASE Dispatch
    <3>1. /\ threadQueue # <<>> /\ threadQueue' = Tail(threadQueue)
          /\ toWorker' = [toWorker EXCEPT ![Head(threadQueue)] =
                            Append(@, Msg("PROCESS_REQUEST", j))]
      BY <2>1 DEF Dispatch, j
    <3>2. PICK w \in Workers : w = Head(threadQueue)
      BY <1>t, <3>1, HeadTailProperties
    <3>3. /\ \A v \in Workers : ThreadInv(v)'
          /\ \A c \in Conns, v \in Workers :
               HasTask(v, c)' <=> HasTask(v, c) \/ (v = w /\ c = j)
      BY <1>1, <1>2, <3>1, <3>2, DispatchTasks
    <3> QED BY <2>1, <3>2, <3>3
  <2>2. CASE ~Dispatch
    <3>1. UNCHANGED <<threadQueue, pipeVars, workerVars>>
      BY <1>2, <1>3, <2>2
    <3>2. \A v \in Workers : ThreadInv(v)'
      BY <1>5, <3>1, ThreadFrame DEF HolderInv
    <3>3. \A c \in Conns, v \in Workers : HasTask(v, c)' <=> HasTask(v, c)
      BY <3>1, TaskFrame DEF pipeVars, workerVars
    <3> QED BY <2>2, <3>2, <3>3
  <2> QED BY <2>1, <2>2
<1>7. ASSUME NEW c \in Conns PROVE BacklogInv(c)' /\ PlaceInv(c)' /\ WorkingInv(c)'
  <2>1. BacklogInv(c) /\ PlaceInv(c) /\ WorkingInv(c)
    BY DEF HolderInv
  <2>c. Once(sc.waiting, c) /\ Once(sc.open, c)
    BY <2>1 DEF PlaceInv
  <2>2. CASE Dispatch
    <3>1. fd' = fd /\ sc'.waiting = sc.waiting /\ sc'.working = sc.working \cup {j}
      BY <1>3, <1>4, <2>2
    <3>2. BacklogInv(c)'
      BY <1>2, <2>1, <3>1, BacklogFrame
    <3>3. PlaceInv(c)'
      BY <1>1, <1>2, <1>4, <2>1, <2>c, <3>1 DEF PlaceInv
    <3>d. /\ c \in sc.working /\ fd[c] = "open" => \E v \in Workers : HasTask(v, c)
          /\ c = j => c \notin sc.working /\ fd[c] = "open"
          /\ c = j => \E v \in Workers : HasTask(v, c)'
      BY <1>1, <1>6, <2>1, <2>2 DEF WorkingInv
    <3>4. ASSUME c \in sc'.working, fd[c] = "open" PROVE \E v \in Workers : HasTask(v, c)'
      BY <1>6, <3>1, <3>4, <3>d
    <3>5. ASSUME Unstopped
          PROVE  /\ c \in sc'.working => fd[c] = "open"
                 /\ \A w \in Workers : HasTask(w, c)' => c \in sc'.working
                 /\ \A v, w \in Workers : HasTask(v, c)' /\ HasTask(w, c)' => v = w
      <4>1. /\ c \in sc.working => fd[c] = "open"
            /\ \A w \in Workers : HasTask(w, c) => c \in sc.working
            /\ \A v, w \in Workers : HasTask(v, c) /\ HasTask(w, c) => v = w
        BY <2>1, <3>5 DEF WorkingInv
      <4> QED BY <1>6, <3>1, <3>d, <4>1
    <3>6. WorkingInv(c)'
      BY <1>5, <3>1, <3>4, <3>5 DEF WorkingInv
    <3> QED BY <3>2, <3>3, <3>6
  <2>3. CASE Enqueue
    <3>1. fd' = fd /\ sc'.waiting = Append(sc.waiting, j) /\ sc'.working = sc.working
      BY <1>3, <1>4, <2>3
    <3>2. BacklogInv(c)'
      BY <1>2, <2>1, <3>1, BacklogFrame
    <3>3. /\ Once(sc'.waiting, c)
          /\ Member(sc'.waiting, c) <=> Member(sc.waiting, c) \/ c = j
      BY <1>1, <1>t, <2>c, <3>1, AppendMember
    <3>4. PlaceInv(c)'
      BY <1>1, <1>2, <1>4, <2>1, <3>1, <3>3 DEF PlaceInv
    <3>5. \A v \in Workers : HasTask(v, c)' <=> HasTask(v, c)
      <4>1. ~Dispatch
        BY <2>3 DEF Enqueue, Dispatch
      <4> QED BY <1>6, <4>1
    <3>6. WorkingInv(c)'
      BY <1>5, <2>1, <3>1, <3>5, WorkingFrame
    <3> QED BY <3>2, <3>4, <3>6
  <2>4. CASE CloseHangup
    <3>1. /\ fd' = close_socket({j}) /\ sc'.waiting = sc.waiting
          /\ sc'.working = sc.working \ {j}
      BY <1>3, <1>4, <2>4
    <3>2. fd'[c] = IF c = j THEN "closed" ELSE fd[c]
      BY <1>1, <3>1 DEF close_socket
    <3>3. BacklogInv(c)'
      BY <1>1, <1>2, <2>1, <3>2 DEF BacklogInv, Ports
    <3>4. PlaceInv(c)'
      BY <1>1, <1>2, <1>4, <2>1, <2>c, <3>1, <3>2 DEF PlaceInv
    <3>5. \A v \in Workers : HasTask(v, c)' <=> HasTask(v, c)
      <4>1. UNCHANGED <<toWorker, toMain, job>>
        BY <1>2, <2>4 DEF CloseHangup, pipeVars, workerVars
      <4> QED BY <4>1, TaskFrame
    <3>6. WorkingInv(c)'
      BY <1>1, <1>5, <2>1, <3>1, <3>2, <3>5 DEF WorkingInv
    <3> QED BY <3>3, <3>4, <3>6
  <2> QED BY <2>2, <2>3, <2>4
<1> QED BY <1>5, <1>6, <1>7 DEF HolderInv

-----------------------------------------------------------------------------
(* The theorems.                                                           *)

(* Every step of the server, of its threads and of its clients keeps       *)
(* HolderInv.                                                              *)
THEOREM HolderInductive == IndInv /\ HolderInv /\ [Next]_vars => HolderInv'
<1> SUFFICES ASSUME IndInv, HolderInv, [Next]_vars PROVE HolderInv'
  OBVIOUS
<1>1. CASE Next
  <2>1. CASE Main
    BY <2>1, HolderPlain, HolderOpenSockets, HolderFinished, HolderStop, HolderAccept,
       HolderClientSocket DEF Main, ScanStep
  <2>2. CASE Environment
    BY <2>2, HolderConnect, HolderPlain DEF Environment
  <2> QED BY <1>1, <2>1, <2>2, HolderHandshake, HolderWorker, HolderPlain DEF Next
<1>2. CASE UNCHANGED vars
  <2>1. UNCHANGED <<mainVars, pipeVars, workerVars, connVars>>
    BY <1>2 DEF vars
  <2>2. PhaseInv' /\ (Unstopped' => Unstopped)
    BY <2>1 DEF HolderInv, mainVars, PhaseInv, Unstopped, Serving, LayoutDown, Prefix
  <2>3. \A w \in Workers : ThreadInv(w)'
    BY <2>1, <2>2, ThreadFrame DEF HolderInv, mainVars
  <2>4. ASSUME NEW c \in Conns PROVE BacklogInv(c)' /\ PlaceInv(c)' /\ WorkingInv(c)'
    <3>1. BacklogInv(c) /\ PlaceInv(c) /\ WorkingInv(c)
      BY DEF HolderInv
    <3>2. \A w \in Workers : HasTask(w, c)' <=> HasTask(w, c)
      BY <2>1, TaskFrame DEF pipeVars, workerVars
    <3> QED BY <2>1, <2>2, <3>1, <3>2, BacklogFrame, PlaceFrame, WorkingFrame
            DEF mainVars, connVars
  <2> QED BY <2>2, <2>3, <2>4 DEF HolderInv
<1> QED BY <1>1, <1>2

(* Where every connection is kept and what every thread does, throughout.  *)
THEOREM HolderInvariance == Spec => [](IndInv /\ HolderInv)
<1>1. Init => IndInv /\ HolderInv
  BY InitIndInv, InitHolder
<1>2. IndInv /\ HolderInv /\ [Next]_vars => (IndInv /\ HolderInv)'
  BY Inductive, HolderInductive
<1> QED BY <1>1, <1>2, PTL DEF Spec

(* A list that has an entry once has it at one index. *)
LEMMA PositionsOf ==
  ASSUME NEW S, NEW s \in Seq(S), NEW c, Once(s, c)
  PROVE  Cardinality({k \in DOMAIN s : s[k] = c}) = IF Member(s, c) THEN 1 ELSE 0
<1> DEFINE P == {k \in DOMAIN s : s[k] = c}
<1>1. CASE Member(s, c)
  <2>1. PICK k \in DOMAIN s : s[k] = c
    BY <1>1 DEF Member
  <2>2. P = {k}
    BY <2>1 DEF Once
  <2> QED BY <1>1, <2>2, FS_Singleton
<1>2. CASE ~Member(s, c)
  <2>1. P = {}
    BY <1>2 DEF Member
  <2> QED BY <1>2, <2>1, FS_EmptySet
<1> QED BY <1>1, <1>2

(* Every thread is idle or has exactly one task: none is forgotten, none   *)
(* gets a second one (thread_queue, the FINISHED branches of Server::run). *)
THEOREM ThreadsCorrect == Spec => []ThreadsAccountedFor
<1>1. ASSUME IndInv, HolderInv PROVE ThreadsAccountedFor
  <2> SUFFICES ASSUME Serving, NEW w \in Workers
               PROVE  Cardinality({k \in DOMAIN threadQueue : threadQueue[k] = w})
                        + Len(toWorker[w]) + (IF job[w] = NoConn THEN 0 ELSE 1)
                        + Len(toMain[w]) = 1
    BY DEF ThreadsAccountedFor
  <2>1. Once(threadQueue, w) /\ Tasks(w) = IF Member(threadQueue, w) THEN 0 ELSE 1
    BY <1>1 DEF HolderInv, ThreadInv, Unstopped
  <2>t. threadQueue \in Seq(Workers) /\ Len(toWorker[w]) \in Nat /\ Len(toMain[w]) \in Nat
    BY <1>1, LenProperties DEF IndInv, TypeOK
  <2>2. Cardinality({k \in DOMAIN threadQueue : threadQueue[k] = w})
          = IF Member(threadQueue, w) THEN 1 ELSE 0
    BY <2>1, <2>t, PositionsOf
  <2> DEFINE n == Cardinality({k \in DOMAIN threadQueue : threadQueue[k] = w})
             a == Len(toWorker[w])
             b == Len(toMain[w])
             x == IF job[w] = NoConn THEN 0 ELSE 1
  <2>3. /\ n = IF Member(threadQueue, w) THEN 1 ELSE 0
        /\ a + x + b = IF Member(threadQueue, w) THEN 0 ELSE 1
        /\ a \in Nat /\ b \in Nat /\ x \in Nat
    BY <2>1, <2>2, <2>t DEF Tasks
  <2> HIDE DEF n, a, b, x
  <2>4. n + a + x + b = 1
    BY <2>3
  <2> QED BY <2>4 DEF n, a, b, x
<1> QED BY <1>1, HolderInvariance, PTL

(* A thread with one task holds one connection in one place. *)
LEMMA AtWorkerOne ==
  ASSUME TypeOK, NEW w \in Workers, NEW c \in Conns, Tasks(w) \in {0, 1}
  PROVE  /\ HasTask(w, c) => \E h : AtWorker(c, w) = {h}
         /\ ~HasTask(w, c) => AtWorker(c, w) = {}
<1> DEFINE a == Len(toWorker[w])
           b == Len(toMain[w])
           x == IF job[w] = NoConn THEN 0 ELSE 1
           sent == {<<"sent", w, k>> : k \in {k \in DOMAIN toWorker[w] : toWorker[w][k].sock = c}}
           hand == {<<"job", w, 0>> : y \in {job[w]} \cap {c}}
           back == {<<"back", w, k>> : k \in {k \in DOMAIN toMain[w] : toMain[w][k].sock = c}}
<1>1. /\ a \in Nat /\ b \in Nat /\ DOMAIN toWorker[w] = 1 .. a /\ DOMAIN toMain[w] = 1 .. b
  BY LenProperties DEF TypeOK
<1>2. a + x + b \in {0, 1}
  BY DEF Tasks
<1>3. c # NoConn /\ (job[w] = c => x = 1) /\ x \in {0, 1} /\ (x = 0 => job[w] = NoConn)
  BY SocketsDistinct
<1>4. AtWorker(c, w) = sent \cup hand \cup back
  BY DEF AtWorker
<1>5. /\ MsgFor(toWorker[w], c) => \E k \in 1 .. a : toWorker[w][k].sock = c
      /\ MsgFor(toMain[w], c) => \E k \in 1 .. b : toMain[w][k].sock = c
  BY <1>1 DEF MsgFor
<1>6. /\ ~MsgFor(toWorker[w], c) => sent = {}
      /\ ~MsgFor(toMain[w], c) => back = {}
      /\ job[w] # c => hand = {}
  BY DEF MsgFor
<1>7. ASSUME MsgFor(toWorker[w], c) PROVE AtWorker(c, w) = {<<"sent", w, 1>>}
  <2> HIDE DEF a, b, x, sent, hand, back
  <2>1. a = 1 /\ b = 0 /\ x = 0
    BY <1>1, <1>2, <1>3, <1>5, <1>7
  <2>2. job[w] # c /\ ~MsgFor(toMain[w], c)
    BY <1>3, <1>5, <2>1
  <2>3. DOMAIN toWorker[w] = {1} /\ toWorker[w][1].sock = c
    BY <1>1, <1>5, <1>7, <2>1
  <2>4. sent = {<<"sent", w, 1>>}
    BY <2>3 DEF sent
  <2> QED BY <1>4, <1>6, <2>2, <2>4
<1>8. ASSUME MsgFor(toMain[w], c) PROVE AtWorker(c, w) = {<<"back", w, 1>>}
  <2> HIDE DEF a, b, x, sent, hand, back
  <2>1. b = 1 /\ a = 0 /\ x = 0
    BY <1>1, <1>2, <1>3, <1>5, <1>8
  <2>2. job[w] # c /\ ~MsgFor(toWorker[w], c)
    BY <1>3, <1>5, <2>1
  <2>3. DOMAIN toMain[w] = {1} /\ toMain[w][1].sock = c
    BY <1>1, <1>5, <1>8, <2>1
  <2>4. back = {<<"back", w, 1>>}
    BY <2>3 DEF back
  <2> QED BY <1>4, <1>6, <2>2, <2>4
<1>9. ASSUME job[w] = c PROVE AtWorker(c, w) = {<<"job", w, 0>>}
  <2>0. hand = {<<"job", w, 0>>}
    BY <1>9
  <2> HIDE DEF a, b, x, sent, hand, back
  <2>1. b = 0 /\ a = 0
    BY <1>1, <1>2, <1>3, <1>9
  <2>2. ~MsgFor(toMain[w], c) /\ ~MsgFor(toWorker[w], c)
    BY <1>5, <2>1
  <2> QED BY <1>4, <1>6, <2>0, <2>2
<1>10. ~HasTask(w, c) => AtWorker(c, w) = {}
  BY <1>4, <1>6 DEF HasTask
<1> QED BY <1>7, <1>8, <1>9, <1>10 DEF HasTask

(* Every open connection is held exactly once while the server serves, and *)
(* a closed one nowhere: the index juggling of Server::run, the pipes and  *)
(* the threads neither lose nor duplicate a descriptor.                    *)
THEOREM OneHolderCorrect == Spec => []OneHolder
<1>1. ASSUME IndInv, HolderInv PROVE OneHolder
  <2> SUFFICES ASSUME Serving, NEW c \in Conns
               PROVE  Cardinality(Holders(c)) = IF fd[c] = "open" /\ c # accepting THEN 1 ELSE 0
    BY DEF OneHolder
  <2> DEFINE inOpen == {<<"open", 0, k>> : k \in {k \in DOMAIN sc.open : sc.open[k] = c}}
             inWait == {<<"waiting", 0, k>> : k \in {k \in DOMAIN sc.waiting : sc.waiting[k] = c}}
             atWork == UNION {AtWorker(c, w) : w \in Workers}
  <2>1. PlaceInv(c) /\ WorkingInv(c) /\ Unstopped
    BY <1>1 DEF HolderInv, Unstopped
  <2>2. \A w \in Workers : Tasks(w) \in {0, 1}
    BY <1>1, <2>1 DEF HolderInv, ThreadInv
  <2>3. \A w \in Workers : /\ HasTask(w, c) => \E h : AtWorker(c, w) = {h}
                           /\ ~HasTask(w, c) => AtWorker(c, w) = {}
    BY <1>1, <2>2, AtWorkerOne DEF IndInv
  <2>4. Holders(c) = inOpen \cup inWait \cup atWork
    BY DEF Holders
  <2>5. /\ ~Member(sc.open, c) => inOpen = {}
        /\ ~Member(sc.waiting, c) => inWait = {}
    BY DEF Member
  <2>6. (\A w \in Workers : ~HasTask(w, c)) => atWork = {}
    BY <2>3
  <2>7. c \notin sc.working => \A w \in Workers : ~HasTask(w, c)
    BY <2>1 DEF WorkingInv
  <2>8. ASSUME Member(sc.open, c) PROVE \E h : inOpen = {h}
    <3>1. PICK k \in DOMAIN sc.open : sc.open[k] = c
      BY <2>8 DEF Member
    <3>2. {i \in DOMAIN sc.open : sc.open[i] = c} = {k}
      BY <2>1, <3>1 DEF PlaceInv, Once
    <3>3. inOpen = {<<"open", 0, k>>}
      BY <3>2
    <3> QED BY <3>3
  <2>9. ASSUME Member(sc.waiting, c) PROVE \E h : inWait = {h}
    <3>1. PICK k \in DOMAIN sc.waiting : sc.waiting[k] = c
      BY <2>9 DEF Member
    <3>2. {i \in DOMAIN sc.waiting : sc.waiting[i] = c} = {k}
      BY <2>1, <3>1 DEF PlaceInv, Once
    <3>3. inWait = {<<"waiting", 0, k>>}
      BY <3>2
    <3> QED BY <3>3
  <2>10. ASSUME c \in sc.working PROVE \E h : atWork = {h}
    <3>1. PICK w \in Workers : HasTask(w, c)
      BY <2>1, <2>10 DEF WorkingInv
    <3>2. \A v \in Workers : v # w => AtWorker(c, v) = {}
      BY <2>1, <2>3, <3>1 DEF WorkingInv
    <3>3. PICK h : AtWorker(c, w) = {h}
      BY <2>3, <3>1
    <3>4. atWork = {h}
      BY <3>2, <3>3
    <3> QED BY <3>4
  <2> HIDE DEF inOpen, inWait, atWork
  <2>11. CASE fd[c] = "open" /\ c # accepting
    <3>1. \E h : Holders(c) = {h}
      <4>1. CASE Member(sc.open, c)
        BY <2>1, <2>4, <2>5, <2>6, <2>7, <2>8, <4>1 DEF PlaceInv
      <4>2. CASE Member(sc.waiting, c)
        BY <2>1, <2>4, <2>5, <2>6, <2>7, <2>9, <4>2 DEF PlaceInv
      <4>3. CASE c \in sc.working
        BY <2>1, <2>4, <2>5, <2>10, <4>3 DEF PlaceInv
      <4> QED BY <2>1, <2>11, <4>1, <4>2, <4>3 DEF PlaceInv
    <3> QED BY <2>11, <3>1, FS_Singleton
  <2>12. CASE ~(fd[c] = "open" /\ c # accepting)
    <3>1. ~Member(sc.open, c) /\ ~Member(sc.waiting, c) /\ c \notin sc.working
      BY <2>1, <2>12 DEF PlaceInv, WorkingInv
    <3>2. Holders(c) = {}
      BY <2>4, <2>5, <2>6, <2>7, <3>1
    <3> QED BY <2>12, <3>2, FS_EmptySet
  <2> QED BY <2>11, <2>12
<1> QED BY <1>1, HolderInvariance, PTL

(***************************************************************************)
(* The pool: each step of the main loop, of the workers and of the clients *)
(* is a step of ConnectionPool or leaves the pool as it is.                *)
(***************************************************************************)

(* The stage of a connection by where it is kept. *)
Stages == \A c \in Conns :
  /\ fd[c] = "closed" => StageOf(c) = "closed"
  /\ fd[c] = "none" \/ c = accepting => StageOf(c) = "outside"
  /\ Member(sc.open, c) => StageOf(c) = "polled"
  /\ Member(sc.waiting, c) => StageOf(c) = "waiting"
  /\ c \in sc.working /\ fd[c] = "open" => StageOf(c) = "served"

LEMMA StagesRight == IndInv /\ HolderInv => Stages
<1> SUFFICES ASSUME IndInv, HolderInv, NEW c \in Conns
             PROVE  /\ fd[c] = "closed" => StageOf(c) = "closed"
                    /\ fd[c] = "none" \/ c = accepting => StageOf(c) = "outside"
                    /\ Member(sc.open, c) => StageOf(c) = "polled"
                    /\ Member(sc.waiting, c) => StageOf(c) = "waiting"
                    /\ c \in sc.working /\ fd[c] = "open" => StageOf(c) = "served"
  BY DEF Stages
<1>1. PlaceInv(c) /\ WorkingInv(c)
  BY DEF HolderInv
<1>2. /\ Contains(sc.open, c) <=> Member(sc.open, c)
      /\ Contains(sc.waiting, c) <=> Member(sc.waiting, c)
  BY Types, LenProperties DEF IndInv, Contains, Member
<1>3. ASSUME c \in sc.working, fd[c] = "open" PROVE WithWorker(c)
  <2>1. PICK w \in Workers : HasTask(w, c)
    BY <1>1, <1>3 DEF WorkingInv
  <2>2. ASSUME MsgFor(toWorker[w], c) PROVE Contains(toWorker[w], Msg("PROCESS_REQUEST", c))
    <3>1. PICK k \in DOMAIN toWorker[w] : toWorker[w][k].sock = c
      BY <2>2 DEF MsgFor
    <3>2. toWorker[w] \in Seq(ToWorkerMsgs) /\ k \in 1 .. Len(toWorker[w])
      BY <3>1, LenProperties DEF IndInv, TypeOK
    <3>3. toWorker[w][k] \in ToWorkerMsgs
      BY <3>2, ElementOfSeq
    <3>4. toWorker[w][k] = Msg("PROCESS_REQUEST", c)
      <4>1. c # NoConn
        BY SocketsDistinct
      <4> QED BY <3>1, <3>3, <4>1 DEF ToWorkerMsgs, Msg
    <3> QED BY <3>2, <3>4 DEF Contains
  <2>3. MsgFor(toMain[w], c) => \E k \in DOMAIN toMain[w] : toMain[w][k].sock = c
    BY DEF MsgFor
  <2>4. job[w] = c \/ Contains(toWorker[w], Msg("PROCESS_REQUEST", c))
                   \/ \E k \in DOMAIN toMain[w] : toMain[w][k].sock = c
    BY <2>1, <2>2, <2>3 DEF HasTask
  <2> QED BY <1>3, <2>4 DEF WithWorker
<1>w. WithWorker(c) => c \in sc.working
  BY DEF WithWorker
<1> HIDE DEF WithWorker
<1>4. fd[c] = "closed" => StageOf(c) = "closed"
  BY <1>1, <1>2, <1>w DEF StageOf, PlaceInv
<1>5. fd[c] = "none" \/ c = accepting => StageOf(c) = "outside"
  BY <1>1, <1>2, <1>w DEF StageOf, PlaceInv
<1>6. Member(sc.open, c) => StageOf(c) = "polled"
  BY <1>1, <1>2, <1>w DEF StageOf, PlaceInv
<1>7. Member(sc.waiting, c) => StageOf(c) = "waiting"
  BY <1>1, <1>2, <1>w DEF StageOf, PlaceInv
<1>8. c \in sc.working /\ fd[c] = "open" => StageOf(c) = "served"
  BY <1>1, <1>2, <1>3 DEF StageOf, PlaceInv
<1> QED BY <1>4, <1>5, <1>6, <1>7, <1>8

LEMMA StagesRightNext == (IndInv /\ HolderInv)' => Stages'
  BY StagesRight, PTL

(* A connection that is kept where it was has the stage it had. *)
LEMMA StageSame ==
  ASSUME IndInv, HolderInv, IndInv', HolderInv', NEW c \in Conns,
         fd'[c] = fd[c], c = accepting' <=> c = accepting,
         Member(sc'.open, c) <=> Member(sc.open, c),
         Member(sc'.waiting, c) <=> Member(sc.waiting, c),
         c \in sc'.working <=> c \in sc.working
  PROVE  StageOf(c)' = StageOf(c)
<1>1. Stages /\ Stages' /\ PlaceInv(c)
  BY StagesRight, StagesRightNext DEF HolderInv
<1>2. fd[c] \in {"none", "open", "closed"}
  BY <1>1 DEF IndInv, TypeOK, PlaceInv
<1> QED BY <1>1, <1>2 DEF Stages, PlaceInv

(* A step that moves no connection and no thread is no step of the pool. *)
LEMMA PoolStutter ==
  ASSUME \A c \in Conns : StageOf(c)' = StageOf(c),
         ModeOf' = ModeOf, sc'.waiting = sc.waiting, Len(threadQueue') = Len(threadQueue)
  PROVE  UNCHANGED Pool!poolVars
  BY DEF Pool!poolVars

LEMMA PoolPlain ==
  ASSUME IndInv, HolderInv, IndInv', HolderInv',
         UNCHANGED <<sc, threadQueue, accepting, fd>>
  PROVE  /\ \A c \in Conns : StageOf(c)' = StageOf(c)
         /\ sc'.waiting = sc.waiting /\ Len(threadQueue') = Len(threadQueue)
  BY StageSame

-----------------------------------------------------------------------------
(* The steps of the server as steps of the pool.                           *)

LEMMA PoolInitially == Init => Pool!PoolInit
<1> SUFFICES ASSUME Init PROVE Pool!PoolInit
  OBVIOUS
<1>1. Stages
  BY InitIndInv, InitHolder, StagesRight
<1>2. \A c \in Conns : StageOf(c) = "outside"
  BY <1>1 DEF Stages, Init
<1>3. ModeOf = "starting" /\ sc.waiting = <<>>
  BY DEF Init, ModeOf, NewSocketControl
<1>4. Len(threadQueue) = NThreads
  BY NThreadsAssumption DEF Init
<1> QED BY <1>2, <1>3, <1>4 DEF Pool!PoolInit

(* What the main loop does between the events it handles, what clients,    *)
(* workers and the signal thread do: the pool does not see it.             *)
LEMMA PoolSilent ==
  ASSUME IndInv, HolderInv, IndInv', HolderInv',
         \/ Environment \/ SigThread \/ \E w \in Workers : Worker(w)
         \/ StartSigThread \/ Poll \/ NoEvent \/ EndOfScan \/ JoinSigThread \/ JoinWorkers
  PROVE  UNCHANGED Pool!poolVars
<1>1. UNCHANGED <<sc, threadQueue, accepting, fd, running>>
  BY DEF Environment, Connect, ClientSend, ClientClose, Signal, SigThread, Worker,
         WorkerReceive, WorkerRead, WorkerReadFails, WorkerDone, StartSigThread, Poll,
         NoEvent, EndOfScan, JoinSigThread, JoinWorkers, mainVars, connVars
<1>2. main' \in {"start", "setup"} <=> main \in {"start", "setup"}
  BY DEF Environment, Connect, ClientSend, ClientClose, Signal, SigThread, Worker,
         WorkerReceive, WorkerRead, WorkerReadFails, WorkerDone, StartSigThread, Poll,
         NoEvent, EndOfScan, JoinSigThread, JoinWorkers, mainVars
<1>3. ModeOf' = ModeOf
  BY <1>1, <1>2 DEF ModeOf
<1> QED BY <1>1, <1>3, PoolPlain, PoolStutter

(* Server::run opens its sockets. *)
LEMMA PoolOpen ==
  ASSUME IndInv, HolderInv, IndInv', HolderInv', OpenSockets
  PROVE  Pool!Open
<1>1. /\ main = "setup" /\ main' = "poll" /\ running' = TRUE
      /\ UNCHANGED <<threadQueue, accepting, fd>>
  BY DEF OpenSockets, connVars
<1>2. ModeOf = "starting" /\ ModeOf' = "serving"
  BY <1>1 DEF ModeOf
<1>3. sc'.waiting = sc.waiting /\ sc'.working = sc.working
  <2>1. sc = NewSocketControl
    BY <1>1 DEF IndInv, Layout
  <2> QED BY <2>1 DEF OpenSockets, NewSocketControl, add_stop_socket, add_http_socket,
                      add_ssl_socket
<1>4. ASSUME NEW c \in Conns PROVE StageOf(c)' = StageOf(c)
  <2>1. c # accepting /\ c \notin sc.working /\ ~Member(sc.waiting, c)
    <3>1. sc = NewSocketControl /\ accepting = NoConn
      BY <1>1 DEF IndInv, Layout, HolderInv, PhaseInv
    <3> QED BY <3>1, SocketsDistinct DEF NewSocketControl, Member
  <2>2. ~Member(sc.open, c)
    <3>1. sc = NewSocketControl
      BY <1>1 DEF IndInv, Layout
    <3>2. \A k \in 1 .. NThreads : k - 1 \in Workers /\ k - 1 # c
      BY NThreadsAssumption, SocketsDistinct DEF Workers
    <3> QED BY <3>1, <3>2 DEF NewSocketControl, Member
  <2>3. fd[c] # "open"
    BY <2>1, <2>2 DEF HolderInv, PlaceInv
  <2>4. ~Member(sc'.open, c)
    BY <1>1, <2>3 DEF HolderInv, PlaceInv
  <2> QED BY <1>1, <1>3, <2>2, <2>4, StageSame
<1> QED BY <1>1, <1>2, <1>3, <1>4 DEF Pool!Open

(* poll() fails: the loop ends and nothing is closed. *)
LEMMA PoolPollFails ==
  ASSUME IndInv, HolderInv, IndInv', HolderInv', PollFails
  PROVE  Pool!Shutdown
<1>1. /\ main = "poll" /\ main' = "join_sig" /\ running' = FALSE
      /\ UNCHANGED <<sc, threadQueue, accepting, fd>>
  BY DEF PollFails, connVars
<1>2. ModeOf = "serving" /\ ModeOf' = "stopped"
  BY <1>1 DEF ModeOf, HolderInv, PhaseInv
<1>3. \A c \in Conns : StageOf(c)' = StageOf(c)
  BY <1>1, PoolPlain
<1> QED BY <1>1, <1>2, <1>3 DEF Pool!Shutdown

(* The stop message. *)
LEMMA PoolStop ==
  ASSUME IndInv, HolderInv, IndInv', HolderInv', Stop
  PROVE  Pool!Shutdown \/ UNCHANGED Pool!poolVars
<1>1. /\ main = "scan" /\ running
      /\ sc'.waiting = sc.waiting /\ sc'.working = sc.working
      /\ \A c \in Conns : Member(sc'.open, c) => Member(sc.open, c)
      /\ UseSsl => /\ running' = FALSE /\ main' = main
                   /\ \A c \in Conns :
                        fd'[c] = IF \/ Member(sc.open, c) /\ ~Member(sc'.open, c)
                                    \/ c \in sc.working
                                   THEN "closed" ELSE fd[c]
      /\ ~UseSsl => /\ main' = "aborted" /\ running' = running /\ fd' = fd
                    /\ \A c \in Conns : Member(sc'.open, c) <=> Member(sc.open, c)
  BY StopMoves
<1>2. UNCHANGED <<threadQueue, accepting>>
  BY DEF Stop
<1>3. CASE ~UseSsl
  <2>1. \A c \in Conns : StageOf(c)' = StageOf(c)
    BY <1>1, <1>2, <1>3, StageSame
  <2>2. ModeOf' = ModeOf
    BY <1>1, <1>3 DEF ModeOf
  <2> QED BY <1>1, <1>2, <2>1, <2>2, PoolStutter
<1>4. CASE UseSsl
  <2>1. ModeOf = "serving" /\ ModeOf' = "stopped"
    BY <1>1, <1>4 DEF ModeOf
  <2>s. Stages /\ Stages'
    BY StagesRight, StagesRightNext
  <2> DEFINE S == {c \in Conns : Member(sc.open, c) /\ ~Member(sc'.open, c)}
  <2>2. S \in SUBSET {c \in Conns : StageOf(c) = "polled"}
    BY <2>s DEF Stages
  <2>3. ASSUME NEW c \in Conns
        PROVE  StageOf(c)' = IF c \in S \/ StageOf(c) = "served" THEN "closed" ELSE StageOf(c)
    <3>1. PlaceInv(c) /\ WorkingInv(c) /\ Unstopped
      BY <1>1 DEF HolderInv, Unstopped, Serving
    <3>2. fd[c] \in {"none", "open", "closed"}
      BY <3>1 DEF IndInv, TypeOK, PlaceInv
    <3>3. CASE c \in S
      BY <1>1, <1>4, <2>s, <3>3 DEF Stages
    <3>4. CASE c \in sc.working
      <4>1. StageOf(c) = "served"
        BY <2>s, <3>1, <3>4 DEF Stages, WorkingInv
      <4>2. StageOf(c)' = "closed"
        BY <1>1, <1>4, <2>s, <3>4 DEF Stages
      <4> QED BY <4>1, <4>2
    <3>5. CASE c \notin S /\ c \notin sc.working
      <4>1. fd'[c] = fd[c] /\ (Member(sc'.open, c) <=> Member(sc.open, c))
        BY <1>1, <1>4, <3>5
      <4>2. StageOf(c)' = StageOf(c)
        BY <1>1, <1>2, <4>1, StageSame
      <4>3. StageOf(c) # "served"
        BY <2>s, <3>1, <3>2, <3>5 DEF Stages, PlaceInv
      <4> QED BY <3>5, <4>2, <4>3
    <3> QED BY <3>3, <3>4, <3>5
  <2>4. [c \in Conns |-> StageOf(c)]' =
          [c \in Conns |-> IF c \in S \/ [x \in Conns |-> StageOf(x)][c] = "served"
                             THEN "closed" ELSE [x \in Conns |-> StageOf(x)][c]]
    BY <2>3
  <2>5. S \in SUBSET {c \in Conns : [x \in Conns |-> StageOf(x)][c] = "polled"}
    BY <2>2
  <2> HIDE DEF S
  <2>6. Pool!Shutdown
    BY <1>1, <1>2, <2>1, <2>4, <2>5 DEF Pool!Shutdown
  <2> QED BY <2>6
<1>5. UseSsl \in BOOLEAN
  BY ServerAssumption
<1> QED BY <1>3, <1>4, <1>5

(* The stages after one connection has moved. *)
LEMMA StageMoves ==
  ASSUME NEW j, NEW t, \A c \in Conns : StageOf(c)' = IF c = j THEN t ELSE StageOf(c)
  PROVE  [c \in Conns |-> StageOf(c)]' = Pool!With([c \in Conns |-> StageOf(c)], j, t)
<1>1. [c \in Conns |-> StageOf(c)]' = [c \in Conns |-> IF c = j THEN t ELSE StageOf(c)]
  OBVIOUS
<1> QED BY <1>1 DEF Pool!With

(* A failed accept() adds an entry for no connection. *)
LEMMA PoolAcceptFails ==
  ASSUME IndInv, HolderInv, IndInv', HolderInv', AcceptFails
  PROVE  UNCHANGED Pool!poolVars
<1>1. /\ UNCHANGED <<threadQueue, main, running, accepting, fd>>
      /\ sc' = add_dyn_socket(sc, BadSock)
  BY DEF AcceptFails, connVars
<1>2. sc \in SocketControls /\ sc.open \in Seq(Sockets) /\ BadSock \in Sockets
  BY DEF IndInv, TypeOK, SocketControls, Sockets, Jobs
<1>3. /\ sc'.open = Append(sc.open, BadSock)
      /\ sc'.waiting = sc.waiting /\ sc'.working = sc.working
  BY <1>1, <1>2, AddDynLists
<1>4. ASSUME NEW c \in Conns PROVE Member(sc'.open, c) <=> Member(sc.open, c)
  <2>1. c # BadSock
    BY SocketsDistinct
  <2> QED BY <1>2, <1>3, <2>1, AppendMember
<1>5. \A c \in Conns : StageOf(c)' = StageOf(c)
  BY <1>1, <1>3, <1>4, StageSame
<1>6. ModeOf' = ModeOf
  BY <1>1 DEF ModeOf
<1> QED BY <1>1, <1>3, <1>5, <1>6, PoolStutter

(* A connection in its TLS handshake is still outside. *)
LEMMA PoolAcceptSsl ==
  ASSUME IndInv, HolderInv, IndInv', HolderInv', AcceptSsl
  PROVE  UNCHANGED Pool!poolVars
<1> DEFINE d == Head(backlog["ssl"])
<1>1. /\ UNCHANGED <<sc, threadQueue, running>>
      /\ accepting' = d /\ fd' = [fd EXCEPT ![d] = "open"] /\ main = "scan" /\ main' = "handshake"
  BY DEF AcceptSsl, Scanning
<1>2. d \in Conns /\ fd[d] = "none" /\ accepting = NoConn
  <2>1. LayoutUp(sc) /\ backlog["ssl"] # <<>>
    BY AtListener DEF AcceptSsl
  <2>2. Unstopped /\ accepting = NoConn
    BY <1>1, <2>1, UpIsServing DEF HolderInv, PhaseInv
  <2> QED BY <2>1, <2>2, AcceptedIsNew DEF Ports
<1> HIDE DEF d
<1>3. ASSUME NEW c \in Conns PROVE StageOf(c)' = StageOf(c)
  <2>1. CASE c = d
    BY <1>1, <1>2, <2>1, StagesRight, StagesRightNext DEF Stages
  <2>2. CASE c # d
    <3>1. fd'[c] = fd[c] /\ c # accepting' /\ c # accepting
      BY <1>1, <1>2, <2>2, SocketsDistinct DEF IndInv, TypeOK
    <3> QED BY <1>1, <3>1, StageSame
  <2> QED BY <2>1, <2>2
<1>4. ModeOf' = ModeOf
  BY <1>1 DEF ModeOf
<1> QED BY <1>1, <1>3, <1>4, PoolStutter

(* A connection joins the polled ones. *)
LEMMA PoolEnter ==
  ASSUME IndInv, HolderInv, IndInv', HolderInv', NEW d \in Conns,
         fd[d] = "none" \/ d = accepting, sc' = add_dyn_socket(sc, d), running,
         UNCHANGED <<threadQueue, running>>, main \in {"scan", "handshake"}, main' = "scan",
         \A c \in Conns : c # d => fd'[c] = fd[c] /\ (c = accepting' <=> c = accepting)
  PROVE  Pool!Enter(d)
<1>2. sc \in SocketControls /\ sc.open \in Seq(Sockets) /\ d \in Sockets
  BY DEF IndInv, TypeOK, SocketControls, Sockets, Jobs
<1>3. /\ sc'.open = Append(sc.open, d)
      /\ sc'.waiting = sc.waiting /\ sc'.working = sc.working
  BY <1>2, AddDynLists
<1>4. \A c \in Conns : Member(sc'.open, c) <=> Member(sc.open, c) \/ d = c
  BY <1>2, <1>3, AppendMember
<1>5. StageOf(d) = "outside" /\ StageOf(d)' = "polled"
  BY <1>4, StagesRight, StagesRightNext DEF Stages
<1>6. \A c \in Conns : StageOf(c)' = IF c = d THEN "polled" ELSE StageOf(c)
  BY <1>3, <1>4, <1>5, StageSame
<1>7. [c \in Conns |-> StageOf(c)]' = [[c \in Conns |-> StageOf(c)] EXCEPT ![d] = "polled"]
  BY <1>6, StageMoves DEF Pool!With
<1>8. ModeOf = "serving" /\ ModeOf' = ModeOf
  BY DEF ModeOf
<1>9. Pool!Moves(d, "outside", "polled")
  BY <1>5, <1>7 DEF Pool!Moves
<1> QED BY <1>3, <1>8, <1>9 DEF Pool!Enter

(* A plain connection is accepted, a TLS handshake ends. *)
LEMMA PoolAccept ==
  ASSUME IndInv, HolderInv, IndInv', HolderInv', AcceptHttp \/ HandshakeEnds
  PROVE  \E d \in Conns : Pool!Enter(d)
<1>1. CASE AcceptHttp
  <2> DEFINE d == Head(backlog["http"])
  <2>1. /\ UNCHANGED <<threadQueue, running, accepting, main>> /\ main = "scan"
        /\ sc' = add_dyn_socket(sc, d) /\ fd' = [fd EXCEPT ![d] = "open"]
    BY <1>1 DEF AcceptHttp, Scanning
  <2>2. d \in Conns /\ fd[d] = "none" /\ running
    <3>1. LayoutUp(sc) /\ backlog["http"] # <<>>
      BY <1>1, AtListener DEF AcceptHttp
    <3>2. Unstopped /\ running
      BY <2>1, <3>1, UpIsServing DEF HolderInv
    <3> QED BY <3>1, <3>2, AcceptedIsNew DEF Ports
  <2> HIDE DEF d
  <2>3. \A c \in Conns : c # d => fd'[c] = fd[c]
    BY <2>1 DEF IndInv, TypeOK
  <2>4. Pool!Enter(d)
    BY <2>1, <2>2, <2>3, PoolEnter
  <2> QED BY <2>2, <2>4
<1>2. CASE HandshakeEnds
  <2>1. /\ UNCHANGED <<threadQueue, running, fd>> /\ main = "handshake" /\ main' = "scan"
        /\ sc' = add_dyn_socket(sc, accepting) /\ accepting' = NoConn
    BY <1>2 DEF HandshakeEnds, connVars
  <2>2. accepting \in Conns /\ running
    BY <2>1 DEF IndInv, Layout, HolderInv, PhaseInv
  <2>3. \A c \in Conns : c # accepting => fd'[c] = fd[c] /\ (c = accepting' <=> c = accepting)
    BY <2>1, SocketsDistinct
  <2>4. Pool!Enter(accepting)
    BY <2>1, <2>2, <2>3, PoolEnter
  <2> QED BY <2>2, <2>4
<1> QED BY <1>1, <1>2

(* An entry of the list gets a thread or a place in the queue. *)
LEMMA PoolTake ==
  ASSUME IndInv, HolderInv, IndInv', HolderInv', Dispatch \/ Enqueue
  PROVE  \E j \in Conns \cup {BadSock} : Pool!Take(j)
<1> DEFINE j == At(sc.open, idx)
           e == [sc EXCEPT !.open = Erase(sc.open, idx)]
<1>1. /\ j \in Jobs /\ main = "scan" /\ remove(sc, idx) = e
      /\ e.open = Erase(sc.open, idx) /\ e.waiting = sc.waiting /\ e.working = sc.working
      /\ j \in Conns => /\ fd[j] = "open" /\ j # accepting
                        /\ j \notin sc.working /\ ~Member(sc.waiting, j) /\ Member(sc.open, j)
      /\ \A c \in Conns : Member(e.open, c) <=> Member(sc.open, c) /\ c # j
  BY EntryOut
<1>2. UNCHANGED <<main, running, accepting, fd>>
  BY DEF Dispatch, Enqueue, connVars
<1>3. ModeOf' = ModeOf /\ ModeOf # "starting"
  BY <1>1, <1>2 DEF ModeOf
<1>4. j \in Conns => StageOf(j) = "polled"
  BY <1>1, StagesRight DEF Stages
<1>5. /\ Dispatch => /\ sc' = add_to_working_socket(e, j)
                     /\ threadQueue # <<>> /\ threadQueue' = Tail(threadQueue)
      /\ Enqueue => /\ sc' = move_to_waiting(sc, idx)
                    /\ threadQueue = <<>> /\ threadQueue' = threadQueue
  BY <1>1 DEF Dispatch, Enqueue
<1>6. threadQueue \in Seq(Workers) /\ sc \in SocketControls /\ sc.waiting \in Seq(Jobs)
  BY DEF IndInv, TypeOK, SocketControls
<1>7. e \in SocketControls
  <2>1. idx \in Nat /\ idx < Len(sc.open) /\ sc.open \in Seq(Sockets)
    BY <1>6 DEF Dispatch, Enqueue, Scanning, IndInv, TypeOK, SocketControls
  <2>2. Erase(sc.open, idx) \in Seq(Sockets)
    BY <2>1, EraseProperties
  <2> QED BY <1>6, <2>2 DEF SocketControls
<1>8. /\ Dispatch => /\ sc'.open = e.open /\ sc'.waiting = sc.waiting
                     /\ sc'.working = sc.working \cup {j}
      /\ Enqueue => /\ sc'.open = e.open /\ sc'.waiting = Append(sc.waiting, j)
                    /\ sc'.working = sc.working
  <2>1. Dispatch => /\ sc'.open = e.open /\ sc'.waiting = sc.waiting
                    /\ sc'.working = sc.working \cup {j}
    <3> HIDE DEF e, j
    <3> QED BY <1>1, <1>5, <1>7 DEF add_to_working_socket, SocketControls
  <2>2. Enqueue => /\ sc'.open = e.open /\ sc'.waiting = Append(sc.waiting, j)
                   /\ sc'.working = sc.working
    BY <1>1, <1>5, <1>6 DEF move_to_waiting, SocketControls
  <2> QED BY <2>1, <2>2
<1> HIDE DEF j, e
<1>9. CASE Dispatch
  <2>1. ASSUME NEW c \in Conns PROVE StageOf(c)' = IF c = j THEN "served" ELSE StageOf(c)
    <3>1. CASE c = j
      <4>1. fd'[c] = "open" /\ c \in sc'.working
        BY <1>1, <1>2, <1>8, <1>9, <3>1
      <4> QED BY <3>1, <4>1, StagesRightNext DEF Stages
    <3>2. CASE c # j
      BY <1>1, <1>2, <1>8, <1>9, <3>2, StageSame
    <3> QED BY <3>1, <3>2
  <2>2. [c \in Conns |-> StageOf(c)]' = Pool!With([c \in Conns |-> StageOf(c)], j, "served")
    BY <2>1, StageMoves
  <2>3. Len(threadQueue) > 0 /\ Len(threadQueue') = Len(threadQueue) - 1
    BY <1>5, <1>6, <1>9, HeadTailProperties, EmptySeq, LenProperties
  <2>4. Pool!Take(j)
    BY <1>3, <1>4, <1>8, <1>9, <2>2, <2>3 DEF Pool!Take
  <2> QED BY <1>1, <2>4 DEF Jobs
<1>10. CASE Enqueue
  <2>1. ASSUME NEW c \in Conns PROVE StageOf(c)' = IF c = j THEN "waiting" ELSE StageOf(c)
    <3>0. Member(sc'.waiting, c) <=> Member(sc.waiting, c) \/ j = c
      <4>1. Member(Append(sc.waiting, j), c) <=> Member(sc.waiting, c) \/ j = c
        BY <1>1, <1>6, AppendMember
      <4> QED BY <1>8, <1>10, <4>1
    <3>1. CASE c = j
      BY <3>0, <3>1, StagesRightNext DEF Stages
    <3>2. CASE c # j
      BY <1>1, <1>2, <1>8, <1>10, <3>0, <3>2, StageSame
    <3> QED BY <3>1, <3>2
  <2>2. [c \in Conns |-> StageOf(c)]' = Pool!With([c \in Conns |-> StageOf(c)], j, "waiting")
    BY <2>1, StageMoves
  <2>3. Len(threadQueue) = 0 /\ Len(threadQueue') = Len(threadQueue)
    BY <1>5, <1>10
  <2>4. Pool!Take(j)
    BY <1>3, <1>4, <1>8, <1>10, <2>2, <2>3 DEF Pool!Take
  <2> QED BY <1>1, <2>4 DEF Jobs
<1> QED BY <1>9, <1>10

(* A hangup closes the entry, which may be that of a failed accept(). *)
LEMMA PoolLeave ==
  ASSUME IndInv, HolderInv, IndInv', HolderInv', CloseHangup
  PROVE  (\E d \in Conns : Pool!Leave(d)) \/ UNCHANGED Pool!poolVars
<1> DEFINE j == At(sc.open, idx)
           e == [sc EXCEPT !.open = Erase(sc.open, idx)]
<1>1. /\ j \in Jobs /\ main = "scan" /\ remove(sc, idx) = e
      /\ e.open = Erase(sc.open, idx) /\ e.waiting = sc.waiting /\ e.working = sc.working
      /\ j \in Conns => /\ fd[j] = "open" /\ j # accepting
                        /\ j \notin sc.working /\ ~Member(sc.waiting, j) /\ Member(sc.open, j)
      /\ \A c \in Conns : Member(e.open, c) <=> Member(sc.open, c) /\ c # j
  BY EntryOut
<1>2. /\ UNCHANGED <<main, running, accepting, threadQueue>>
      /\ sc' = remove_from_working_socket(e, j)
      /\ fd' = close_socket({j})
  BY <1>1 DEF CloseHangup
<1>3. ModeOf' = ModeOf /\ ModeOf # "starting"
  BY <1>1, <1>2 DEF ModeOf
<1>6. sc \in SocketControls
  BY DEF IndInv, TypeOK
<1>7. e \in SocketControls
  <2>1. idx \in Nat /\ idx < Len(sc.open) /\ sc.open \in Seq(Sockets)
    BY <1>6 DEF CloseHangup, Scanning, IndInv, TypeOK, SocketControls
  <2>2. Erase(sc.open, idx) \in Seq(Sockets)
    BY <2>1, EraseProperties
  <2> QED BY <1>6, <2>2 DEF SocketControls
<1> HIDE DEF j, e
<1>8. sc'.open = e.open /\ sc'.waiting = sc.waiting /\ sc'.working = sc.working \ {j}
  BY <1>1, <1>2, <1>7 DEF remove_from_working_socket, SocketControls
<1>9. ASSUME NEW c \in Conns PROVE StageOf(c)' = IF c = j THEN "closed" ELSE StageOf(c)
  <2>1. CASE c = j
    <3>1. fd'[c] = "closed"
      BY <1>1, <1>2, <2>1 DEF close_socket
    <3> QED BY <2>1, <3>1, StagesRightNext DEF Stages
  <2>2. CASE c # j
    <3>1. fd'[c] = fd[c]
      BY <1>2, <2>2 DEF close_socket
    <3> QED BY <1>1, <1>2, <1>8, <2>2, <3>1, StageSame
  <2> QED BY <2>1, <2>2
<1>10. CASE j \in Conns
  <2>1. StageOf(j) = "polled"
    BY <1>1, <1>10, StagesRight DEF Stages
  <2>2. [c \in Conns |-> StageOf(c)]' = Pool!With([c \in Conns |-> StageOf(c)], j, "closed")
    BY <1>9, StageMoves
  <2>3. [c \in Conns |-> StageOf(c)]' = [[c \in Conns |-> StageOf(c)] EXCEPT ![j] = "closed"]
    BY <1>10, <2>2 DEF Pool!With
  <2>4. Pool!Moves(j, "polled", "closed")
    BY <1>10, <2>1, <2>3 DEF Pool!Moves
  <2>5. Pool!Leave(j)
    BY <1>2, <1>3, <1>8, <2>4 DEF Pool!Leave
  <2> QED BY <1>10, <2>5
<1>11. CASE j \notin Conns
  <2>1. \A c \in Conns : StageOf(c)' = StageOf(c)
    BY <1>9, <1>11
  <2> QED BY <1>2, <1>3, <1>8, <2>1, PoolStutter
<1> QED BY <1>10, <1>11

(* A thread that is not idle leaves room in thread_queue. *)
LEMMA QueueShort ==
  ASSUME IndInv, HolderInv, Unstopped, NEW w \in Workers, ~Member(threadQueue, w)
  PROVE  Len(threadQueue) < NThreads
<1> DEFINE n == Len(threadQueue)
<1>1. /\ threadQueue \in Seq(Workers) /\ n \in Nat /\ NThreads \in Nat /\ NThreads > 0
      /\ DOMAIN threadQueue = 1 .. n
  BY LenProperties, NThreadsAssumption DEF IndInv, TypeOK
<1>2. threadQueue \in [1 .. n -> Workers \ {w}]
  <2>1. \A k \in 1 .. n : threadQueue[k] \in Workers /\ threadQueue[k] # w
    BY <1>1, ElementOfSeq DEF Member
  <2>2. threadQueue = [k \in 1 .. n |-> threadQueue[k]]
    BY <1>1, LenProperties
  <2> QED BY <2>1, <2>2
<1>3. \A x, y \in 1 .. n : threadQueue[x] = threadQueue[y] => x = y
  BY <1>1, ElementOfSeq DEF HolderInv, ThreadInv, Once
<1> HIDE DEF n
<1>4. IsFiniteSet(1 .. n) /\ Cardinality(1 .. n) = n
  BY <1>1, FS_Interval
<1>5. IsFiniteSet(Workers) /\ Cardinality(Workers) = NThreads
  BY <1>1, FS_Interval DEF Workers
<1>6. IsFiniteSet(Workers \ {w}) /\ Cardinality(Workers \ {w}) = NThreads - 1
  BY <1>5, FS_RemoveElement
<1>7. ~(n >= NThreads)
  <2> SUFFICES ASSUME n >= NThreads PROVE FALSE
    OBVIOUS
  <2>1. Cardinality(Workers \ {w}) < Cardinality(1 .. n)
    BY <1>1, <1>4, <1>6
  <2> DEFINE S == 1 .. n
             T == Workers \ {w}
  <2>2. /\ IsFiniteSet(S) /\ IsFiniteSet(T) /\ Cardinality(T) < Cardinality(S)
        /\ threadQueue \in [S -> T]
    BY <1>2, <1>4, <1>6, <2>1
  <2> HIDE DEF S, T
  <2>3. \E x, y \in S : x # y /\ threadQueue[x] = threadQueue[y]
    BY <2>2, FS_PigeonHole, Zenon
  <2> QED BY <1>3, <2>3 DEF S
<1> QED BY <1>1, <1>7 DEF n

(* A thread has finished: its connection is polled again or closed, and    *)
(* the head of the queue has the thread.                                   *)
LEMMA PoolFinish ==
  ASSUME IndInv, HolderInv, IndInv', HolderInv', FinishedAndContinue \/ FinishedAndClose
  PROVE  \E j \in Conns \cup {BadSock}, after \in {"polled", "closed"} : Pool!Finish(j, after)
<1> DEFINE j == Head(toMain[idx]).sock
           h == Head(sc.waiting)
           after == IF FinishedAndContinue THEN "polled" ELSE "closed"
<1>0. /\ Scanning("IN") /\ IsMsgSocket /\ main = "scan"
      /\ UNCHANGED <<main, running, accepting>>
  BY DEF FinishedAndContinue, FinishedAndClose, Scanning
<1>1. PICK w \in Workers : w = idx
  BY <1>0, AtMsgSocket
<1>2. /\ j \in Jobs /\ running /\ Unstopped
      /\ j \in Conns => j \in sc.working /\ fd[j] = "open"
      /\ \A c \in Conns :
           /\ Member(sc'.open, c) <=> Member(sc.open, c) \/ (FinishedAndContinue /\ c = j)
           /\ Member(sc.waiting, c)
                <=> Member(sc'.waiting, c) \/ (sc.waiting # <<>> /\ c = h)
           /\ sc.waiting # <<>> /\ c = h => ~Member(sc'.waiting, c)
           /\ c \in sc'.working <=> \/ c \in sc.working /\ c # j
                                    \/ sc.waiting # <<>> /\ c = h
           /\ fd'[c] = IF ~FinishedAndContinue /\ c = j THEN "closed" ELSE fd[c]
  BY <1>1, FinishedMoves
<1>3. ~Member(threadQueue, w)
  BY <1>0, <1>1, FinishedTask
<1>4. Len(threadQueue) < NThreads
  BY <1>2, <1>3, QueueShort
<1>5. /\ threadQueue \in Seq(Workers) /\ sc \in SocketControls /\ sc.waiting \in Seq(Jobs)
      /\ LayoutUp(sc)
  BY <1>0, AtMsgSocket DEF IndInv, TypeOK, SocketControls
<1>6. /\ sc.waiting = <<>> => /\ sc'.waiting = sc.waiting
                              /\ threadQueue' = Append(threadQueue, w)
      /\ sc.waiting # <<>> => sc'.waiting = Tail(sc.waiting) /\ threadQueue' = threadQueue
  <2>1. PICK s \in SocketControls : s.waiting = sc.waiting /\ ReuseThread(s, idx)
    <3> DEFINE r == remove_from_working_socket(sc, j)
    <3>1. r \in SocketControls /\ r.waiting = sc.waiting /\ LayoutUp(r)
      <4>1. r \in SocketControls /\ r.waiting = sc.waiting /\ r.open = sc.open
            /\ r.nmsg = sc.nmsg /\ r.stop = sc.stop
            /\ r.http = sc.http /\ r.ssl = sc.ssl /\ r.dyn = sc.dyn
        BY <1>5 DEF remove_from_working_socket, SocketControls
      <4> HIDE DEF r
      <4> QED BY <1>5, <4>1, QueuesKeepLayout
    <3>2. CASE FinishedAndContinue
      <4>1. add_dyn_socket(r, j) \in SocketControls /\ add_dyn_socket(r, j).waiting = r.waiting
        <5> HIDE DEF r, j
        <5> QED BY <1>2, <3>1, AddDyn, AddDynLists
      <4>2. ReuseThread(add_dyn_socket(r, j), idx)
        BY <3>2 DEF FinishedAndContinue
      <4> QED BY <3>1, <4>1, <4>2
    <3>3. CASE FinishedAndClose
      <4>1. ReuseThread(r, idx)
        BY <3>3 DEF FinishedAndClose
      <4> QED BY <3>1, <4>1
    <3> QED BY <3>2, <3>3
  <2> QED BY <1>1, <2>1 DEF ReuseThread, get_waiting, add_to_working_socket, SocketControls
<1>7. ModeOf = "serving" /\ ModeOf' = ModeOf
  BY <1>0, <1>2 DEF ModeOf
<1>8. Stages /\ Stages'
  BY StagesRight, StagesRightNext
<1>9. j \in Conns => StageOf(j) = "served"
  BY <1>2, <1>8 DEF Stages
<1>10. sc.waiting # <<>> => h \in Jobs /\ (h \in Conns => fd[h] = "open" /\ h # j)
  <2>1. sc.waiting # <<>> => h \in Jobs
    BY <1>5, HeadTailProperties
  <2>2. ASSUME sc.waiting # <<>>, h \in Conns PROVE fd[h] = "open" /\ h # j
    <3>1. Member(sc.waiting, h)
      BY <1>2, <2>2
    <3>2. PlaceInv(h)
      BY <2>2 DEF HolderInv
    <3> QED BY <1>2, <2>2, <3>1, <3>2 DEF PlaceInv
  <2> QED BY <2>1, <2>2
<1> HIDE DEF j, h
<1>11. ASSUME NEW c \in Conns
       PROVE  StageOf(c)' = IF sc.waiting # <<>> /\ c = h THEN "served"
                            ELSE IF c = j THEN after ELSE StageOf(c)
  <2>1. CASE sc.waiting # <<>> /\ c = h
    <3>1. c \in sc'.working /\ fd'[c] = "open"
      BY <1>2, <1>10, <2>1
    <3> QED BY <1>8, <2>1, <3>1 DEF Stages
  <2>2. CASE ~(sc.waiting # <<>> /\ c = h) /\ c = j
    <3>1. CASE FinishedAndContinue
      BY <1>2, <1>8, <2>2, <3>1 DEF Stages
    <3>2. CASE ~FinishedAndContinue
      BY <1>2, <1>8, <2>2, <3>2 DEF Stages
    <3> QED BY <3>1, <3>2
  <2>3. CASE ~(sc.waiting # <<>> /\ c = h) /\ c # j
    <3>1. /\ fd'[c] = fd[c] /\ accepting' = accepting
          /\ Member(sc'.open, c) <=> Member(sc.open, c)
          /\ Member(sc'.waiting, c) <=> Member(sc.waiting, c)
          /\ c \in sc'.working <=> c \in sc.working
      BY <1>0, <1>2, <2>3
    <3>2. StageOf(c)' = StageOf(c)
      BY <3>1, StageSame
    <3> QED BY <2>3, <3>2
  <2> QED BY <2>1, <2>2, <2>3
<1> DEFINE st == [c \in Conns |-> StageOf(c)]
<1>12. after \in {"polled", "closed"}
  OBVIOUS
<1> HIDE DEF after
<1>13. CASE sc.waiting = <<>>
  <2>1. [c \in Conns |-> StageOf(c)]' = Pool!With(st, j, after)
    BY <1>11, <1>13, StageMoves
  <2>2. Len(threadQueue') = Len(threadQueue) + 1
    BY <1>5, <1>6, <1>13, AppendProperties
  <2>3. Pool!Finish(j, after)
    BY <1>4, <1>6, <1>7, <1>9, <1>13, <2>1, <2>2 DEF Pool!Finish
  <2> QED BY <1>2, <1>12, <2>3 DEF Jobs
<1>14. CASE sc.waiting # <<>>
  <2>1. [c \in Conns |-> StageOf(c)]'
          = [c \in Conns |-> IF c = h THEN "served" ELSE IF c = j THEN after ELSE StageOf(c)]
    BY <1>11, <1>14
  <2>2. [c \in Conns |-> StageOf(c)]' = Pool!With(Pool!With(st, j, after), h, "served")
    BY <2>1 DEF Pool!With
  <2>3. Pool!Finish(j, after)
    BY <1>4, <1>6, <1>7, <1>9, <1>14, <2>2 DEF Pool!Finish, h
  <2> QED BY <1>2, <1>12, <2>3 DEF Jobs
<1> QED BY <1>13, <1>14

-----------------------------------------------------------------------------

(* Every step of the server is a step of the pool or none of its concern.  *)
LEMMA PoolStep ==
  IndInv /\ HolderInv /\ (IndInv /\ HolderInv)' /\ [Next]_vars
    => [Pool!PoolNext]_Pool!poolVars
<1> SUFFICES ASSUME IndInv, HolderInv, IndInv', HolderInv', [Next]_vars
             PROVE  Pool!PoolNext \/ UNCHANGED Pool!poolVars
  OBVIOUS
<1>1. CASE UNCHANGED vars
  <2>1. UNCHANGED <<sc, threadQueue, accepting, fd, main, running>>
    BY <1>1 DEF vars, mainVars, connVars
  <2>2. ModeOf' = ModeOf
    BY <2>1 DEF ModeOf
  <2> QED BY <2>1, <2>2, PoolPlain, PoolStutter
<1>2. CASE \/ Environment \/ SigThread \/ \E w \in Workers : Worker(w)
           \/ StartSigThread \/ Poll \/ NoEvent \/ EndOfScan \/ JoinSigThread \/ JoinWorkers
  BY <1>2, PoolSilent
<1>3. CASE OpenSockets
  BY <1>3, PoolOpen DEF Pool!PoolNext
<1>4. CASE PollFails
  BY <1>4, PoolPollFails DEF Pool!PoolNext
<1>5. CASE Stop
  BY <1>5, PoolStop DEF Pool!PoolNext
<1>6. CASE AcceptFails \/ AcceptSsl
  BY <1>6, PoolAcceptFails, PoolAcceptSsl
<1>7. CASE AcceptHttp \/ HandshakeEnds
  BY <1>7, PoolAccept DEF Pool!PoolNext
<1>8. CASE Dispatch \/ Enqueue
  BY <1>8, PoolTake DEF Pool!PoolNext
<1>9. CASE CloseHangup
  BY <1>9, PoolLeave DEF Pool!PoolNext
<1>10. CASE FinishedAndContinue \/ FinishedAndClose
  BY <1>10, PoolFinish DEF Pool!PoolNext
<1> QED BY <1>1, <1>2, <1>3, <1>4, <1>5, <1>6, <1>7, <1>8, <1>9, <1>10
        DEF Next, Main, ScanStep

(* Server::run implements the pool of connections and threads: whatever    *)
(* the order of events, and for any number of connections and threads, a   *)
(* connection moves only as the pool says, the waiting ones are served     *)
(* first come, first served, and a thread that becomes free takes the next *)
(* of them before it is idle.                                              *)
THEOREM ServerImplementsPool == Spec => ImplementsPool
<1>1. Init => Pool!PoolInit
  BY PoolInitially
<1>2. Spec => [](IndInv /\ HolderInv)
  BY HolderInvariance
<1>3. IndInv /\ HolderInv /\ (IndInv /\ HolderInv)' /\ [Next]_vars
        => [Pool!PoolNext]_Pool!poolVars
  BY PoolStep
<1> QED BY <1>1, <1>2, <1>3, PTL DEF Spec, ImplementsPool, Pool!PoolSpec

=============================================================================
