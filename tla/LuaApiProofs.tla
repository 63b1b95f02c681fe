---------------------------- MODULE LuaApiProofs ----------------------------
(***************************************************************************)
(* What is proved of module LuaApi: the temporary files of a request are   *)
(* found again whatever the scripts of the other requests do, and a file   *)
(* function reports what it did.                                           *)
(***************************************************************************)
EXTENDS LuaApi, TLAPS

(***************************************************************************)
(* The inductive invariant.                                                *)
(***************************************************************************)

UploadRecords == [tmp : {"."} \X TmpNames, data : Data \cup {"empty"}, dir : Dirs]

Requests ==
  [pc : {"idle", "init", "run", "cleanup"}, uploads : Seq(UploadRecords),
   sent : BOOLEAN, buffered : BOOLEAN, gone : BOOLEAN,
   set : [Heads -> Nat], wire : [Heads -> Nat], took : [Heads -> Nat],
   status : {"200", "500", "given"}]

\* What is a directory is known by name, and the process is in one of them or
\* in the place where one was.
Typed ==
  /\ files \in [Places -> Contents]
  /\ \A f \in Places : files[f] = "dir" => f \in {HomeDir, SubDir}
  /\ cwd \in Dirs \cup {"removed"}
  /\ req \in [Scripts -> Requests]
  /\ \A s \in Scripts : req[s].pc = "idle" => req[s].uploads = <<>>
  /\ made \in Nat

\* Nobody but the upload of that name has ever written under it, in any
\* directory: the file is as it came, or gone.
UploadsIntact ==
  \A s \in Scripts : \A k \in DOMAIN req[s].uploads : \A d \in Dirs :
    files[<<d, req[s].uploads[k].tmp[2]>>] \in {"none", req[s].uploads[k].data}

\* A file under a temporary name lies where the upload was stored that will
\* remove it, or the end of its request did not reach it.
TempsAccounted ==
  \A n \in TmpNames, d \in Dirs :
    files[<<d, n>>] # "none" =>
      \/ n \in lost
      \/ \E s \in Scripts : \E k \in DOMAIN req[s].uploads :
           req[s].uploads[k].tmp[2] = n /\ req[s].uploads[k].dir = d

UploadsInv == Typed /\ UploadsIntact /\ TempsAccounted

(***************************************************************************)
(* Places, paths and values.                                               *)
(***************************************************************************)

LEMMA PlaceFacts ==
  /\ \A d \in Dirs, n \in AllNames : <<d, n>> \in Places
  /\ \A d, n : <<d, n>> \in Places /\ n \in TmpNames => d \in Dirs
  /\ HomeDir \in Places /\ SubDir \in Places
  /\ HomeDir[2] \notin TmpNames /\ SubDir[2] \notin TmpNames
<1>1. HomeDir = <<"/", "home">> /\ SubDir = <<"home", "sub">>
  BY DEF HomeDir, SubDir
<1>2. "sub" \in Names /\ "home" \notin TmpNames /\ "sub" \notin TmpNames
  BY NamesAssumption
<1>3. "home" \in Dirs
  BY DEF Dirs
<1> QED
  BY <1>1, <1>2, <1>3 DEF Places, AllNames

\* No argument but the name of an upload leads to a temporary name.
LEMMA ValueFacts ==
  \A v \in Values : v.p[2] \notin TmpNames /\ (v.t = "int" \/ v.i = 0)
<1>1. "num" \notin TmpNames
  BY NamesAssumption
<1>2. \A p \in PathArgs : p[2] \notin TmpNames
  BY NamesAssumption
<1> QED
  BY <1>1, <1>2 DEF Values, Str, Num, Other

LEMMA UploadFacts ==
  ASSUME Typed, NEW s \in Scripts, NEW k \in DOMAIN req[s].uploads
  PROVE  LET u == req[s].uploads[k] IN
         /\ u \in UploadRecords
         /\ u.tmp = <<".", u.tmp[2]>> /\ u.tmp[1] = "." /\ u.tmp[2] \in TmpNames
         /\ u.data \in Data \cup {"empty"} /\ u.dir \in Dirs
         /\ u.data # "none" /\ u.data # "dir"
<1> DEFINE q == req[s].uploads
<1>1. q \in Seq(UploadRecords)
  BY DEF Typed, Requests
<1>2. q[k] \in UploadRecords
  <2>1. DOMAIN q = 1..Len(q)
    BY <1>1
  <2> QED
    BY <1>1, <2>1
<1> HIDE DEF q
<1>3. /\ q[k].tmp \in {"."} \X TmpNames
      /\ q[k].data \in Data \cup {"empty"}
      /\ q[k].dir \in Dirs
  BY <1>2 DEF UploadRecords
<1> QED
  BY <1>2, <1>3, DataAssumption DEF q

\* What stands where a temporary name leads from the working directory.
LEMMA TmpLook ==
  ASSUME Typed, UploadsIntact, NEW s \in Scripts, NEW k \in DOMAIN req[s].uploads
  PROVE  LET u == req[s].uploads[k] IN
         /\ At(u.tmp) = <<cwd, u.tmp[2]>>
         /\ Look(u.tmp) \in {"none", u.data}
         /\ Readable(u.tmp) => At(u.tmp) \in Places /\ Look(u.tmp) = u.data
<1> DEFINE u == req[s].uploads[k]
<1>1. /\ u.tmp[1] = "." /\ u.tmp[2] \in TmpNames
      /\ u.data # "none" /\ u.data # "dir"
  BY UploadFacts
<1>2. At(u.tmp) = <<cwd, u.tmp[2]>>
  BY <1>1 DEF At
<1>3. Look(u.tmp) \in {"none", u.data}
  <2>1. CASE At(u.tmp) \in Places
    <3>1. cwd \in Dirs
      BY <2>1, <1>1, <1>2, PlaceFacts
    <3>2. files[<<cwd, u.tmp[2]>>] \in {"none", u.data}
      BY <3>1 DEF UploadsIntact
    <3> QED
      BY <3>2, <1>2, <2>1 DEF Look
  <2>2. CASE At(u.tmp) \notin Places
    BY <2>2 DEF Look
  <2> QED
    BY <2>1, <2>2
<1>4. Readable(u.tmp) => At(u.tmp) \in Places /\ Look(u.tmp) # "none"
  BY DataAssumption DEF Readable, Look
<1> QED
  BY <1>1, <1>2, <1>3, <1>4

(***************************************************************************)
(* A step that stores no upload and removes none one by one: files under   *)
(* temporary names only vanish, and a request that forgets its uploads     *)
(* says so.                                                                *)
(***************************************************************************)

Forgets == \A s \in Scripts : \/ req'[s].uploads = req[s].uploads
                              \/ req'[s].uploads = <<>> /\ Uploads(s) \subseteq lost'
Removes == \A d \in Dirs, n \in TmpNames : files'[<<d, n>>] \in {files[<<d, n>>], "none"}

Quiet == Forgets /\ Removes /\ lost \subseteq lost'

LEMMA QuietStep ==
  ASSUME UploadsInv, Quiet
  PROVE  UploadsIntact' /\ TempsAccounted'
<1>1. UploadsIntact'
  <2> SUFFICES ASSUME NEW s \in Scripts, NEW k \in DOMAIN req'[s].uploads, NEW d \in Dirs
               PROVE  files'[<<d, req'[s].uploads[k].tmp[2]>>] \in {"none", req'[s].uploads[k].data}
    BY DEF UploadsIntact
  <2>1. req'[s].uploads = req[s].uploads
    BY DEF Quiet, Forgets
  <2>2. req[s].uploads[k].tmp[2] \in TmpNames
    BY <2>1, UploadFacts DEF UploadsInv
  <2>3. files[<<d, req[s].uploads[k].tmp[2]>>] \in {"none", req[s].uploads[k].data}
    BY <2>1 DEF UploadsInv, UploadsIntact
  <2>4. files'[<<d, req[s].uploads[k].tmp[2]>>] \in {files[<<d, req[s].uploads[k].tmp[2]>>], "none"}
    BY <2>2 DEF Quiet, Removes
  <2> QED
    BY <2>1, <2>3, <2>4
<1>2. TempsAccounted'
  <2> SUFFICES ASSUME NEW n \in TmpNames, NEW d \in Dirs, files'[<<d, n>>] # "none", n \notin lost'
               PROVE  \E s \in Scripts : \E k \in DOMAIN req'[s].uploads :
                        req'[s].uploads[k].tmp[2] = n /\ req'[s].uploads[k].dir = d
    BY DEF TempsAccounted
  <2>1. files[<<d, n>>] # "none" /\ n \notin lost
    BY DEF Quiet, Removes
  <2>2. PICK s \in Scripts : \E k \in DOMAIN req[s].uploads :
          req[s].uploads[k].tmp[2] = n /\ req[s].uploads[k].dir = d
    BY <2>1 DEF UploadsInv, TempsAccounted
  <2>3. n \in Uploads(s)
    BY <2>2 DEF Uploads
  <2>4. req'[s].uploads = req[s].uploads
    BY <2>3 DEF Quiet, Forgets
  <2> QED
    BY <2>2, <2>4
<1> QED
  BY <1>1, <1>2

(***************************************************************************)
(* The start, the arrival of a request and the removal of an upload.       *)
(***************************************************************************)

LEMMA NoRequestType == NoRequest \in Requests /\ NoRequest.uploads = <<>>
<1>1. <<>> \in Seq(UploadRecords)
  OBVIOUS
<1> QED
  BY <1>1 DEF NoRequest, Requests

LEMMA InitUploads == Init => UploadsInv
<1> SUFFICES ASSUME Init PROVE UploadsInv
  OBVIOUS
<1>1. \A s \in Scripts : req[s] = NoRequest
  BY DEF Init
<1>2. Typed
  <2>1. req \in [Scripts -> Requests]
    BY NoRequestType DEF Init
  <2>2. files \in [Places -> Contents]
    BY DEF Init, Contents
  <2>3. \A f \in Places : files[f] = "dir" => f \in {HomeDir, SubDir}
    BY DEF Init
  <2>4. cwd \in Dirs \cup {"removed"} /\ made \in Nat
    BY DEF Init, Dirs
  <2>5. \A s \in Scripts : req[s].uploads = <<>>
    BY <1>1, NoRequestType
  <2> QED
    BY <2>1, <2>2, <2>3, <2>4, <2>5 DEF Typed
<1>3. UploadsIntact
  BY <1>1, NoRequestType DEF UploadsIntact
<1>4. TempsAccounted
  <2> SUFFICES ASSUME NEW n \in TmpNames, NEW d \in Dirs PROVE files[<<d, n>>] = "none"
    BY DEF TempsAccounted
  <2>1. <<d, n>> \in Places
    BY PlaceFacts DEF AllNames
  <2>2. <<d, n>> # HomeDir /\ <<d, n>> # SubDir
    BY PlaceFacts
  <2> QED
    BY <2>1, <2>2 DEF Init
<1> QED
  BY <1>2, <1>3, <1>4 DEF UploadsInv

LEMMA AcceptStep ==
  ASSUME UploadsInv, NEW s \in Scripts, Accept(s)
  PROVE  UploadsInv'
<1>1. PICK n \in 0..MaxUploads : \E names \in [1..n -> FreeTmp], data \in [1..n -> Data \cup {"empty"}] :
       /\ \A i, j \in 1..n : i # j => names[i] # names[j]
       /\ n > 0 => DirExists(cwd)
       /\ files' = [f \in Places |->
            IF \E i \in 1..n : f = <<cwd, names[i]>>
              THEN data[CHOOSE i \in 1..n : f = <<cwd, names[i]>>] ELSE files[f]]
       /\ req' = [req EXCEPT ![s] = [NoRequest EXCEPT !.pc = "init",
            !.uploads = [i \in 1..n |-> [tmp |-> <<".", names[i]>>, data |-> data[i], dir |-> cwd]]]]
  BY DEF Accept
<1>2. PICK names \in [1..n -> FreeTmp], data \in [1..n -> Data \cup {"empty"}] :
       /\ \A i, j \in 1..n : i # j => names[i] # names[j]
       /\ n > 0 => DirExists(cwd)
       /\ files' = [f \in Places |->
            IF \E i \in 1..n : f = <<cwd, names[i]>>
              THEN data[CHOOSE i \in 1..n : f = <<cwd, names[i]>>] ELSE files[f]]
       /\ req' = [req EXCEPT ![s] = [NoRequest EXCEPT !.pc = "init",
            !.uploads = [i \in 1..n |-> [tmp |-> <<".", names[i]>>, data |-> data[i], dir |-> cwd]]]]
  BY <1>1
<1> DEFINE ups == [i \in 1..n |-> [tmp |-> <<".", names[i]>>, data |-> data[i], dir |-> cwd]]
           r == [NoRequest EXCEPT !.pc = "init", !.uploads = ups]
<1>3. /\ UNCHANGED <<cwd, made, lost>>
      /\ req' = [req EXCEPT ![s] = r]
  BY <1>2 DEF Accept
<1>4. n \in Nat /\ (\A i \in 1..n : names[i] \in FreeTmp /\ names[i] \in TmpNames)
  BY BoundsAssumption DEF FreeTmp
<1>5. n > 0 => cwd \in Dirs
  BY <1>2 DEF DirExists, Dirs
<1>6. r \in Requests /\ r.uploads = ups
  <2>1. \A i \in 1..n : ups[i] \in UploadRecords
    <3> SUFFICES ASSUME NEW i \in 1..n PROVE ups[i] \in UploadRecords
      OBVIOUS
    <3>1. cwd \in Dirs
      BY <1>4, <1>5
    <3>2. <<".", names[i]>> \in {"."} \X TmpNames
      BY <1>4
    <3>3. data[i] \in Data \cup {"empty"}
      OBVIOUS
    <3> QED
      BY <3>1, <3>2, <3>3 DEF UploadRecords
  <2>2. ups \in Seq(UploadRecords)
    BY <2>1, <1>4
  <2> HIDE DEF ups
  <2> QED
    BY <2>2 DEF Requests, NoRequest
<1>7. DOMAIN ups = 1..n /\ (\A i \in 1..n : /\ ups[i].tmp[2] = names[i] /\ ups[i].data = data[i]
                                           /\ ups[i].dir = cwd)
  OBVIOUS
<1> HIDE DEF ups, r
<1>8. req'[s] = r /\ (\A t \in Scripts : t # s => req'[t] = req[t])
  BY <1>3 DEF UploadsInv, Typed
<1>9. ASSUME NEW i \in 1..n
      PROVE  /\ <<cwd, names[i]>> \in Places
             /\ files'[<<cwd, names[i]>>] = data[i]
             /\ \A d \in Dirs : d # cwd => files'[<<d, names[i]>>] = "none"
  <2>1. cwd \in Dirs
    BY <1>4, <1>5
  <2>2. \A d \in Dirs : <<d, names[i]>> \in Places /\ files[<<d, names[i]>>] = "none"
    BY <1>4, PlaceFacts DEF FreeTmp, Present, AllNames
  <2>3. \A j \in 1..n : <<cwd, names[i]>> = <<cwd, names[j]>> => j = i
    BY <1>2
  <2>4. (CHOOSE j \in 1..n : <<cwd, names[i]>> = <<cwd, names[j]>>) = i
    BY <2>3
  <2>5. files'[<<cwd, names[i]>>] = data[i]
    BY <2>1, <2>2, <2>4, <1>2
  <2>6. \A d \in Dirs : d # cwd => files'[<<d, names[i]>>] = "none"
    BY <2>2, <1>2
  <2> QED
    BY <2>1, <2>2, <2>5, <2>6
<1>10. \A f \in Places : \/ files'[f] = files[f]
                        \/ \E i \in 1..n : f = <<cwd, names[i]>> /\ files'[f] = data[i]
  <2> SUFFICES ASSUME NEW f \in Places, files'[f] # files[f]
               PROVE  \E i \in 1..n : f = <<cwd, names[i]>> /\ files'[f] = data[i]
    OBVIOUS
  <2>1. PICK i \in 1..n : f = <<cwd, names[i]>>
    BY <1>2
  <2> QED
    BY <2>1, <1>9
<1>11. Typed'
  <2>1. files' \in [Places -> Contents]
    <3>1. \A f \in Places : files'[f] \in Contents
      BY <1>10 DEF UploadsInv, Typed, Contents
    <3>2. files' = [f \in Places |-> files'[f]]
      BY <1>2
    <3> QED
      BY <3>1, <3>2
  <2>2. \A f \in Places : files'[f] = "dir" => f \in {HomeDir, SubDir}
    BY <1>10, DataAssumption DEF UploadsInv, Typed
  <2>3. req' \in [Scripts -> Requests]
    BY <1>3, <1>6 DEF UploadsInv, Typed
  <2>4. \A t \in Scripts : req'[t].pc = "idle" => req'[t].uploads = <<>>
    <3>1. r.pc = "init"
      BY DEF r, NoRequest
    <3> QED
      BY <3>1, <1>8 DEF UploadsInv, Typed
  <2> QED
    BY <2>1, <2>2, <2>3, <2>4, <1>3 DEF UploadsInv, Typed
<1>12. UploadsIntact'
  <2> SUFFICES ASSUME NEW t \in Scripts, NEW k \in DOMAIN req'[t].uploads, NEW d \in Dirs
               PROVE  files'[<<d, req'[t].uploads[k].tmp[2]>>] \in {"none", req'[t].uploads[k].data}
    BY DEF UploadsIntact
  <2>1. CASE t = s
    <3>1. k \in 1..n /\ req'[t].uploads = ups
      BY <2>1, <1>6, <1>7, <1>8
    <3>2. ups[k].tmp[2] = names[k] /\ ups[k].data = data[k]
      BY <3>1, <1>7
    <3>3. d # cwd => files'[<<d, names[k]>>] = "none"
      BY <3>1, <1>9
    <3>4. files'[<<cwd, names[k]>>] = data[k]
      BY <3>1, <1>9
    <3> QED
      BY <3>1, <3>2, <3>3, <3>4
  <2>2. CASE t # s
    <3>1. req'[t] = req[t]
      BY <2>2, <1>8
    <3> DEFINE u == req[t].uploads[k]
    <3>2. u.tmp[2] \in TmpNames /\ files[<<d, u.tmp[2]>>] \in {"none", u.data}
      BY <3>1, UploadFacts DEF UploadsInv, UploadsIntact
    <3>3. u.tmp[2] \notin FreeTmp
      BY <3>1 DEF FreeTmp, Owned, Uploads
    <3>4. <<d, u.tmp[2]>> \in Places
      BY <3>2, PlaceFacts DEF AllNames
    <3>5. files'[<<d, u.tmp[2]>>] = files[<<d, u.tmp[2]>>]
      BY <3>3, <3>4, <1>4, <1>10
    <3> QED
      BY <3>1, <3>2, <3>5
  <2> QED
    BY <2>1, <2>2
<1>13. TempsAccounted'
  <2> SUFFICES ASSUME NEW m \in TmpNames, NEW d \in Dirs, files'[<<d, m>>] # "none", m \notin lost'
               PROVE  \E t \in Scripts : \E k \in DOMAIN req'[t].uploads :
                        req'[t].uploads[k].tmp[2] = m /\ req'[t].uploads[k].dir = d
    BY DEF TempsAccounted
  <2>1. <<d, m>> \in Places
    BY PlaceFacts DEF AllNames
  <2>2. CASE \E i \in 1..n : <<d, m>> = <<cwd, names[i]>>
    <3>1. PICK i \in 1..n : d = cwd /\ m = names[i]
      BY <2>2
    <3> QED
      BY <3>1, <1>6, <1>7, <1>8
  <2>3. CASE ~(\E i \in 1..n : <<d, m>> = <<cwd, names[i]>>)
    <3>1. files[<<d, m>>] # "none" /\ m \notin lost
      BY <2>1, <2>3, <1>10, <1>3
    <3>2. PICK t \in Scripts : \E k \in DOMAIN req[t].uploads :
            req[t].uploads[k].tmp[2] = m /\ req[t].uploads[k].dir = d
      BY <3>1 DEF UploadsInv, TempsAccounted
    <3>3. t # s
      <4>1. req[s].uploads = <<>>
        BY DEF Accept, UploadsInv, Typed
      <4> QED
        BY <4>1, <3>2
    <3> QED
      BY <3>2, <3>3, <1>8
  <2> QED
    BY <2>2, <2>3
<1> QED
  BY <1>11, <1>12, <1>13 DEF UploadsInv

LEMMA CleanupStep ==
  ASSUME UploadsInv, NEW s \in Scripts, cleanupUploads(s)
  PROVE  UploadsInv'
<1> USE DEF UploadsInv
<1>1. UNCHANGED <<cwd, made>>
  BY DEF cleanupUploads
<1>2. CASE req[s].uploads = <<>>
  <2>1. req' = [req EXCEPT ![s] = NoRequest] /\ UNCHANGED <<files, lost>>
    BY <1>2 DEF cleanupUploads
  <2>2. req'[s] = NoRequest /\ (\A t \in Scripts : t # s => req'[t] = req[t])
    BY <2>1 DEF Typed
  <2>3. Typed'
    BY <2>1, <2>2, <1>1, NoRequestType DEF Typed
  <2>4. Quiet
    BY <2>1, <2>2, <1>2, NoRequestType DEF Quiet, Forgets, Removes
  <2> QED
    BY <2>3, <2>4, QuietStep
<1>3. CASE req[s].uploads # <<>>
  <2> DEFINE q == req[s].uploads
             u == Head(q)
             r == [req[s] EXCEPT !.uploads = Tail(q)]
  <2>1. q \in Seq(UploadRecords) /\ q # <<>>
    BY <1>3 DEF Typed, Requests
  <2>2. /\ 1 \in DOMAIN q /\ u = q[1] /\ Tail(q) \in Seq(UploadRecords)
        /\ \A k \in DOMAIN Tail(q) : k + 1 \in DOMAIN q /\ Tail(q)[k] = q[k + 1]
        /\ \A k \in DOMAIN q : k = 1 \/ (k - 1 \in DOMAIN Tail(q) /\ Tail(q)[k - 1] = q[k])
    <3> HIDE DEF q
    <3>1. Len(q) \in Nat /\ Len(q) > 0 /\ DOMAIN q = 1..Len(q)
      BY <2>1
    <3>2. Tail(q) \in Seq(UploadRecords) /\ Len(Tail(q)) = Len(q) - 1
      BY <2>1
    <3>3. DOMAIN Tail(q) = 1..(Len(q) - 1)
      BY <3>2
    <3>4. \A k \in 1..(Len(q) - 1) : Tail(q)[k] = q[k + 1]
      BY <2>1
    <3>5. u = q[1]
      BY <2>1
    <3> QED
      BY <3>1, <3>2, <3>3, <3>4, <3>5
  <2>3. /\ files' = IF Readable(u.tmp) THEN [files EXCEPT ![At(u.tmp)] = "none"] ELSE files
        /\ req' = [req EXCEPT ![s] = r]
        /\ lost' = IF cwd = u.dir THEN lost ELSE lost \cup {u.tmp[2]}
    BY <1>3 DEF cleanupUploads
  <2>4. r \in Requests /\ r.uploads = Tail(q) /\ r.pc = req[s].pc
    <3>1. req[s] \in Requests
      BY DEF Typed
    <3> HIDE DEF q
    <3> QED
      BY <3>1, <2>2 DEF Requests
  <2>5. /\ u.tmp[1] = "." /\ u.tmp[2] \in TmpNames /\ u.dir \in Dirs
        /\ u.data \in Data \cup {"empty"}
        /\ At(u.tmp) = <<cwd, u.tmp[2]>>
        /\ Look(u.tmp) \in {"none", u.data}
        /\ Readable(u.tmp) => At(u.tmp) \in Places
    BY <2>2, UploadFacts, TmpLook
  <2> HIDE DEF q, u, r
  <2>6. req'[s] = r /\ (\A t \in Scripts : t # s => req'[t] = req[t])
    BY <2>3 DEF Typed
  <2>7. \A f \in Places : files'[f] \in {files[f], "none"}
    BY <2>3, <2>5 DEF Typed
  <2>8. \A d \in Dirs, n \in TmpNames : files'[<<d, n>>] \in {files[<<d, n>>], "none"}
    BY <2>7, PlaceFacts DEF AllNames
  <2>9. Typed'
    <3>1. files' \in [Places -> Contents]
      BY <2>3, <2>5 DEF Typed, Contents
    <3>2. \A f \in Places : files'[f] = "dir" => f \in {HomeDir, SubDir}
      BY <2>7 DEF Typed
    <3>3. req' \in [Scripts -> Requests]
      BY <2>3, <2>4 DEF Typed
    <3>4. \A t \in Scripts : req'[t].pc = "idle" => req'[t].uploads = <<>>
      <4>1. r.pc # "idle"
        BY <2>4 DEF cleanupUploads
      <4> QED
        BY <4>1, <2>6 DEF Typed
    <3> QED
      BY <3>1, <3>2, <3>3, <3>4, <1>1 DEF Typed
  <2>10. UploadsIntact'
    <3> SUFFICES ASSUME NEW t \in Scripts, NEW k \in DOMAIN req'[t].uploads, NEW d \in Dirs
                 PROVE  files'[<<d, req'[t].uploads[k].tmp[2]>>] \in {"none", req'[t].uploads[k].data}
      BY DEF UploadsIntact
    <3>1. PICK j \in DOMAIN req[t].uploads : req'[t].uploads[k] = req[t].uploads[j]
      <4>1. CASE t = s
        <5>1. k \in DOMAIN Tail(q) /\ req'[t].uploads[k] = Tail(q)[k]
          BY <4>1, <2>4, <2>6
        <5>2. k + 1 \in DOMAIN q /\ Tail(q)[k] = q[k + 1]
          BY <5>1, <2>2
        <5> QED
          BY <4>1, <5>1, <5>2 DEF q
      <4>2. CASE t # s
        BY <4>2, <2>6
      <4> QED
        BY <4>1, <4>2
    <3>2. req[t].uploads[j].tmp[2] \in TmpNames
      BY UploadFacts
    <3>3. files[<<d, req[t].uploads[j].tmp[2]>>] \in {"none", req[t].uploads[j].data}
      BY DEF UploadsIntact
    <3> QED
      BY <3>1, <3>2, <3>3, <2>8
  <2>11. TempsAccounted'
    <3> SUFFICES ASSUME NEW m \in TmpNames, NEW d \in Dirs, files'[<<d, m>>] # "none", m \notin lost'
                 PROVE  \E t \in Scripts : \E k \in DOMAIN req'[t].uploads :
                          req'[t].uploads[k].tmp[2] = m /\ req'[t].uploads[k].dir = d
      BY DEF TempsAccounted
    <3>1. files[<<d, m>>] # "none" /\ m \notin lost
      BY <2>3, <2>8
    <3>2. PICK t \in Scripts : \E k \in DOMAIN req[t].uploads :
            req[t].uploads[k].tmp[2] = m /\ req[t].uploads[k].dir = d
      BY <3>1 DEF TempsAccounted
    <3>3. CASE t # s
      BY <3>2, <3>3, <2>6
    <3>4. CASE t = s
      <4>1. PICK k \in DOMAIN q : q[k].tmp[2] = m /\ q[k].dir = d
        BY <3>2, <3>4 DEF q
      \* The removed upload explains a file only where it was removed.
      <4>2. CASE k = 1
        <5>1. u.tmp[2] = m /\ u.dir = d
          BY <4>1, <4>2, <2>2
        <5>2. cwd = d
          BY <5>1, <2>3
        <5>3. At(u.tmp) = <<d, m>> /\ <<d, m>> \in Places
          BY <5>1, <5>2, <2>5, PlaceFacts DEF AllNames
        <5>4. Look(u.tmp) = u.data
          BY <5>3, <3>1, <2>5 DEF Look
        <5>5. Readable(u.tmp)
          BY <5>4, <2>5 DEF Readable
        <5>6. files'[<<d, m>>] = "none"
          BY <5>3, <5>5, <2>3 DEF Typed
        <5> QED
          BY <5>6
      <4>3. CASE k # 1
        <5>1. k - 1 \in DOMAIN Tail(q) /\ Tail(q)[k - 1] = q[k]
          BY <4>3, <2>2
        <5> QED
          BY <5>1, <4>1, <3>4, <2>4, <2>6
      <4> QED
        BY <4>2, <4>3
    <3> QED
      BY <3>3, <3>4
  <2> QED
    BY <2>9, <2>10, <2>11
<1> QED
  BY <1>2, <1>3

(***************************************************************************)
(* A step of a request that leaves the files alone, and a call that        *)
(* changes them.                                                           *)
(***************************************************************************)

LEMMA SendHeadType ==
  ASSUME NEW r \in Requests
  PROVE  /\ SendHead(r) \in Requests
         /\ SendHead(r).uploads = r.uploads /\ SendHead(r).pc = r.pc
  BY DEF SendHead, Requests

\* The request of s becomes r, which keeps the uploads or has none any more.
Becomes(s, r) ==
  /\ r \in Requests
  /\ r.pc = "idle" => r.uploads = <<>>
  /\ \/ r.uploads = req[s].uploads
     \/ r.uploads = <<>> /\ Uploads(s) \subseteq lost'
  /\ req' = [req EXCEPT ![s] = r]

LEMMA RequestStep ==
  ASSUME UploadsInv, NEW s \in Scripts, NEW r, Becomes(s, r),
         UNCHANGED <<files, cwd>>, lost \subseteq lost', made' \in Nat
  PROVE  UploadsInv'
<1>1. req'[s] = r /\ (\A t \in Scripts : t # s => req'[t] = req[t])
  BY DEF Becomes, UploadsInv, Typed
<1>2. Typed'
  BY <1>1 DEF Becomes, UploadsInv, Typed
<1>3. Quiet
  BY <1>1 DEF Becomes, Quiet, Forgets, Removes
<1> QED
  BY <1>2, <1>3, QuietStep DEF UploadsInv

LEMMA EndOfScript ==
  ASSUME UploadsInv, NEW s \in Scripts
  PROVE  /\ Finished(s) => (\E r : Becomes(s, r)) /\ lost \subseteq lost'
         /\ Abandoned(s) => (\E r : Becomes(s, r)) /\ lost \subseteq lost'
         /\ Failed(s) => (\E r : Becomes(s, r)) /\ lost \subseteq lost'
<1>1. req[s] \in Requests
  BY DEF UploadsInv, Typed
<1>2. Finished(s) => (\E r : Becomes(s, r)) /\ lost \subseteq lost'
  <2> DEFINE r == [SendHead(req[s]) EXCEPT !.pc = "cleanup"]
  <2>1. r \in Requests /\ r.uploads = req[s].uploads /\ r.pc # "idle"
    BY <1>1, SendHeadType DEF Requests
  <2>2. Finished(s) => req' = [req EXCEPT ![s] = r] /\ lost' = lost
    BY DEF Finished, UploadsInv, Typed
  <2> HIDE DEF r
  <2>3. Finished(s) => Becomes(s, r)
    BY <2>1, <2>2 DEF Becomes
  <2> QED
    BY <2>2, <2>3
<1>3. Abandoned(s) => (\E r : Becomes(s, r)) /\ lost \subseteq lost'
  <2>1. Abandoned(s) => Becomes(s, NoRequest)
    BY NoRequestType DEF Abandoned, Becomes
  <2> QED
    BY <2>1 DEF Abandoned
<1>4. Failed(s) => (\E r : Becomes(s, r)) /\ lost \subseteq lost'
  <2> DEFINE q == [req[s] EXCEPT !.status = "500"]
             r == [SendHead(q) EXCEPT !.pc = "cleanup"]
  <2>1. q \in Requests /\ q.uploads = req[s].uploads
    BY <1>1 DEF Requests
  <2>2. r \in Requests /\ r.uploads = req[s].uploads /\ r.pc # "idle"
    <3> HIDE DEF q
    <3> QED
      BY <2>1, SendHeadType DEF Requests
  <2>3. Failed(s) /\ ~req[s].sent => req' = [req EXCEPT ![s] = r] /\ lost' = lost
    BY DEF Failed, UploadsInv, Typed
  <2> HIDE DEF r
  <2>4. Failed(s) /\ ~req[s].sent => Becomes(s, r)
    BY <2>2, <2>3 DEF Becomes
  <2>5. Failed(s) /\ req[s].sent => Abandoned(s)
    BY DEF Failed
  <2> QED
    BY <2>3, <2>4, <2>5, <1>3
<1> QED
  BY <1>2, <1>3, <1>4

\* The files as a call may leave them: a directory only where one belongs, and
\* nothing new under a temporary name.
FilesOK(F) == /\ F \in [Places -> Contents]
              /\ \A f \in Places : F[f] = "dir" => f \in {HomeDir, SubDir}
              /\ \A d \in Dirs, n \in TmpNames : F[<<d, n>>] \in {files[<<d, n>>], "none"}

LEMMA FilesStep ==
  ASSUME UploadsInv, UNCHANGED <<req, lost>>, FilesOK(files'),
         cwd' \in Dirs \cup {"removed"}, made' \in Nat
  PROVE  UploadsInv'
<1>1. Typed'
  BY DEF UploadsInv, Typed, FilesOK
<1>2. Quiet
  BY DEF Quiet, Forgets, Removes, FilesOK
<1> QED
  BY <1>1, <1>2, QuietStep DEF UploadsInv

LEMMA PutFile ==
  ASSUME NEW F, FilesOK(F), NEW f \in Places, NEW c \in Contents,
         c = "dir" => f = SubDir, f[2] \in TmpNames => c = "none"
  PROVE  /\ FilesOK([F EXCEPT ![f] = c])
         /\ [F EXCEPT ![f] = c][f] = c
         /\ \A g \in Places : g # f => [F EXCEPT ![f] = c][g] = F[g]
<1> DEFINE G == [F EXCEPT ![f] = c]
<1>1. /\ G \in [Places -> Contents]
      /\ G[f] = c /\ \A g \in Places : g # f => G[g] = F[g]
  BY DEF FilesOK
<1> HIDE DEF G
<1>2. \A g \in Places : G[g] = "dir" => g \in {HomeDir, SubDir}
  BY <1>1 DEF FilesOK
<1>3. ASSUME NEW d \in Dirs, NEW n \in TmpNames PROVE G[<<d, n>>] \in {files[<<d, n>>], "none"}
  <2>1. <<d, n>> \in Places
    BY PlaceFacts DEF AllNames
  <2> QED
    BY <2>1, <1>1 DEF FilesOK
<1>4. FilesOK(G)
  BY <1>1, <1>2, <1>3 DEF FilesOK
<1> QED
  BY <1>1, <1>4 DEF G

LEMMA FilesNow == ASSUME UploadsInv PROVE FilesOK(files)
  BY DEF UploadsInv, Typed, FilesOK

(***************************************************************************)
(* The calls.                                                              *)
(***************************************************************************)

Delivered == made' > made /\ last'.ok /\ last'.idx > 0 =>
               \A s \in last'.by : /\ last'.idx \in DOMAIN req[s].uploads
                                   /\ files'[last'.to] = req[s].uploads[last'.idx].data

Kept == made' > made /\ ~last'.ok =>
          \A f \in Places : files'[f] # files[f] => f = last'.to /\ files'[f] = "empty"

Fine == UploadsInv' /\ Delivered /\ Kept

\* What a call gets: values, or the names of uploads before a value.
LEMMA ArgFacts ==
  ASSUME UploadsInv, NEW s \in Scripts
  PROVE  /\ \A a \in Args1 : Len(a) >= 1 => a[1] \in Values
         /\ \A a \in Args2 \cup (server_uploads(s) \X Values) :
              Len(a) >= 2 => /\ a[2] \in Values
                             /\ a[1].t = "int" \/ a[1].i = 0
<1>1. ASSUME NEW a \in Args1, Len(a) >= 1 PROVE a[1] \in Values
  <2>1. a = <<>> \/ \E v \in Values : a = <<v>>
    BY DEF Args1
  <2>2. a # <<>>
    BY <1>1
  <2>3. PICK v \in Values : a = <<v>>
    BY <2>1, <2>2
  <2> QED
    BY <2>3
<1>2. ASSUME NEW a \in Args2 \cup (server_uploads(s) \X Values), Len(a) >= 2
      PROVE  a[2] \in Values /\ (a[1].t = "int" \/ a[1].i = 0)
  <2>1. a = <<>> \/ a \in Values \X Values \/ a \in server_uploads(s) \X Values
    BY DEF Args2
  <2>2. a # <<>>
    BY <1>2
  <2>3. a[2] \in Values /\ (a[1] \in Values \/ a[1] \in server_uploads(s))
    BY <2>1, <2>2
  <2>4. a[1] \in server_uploads(s) => a[1].i = 0
    BY DEF server_uploads, Str
  <2> QED
    BY <2>3, <2>4, ValueFacts
<1> QED
  BY <1>1, <1>2

LEMMA CallFacts ==
  ASSUME UploadsInv, NEW ok, NEW typed, NEW by, NEW idx, NEW to, Call(ok, typed, by, idx, to)
  PROVE  /\ made' \in Nat /\ made' = made + 1 /\ made' > made
         /\ last'.ok = ok /\ last'.by = by /\ last'.idx = idx /\ last'.to = to
<1>1. made \in Nat
  BY DEF UploadsInv, Typed
<1> QED
  BY <1>1 DEF Call

\* A call that says nothing about an upload keeps its word when it has failed
\* only without touching a file.
LEMMA ResultFine ==
  ASSUME UploadsInv, NEW ok \in BOOLEAN, Result(ok), FilesOK(files'),
         cwd' \in Dirs \cup {"removed"}, ~ok => files' = files
  PROVE  Fine
<1>1. made' \in Nat /\ last'.ok = ok /\ last'.idx = 0
  BY CallFacts DEF Result
<1>2. UploadsInv'
  BY <1>1, FilesStep DEF Result
<1> QED
  BY <1>1, <1>2 DEF Fine, Delivered, Kept

LEMMA AnsweredFine ==
  ASSUME UploadsInv, NEW ok \in BOOLEAN, Answered(ok)
  PROVE  Fine
<1>1. cwd' \in Dirs \cup {"removed"} /\ FilesOK(files') /\ files' = files /\ Result(ok)
  BY FilesNow DEF Answered, UploadsInv, Typed, FilesOK
<1> QED
  BY <1>1, ResultFine

LEMMA AtFacts ==
  /\ \A p : At(p)[2] = p[2]
  /\ \A p : Look(p) # "none" => At(p) \in Places
  /\ \A p : Readable(p) => At(p) \in Places /\ Look(p) = files[At(p)] /\ Look(p) # "none" /\ Look(p) # "dir"
<1>1. \A p : Look(p) # "none" => At(p) \in Places
  BY DEF Look
<1>2. \A p : Readable(p) => Look(p) # "none" /\ Look(p) # "dir"
  BY DataAssumption DEF Readable
<1>3. \A p : At(p) \in Places => Look(p) = files[At(p)]
  BY DEF Look
<1> QED
  BY <1>1, <1>2, <1>3 DEF At

LEMMA UnlinkFine ==
  ASSUME UploadsInv, NEW s \in Scripts, NEW a \in Args1, lua_fs_unlink(s, a)
  PROVE  Fine
<1> DEFINE ok == HasString(a) /\ Readable(a[1].p)
           p == a[1].p
<1>1. /\ ok \in BOOLEAN /\ Result(ok) /\ cwd' = cwd
      /\ files' = IF ok THEN [files EXCEPT ![At(p)] = "none"] ELSE files
  BY DEF lua_fs_unlink, HasString, IsString
<1>2. ok => At(p) \in Places
  BY AtFacts
<1> HIDE DEF ok, p
<1>3. FilesOK(files')
  <2>1. "none" \in Contents
    BY DEF Contents
  <2> QED
    BY <2>1, <1>1, <1>2, FilesNow, PutFile
<1>4. cwd' \in Dirs \cup {"removed"}
  BY <1>1 DEF UploadsInv, Typed
<1> QED
  BY <1>1, <1>3, <1>4, ResultFine

LEMMA MkdirFine ==
  ASSUME UploadsInv, NEW s \in Scripts, NEW a, lua_fs_mkdir(s, a)
  PROVE  Fine
<1> DEFINE ok == /\ Len(a) >= 2 /\ IsString(a[1]) /\ IsInteger(a[2])
                 /\ Look(a[1].p) = "none" /\ At(a[1].p) = SubDir
<1>1. /\ ok \in BOOLEAN /\ Result(ok) /\ cwd' = cwd
      /\ files' = IF ok THEN [files EXCEPT ![SubDir] = "dir"] ELSE files
  BY DEF lua_fs_mkdir
<1> HIDE DEF ok
<1>2. FilesOK(files')
  <2>1. "dir" \in Contents
    BY DEF Contents
  <2> QED
    BY <2>1, <1>1, FilesNow, PutFile, PlaceFacts
<1>3. cwd' \in Dirs \cup {"removed"}
  BY <1>1 DEF UploadsInv, Typed
<1> QED
  BY <1>1, <1>2, <1>3, ResultFine

LEMMA RmdirFine ==
  ASSUME UploadsInv, NEW s \in Scripts, NEW a, lua_fs_rmdir(s, a)
  PROVE  Fine
<1> DEFINE ok == /\ HasString(a) /\ Look(a[1].p) = "dir" /\ At(a[1].p) = SubDir /\ IsEmpty("sub")
<1>1. /\ ok \in BOOLEAN /\ Result(ok)
      /\ cwd' = IF ok /\ cwd = "sub" THEN "removed" ELSE cwd
      /\ files' = IF ok THEN [files EXCEPT ![SubDir] = "none"] ELSE files
  BY DEF lua_fs_rmdir
<1> HIDE DEF ok
<1>2. FilesOK(files')
  <2>1. "none" \in Contents
    BY DEF Contents
  <2> QED
    BY <2>1, <1>1, FilesNow, PutFile, PlaceFacts
<1>3. cwd' \in Dirs \cup {"removed"}
  BY <1>1 DEF UploadsInv, Typed
<1> QED
  BY <1>1, <1>2, <1>3, ResultFine

LEMMA ChdirFine ==
  ASSUME UploadsInv, NEW s \in Scripts, NEW a, lua_fs_chdir(s, a)
  PROVE  Fine
<1> DEFINE ok == HasString(a) /\ cwd # "removed" /\ Look(a[1].p) = "dir"
           p == a[1].p
<1>1. /\ ok \in BOOLEAN /\ Result(ok) /\ files' = files
      /\ cwd' = IF ok THEN At(p)[2] ELSE cwd
  BY DEF lua_fs_chdir
<1>2. ok => At(p) \in {HomeDir, SubDir}
  <2>1. ok => At(p) \in Places /\ files[At(p)] = "dir"
    BY DEF Look
  <2> QED
    BY <2>1 DEF UploadsInv, Typed
<1>3. HomeDir[2] \in Dirs /\ SubDir[2] \in Dirs
  BY DEF HomeDir, SubDir, Dirs
<1> HIDE DEF ok, p
<1>4. cwd' \in Dirs \cup {"removed"}
  BY <1>1, <1>2, <1>3 DEF UploadsInv, Typed
<1>5. FilesOK(files')
  BY <1>1, FilesNow DEF FilesOK
<1> QED
  BY <1>1, <1>4, <1>5, ResultFine

\* The upload a call names is at its source, or the source is no upload.
Source(s, from, idx) ==
  idx > 0 => idx \in DOMAIN req[s].uploads /\ Look(from) = req[s].uploads[idx].data

\* A call that stores something at "to" and is true to its word.
LEMMA StoredFine ==
  ASSUME UploadsInv, NEW s \in Scripts, NEW ok \in BOOLEAN, NEW idx, NEW to,
         Stored(s, ok, idx, to), cwd' = cwd, FilesOK(files'),
         ok /\ idx > 0 => /\ idx \in DOMAIN req[s].uploads
                          /\ files'[At(to)] = req[s].uploads[idx].data,
         ~ok => \A f \in Places : files'[f] # files[f] => f = At(to) /\ files'[f] = "empty"
  PROVE  Fine
<1>1. /\ made' \in Nat
      /\ last'.ok = ok /\ last'.by = {s} /\ last'.idx = idx /\ last'.to = At(to)
  BY CallFacts DEF Stored
<1>2. UNCHANGED <<req, lost>> /\ cwd' \in Dirs \cup {"removed"}
  BY DEF Stored, UploadsInv, Typed
<1>3. UploadsInv'
  BY <1>1, <1>2, FilesStep
<1>4. Delivered
  BY <1>1 DEF Delivered
<1>5. Kept
  BY <1>1 DEF Kept
<1> QED
  BY <1>3, <1>4, <1>5 DEF Fine

LEMMA CopyFine ==
  ASSUME UploadsInv, NEW s \in Scripts, NEW from, NEW to, NEW idx,
         Readable(from), Source(s, from, idx), to[2] \notin TmpNames,
         CopyTo(s, from, to, idx)
  PROVE  Fine
<1> DEFINE ok == CanCreate(to) /\ At(to) # At(from) /\ Look(from) # "empty"
           c == IF ok THEN Look(from) ELSE "empty"
<1>1. /\ ok \in BOOLEAN /\ Stored(s, ok, idx, to) /\ cwd' = cwd
      /\ files' = IF CanCreate(to) THEN [files EXCEPT ![At(to)] = c] ELSE files
  BY DEF CopyTo
<1>2. c \in Contents /\ c # "dir"
  BY AtFacts DEF Readable, Contents
<1>3. CanCreate(to) => At(to) \in Places /\ At(to)[2] \notin TmpNames
  BY AtFacts DEF CanCreate
<1>4. ok => CanCreate(to) /\ c = Look(from)
  OBVIOUS
<1>5. ~ok => c = "empty"
  OBVIOUS
<1> HIDE DEF ok, c
<1>6. CASE CanCreate(to)
  <2>1. /\ FilesOK(files') /\ files'[At(to)] = c
        /\ \A g \in Places : g # At(to) => files'[g] = files[g]
    <3> DEFINE t == At(to)
    <3>1. t \in Places /\ t[2] \notin TmpNames
      BY <1>3, <1>6
    <3>2. files' = [files EXCEPT ![t] = c]
      BY <1>1, <1>6
    <3>3. FilesOK(files)
      BY FilesNow
    <3> HIDE DEF t
    <3>4. /\ FilesOK([files EXCEPT ![t] = c]) /\ [files EXCEPT ![t] = c][t] = c
          /\ \A g \in Places : g # t => [files EXCEPT ![t] = c][g] = files[g]
      BY <3>1, <3>3, <1>2, PutFile
    <3> QED
      BY <3>2, <3>4 DEF t
  <2>2. ok /\ idx > 0 => /\ idx \in DOMAIN req[s].uploads
                         /\ files'[At(to)] = req[s].uploads[idx].data
    BY <2>1, <1>4 DEF Source
  <2>3. ~ok => \A f \in Places : files'[f] # files[f] => f = At(to) /\ files'[f] = "empty"
    BY <2>1, <1>5
  <2> QED
    BY <2>1, <2>2, <2>3, <1>1, StoredFine
<1>7. CASE ~CanCreate(to)
  <2>1. files' = files /\ ~ok
    BY <1>1, <1>4, <1>7
  <2>2. FilesOK(files')
    BY <2>1, FilesNow DEF FilesOK
  <2> QED
    BY <2>1, <2>2, <1>1, StoredFine
<1> QED
  BY <1>6, <1>7

LEMMA MoveFine ==
  ASSUME UploadsInv, NEW s \in Scripts, NEW from, NEW to, NEW idx,
         Readable(from) => Source(s, from, idx), to[2] \notin TmpNames,
         Stored(s, Readable(from) /\ CanCreate(to), idx, to), cwd' = cwd,
         files' = IF Readable(from) /\ CanCreate(to)
                    THEN [[files EXCEPT ![At(from)] = "none"] EXCEPT ![At(to)] = files[At(from)]]
                    ELSE files
  PROVE  Fine
<1> DEFINE ok == Readable(from) /\ CanCreate(to)
           F == [files EXCEPT ![At(from)] = "none"]
<1>1. ok \in BOOLEAN /\ Stored(s, ok, idx, to)
  BY DEF Readable, CanCreate
<1>2. CASE ok
  <2>1. At(from) \in Places /\ At(to) \in Places /\ At(to)[2] \notin TmpNames
    BY <1>2, AtFacts DEF CanCreate
  <2>2. /\ files[At(from)] = Look(from) /\ files[At(from)] # "dir"
        /\ files[At(from)] \in Contents /\ "none" \in Contents
    BY <1>2, AtFacts DEF Readable, Contents
  <2>3. FilesOK(F)
    BY <2>1, <2>2, FilesNow, PutFile
  <2>4. files' = [F EXCEPT ![At(to)] = files[At(from)]]
    BY <1>2
  <2> HIDE DEF F
  <2>5. FilesOK(files') /\ files'[At(to)] = files[At(from)]
    <3> DEFINE t == At(to)
               c == files[At(from)]
    <3>1. t \in Places /\ t[2] \notin TmpNames /\ c \in Contents /\ c # "dir"
      BY <2>1, <2>2
    <3>2. files' = [F EXCEPT ![t] = c]
      BY <2>4
    <3> HIDE DEF t, c
    <3>3. FilesOK([F EXCEPT ![t] = c]) /\ [F EXCEPT ![t] = c][t] = c
      BY <3>1, <2>3, PutFile
    <3> QED
      BY <3>2, <3>3 DEF t, c
  <2>6. idx > 0 => /\ idx \in DOMAIN req[s].uploads
                   /\ files'[At(to)] = req[s].uploads[idx].data
    BY <2>2, <2>5, <1>2 DEF Source
  <2> HIDE DEF ok
  <2> QED
    BY <2>5, <2>6, <1>1, <1>2, StoredFine
<1>3. CASE ~ok
  <2>1. files' = files
    BY <1>3
  <2>2. FilesOK(files')
    BY <2>1, FilesNow DEF FilesOK
  <2> HIDE DEF ok
  <2> QED
    BY <2>1, <2>2, <1>1, <1>3, StoredFine
<1> QED
  BY <1>2, <1>3

\* A string names no upload; an index names one whose file is there as it came.
LEMMA UploadSource ==
  ASSUME UploadsInv, NEW s \in Scripts, NEW v, v.i \in DOMAIN req[s].uploads,
         Readable(Upload(s, v).tmp)
  PROVE  Source(s, Upload(s, v).tmp, v.i)
BY TmpLook DEF UploadsInv, Source, Upload

LEMMA DiesFine ==
  ASSUME UploadsInv, Dies(FALSE)
  PROVE  Fine
<1>1. made' \in Nat /\ last'.idx = 0 /\ UNCHANGED <<req, lost, cwd, files>>
  BY CallFacts DEF Dies
<1>2. FilesOK(files') /\ cwd' \in Dirs \cup {"removed"}
  BY <1>1, FilesNow DEF FilesOK, UploadsInv, Typed
<1>3. UploadsInv'
  BY <1>1, <1>2, FilesStep
<1> QED
  BY <1>1, <1>3 DEF Fine, Delivered, Kept

LEMMA ArgLen ==
  ASSUME NEW s, NEW a \in Args2 \cup (server_uploads(s) \X Values)
  PROVE  Len(a) < 2 \/ Len(a) >= 2
<1>1. a = <<>> \/ a \in Values \X Values \/ a \in server_uploads(s) \X Values
  BY DEF Args2
<1>2. a # <<>> => Len(a) = 2
  BY <1>1
<1> QED
  BY <1>2

LEMMA CopyfileFine ==
  ASSUME UploadsInv, NEW s \in Scripts, NEW a \in Args2 \cup (server_uploads(s) \X Values),
         lua_fs_copyfile(s, a)
  PROVE  Fine
<1>1. CASE Len(a) < 2 \/ ~IsString(a[1]) \/ ~Readable(a[1].p)
  BY <1>1, AnsweredFine DEF lua_fs_copyfile, Rejected
<1>2. CASE ~(Len(a) < 2 \/ ~IsString(a[1]) \/ ~Readable(a[1].p)) /\ ~IsString(a[2])
  BY <1>2, DiesFine DEF lua_fs_copyfile
<1>3. CASE ~(Len(a) < 2 \/ ~IsString(a[1]) \/ ~Readable(a[1].p)) /\ IsString(a[2])
  <2>1. CopyTo(s, a[1].p, a[2].p, 0) /\ Readable(a[1].p)
    BY <1>3 DEF lua_fs_copyfile
  <2>2. Len(a) >= 2
    BY <1>3, ArgLen
  <2>3. a[2].p[2] \notin TmpNames
    BY <2>2, ArgFacts, ValueFacts
  <2>4. Source(s, a[1].p, 0)
    BY DEF Source
  <2> QED
    BY <2>1, <2>3, <2>4, CopyFine
<1> QED
  BY <1>1, <1>2, <1>3

LEMMA MvfileFine ==
  ASSUME UploadsInv, NEW s \in Scripts, NEW a \in Args2 \cup (server_uploads(s) \X Values),
         lua_fs_mvfile(s, a)
  PROVE  Fine
<1> DEFINE bad == Len(a) < 2 \/ ~IsString(a[1]) \/ (IsInteger(a[1]) /\ ~HasUpload(s, a[1]))
<1>1. CASE bad
  BY <1>1, AnsweredFine DEF lua_fs_mvfile, Rejected
<1>2. CASE ~bad /\ ~IsString(a[2])
  BY <1>2, DiesFine DEF lua_fs_mvfile
<1>3. CASE ~bad /\ IsString(a[2])
  <2> DEFINE from == SourceOf(s, a[1])
             to == a[2].p
  <2>1. /\ Stored(s, Readable(from) /\ CanCreate(to), a[1].i, to)
        /\ files' = IF Readable(from) /\ CanCreate(to)
                      THEN [[files EXCEPT ![At(from)] = "none"] EXCEPT ![At(to)] = files[At(from)]]
                      ELSE files
        /\ cwd' = cwd
    BY <1>3 DEF lua_fs_mvfile
  <2>2. Len(a) >= 2
    BY <1>3, ArgLen
  <2>3. to[2] \notin TmpNames /\ (a[1].t = "int" \/ a[1].i = 0)
    BY <2>2, ArgFacts, ValueFacts
  <2>4. Readable(from) => Source(s, from, a[1].i)
    <3>1. CASE IsInteger(a[1])
      BY <3>1, <1>3, UploadSource DEF SourceOf, HasUpload
    <3>2. CASE ~IsInteger(a[1])
      BY <3>2, <2>3 DEF Source, IsInteger
    <3> QED
      BY <3>1, <3>2
  <2> HIDE DEF from, to
  <2> QED
    BY <2>1, <2>3, <2>4, MoveFine
<1> QED
  BY <1>1, <1>2, <1>3

LEMMA CopytmpfileFine ==
  ASSUME UploadsInv, NEW s \in Scripts, NEW a \in Args2 \cup (server_uploads(s) \X Values),
         lua_copytmpfile(s, a)
  PROVE  Fine
<1> DEFINE bad == Len(a) < 2 \/ ~IsInteger(a[1]) \/ ~HasUpload(s, a[1])
                    \/ ~Readable(Upload(s, a[1]).tmp)
<1>1. CASE bad \/ ~IsString(a[2])
  BY <1>1, AnsweredFine DEF lua_copytmpfile, Rejected
<1>2. CASE ~bad /\ IsString(a[2])
  <2>1. CopyTo(s, Upload(s, a[1]).tmp, a[2].p, a[1].i) /\ Readable(Upload(s, a[1]).tmp)
    BY <1>2 DEF lua_copytmpfile
  <2>2. Len(a) >= 2
    BY <1>2, ArgLen
  <2>3. a[2].p[2] \notin TmpNames
    BY <2>2, ArgFacts, ValueFacts
  <2>4. Source(s, Upload(s, a[1]).tmp, a[1].i)
    BY <1>2, UploadSource DEF HasUpload
  <2> QED
    BY <2>1, <2>3, <2>4, CopyFine
<1> QED
  BY <1>1, <1>2

LEMMA ConnectionFine ==
  ASSUME UploadsInv, NEW s \in Scripts, NEW r \in Requests,
         r.uploads = req[s].uploads, r.pc # "idle", Connection(s, r)
  PROVE  Fine
<1>1. made' \in Nat /\ last'.ok = TRUE /\ last'.idx = 0
  BY CallFacts DEF Connection
<1>2. Becomes(s, r) /\ UNCHANGED <<files, cwd>> /\ lost' = lost
  BY DEF Connection, Becomes
<1>3. UploadsInv'
  BY <1>1, <1>2, RequestStep
<1> QED
  BY <1>1, <1>3 DEF Fine, Delivered, Kept

LEMMA ThrowsFine ==
  ASSUME UploadsInv, NEW s \in Scripts, Throws(s)
  PROVE  Fine
<1>1. made' \in Nat /\ last'.idx = 0 /\ UNCHANGED <<files, cwd>>
  BY CallFacts DEF Throws
<1>2. PICK r : Becomes(s, r)
  BY EndOfScript DEF Throws
<1>3. lost \subseteq lost'
  BY EndOfScript DEF Throws
<1>4. UploadsInv'
  BY <1>1, <1>2, <1>3, RequestStep
<1> QED
  BY <1>1, <1>4 DEF Fine, Delivered, Kept

LEMMA HeaderFine ==
  ASSUME UploadsInv, NEW s \in Scripts, req[s].pc = "run", NEW h \in Heads, header(s, h)
  PROVE  Fine
<1>1. CASE req[s].sent
  BY <1>1, ThrowsFine DEF header
<1>2. CASE ~req[s].sent
  <2> DEFINE r == [req[s] EXCEPT !.set[h] = made + 1, !.took[h] = made + 1]
  <2>1. r \in Requests /\ r.uploads = req[s].uploads /\ r.pc = "run"
    <3> DEFINE f == [req[s].set EXCEPT ![h] = made + 1]
               g == [req[s].took EXCEPT ![h] = made + 1]
    <3>1. req[s] \in Requests /\ made \in Nat
      BY DEF UploadsInv, Typed
    <3>2. f \in [Heads -> Nat] /\ g \in [Heads -> Nat]
      BY <3>1 DEF Requests
    <3>3. r = [req[s] EXCEPT !.set = f, !.took = g]
      BY <3>1 DEF Requests
    <3> HIDE DEF f, g
    <3> QED
      BY <3>1, <3>2, <3>3 DEF Requests
  <2>2. Connection(s, r)
    BY <1>2 DEF header
  <2> HIDE DEF r
  <2> QED
    BY <2>1, <2>2, ConnectionFine
<1> QED
  BY <1>1, <1>2

\* The calls that change the connection, or nothing at all.
LEMMA ConnectionCallsFine ==
  ASSUME UploadsInv, NEW s \in Scripts, req[s].pc = "run", NEW a,
         \/ lua_setbuffer(s, a) \/ lua_print(s, a) \/ lua_send_status(s, a)
         \/ lua_exitserver(s, a) \/ lua_send_header(s, a) \/ lua_send_cookie(s, a)
  PROVE  Fine
<1>1. req[s] \in Requests
  BY DEF UploadsInv, Typed
<1>2. CASE lua_setbuffer(s, a)
  <2> DEFINE r == [req[s] EXCEPT !.buffered = TRUE]
  <2>1. r \in Requests /\ r.uploads = req[s].uploads /\ r.pc = "run"
    BY <1>1 DEF Requests
  <2>2. Rejected \/ Throws(s) \/ Connection(s, r)
    BY <1>2 DEF lua_setbuffer
  <2> HIDE DEF r
  <2> QED
    BY <2>1, <2>2, AnsweredFine, ThrowsFine, ConnectionFine DEF Rejected
<1>3. CASE lua_print(s, a)
  <2> DEFINE out == ~req[s].buffered /\ \E k \in DOMAIN a : IsString(a[k])
             r == IF out THEN SendHead(req[s]) ELSE req[s]
             g == [req[s] EXCEPT !.pc = "cleanup", !.gone = TRUE]
  <2>1. r \in Requests /\ r.uploads = req[s].uploads /\ r.pc = "run"
    BY <1>1, SendHeadType
  <2>2. g \in Requests /\ g.uploads = req[s].uploads /\ g.pc # "idle"
    BY <1>1 DEF Requests
  <2>3. Connection(s, r) \/ Connection(s, g)
    BY <1>3 DEF lua_print
  <2> HIDE DEF r, g
  <2> QED
    BY <2>1, <2>2, <2>3, ConnectionFine
<1>4. CASE lua_send_status(s, a)
  <2> DEFINE r == [req[s] EXCEPT !.status = IF Len(a) = 1 THEN "given" ELSE "200"]
  <2>1. r \in Requests /\ r.uploads = req[s].uploads /\ r.pc = "run"
    BY <1>1 DEF Requests
  <2>2. Connection(s, r)
    BY <1>4 DEF lua_send_status
  <2> HIDE DEF r
  <2> QED
    BY <2>1, <2>2, ConnectionFine
<1>5. CASE lua_exitserver(s, a)
  <2>1. made' \in Nat /\ last'.ok = TRUE /\ last'.idx = 0 /\ UNCHANGED <<req, lost, cwd, files>>
    BY <1>5, CallFacts DEF lua_exitserver
  <2>2. FilesOK(files') /\ cwd' \in Dirs \cup {"removed"}
    BY <2>1, FilesNow DEF FilesOK, UploadsInv, Typed
  <2>3. UploadsInv'
    BY <2>1, <2>2, FilesStep
  <2> QED
    BY <2>1, <2>3 DEF Fine, Delivered, Kept
<1>6. CASE lua_send_header(s, a)
  <2>1. Rejected \/ Dies(FALSE) \/ header(s, "X-A")
    BY <1>6 DEF lua_send_header
  <2> QED
    BY <2>1, AnsweredFine, DiesFine, HeaderFine DEF Rejected, Heads
<1>7. CASE lua_send_cookie(s, a)
  <2>1. Rejected \/ Dies(FALSE) \/ header(s, "Set-Cookie")
    BY <1>7 DEF lua_send_cookie
  <2> QED
    BY <2>1, AnsweredFine, DiesFine, HeaderFine DEF Rejected, Heads
<1> QED
  BY <1>2, <1>3, <1>4, <1>5, <1>6, <1>7

\* The calls that only look.
LEMMA LookingCallsFine ==
  ASSUME UploadsInv, NEW s \in Scripts, NEW a,
         \/ lua_fs_ftype(s, a) \/ lua_fs_modtime(s, a) \/ lua_fs_readdir(s, a)
         \/ lua_fs_is_readable(s, a) \/ lua_fs_is_writeable(s, a) \/ lua_fs_is_executable(s, a)
         \/ lua_fs_exists(s, a) \/ lua_fs_getcwd(s, a)
  PROVE  Fine
<1>1. \E ok \in BOOLEAN : Answered(ok)
  BY DEF lua_fs_ftype, lua_fs_modtime, lua_fs_readdir, lua_fs_is_readable, lua_fs_is_writeable,
         lua_fs_is_executable, lua_fs_exists, lua_fs_getcwd, HasString, IsString
<1> QED
  BY <1>1, AnsweredFine

LEMMA RunFine ==
  ASSUME UploadsInv, NEW s \in Scripts, Run(s)
  PROVE  Fine
<1>1. req[s].pc = "run" /\ createGlobals(s)
  BY DEF Run
<1>2. CASE \E a \in Args1 : \/ fs_methods(s, a) \/ lua_setbuffer(s, a) \/ lua_print(s, a)
                            \/ lua_send_status(s, a) \/ lua_exitserver(s, a)
  <2>1. PICK a \in Args1 : \/ fs_methods(s, a) \/ lua_setbuffer(s, a) \/ lua_print(s, a)
                           \/ lua_send_status(s, a) \/ lua_exitserver(s, a)
    BY <1>2
  <2>2. CASE fs_methods(s, a)
    BY <2>2, LookingCallsFine, UnlinkFine, RmdirFine, ChdirFine DEF fs_methods
  <2>3. CASE \/ lua_setbuffer(s, a) \/ lua_print(s, a)
             \/ lua_send_status(s, a) \/ lua_exitserver(s, a)
    BY <2>3, <1>1, ConnectionCallsFine
  <2> QED
    BY <2>1, <2>2, <2>3
<1>3. CASE \E a \in Args2 \cup (server_uploads(s) \X Values) :
              \/ fs_methods2(s, a) \/ lua_copytmpfile(s, a)
              \/ lua_send_header(s, a) \/ lua_send_cookie(s, a)
  <2>1. PICK a \in Args2 \cup (server_uploads(s) \X Values) :
              \/ fs_methods2(s, a) \/ lua_copytmpfile(s, a)
              \/ lua_send_header(s, a) \/ lua_send_cookie(s, a)
    BY <1>3
  <2>2. CASE fs_methods2(s, a)
    BY <2>2, MkdirFine, CopyfileFine, MvfileFine DEF fs_methods2
  <2>3. CASE lua_copytmpfile(s, a)
    BY <2>3, CopytmpfileFine
  <2>4. CASE lua_send_header(s, a) \/ lua_send_cookie(s, a)
    BY <2>4, <1>1, ConnectionCallsFine
  <2> QED
    BY <2>1, <2>2, <2>3, <2>4
<1> QED
  BY <1>1, <1>2, <1>3 DEF createGlobals

(***************************************************************************)
(* The theorems.                                                           *)
(***************************************************************************)

\* A step that is no call leaves the count of the calls alone.
LEMMA NextFine == UploadsInv /\ [Next]_vars => Fine
<1> SUFFICES ASSUME UploadsInv, [Next]_vars PROVE Fine
  OBVIOUS
<1>1. made \in Nat /\ ~(made > made)
  BY DEF UploadsInv, Typed
<1>2. CASE UNCHANGED vars
  <2>1. UploadsInv'
    BY <1>2 DEF vars, UploadsInv, Typed, UploadsIntact, TempsAccounted
  <2> QED
    BY <2>1, <1>1, <1>2 DEF vars, Fine, Delivered, Kept
<1>3. ASSUME NEW s \in Scripts, Accept(s) PROVE Fine
  <2>1. made' = made
    BY <1>3 DEF Accept
  <2> QED
    BY <2>1, <1>1, <1>3, AcceptStep DEF Fine, Delivered, Kept
<1>4. ASSUME NEW s \in Scripts, cleanupUploads(s) PROVE Fine
  <2>1. made' = made
    BY <1>4 DEF cleanupUploads
  <2> QED
    BY <2>1, <1>1, <1>4, CleanupStep DEF Fine, Delivered, Kept
<1>5. ASSUME NEW s \in Scripts, executeChunk(s) \/ LuaServer(s) PROVE Fine
  <2>1. made' = made /\ UNCHANGED <<files, cwd>>
    BY <1>5 DEF executeChunk, LuaServer
  <2>2. (\E r : Becomes(s, r)) /\ lost \subseteq lost'
    <3>1. CASE executeChunk(s)
      BY <3>1, EndOfScript DEF executeChunk
    <3>2. CASE LuaServer(s)
      <4> DEFINE r == [req[s] EXCEPT !.pc = "run"]
      <4>1. r \in Requests /\ r.uploads = req[s].uploads /\ r.pc = "run"
        BY DEF UploadsInv, Typed, Requests
      <4>2. (req' = [req EXCEPT ![s] = r] /\ lost' = lost) \/ Abandoned(s)
        BY <3>2 DEF LuaServer
      <4> HIDE DEF r
      <4>3. req' = [req EXCEPT ![s] = r] => Becomes(s, r)
        BY <4>1 DEF Becomes
      <4> QED
        BY <4>2, <4>3, EndOfScript
    <3> QED
      BY <1>5, <3>1, <3>2
  <2>3. UploadsInv'
    BY <2>1, <2>2, <1>1, RequestStep
  <2> QED
    BY <2>1, <2>3, <1>1 DEF Fine, Delivered, Kept
<1>6. ASSUME NEW s \in Scripts, Run(s) PROVE Fine
  BY <1>6, RunFine
<1> QED
  BY <1>2, <1>3, <1>4, <1>5, <1>6 DEF Next

\* The inductive invariant: a file under a temporary name is an upload as it
\* came, and the request that will remove it knows where it lies.
THEOREM UploadsInvariance == Spec => []UploadsInv
<1>1. UploadsInv /\ [Next]_vars => UploadsInv'
  BY NextFine DEF Fine
<1> QED
  BY InitUploads, <1>1, PTL DEF Spec

\* No temporary file outlives its request but after a chdir during the request
\* or an Error that send_error could not answer, whatever the scripts of the
\* other requests do with their files and with the working directory.
THEOREM TempsCorrect == Spec => []NoTempLeft
<1>1. UploadsInv => NoTempLeft
  BY DEF UploadsInv, TempsAccounted, NoTempLeft, Present, Owned, Uploads
<1> QED
  BY <1>1, UploadsInvariance, PTL

\* copyTmpfile and moveFile that report success have delivered the very upload
\* that was asked for; a call that reports failure has changed no file, but for
\* the destination a copy has emptied.
THEOREM FilesCorrect == Spec => FilesAsReported
<1>1. UploadsInv /\ [Next]_vars =>
        [made' > made /\ last'.ok /\ last'.idx > 0 =>
           \A s \in last'.by : /\ last'.idx \in DOMAIN req[s].uploads
                               /\ files'[last'.to] = req[s].uploads[last'.idx].data]_vars
  BY NextFine DEF Fine, Delivered
<1>2. UploadsInv /\ [Next]_vars =>
        [made' > made /\ ~last'.ok =>
           \A f \in Places : files'[f] # files[f] => f = last'.to /\ files'[f] = "empty"]_vars
  BY NextFine DEF Fine, Kept
<1>3. Spec => UploadDelivered
  BY <1>1, UploadsInvariance, PTL DEF Spec, UploadDelivered
<1>4. Spec => FailureKeepsFiles
  BY <1>2, UploadsInvariance, PTL DEF Spec, FailureKeepsFiles
<1> QED
  BY <1>3, <1>4 DEF FilesAsReported

=============================================================================
