--------------------------- MODULE IIIFCacheProofs ---------------------------
(***************************************************************************)
(* Proofs about the image cache, for every number of request threads,      *)
(* renditions, masters and cache files and for all limits: the records of  *)
(* the table name the right files, the blocks on the files are those of    *)
(* the requests that send them or failed to, a hit is stale only when the  *)
(* master was replaced in the seconds of its making, purge() and remove()  *)
(* keep off files in use, and a start cleans the directory.                *)
(***************************************************************************)
EXTENDS IIIFCache, FiniteSetTheorems, TLAPS

(* What cachetable, the directory and the index are made of.               *)
Records == [file : Files \cup {NoFile}, mtime : Int, atime : Int, fsize : Int]

Contents ==
  [canon : Canons, ver : Int, read : Int, whole : BOOLEAN, size : Int, mtime : Int]

Entries == [name : Names, rec : Records]

ProcStates ==
  {Idle} \cup [pc : {"stat", "read"}, canon : Canons]
    \cup [pc : {"check"}, canon : Canons, mtime : Int, ver : Int]
    \cup [pc : {"send"}, canon : Canons, file : Files \cup {NoFile}, mtime : Int, ver : Int]
    \cup [pc : {"sending"}, file : Files]
    \cup [pc : {"create"}, canon : Canons, ver : Int, read : Int]
    \cup [pc : {"write", "add"}, canon : Canons, file : Files]
    \cup [pc : {"addLocked"}, canon : Canons, rec : Records]
    \cup [pc : {"purge"}] \cup [pc : {"list"}, todo : SUBSET Names]

Tables(K, V) == UNION {[D -> V] : D \in SUBSET K}

Shape ==
  /\ up \in BOOLEAN /\ clock \in Int
  /\ cachetable \in Tables(Names, Records)
  /\ blocked_files \in Tables(Files \cup {NoFile}, Nat \ {0})
  /\ disk \in Tables(Files, Contents)
  /\ index = NoIndex \/ index \in SUBSET Entries
  /\ proc \in [Procs -> ProcStates]
  /\ orig \in [Origs -> [ver : Int, mtime : Int]]
  /\ thrown \in [Files \cup {NoFile} -> Nat]

(* A stopped server has no threads and no memory. *)
DownInv == ~up => /\ \A p \in Procs : proc[p] = Idle
                  /\ cachetable = Empty /\ blocked_files = Empty

(* The file in the directory is what a record r of key c stands for. *)
Matches(c, r) ==
  LET d == disk[r.file]
  IN  /\ d.canon = c \/ Stored[d.canon] = c
      /\ d.size = r.fsize /\ d.mtime = r.mtime
      /\ d.canon \notin Png => d.whole

TableInv ==
  \A c \in DOMAIN cachetable :
    cachetable[c].file # NoFile =>
      /\ cachetable[c].file \in DOMAIN disk /\ Matches(c, cachetable[c])
      /\ \A d \in DOMAIN cachetable : cachetable[d].file = cachetable[c].file => d = c

(* The entries of the index of an earlier run whose file is still there    *)
(* would load as good records, however the present run ends.               *)
IndexInv ==
  index # NoIndex =>
    \A e \in index :
      e.rec.file \in DOMAIN disk =>
        /\ Matches(e.name, e.rec)
        /\ \A d \in index : d.rec.file = e.rec.file => d = e

IndexFiles == IF index = NoIndex THEN {} ELSE {e.rec.file : e \in index}

(* A file that a request is writing is known to that request alone. *)
Writing(p) == proc[p].pc \in {"write", "add", "addLocked"}

FileOf(q) == IF q.pc = "addLocked" THEN q.rec.file ELSE q.file

WriterInv ==
  \A p \in Procs : Writing(p) =>
    LET f == FileOf(proc[p])
    IN  /\ f \in DOMAIN disk /\ disk[f].canon = proc[p].canon
        /\ f \notin FilesOf(cachetable) \cup DOMAIN blocked_files \cup IndexFiles
        /\ proc[p].pc # "write" /\ disk[f].canon \notin Png => disk[f].whole
        /\ proc[p].pc = "addLocked" =>
             proc[p].rec.mtime = disk[f].mtime /\ proc[p].rec.fsize = disk[f].size
        /\ \A q \in Procs : Writing(q) /\ FileOf(proc[q]) = f => q = p

(* A request that has a hit sends what it asked for. *)
SenderInv ==
  \A p \in Procs :
    proc[p].pc = "send" /\ proc[p].file \in DOMAIN disk =>
      /\ disk[proc[p].file].canon = proc[p].canon
      /\ disk[proc[p].file].mtime >= proc[p].mtime

CacheInv ==
  Shape /\ DownInv /\ TableInv /\ IndexInv /\ WriterInv /\ SenderInv /\ BlocksMatchHolders

-----------------------------------------------------------------------------
(* Partial functions.                                                      *)

LEMMA TableProperties ==
  ASSUME NEW K, NEW V, NEW f
  PROVE  f \in Tables(K, V) <=> /\ f = [x \in DOMAIN f |-> f[x]] /\ DOMAIN f \subseteq K
                                /\ \A x \in DOMAIN f : f[x] \in V
  BY DEF Tables

LEMMA EmptyTable ==
  ASSUME NEW K, NEW V
  PROVE  Empty \in Tables(K, V) /\ DOMAIN Empty = {}
<1>1. DOMAIN Empty = {} /\ Empty = [x \in DOMAIN Empty |-> Empty[x]]
  BY DEF Empty
<1> QED BY <1>1, TableProperties

LEMMA PutTable ==
  ASSUME NEW K, NEW V, NEW f \in Tables(K, V), NEW k \in K, NEW v \in V
  PROVE  Put(f, k, v) \in Tables(K, V)
<1>1. DOMAIN f \subseteq K /\ \A x \in DOMAIN f : f[x] \in V
  BY TableProperties
<1>2. /\ DOMAIN Put(f, k, v) = DOMAIN f \cup {k}
      /\ \A x \in DOMAIN f \cup {k} : Put(f, k, v)[x] = IF x = k THEN v ELSE f[x]
      /\ Put(f, k, v) = [x \in DOMAIN Put(f, k, v) |-> Put(f, k, v)[x]]
  BY DEF Put
<1> QED BY <1>1, <1>2, TableProperties

LEMMA DropTable ==
  ASSUME NEW K, NEW V, NEW f \in Tables(K, V), NEW S
  PROVE  Drop(f, S) \in Tables(K, V)
<1>1. DOMAIN f \subseteq K /\ \A x \in DOMAIN f : f[x] \in V
  BY TableProperties
<1>2. /\ DOMAIN Drop(f, S) = DOMAIN f \ S
      /\ \A x \in DOMAIN f \ S : Drop(f, S)[x] = f[x]
      /\ Drop(f, S) = [x \in DOMAIN Drop(f, S) |-> Drop(f, S)[x]]
  BY DEF Drop
<1> QED BY <1>1, <1>2, TableProperties

(* The fields of a thread's state, by its control point. *)
LEMMA StateFields ==
  ASSUME NEW q \in ProcStates
  PROVE  /\ q.pc \in {"stat", "read", "check", "create", "send", "write", "add", "addLocked"}
              => q.canon \in Canons
         /\ q.pc = "check" => q.mtime \in Int /\ q.ver \in Int
         /\ q.pc = "send" => q.file \in Files \cup {NoFile} /\ q.mtime \in Int /\ q.ver \in Int
         /\ q.pc = "sending" => q.file \in Files
         /\ q.pc = "create" => q.ver \in Int /\ q.read \in Int
         /\ q.pc \in {"write", "add"} => q.file \in Files
         /\ q.pc = "addLocked" => q.rec \in Records
         /\ q.pc = "list" => q.todo \in SUBSET Names
         /\ q.pc = "idle" <=> q = Idle
  BY DEF ProcStates, Idle

LEMMA MakeStates ==
  ASSUME NEW c \in Canons, NEW f \in Files \cup {NoFile}, NEW m \in Int, NEW v \in Int
  PROVE  /\ Idle \in ProcStates /\ [pc |-> "purge"] \in ProcStates
         /\ [pc |-> "stat", canon |-> c] \in ProcStates
         /\ [pc |-> "read", canon |-> c] \in ProcStates
         /\ [pc |-> "check", canon |-> c, mtime |-> m, ver |-> v] \in ProcStates
         /\ [pc |-> "send", canon |-> c, file |-> f, mtime |-> m, ver |-> v] \in ProcStates
         /\ [pc |-> "create", canon |-> c, ver |-> v, read |-> m] \in ProcStates
         /\ f \in Files => /\ [pc |-> "sending", file |-> f] \in ProcStates
                           /\ [pc |-> "write", canon |-> c, file |-> f] \in ProcStates
                           /\ [pc |-> "add", canon |-> c, file |-> f] \in ProcStates
         /\ \A r \in Records : [pc |-> "addLocked", canon |-> c, rec |-> r] \in ProcStates
         /\ \A T \in SUBSET Names : [pc |-> "list", todo |-> T] \in ProcStates
  BY DEF ProcStates

LEMMA InitCache == Init => CacheInv
<1> SUFFICES ASSUME Init PROVE CacheInv
  OBVIOUS
<1> USE DEF Init
<1>1. Shape
  <2>1. proc \in [Procs -> ProcStates]
    BY DEF ProcStates
  <2>2. thrown \in [Files \cup {NoFile} -> Nat]
    BY DEF NoErrors
  <2> QED BY <2>1, <2>2, EmptyTable DEF Shape
<1>2. DOMAIN cachetable = {} /\ DOMAIN disk = {} /\ DOMAIN blocked_files = {}
  BY EmptyTable
<1>3. \A p \in Procs : proc[p].pc = "idle"
  BY DEF Idle
<1>4. DownInv /\ TableInv /\ IndexInv
  BY <1>2 DEF DownInv, TableInv, IndexInv
<1>5. WriterInv /\ SenderInv
  BY <1>3 DEF WriterInv, Writing, SenderInv
<1>6. BlocksMatchHolders
  <2>1. \A f \in Files : Holders(f) = {} /\ Blocks(f) = 0 /\ thrown[f] = 0
    BY <1>2, <1>3 DEF Holders, Blocks, NoErrors
  <2>2. Cardinality({}) = 0
    BY FS_EmptySet
  <2> QED BY <2>1, <2>2 DEF BlocksMatchHolders
<1> QED BY <1>1, <1>4, <1>5, <1>6 DEF CacheInv

-----------------------------------------------------------------------------
(* When a step leaves a part of the invariant alone.                       *)

(* Records are dropped, become default records or have their access time   *)
(* changed, and the files of those that stay are not touched.              *)
LEMMA TableFrame ==
  ASSUME TableInv,
         \A c \in DOMAIN cachetable' : cachetable'[c].file # NoFile =>
           /\ c \in DOMAIN cachetable
           /\ cachetable'[c].file = cachetable[c].file
           /\ cachetable'[c].mtime = cachetable[c].mtime
           /\ cachetable'[c].fsize = cachetable[c].fsize
           /\ cachetable[c].file \in DOMAIN disk
                => /\ cachetable[c].file \in DOMAIN disk'
                   /\ disk'[cachetable[c].file] = disk[cachetable[c].file]
  PROVE  TableInv'
<1> SUFFICES ASSUME NEW c \in DOMAIN cachetable', cachetable'[c].file # NoFile
             PROVE  /\ cachetable'[c].file \in DOMAIN disk' /\ Matches(c, cachetable[c])'
                    /\ \A d \in DOMAIN cachetable' :
                         cachetable'[d].file = cachetable'[c].file => d = c
  BY DEF TableInv
<1>1. /\ cachetable[c].file \in DOMAIN disk /\ Matches(c, cachetable[c])
      /\ \A d \in DOMAIN cachetable : cachetable[d].file = cachetable[c].file => d = c
  BY DEF TableInv
<1>2. cachetable'[c].file \in DOMAIN disk' /\ disk'[cachetable'[c].file] = disk[cachetable[c].file]
  BY <1>1
<1>3. Matches(c, cachetable[c])'
  BY <1>1, <1>2 DEF Matches
<1>4. ASSUME NEW d \in DOMAIN cachetable', cachetable'[d].file = cachetable'[c].file
      PROVE  d = c
  BY <1>1, <1>4
<1> QED BY <1>2, <1>3, <1>4

(* No file the index names is changed or created. *)
LEMMA IndexFrame ==
  ASSUME IndexInv, index' = index,
         \A f \in IndexFiles \cap DOMAIN disk' : f \in DOMAIN disk /\ disk'[f] = disk[f]
  PROVE  IndexInv'
<1> SUFFICES ASSUME index # NoIndex, NEW e \in index, e.rec.file \in DOMAIN disk'
             PROVE  /\ Matches(e.name, e.rec)'
                    /\ \A d \in index : d.rec.file = e.rec.file => d = e
  BY DEF IndexInv
<1>1. e.rec.file \in DOMAIN disk /\ disk'[e.rec.file] = disk[e.rec.file]
  BY DEF IndexFiles
<1>2. Matches(e.name, e.rec) /\ \A d \in index : d.rec.file = e.rec.file => d = e
  BY <1>1 DEF IndexInv
<1> QED BY <1>1, <1>2 DEF Matches

(* The requests that write keep their files to themselves. *)
LEMMA WriterFrame ==
  ASSUME WriterInv,
         \A p \in Procs : Writing(p)' =>
           /\ proc'[p] = proc[p]
           /\ FileOf(proc[p]) \in DOMAIN disk'
           /\ disk'[FileOf(proc[p])] = disk[FileOf(proc[p])]
           /\ FileOf(proc[p]) \notin FilesOf(cachetable)' \cup DOMAIN blocked_files' \cup IndexFiles'
  PROVE  WriterInv'
<1>1. \A p \in Procs : Writing(p)' => proc'[p] = proc[p] /\ Writing(p)
  BY DEF Writing
<1>2. ASSUME NEW p \in Procs, Writing(p)', NEW q \in Procs, Writing(q)',
             FileOf(proc'[q]) = FileOf(proc'[p])
      PROVE  q = p
  BY <1>1, <1>2 DEF WriterInv
<1>3. ASSUME NEW p \in Procs, Writing(p)'
      PROVE  LET f == FileOf(proc[p])
             IN  /\ f \in DOMAIN disk /\ disk[f].canon = proc[p].canon
                 /\ proc[p].pc # "write" /\ disk[f].canon \notin Png => disk[f].whole
                 /\ proc[p].pc = "addLocked" =>
                      proc[p].rec.mtime = disk[f].mtime /\ proc[p].rec.fsize = disk[f].size
  BY <1>1, <1>3 DEF WriterInv
<1> QED BY <1>1, <1>2, <1>3 DEF WriterInv

(* A file that is about to be sent stays as it is or goes. *)
LEMMA SenderFrame ==
  ASSUME SenderInv,
         \A p \in Procs : proc'[p].pc = "send" =>
           /\ proc'[p] = proc[p]
           /\ proc[p].file \in DOMAIN disk'
                => proc[p].file \in DOMAIN disk /\ disk'[proc[p].file] = disk[proc[p].file]
  PROVE  SenderInv'
  BY DEF SenderInv

LEMMA BlocksFrame ==
  ASSUME BlocksMatchHolders, thrown' = thrown,
         \A f \in Files : Holders(f)' = Holders(f) /\ Blocks(f)' = Blocks(f)
  PROVE  BlocksMatchHolders'
  BY DEF BlocksMatchHolders

LEMMA HoldersFinite ==
  ASSUME NEW f
  PROVE  IsFiniteSet(Holders(f)) /\ Cardinality(Holders(f)) \in Nat
<1>1. IsFiniteSet(Holders(f))
  BY CacheAssumption, FS_Subset DEF Holders
<1> QED BY <1>1, FS_CardinalityType

(* A file some request is going to send or sends is blocked. *)
LEMMA HeldIsBlocked ==
  ASSUME CacheInv, NEW p \in Procs, proc[p].pc \in {"send", "sending"}, proc[p].file \in Files
  PROVE  proc[p].file \in DOMAIN blocked_files
<1> DEFINE H == Holders(proc[p].file)
<1>1. p \in H /\ IsFiniteSet(H)
  BY CacheAssumption, FS_Subset DEF Holders
<1>2. Cardinality(H) \in Nat /\ Cardinality(H) # 0
  BY <1>1, FS_CardinalityType, FS_EmptySet
<1>3. /\ Blocks(proc[p].file) = Cardinality(H) + thrown[proc[p].file]
      /\ thrown[proc[p].file] \in Nat
  BY DEF CacheInv, BlocksMatchHolders, Shape
<1> HIDE DEF H
<1> QED BY <1>2, <1>3 DEF Blocks

(* A working thread means a running server. *)
LEMMA BusyIsUp ==
  ASSUME CacheInv, NEW p \in Procs, proc[p].pc # "idle"
  PROVE  up
  BY DEF CacheInv, DownInv, Idle

-----------------------------------------------------------------------------
(* Steps that change no more than what one thread is doing.                *)

LEMMA ProcMove ==
  ASSUME CacheInv, NEW p \in Procs, NEW r \in ProcStates, up,
         proc' = [proc EXCEPT ![p] = r],
         UNCHANGED <<up, cachetable, blocked_files, disk, index, orig, clock>>,
         r.pc \notin {"send", "write", "add", "addLocked"},
         \/ /\ proc[p].pc \notin {"send", "sending"} /\ r.pc # "sending"
            /\ thrown' = thrown
         \/ /\ proc[p].pc = "send" /\ r.pc = "sending" /\ proc[p].file = r.file
            /\ thrown' = thrown
         \/ /\ proc[p].pc = "send" /\ r.pc # "sending"
            /\ thrown' = [thrown EXCEPT ![proc[p].file] = @ + 1]
  PROVE  CacheInv'
<1>1. /\ proc \in [Procs -> ProcStates] /\ proc'[p] = r
      /\ \A q \in Procs : q # p => proc'[q] = proc[q]
  BY DEF CacheInv, Shape
<1>t. /\ thrown \in [Files \cup {NoFile} -> Nat] /\ thrown' \in [Files \cup {NoFile} -> Nat]
      /\ proc[p].pc = "send" => proc[p].file \in Files \cup {NoFile}
  <2>1. thrown \in [Files \cup {NoFile} -> Nat] /\ proc[p] \in ProcStates
    BY DEF CacheInv, Shape
  <2>2. proc[p].pc = "send" => proc[p].file \in Files \cup {NoFile}
    BY <2>1, StateFields
  <2> QED BY <2>1, <2>2
<1>2. Shape' /\ DownInv'
  BY <1>1, <1>t DEF CacheInv, Shape, DownInv
<1>3. TableInv' /\ IndexInv'
  BY TableFrame, IndexFrame DEF CacheInv
<1>4. WriterInv'
  <2>1. ASSUME NEW q \in Procs, Writing(q)'
        PROVE  /\ proc'[q] = proc[q]
               /\ FileOf(proc[q]) \in DOMAIN disk
               /\ FileOf(proc[q]) \notin FilesOf(cachetable) \cup DOMAIN blocked_files \cup IndexFiles
    <3>1. q # p /\ proc'[q] = proc[q] /\ Writing(q)
      BY <1>1, <2>1 DEF Writing
    <3> QED BY <3>1 DEF CacheInv, WriterInv
  <2>2. FilesOf(cachetable)' = FilesOf(cachetable) /\ IndexFiles' = IndexFiles
    BY DEF FilesOf, IndexFiles
  <2> QED BY <2>1, <2>2, WriterFrame DEF CacheInv
<1>5. SenderInv'
  BY <1>1, SenderFrame DEF CacheInv
<1>6. BlocksMatchHolders'
  <2>1. CASE proc[p].pc = "send" => r.pc = "sending"
    <3>1. \A f \in Files : Holders(f)' = Holders(f)
      BY <1>1, <2>1 DEF Holders
    <3>2. thrown' = thrown /\ \A f \in Files : Blocks(f)' = Blocks(f)
      BY <2>1 DEF Blocks
    <3> QED BY <3>1, <3>2, BlocksFrame DEF CacheInv
  <2>2. CASE proc[p].pc = "send" /\ r.pc # "sending"
    <3> SUFFICES ASSUME NEW f \in Files
                 PROVE  Blocks(f)' = Cardinality(Holders(f)') + thrown'[f]
      BY DEF BlocksMatchHolders
    <3>1. Blocks(f)' = Blocks(f) /\ Blocks(f) = Cardinality(Holders(f)) + thrown[f]
      BY DEF CacheInv, BlocksMatchHolders, Blocks
    <3>2. CASE proc[p].file = f
      <4>1. Holders(f)' = Holders(f) \ {p} /\ p \in Holders(f)
        BY <1>1, <2>2, <3>2 DEF Holders
      <4>2. /\ Cardinality(Holders(f)') = Cardinality(Holders(f)) - 1
            /\ Cardinality(Holders(f)) \in Nat
        BY <4>1, HoldersFinite, FS_RemoveElement
      <4>3. thrown'[f] = thrown[f] + 1 /\ thrown[f] \in Nat
        BY <1>t, <2>2, <3>2
      <4> QED BY <3>1, <4>2, <4>3
    <3>3. CASE proc[p].file # f
      <4>1. Holders(f)' = Holders(f) /\ thrown'[f] = thrown[f]
        BY <1>1, <1>t, <2>2, <3>3 DEF Holders
      <4> QED BY <3>1, <4>1
    <3> QED BY <3>2, <3>3
  <2> QED BY <2>1, <2>2
<1> QED BY <1>2, <1>3, <1>4, <1>5, <1>6 DEF CacheInv

LEMMA CachePlain ==
  ASSUME CacheInv,
         Tick \/ CreateDir \/ \E o \in Origs : Info(o) \/ Edit(o)
  PROVE  CacheInv'
<1>1. UNCHANGED <<up, cachetable, blocked_files, thrown, disk, index, proc>>
  BY DEF Tick, CreateDir, Info, Edit, memory
<1>2. Shape'
  <2>1. clock' \in Int /\ orig' \in [Origs -> [ver : Int, mtime : Int]]
    BY DEF Tick, CreateDir, Info, Edit, CacheInv, Shape
  <2> QED BY <1>1, <2>1 DEF CacheInv, Shape
<1>3. DownInv' /\ TableInv' /\ IndexInv' /\ SenderInv'
  BY <1>1, TableFrame, IndexFrame DEF CacheInv, DownInv, SenderInv
<1>4. WriterInv'
  <2>1. FilesOf(cachetable)' = FilesOf(cachetable) /\ IndexFiles' = IndexFiles
        /\ \A p \in Procs : Writing(p)' <=> Writing(p)
    BY <1>1 DEF FilesOf, IndexFiles, Writing
  <2> QED BY <1>1, <2>1, WriterFrame DEF CacheInv, WriterInv
<1>5. BlocksMatchHolders'
  BY <1>1, BlocksFrame DEF CacheInv, Holders, Blocks
<1> QED BY <1>2, <1>3, <1>4, <1>5 DEF CacheInv

LEMMA CacheThread ==
  ASSUME CacheInv, NEW p \in Procs,
         \/ \E c \in Canons : Request(p, c)
         \/ CheckStat(p) \/ SendFile(p) \/ Read(p) \/ PurgeTest(p) \/ ListStart(p)
  PROVE  CacheInv'
<1>s. proc \in [Procs -> ProcStates] /\ proc[p] \in ProcStates
  BY DEF CacheInv, Shape
<1>a. /\ Idle \in ProcStates /\ [pc |-> "purge"] \in ProcStates /\ Idle.pc = "idle"
      /\ \A T \in SUBSET Names : [pc |-> "list", todo |-> T] \in ProcStates
  BY DEF ProcStates, Idle
<1>o. orig \in [Origs -> [ver : Int, mtime : Int]] /\ OrigOf \in [Names -> Origs] /\ Canons \subseteq Names
  BY CacheAssumption DEF CacheInv, Shape
<1>1. ASSUME NEW c \in Canons, Request(p, c) PROVE CacheInv'
  <2> DEFINE r == [pc |-> "stat", canon |-> c]
  <2>1. r \in ProcStates /\ r.pc = "stat"
    BY DEF ProcStates
  <2>2. /\ up /\ proc[p].pc = "idle" /\ proc' = [proc EXCEPT ![p] = r]
        /\ UNCHANGED <<up, cachetable, blocked_files, thrown, disk, index, orig, clock>>
    BY <1>1 DEF Request, Goto, Idle
  <2> HIDE DEF r
  <2> QED BY <2>1, <2>2, ProcMove
<1>2. CASE CheckStat(p)
  <2> DEFINE o == orig[OrigOf[proc[p].canon]]
             r == [pc |-> "check", canon |-> proc[p].canon, mtime |-> o.mtime, ver |-> o.ver]
  <2>1. proc[p].pc = "stat" /\ proc[p].canon \in Canons
    BY <1>2, <1>s, StateFields DEF CheckStat
  <2>2. o \in [ver : Int, mtime : Int]
    BY <1>o, <2>1
  <2>3. r \in ProcStates /\ r.pc = "check"
    BY <2>1, <2>2 DEF ProcStates
  <2>4. proc' = [proc EXCEPT ![p] = r]
    BY <1>2 DEF CheckStat, Goto
  <2> HIDE DEF r
  <2>5. up
    BY <2>1, BusyIsUp
  <2> QED BY <1>2, <2>1, <2>3, <2>4, <2>5, ProcMove DEF CheckStat, memory
<1>3. CASE SendFile(p)
  <2>1. up /\ proc[p].pc = "send" /\ UNCHANGED <<up, cachetable, blocked_files, disk, index, orig, clock>>
    BY <1>3, BusyIsUp DEF SendFile
  <2>2. CASE proc[p].file \in DOMAIN disk /\ thrown' = thrown
             /\ proc' = [proc EXCEPT ![p] = [pc |-> "sending", file |-> proc[p].file]]
    <3> DEFINE r == [pc |-> "sending", file |-> proc[p].file]
    <3>1. proc[p].file \in Files
      BY <2>2, TableProperties DEF CacheInv, Shape
    <3>2. r \in ProcStates /\ r.pc = "sending" /\ r.file = proc[p].file
      BY <3>1 DEF ProcStates
    <3>3. proc' = [proc EXCEPT ![p] = r]
      BY <2>2
    <3> HIDE DEF r
    <3> QED BY <2>1, <2>2, <3>2, <3>3, ProcMove
  <2>3. CASE /\ proc' = [proc EXCEPT ![p] = Idle]
             /\ thrown' = [thrown EXCEPT ![proc[p].file] = @ + 1]
    BY <1>a, <2>1, <2>3, ProcMove
  <2> QED BY <1>3, <2>2, <2>3 DEF SendFile, Goto
<1>4. CASE Read(p)
  <2> DEFINE c == proc[p].canon
             r == [pc |-> "create", canon |-> c, ver |-> orig[OrigOf[c]].ver, read |-> clock]
  <2>1. proc[p].pc = "read" /\ c \in Canons /\ up
    BY <1>4, <1>s, StateFields, BusyIsUp DEF Read
  <2>2. r \in ProcStates /\ r.pc = "create"
    <3>1. orig[OrigOf[c]] \in [ver : Int, mtime : Int]
      BY <1>o, <2>1
    <3>2. clock \in Int
      BY DEF CacheInv, Shape
    <3> QED BY <2>1, <3>1, <3>2 DEF ProcStates
  <2>3. proc' = [proc EXCEPT ![p] = r] \/ proc' = [proc EXCEPT ![p] = Idle]
    BY <1>4 DEF Read, Goto
  <2> HIDE DEF r
  <2> QED BY <1>4, <1>a, <2>1, <2>2, <2>3, ProcMove DEF Read, memory
<1>5. CASE PurgeTest(p)
  BY <1>5, <1>a, ProcMove DEF PurgeTest, Goto, memory
<1>6. CASE ListStart(p)
  <2>1. DOMAIN cachetable \in SUBSET Names
    BY TableProperties DEF CacheInv, Shape
  <2> QED BY <1>6, <1>a, <2>1, ProcMove DEF ListStart, Goto, memory
<1> QED BY <1>1, <1>2, <1>3, <1>4, <1>5, <1>6

-----------------------------------------------------------------------------
(* A request that makes a rendition.                                       *)

(* The name mkstemp() makes up becomes a file in the directory. *)
LEMMA CacheCreate ==
  ASSUME CacheInv, NEW p \in Procs, getNewCacheFileName(p)
  PROVE  CacheInv'
<1>1. /\ proc \in [Procs -> ProcStates] /\ proc[p].pc = "create" /\ up
      /\ proc[p].canon \in Canons /\ proc[p].ver \in Int /\ proc[p].read \in Int
      /\ disk \in Tables(Files, Contents) /\ clock \in Int
      /\ UNCHANGED <<up, cachetable, blocked_files, thrown, index, orig, clock>>
  BY StateFields, BusyIsUp DEF getNewCacheFileName, memory, CacheInv, Shape
<1>2. CASE proc' = [proc EXCEPT ![p] = Idle] /\ disk' = disk
  <2>1. Idle \in ProcStates /\ Idle.pc = "idle"
    BY DEF ProcStates, Idle
  <2> QED BY <1>1, <1>2, <2>1, ProcMove
<1>3. ASSUME NEW f \in Files \ Mentioned,
             disk' = Put(disk, f, [canon |-> proc[p].canon, ver |-> proc[p].ver, read |-> proc[p].read,
                                   whole |-> FALSE, size |-> 0, mtime |-> clock]),
             proc' = [proc EXCEPT ![p] = [pc |-> "write", canon |-> proc[p].canon, file |-> f]]
      PROVE  CacheInv'
  <2> DEFINE r == [pc |-> "write", canon |-> proc[p].canon, file |-> f]
             d == [canon |-> proc[p].canon, ver |-> proc[p].ver, read |-> proc[p].read,
                   whole |-> FALSE, size |-> 0, mtime |-> clock]
  <2>1. /\ r \in ProcStates /\ r.pc = "write" /\ r.file = f /\ r.canon = proc[p].canon
        /\ d \in Contents /\ d.canon = proc[p].canon
    BY <1>1, <1>3 DEF ProcStates, Contents
  <2>2. proc' = [proc EXCEPT ![p] = r] /\ disk' = Put(disk, f, d)
    BY <1>3
  <2> HIDE DEF r, d
  <2>3. /\ disk' \in Tables(Files, Contents) /\ DOMAIN disk' = DOMAIN disk \cup {f}
        /\ disk'[f] = d /\ \A x \in DOMAIN disk : x # f => disk'[x] = disk[x]
    <3>1. f \in Files
      BY <1>3
    <3>2. disk' \in Tables(Files, Contents)
      BY <1>1, <2>1, <2>2, <3>1, PutTable
    <3> QED BY <2>2, <3>2 DEF Put
  <2>4. proc' \in [Procs -> ProcStates] /\ proc'[p] = r
        /\ \A q \in Procs : q # p => proc'[q] = proc[q]
    BY <1>1, <2>1, <2>2
  <2>5. f \notin DOMAIN disk \cup FilesOf(cachetable) \cup DOMAIN blocked_files \cup IndexFiles
    BY <1>3 DEF Mentioned, IndexFiles
  <2>6. FilesOf(cachetable)' = FilesOf(cachetable) /\ IndexFiles' = IndexFiles
    BY <1>1 DEF FilesOf, IndexFiles
  <2>7. Shape' /\ DownInv'
    BY <1>1, <2>3, <2>4 DEF CacheInv, Shape, DownInv
  <2>8. TableInv' /\ IndexInv'
    <3>1. \A c \in DOMAIN cachetable : cachetable[c].file # f
      BY <2>5 DEF FilesOf
    <3>2. TableInv'
      BY <1>1, <2>3, <3>1, TableFrame DEF CacheInv
    <3>3. IndexInv'
      BY <1>1, <2>3, <2>5, IndexFrame DEF CacheInv
    <3> QED BY <3>2, <3>3
  <2>9. WriterInv'
    <3> DEFINE F(q) == FileOf(proc'[q])
    <3>1. F(p) = f /\ Writing(p)'
      BY <2>1, <2>4 DEF FileOf, Writing
    <3>2. ASSUME NEW q \in Procs, Writing(q)', q # p
          PROVE  Writing(q) /\ proc'[q] = proc[q] /\ F(q) = FileOf(proc[q]) /\ F(q) # f
      <4>1. proc'[q] = proc[q] /\ Writing(q)
        BY <2>4, <3>2 DEF Writing
      <4>2. FileOf(proc[q]) \in DOMAIN disk
        BY <4>1 DEF CacheInv, WriterInv
      <4> QED BY <2>5, <4>1, <4>2
    <3>3. \A q, s \in Procs : Writing(q)' /\ Writing(s)' /\ F(s) = F(q) => s = q
      BY <3>1, <3>2 DEF CacheInv, WriterInv
    <3>4. ASSUME NEW q \in Procs, Writing(q)'
          PROVE  /\ F(q) \in DOMAIN disk' /\ disk'[F(q)].canon = proc'[q].canon
                 /\ F(q) \notin FilesOf(cachetable)' \cup DOMAIN blocked_files' \cup IndexFiles'
                 /\ proc'[q].pc # "write" /\ disk'[F(q)].canon \notin Png => disk'[F(q)].whole
                 /\ proc'[q].pc = "addLocked" =>
                      proc'[q].rec.mtime = disk'[F(q)].mtime /\ proc'[q].rec.fsize = disk'[F(q)].size
      <4>1. CASE q = p
        BY <1>1, <2>1, <2>3, <2>4, <2>5, <2>6, <3>1, <4>1
      <4>2. CASE q # p
        <5>1. Writing(q) /\ proc'[q] = proc[q] /\ F(q) = FileOf(proc[q]) /\ F(q) # f
          BY <3>2, <3>4, <4>2
        <5> HIDE DEF F
        <5>2. /\ F(q) \in DOMAIN disk /\ disk[F(q)].canon = proc[q].canon
              /\ F(q) \notin FilesOf(cachetable) \cup DOMAIN blocked_files \cup IndexFiles
              /\ proc[q].pc # "write" /\ disk[F(q)].canon \notin Png => disk[F(q)].whole
              /\ proc[q].pc = "addLocked" =>
                   proc[q].rec.mtime = disk[F(q)].mtime /\ proc[q].rec.fsize = disk[F(q)].size
          BY <5>1 DEF CacheInv, WriterInv
        <5> QED BY <1>1, <2>3, <2>6, <5>1, <5>2
      <4> QED BY <4>1, <4>2
    <3> QED BY <3>3, <3>4 DEF WriterInv
  <2>10. SenderInv'
    <3>1. ASSUME NEW q \in Procs, proc'[q].pc = "send"
          PROVE  /\ proc'[q] = proc[q]
                 /\ proc[q].file \in DOMAIN disk' =>
                      proc[q].file \in DOMAIN disk /\ disk'[proc[q].file] = disk[proc[q].file]
      <4>1. proc'[q] = proc[q]
        BY <2>1, <2>4, <3>1
      <4>2. proc[q].file # f
        BY <2>5, <3>1, <4>1, HeldIsBlocked
      <4> QED BY <2>3, <4>1, <4>2
    <3> QED BY <3>1, SenderFrame DEF CacheInv
  <2>11. BlocksMatchHolders'
    <3>1. \A g \in Files : Holders(g)' = Holders(g)
      BY <1>1, <2>1, <2>4 DEF Holders
    <3>2. \A g \in Files : Blocks(g)' = Blocks(g)
      BY <1>1 DEF Blocks
    <3> QED BY <1>1, <3>1, <3>2, BlocksFrame DEF CacheInv
  <2> QED BY <2>7, <2>8, <2>9, <2>10, <2>11 DEF CacheInv
<1> QED BY <1>2, <1>3 DEF getNewCacheFileName, Goto

(* A request that writes goes on with its file, or gives up and leaves or  *)
(* unlinks it.                                                             *)
LEMMA OwnFile ==
  ASSUME CacheInv, NEW p \in Procs, Writing(p), NEW r \in ProcStates,
         proc' = [proc EXCEPT ![p] = r],
         UNCHANGED <<up, cachetable, blocked_files, thrown, index, orig, clock>>,
         NEW f, f = FileOf(proc[p]),
         disk' \in Tables(Files, Contents),
         DOMAIN disk' \ {f} = DOMAIN disk \ {f},
         \A x \in DOMAIN disk \ {f} : disk'[x] = disk[x],
         \/ r = Idle
         \/ /\ r.pc \in {"add", "addLocked"} /\ FileOf(r) = f /\ r.canon = proc[p].canon
            /\ f \in DOMAIN disk' /\ disk'[f].canon = r.canon
            /\ disk'[f].canon \notin Png => disk'[f].whole
            /\ r.pc = "addLocked" => r.rec.mtime = disk'[f].mtime /\ r.rec.fsize = disk'[f].size
  PROVE  CacheInv'
<1>1. /\ proc \in [Procs -> ProcStates] /\ proc'[p] = r
      /\ \A q \in Procs : q # p => proc'[q] = proc[q]
      /\ r.pc \notin {"send", "sending", "write"}
  BY DEF CacheInv, Shape, Idle
<1>2. f \in DOMAIN disk /\ f \notin FilesOf(cachetable) \cup DOMAIN blocked_files \cup IndexFiles
  BY DEF CacheInv, WriterInv
<1>3. FilesOf(cachetable)' = FilesOf(cachetable) /\ IndexFiles' = IndexFiles
  BY DEF FilesOf, IndexFiles
<1>u. up /\ proc[p].pc \notin {"send", "sending"}
  BY BusyIsUp DEF Writing
<1>4. Shape' /\ DownInv'
  BY <1>1, <1>u DEF CacheInv, Shape, DownInv
<1>5. TableInv'
  <2>1. \A c \in DOMAIN cachetable : cachetable[c].file # f
    BY <1>2 DEF FilesOf
  <2> QED BY <2>1, TableFrame DEF CacheInv
<1>6. IndexInv'
  BY <1>2, IndexFrame DEF CacheInv
<1>7. WriterInv'
  <2> DEFINE F(q) == FileOf(proc'[q])
  <2>1. ASSUME NEW q \in Procs, Writing(q)', q # p
        PROVE  Writing(q) /\ proc'[q] = proc[q] /\ F(q) = FileOf(proc[q]) /\ F(q) # f
    <3>1. proc'[q] = proc[q] /\ Writing(q)
      BY <1>1, <2>1 DEF Writing
    <3>2. FileOf(proc[q]) # FileOf(proc[p])
      BY <2>1, <3>1 DEF CacheInv, WriterInv
    <3> QED BY <3>1, <3>2
  <2>2. Writing(p)' => /\ r.pc \in {"add", "addLocked"} /\ F(p) = f /\ r.canon = proc[p].canon
                       /\ f \in DOMAIN disk' /\ disk'[f].canon = r.canon
                       /\ disk'[f].canon \notin Png => disk'[f].whole
                       /\ r.pc = "addLocked" =>
                            r.rec.mtime = disk'[f].mtime /\ r.rec.fsize = disk'[f].size
    BY <1>1 DEF Writing, Idle
  <2>3. \A q, s \in Procs : Writing(q)' /\ Writing(s)' /\ F(s) = F(q) => s = q
    BY <2>1, <2>2 DEF CacheInv, WriterInv
  <2>4. ASSUME NEW q \in Procs, Writing(q)'
        PROVE  /\ F(q) \in DOMAIN disk' /\ disk'[F(q)].canon = proc'[q].canon
               /\ F(q) \notin FilesOf(cachetable)' \cup DOMAIN blocked_files' \cup IndexFiles'
               /\ proc'[q].pc # "write" /\ disk'[F(q)].canon \notin Png => disk'[F(q)].whole
               /\ proc'[q].pc = "addLocked" =>
                    proc'[q].rec.mtime = disk'[F(q)].mtime /\ proc'[q].rec.fsize = disk'[F(q)].size
    <3>1. CASE q = p
      <4> HIDE DEF F
      <4> QED BY <1>1, <1>2, <1>3, <2>2, <2>4, <3>1
    <3>2. CASE q # p
      <4>1. Writing(q) /\ proc'[q] = proc[q] /\ F(q) = FileOf(proc[q]) /\ F(q) # f
        BY <2>1, <2>4, <3>2
      <4> HIDE DEF F
      <4>2. /\ F(q) \in DOMAIN disk /\ disk[F(q)].canon = proc[q].canon
            /\ F(q) \notin FilesOf(cachetable) \cup DOMAIN blocked_files \cup IndexFiles
            /\ proc[q].pc # "write" /\ disk[F(q)].canon \notin Png => disk[F(q)].whole
            /\ proc[q].pc = "addLocked" =>
                 proc[q].rec.mtime = disk[F(q)].mtime /\ proc[q].rec.fsize = disk[F(q)].size
        BY <4>1 DEF CacheInv, WriterInv
      <4> QED BY <1>3, <4>1, <4>2
    <3> QED BY <3>1, <3>2
  <2> QED BY <2>3, <2>4 DEF WriterInv
<1>8. SenderInv'
  <2>1. ASSUME NEW q \in Procs, proc'[q].pc = "send"
        PROVE  /\ proc'[q] = proc[q]
               /\ proc[q].file \in DOMAIN disk' =>
                    proc[q].file \in DOMAIN disk /\ disk'[proc[q].file] = disk[proc[q].file]
    <3>1. proc'[q] = proc[q]
      BY <1>1, <2>1
    <3>2. proc[q].file # f
      <4>1. f \in Files
        BY <1>2, TableProperties DEF CacheInv, Shape
      <4> QED BY <1>2, <2>1, <3>1, <4>1, HeldIsBlocked
    <3> QED BY <3>1, <3>2
  <2> QED BY <2>1, SenderFrame DEF CacheInv
<1>9. BlocksMatchHolders'
  <2>1. \A g \in Files : Holders(g)' = Holders(g)
    BY <1>1, <1>u DEF Holders
  <2>2. \A g \in Files : Blocks(g)' = Blocks(g)
    BY DEF Blocks
  <2> QED BY <2>1, <2>2, BlocksFrame DEF CacheInv
<1> QED BY <1>4, <1>5, <1>6, <1>7, <1>8, <1>9 DEF CacheInv

LEMMA CacheWrite ==
  ASSUME CacheInv, NEW p \in Procs, Write(p)
  PROVE  CacheInv'
<1> DEFINE f == proc[p].file
           c == proc[p].canon
<1>1. /\ proc[p].pc = "write" /\ Writing(p) /\ f = FileOf(proc[p]) /\ f \in Files /\ c \in Canons
      /\ UNCHANGED <<up, cachetable, blocked_files, thrown, index, orig, clock>>
      /\ disk \in Tables(Files, Contents) /\ clock \in Int
  BY StateFields DEF Write, Writing, FileOf, memory, CacheInv, Shape
<1>2. f \in DOMAIN disk /\ disk[f].canon = c /\ disk[f] \in Contents
  BY <1>1, TableProperties DEF CacheInv, WriterInv
<1>i. Idle \in ProcStates
  BY DEF ProcStates
<1> HIDE DEF f, c
<1>3. ASSUME NEW whole \in BOOLEAN, Written(p, whole), whole \/ c \in Png
      PROVE  CacheInv'
  <2> DEFINE r == [pc |-> "add", canon |-> c, file |-> f]
             size == IF whole THEN FSize[c] ELSE 0
             d == [disk[f] EXCEPT !.whole = whole, !.size = size, !.mtime = clock]
  <2>1. r \in ProcStates /\ r.pc = "add" /\ FileOf(r) = f /\ r.canon = c
    BY <1>1 DEF ProcStates, FileOf
  <2>2. size \in Int
    BY <1>1, CacheAssumption
  <2>4. proc' = [proc EXCEPT ![p] = r] /\ disk' = [disk EXCEPT ![f] = d]
    BY <1>3 DEF Written, Goto, f, c
  <2> HIDE DEF size
  <2>3. d \in Contents /\ d.canon = c /\ d.whole = whole
    BY <1>1, <1>2, <2>2 DEF Contents
  <2> HIDE DEF r, d
  <2>5. disk' \in Tables(Files, Contents)
    <3>1. \A x \in DOMAIN disk : x \in Files /\ disk[x] \in Contents
      BY <1>1, TableProperties
    <3>2. /\ disk' = [x \in DOMAIN disk' |-> disk'[x]] /\ DOMAIN disk' = DOMAIN disk
          /\ \A x \in DOMAIN disk : disk'[x] \in Contents
      BY <2>3, <2>4, <3>1
    <3>3. DOMAIN disk' \subseteq Files /\ \A x \in DOMAIN disk' : disk'[x] \in Contents
      BY <3>1, <3>2
    <3> QED BY <3>2, <3>3, TableProperties
  <2>6. DOMAIN disk' = DOMAIN disk /\ disk'[f] = d
        /\ \A x \in DOMAIN disk \ {f} : disk'[x] = disk[x]
    BY <1>2, <2>4
  <2> QED BY <1>1, <1>2, <1>3, <2>1, <2>3, <2>4, <2>5, <2>6, OwnFile DEF c
<1>4. CASE WriteClientGone(p) /\ c \notin Png
  <2>1. proc' = [proc EXCEPT ![p] = Idle] /\ disk' = disk
    BY <1>4 DEF WriteClientGone, Goto, c
  <2> QED BY <1>1, <1>2, <1>i, <2>1, OwnFile
<1>5. CASE WriteError(p)
  <2>1. proc' = [proc EXCEPT ![p] = Idle] /\ disk' = Drop(disk, {f})
    BY <1>5 DEF WriteError, Goto, f
  <2>2. disk' \in Tables(Files, Contents)
    BY <1>1, <2>1, DropTable
  <2>3. DOMAIN disk' = DOMAIN disk \ {f} /\ \A x \in DOMAIN disk \ {f} : disk'[x] = disk[x]
    BY <2>1 DEF Drop
  <2> QED BY <1>1, <1>2, <1>i, <2>1, <2>2, <2>3, OwnFile
<1> QED BY <1>3, <1>4, <1>5 DEF Write, WriteOk, WriteClientGone, c

(* add(), before the mutex: stat() of the cache file. *)
LEMMA CacheAddStat ==
  ASSUME CacheInv, NEW p \in Procs, AddStat(p)
  PROVE  CacheInv'
<1> DEFINE f == proc[p].file
           c == proc[p].canon
           rec == [file |-> f, mtime |-> disk[f].mtime, atime |-> clock, fsize |-> disk[f].size]
           r == [pc |-> "addLocked", canon |-> c, rec |-> rec]
<1>1. /\ proc[p].pc = "add" /\ Writing(p) /\ f = FileOf(proc[p]) /\ f \in Files /\ c \in Canons
      /\ UNCHANGED <<up, cachetable, blocked_files, thrown, index, orig, clock, disk>>
      /\ disk \in Tables(Files, Contents) /\ clock \in Int /\ proc' = [proc EXCEPT ![p] = r]
  BY StateFields DEF AddStat, Goto, Writing, FileOf, memory, CacheInv, Shape
<1>2. /\ f \in DOMAIN disk /\ disk[f].canon = c /\ disk[f] \in Contents
      /\ disk[f].canon \notin Png => disk[f].whole
  BY <1>1, TableProperties DEF CacheInv, WriterInv
<1>3. rec \in Records /\ rec.mtime = disk[f].mtime /\ rec.fsize = disk[f].size /\ rec.file = f
  BY <1>1, <1>2 DEF Records, Contents
<1> HIDE DEF rec
<1>4. r \in ProcStates /\ r.pc = "addLocked" /\ r.rec = rec /\ r.canon = c
  BY <1>1, <1>3 DEF ProcStates
<1>5. FileOf(r) = f
  BY <1>3, <1>4 DEF FileOf
<1>6. r.canon = proc[p].canon
  BY <1>4
<1> HIDE DEF r, f, c
<1>7. /\ disk' \in Tables(Files, Contents) /\ DOMAIN disk' = DOMAIN disk
      /\ \A x \in DOMAIN disk : disk'[x] = disk[x]
  BY <1>1
<1>8. /\ r.pc \in {"add", "addLocked"} /\ FileOf(r) = f /\ r.canon = proc[p].canon
      /\ f \in DOMAIN disk' /\ disk'[f].canon = r.canon
      /\ disk'[f].canon \notin Png => disk'[f].whole
      /\ r.pc = "addLocked" => r.rec.mtime = disk'[f].mtime /\ r.rec.fsize = disk'[f].size
  BY <1>1, <1>2, <1>3, <1>4, <1>5, <1>6
<1> QED BY <1>1, <1>4, <1>7, <1>8, OwnFile

-----------------------------------------------------------------------------
(* check() and deblock().                                                  *)

LEMMA BlocksNat ==
  ASSUME CacheInv, NEW f
  PROVE  Blocks(f) \in Nat /\ (f \in DOMAIN blocked_files => Blocks(f) > 0)
<1>1. f \in DOMAIN blocked_files => blocked_files[f] \in Nat \ {0}
  BY TableProperties DEF CacheInv, Shape
<1> QED BY <1>1 DEF Blocks

(* The access time of a record is set. *)
LEMMA Touched ==
  ASSUME CacheInv, NEW c,
         cachetable' = IF c \in DOMAIN cachetable
                         THEN [cachetable EXCEPT ![c].atime = clock] ELSE cachetable
  PROVE  /\ cachetable' \in Tables(Names, Records) /\ DOMAIN cachetable' = DOMAIN cachetable
         /\ \A d \in DOMAIN cachetable : /\ cachetable'[d].file = cachetable[d].file
                                         /\ cachetable'[d].mtime = cachetable[d].mtime
                                         /\ cachetable'[d].fsize = cachetable[d].fsize
<1>1. /\ cachetable = [d \in DOMAIN cachetable |-> cachetable[d]] /\ clock \in Int
      /\ cachetable \in Tables(Names, Records)
      /\ \A d \in DOMAIN cachetable : d \in Names /\ cachetable[d] \in Records
  BY TableProperties DEF CacheInv, Shape
<1>2. CASE c \notin DOMAIN cachetable
  BY <1>1, <1>2
<1>3. CASE c \in DOMAIN cachetable
  <2> DEFINE r == [cachetable[c] EXCEPT !.atime = clock]
  <2>1. r \in Records /\ r.file = cachetable[c].file /\ r.mtime = cachetable[c].mtime
        /\ r.fsize = cachetable[c].fsize
    BY <1>1, <1>3 DEF Records
  <2>2. cachetable' = [cachetable EXCEPT ![c] = r]
    BY <1>3
  <2> HIDE DEF r
  <2>3. /\ DOMAIN cachetable' = DOMAIN cachetable /\ cachetable'[c] = r
        /\ \A d \in DOMAIN cachetable : d # c => cachetable'[d] = cachetable[d]
        /\ cachetable' = [d \in DOMAIN cachetable' |-> cachetable'[d]]
    BY <1>1, <1>3, <2>2
  <2>4. DOMAIN cachetable' \subseteq Names /\ \A d \in DOMAIN cachetable' : cachetable'[d] \in Records
    BY <1>1, <2>1, <2>3
  <2>5. cachetable' \in Tables(Names, Records)
    BY <2>3, <2>4, TableProperties
  <2> QED BY <2>1, <2>3, <2>5
<1> QED BY <1>2, <1>3

LEMMA CacheCheck ==
  ASSUME CacheInv, NEW p \in Procs, CheckLocked(p)
  PROVE  CacheInv'
<1> DEFINE c == proc[p].canon
           f == Lookup(c).file
           n == Blocks(f)
           hit == c \in DOMAIN cachetable /\ ~Newer(proc[p].mtime, cachetable[c])
           s == [pc |-> "send", canon |-> c, file |-> f, mtime |-> proc[p].mtime, ver |-> proc[p].ver]
           r == [pc |-> "read", canon |-> c]
<1>1. /\ proc[p].pc = "check" /\ c \in Canons /\ proc[p].mtime \in Int /\ proc[p].ver \in Int
      /\ proc \in [Procs -> ProcStates] /\ up
      /\ UNCHANGED <<up, thrown, disk, index, orig, clock>>
  BY StateFields, BusyIsUp DEF CheckLocked, CacheInv, Shape
<1>2. /\ cachetable' = IF c \in DOMAIN cachetable
                         THEN [cachetable EXCEPT ![c].atime = clock] ELSE cachetable
      /\ \/ hit /\ blocked_files' = Put(blocked_files, f, n + 1) /\ proc' = [proc EXCEPT ![p] = s]
         \/ ~hit /\ blocked_files' = blocked_files /\ proc' = [proc EXCEPT ![p] = r]
  BY DEF CheckLocked, Goto, Blocks
<1>3. hit => f = cachetable[c].file /\ f \in FilesOf(cachetable)
  BY DEF Lookup, FilesOf
<1>4. /\ cachetable' \in Tables(Names, Records) /\ DOMAIN cachetable' = DOMAIN cachetable
      /\ \A d \in DOMAIN cachetable : /\ cachetable'[d].file = cachetable[d].file
                                      /\ cachetable'[d].mtime = cachetable[d].mtime
                                      /\ cachetable'[d].fsize = cachetable[d].fsize
  <2> HIDE DEF c
  <2> QED BY <1>2, Touched
<1>5. hit => cachetable[c] \in Records /\ f \in Files \cup {NoFile}
  <2>1. hit => cachetable[c] \in Records
    BY TableProperties DEF CacheInv, Shape
  <2> QED BY <1>3, <2>1 DEF Records
<1>6. hit => /\ s \in ProcStates /\ s.pc = "send" /\ s.canon = c /\ s.file = f
             /\ s.mtime = proc[p].mtime
  BY <1>1, <1>5 DEF ProcStates
<1>7. r \in ProcStates /\ r.pc = "read"
  BY <1>1 DEF ProcStates
<1>8. n \in Nat
  BY BlocksNat
<1>9. hit => proc[p].mtime <= cachetable[c].mtime
  BY <1>1, <1>5 DEF Newer, Records
<1>c. c = proc[p].canon
  OBVIOUS
<1>h. hit => c \in DOMAIN cachetable
  OBVIOUS
<1> HIDE DEF c, f, s, r, hit
<1>10. /\ \A q \in Procs : q # p => proc'[q] = proc[q]
       /\ proc' \in [Procs -> ProcStates]
       /\ hit => proc'[p] = s
       /\ ~hit => proc'[p] = r
  BY <1>1, <1>2, <1>6, <1>7
<1>11. /\ blocked_files' \in Tables(Files \cup {NoFile}, Nat \ {0})
       /\ DOMAIN blocked_files' = IF hit THEN DOMAIN blocked_files \cup {f} ELSE DOMAIN blocked_files
  <2>1. blocked_files \in Tables(Files \cup {NoFile}, Nat \ {0})
    BY DEF CacheInv, Shape
  <2>2. CASE hit
    <3> HIDE DEF n
    <3>1. n + 1 \in Nat \ {0} /\ f \in Files \cup {NoFile} /\ blocked_files' = Put(blocked_files, f, n + 1)
      BY <1>2, <1>5, <1>8, <2>2
    <3>2. blocked_files' \in Tables(Files \cup {NoFile}, Nat \ {0})
      BY <2>1, <3>1, PutTable
    <3> QED BY <2>2, <3>1, <3>2 DEF Put
  <2> QED BY <1>2, <2>1, <2>2
<1>12. Shape' /\ DownInv'
  BY <1>1, <1>4, <1>10, <1>11 DEF CacheInv, Shape, DownInv
<1>13. TableInv' /\ IndexInv'
  BY <1>1, <1>4, TableFrame, IndexFrame DEF CacheInv
<1>14. WriterInv'
  <2>1. FilesOf(cachetable)' = FilesOf(cachetable) /\ IndexFiles' = IndexFiles
    BY <1>1, <1>4 DEF FilesOf, IndexFiles
  <2>2. ASSUME NEW q \in Procs, Writing(q)'
        PROVE  /\ proc'[q] = proc[q] /\ FileOf(proc[q]) \in DOMAIN disk
               /\ FileOf(proc[q]) \notin FilesOf(cachetable) \cup DOMAIN blocked_files \cup IndexFiles
    <3>1. q # p /\ proc'[q] = proc[q] /\ Writing(q)
      BY <1>6, <1>7, <1>10, <2>2 DEF Writing
    <3> QED BY <3>1 DEF CacheInv, WriterInv
  <2> QED BY <1>1, <1>3, <1>11, <2>1, <2>2, WriterFrame DEF CacheInv
<1>15. SenderInv'
  <2>1. ASSUME hit, f \in DOMAIN disk PROVE disk[f].canon = c /\ disk[f].mtime >= proc[p].mtime
    <3>1. f # NoFile /\ disk[f].canon \in Canons /\ disk[f].mtime \in Int
      <4>1. f \in Files /\ disk[f] \in Contents
        BY <2>1, TableProperties DEF CacheInv, Shape
      <4> QED BY <4>1, CacheAssumption DEF Contents
    <3>2. Matches(c, cachetable[c])
      BY <1>3, <1>h, <2>1, <3>1 DEF CacheInv, TableInv
    <3>3. disk[f].mtime = cachetable[c].mtime /\ (disk[f].canon = c \/ Stored[disk[f].canon] = c)
      BY <1>3, <2>1, <3>2 DEF Matches
    <3>4. disk[f].canon = c
      BY <1>1, <3>1, <3>3, CutKeysApart
    <3> QED BY <1>1, <1>9, <2>1, <3>1, <3>3, <3>4
  <2>2. ASSUME NEW q \in Procs, proc'[q].pc = "send", proc'[q].file \in DOMAIN disk'
        PROVE  /\ disk'[proc'[q].file].canon = proc'[q].canon
               /\ disk'[proc'[q].file].mtime >= proc'[q].mtime
    <3>1. CASE q = p
      <4>1. hit /\ proc'[q] = s /\ f \in DOMAIN disk
        BY <1>1, <1>6, <1>7, <1>10, <2>2, <3>1
      <4> QED BY <1>1, <1>6, <2>1, <4>1
    <3>2. CASE q # p
      BY <1>1, <1>10, <2>2, <3>2 DEF CacheInv, SenderInv
    <3> QED BY <3>1, <3>2
  <2> QED BY <2>2 DEF SenderInv
<1>16. BlocksMatchHolders'
  <2> SUFFICES ASSUME NEW g \in Files
               PROVE  Blocks(g)' = Cardinality(Holders(g)') + thrown'[g]
    BY DEF BlocksMatchHolders
  <2>1. Blocks(g) = Cardinality(Holders(g)) + thrown[g] /\ thrown'[g] = thrown[g] /\ thrown[g] \in Nat
    BY <1>1 DEF CacheInv, BlocksMatchHolders, Shape
  <2>2. CASE hit /\ g = f
    <3>1. Holders(g)' = Holders(g) \cup {p} /\ p \notin Holders(g)
      BY <1>1, <1>6, <1>10, <2>2 DEF Holders
    <3>2. Cardinality(Holders(g)') = Cardinality(Holders(g)) + 1
      BY <3>1, HoldersFinite, FS_AddElement
    <3>3. Blocks(g)' = Blocks(g) + 1
      BY <1>2, <2>2 DEF Blocks, Put
    <3> QED BY <1>1, <2>1, <3>2, <3>3, HoldersFinite, BlocksNat
  <2>3. CASE ~(hit /\ g = f)
    <3>1. Holders(g)' = Holders(g)
      BY <1>1, <1>6, <1>7, <1>10, <2>3 DEF Holders
    <3>2. Blocks(g)' = Blocks(g)
      BY <1>2, <2>3 DEF Blocks, Put
    <3> QED BY <1>1, <2>1, <3>1, <3>2
  <2> QED BY <2>2, <2>3
<1> QED BY <1>12, <1>13, <1>14, <1>15, <1>16 DEF CacheInv

LEMMA CacheSendEnds ==
  ASSUME CacheInv, NEW p \in Procs, SendFileEnds(p)
  PROVE  CacheInv'
<1>0. /\ proc[p].pc = "sending" /\ proc[p].file \in Files
      /\ up /\ proc \in [Procs -> ProcStates]
      /\ UNCHANGED <<up, cachetable, thrown, disk, index, orig, clock>>
      /\ blocked_files' = deblock(proc[p].file) /\ proc' = [proc EXCEPT ![p] = Idle]
  BY StateFields, BusyIsUp DEF SendFileEnds, Goto, CacheInv, Shape
<1>f. PICK f \in Files : f = proc[p].file
  BY <1>0
<1>1. /\ proc[p].pc = "sending" /\ f = proc[p].file /\ up /\ proc \in [Procs -> ProcStates]
      /\ UNCHANGED <<up, cachetable, thrown, disk, index, orig, clock>>
      /\ blocked_files' = deblock(f) /\ proc' = [proc EXCEPT ![p] = Idle]
  BY <1>0, <1>f
<1>2. /\ Idle \in ProcStates /\ Idle.pc = "idle" /\ proc'[p] = Idle
      /\ \A q \in Procs : q # p => proc'[q] = proc[q]
      /\ proc' \in [Procs -> ProcStates]
  BY <1>1 DEF ProcStates, Idle
<1>3. f \in DOMAIN blocked_files
  BY <1>1, HeldIsBlocked
<1>4. /\ blocked_files = [x \in DOMAIN blocked_files |-> blocked_files[x]]
      /\ DOMAIN blocked_files \subseteq Files \cup {NoFile}
      /\ \A x \in DOMAIN blocked_files : blocked_files[x] \in Nat \ {0}
      /\ blocked_files \in Tables(Files \cup {NoFile}, Nat \ {0})
  <2>1. blocked_files \in Tables(Files \cup {NoFile}, Nat \ {0})
    BY DEF CacheInv, Shape
  <2> QED BY <2>1, TableProperties
<1>5. /\ blocked_files' \in Tables(Files \cup {NoFile}, Nat \ {0})
      /\ DOMAIN blocked_files' \subseteq DOMAIN blocked_files
      /\ \A g : g # f => Blocks(g)' = Blocks(g)
      /\ Blocks(f)' = Blocks(f) - 1
  <2>1. CASE blocked_files[f] > 1
    <3>1. /\ blocked_files' = [blocked_files EXCEPT ![f] = blocked_files[f] - 1]
          /\ blocked_files[f] - 1 \in Nat \ {0}
      BY <1>1, <1>3, <1>4, <2>1 DEF deblock
    <3>2. /\ blocked_files' = [x \in DOMAIN blocked_files' |-> blocked_files'[x]]
          /\ DOMAIN blocked_files' \subseteq Files \cup {NoFile}
          /\ \A x \in DOMAIN blocked_files' : blocked_files'[x] \in Nat \ {0}
          /\ DOMAIN blocked_files' = DOMAIN blocked_files
      BY <1>4, <3>1
    <3>3. blocked_files' \in Tables(Files \cup {NoFile}, Nat \ {0})
      BY <3>2, TableProperties
    <3>4. \A g : g # f => Blocks(g)' = Blocks(g)
      BY <1>4, <3>1 DEF Blocks
    <3>5. Blocks(f)' = Blocks(f) - 1
      BY <1>3, <1>4, <3>1 DEF Blocks
    <3> QED BY <3>2, <3>3, <3>4, <3>5
  <2>2. CASE ~(blocked_files[f] > 1)
    <3>1. blocked_files' = Drop(blocked_files, {f}) /\ blocked_files[f] = 1
      BY <1>1, <1>3, <1>4, <2>2 DEF deblock
    <3>2. blocked_files' \in Tables(Files \cup {NoFile}, Nat \ {0})
      BY <1>4, <3>1, DropTable
    <3>3. DOMAIN blocked_files' = DOMAIN blocked_files \ {f}
          /\ \A g \in DOMAIN blocked_files \ {f} : blocked_files'[g] = blocked_files[g]
      BY <3>1 DEF Drop
    <3>4. \A g : g # f => Blocks(g)' = Blocks(g)
      BY <3>3 DEF Blocks
    <3>5. Blocks(f)' = Blocks(f) - 1
      BY <1>3, <3>1, <3>3 DEF Blocks
    <3> QED BY <3>2, <3>3, <3>4, <3>5
  <2> QED BY <2>1, <2>2
<1>6. Shape' /\ DownInv'
  BY <1>1, <1>2, <1>5 DEF CacheInv, Shape, DownInv
<1>7. TableInv' /\ IndexInv'
  BY <1>1, TableFrame, IndexFrame DEF CacheInv
<1>8. WriterInv'
  <2>1. FilesOf(cachetable)' = FilesOf(cachetable) /\ IndexFiles' = IndexFiles
    BY <1>1 DEF FilesOf, IndexFiles
  <2>2. ASSUME NEW q \in Procs, Writing(q)'
        PROVE  /\ proc'[q] = proc[q] /\ FileOf(proc[q]) \in DOMAIN disk
               /\ FileOf(proc[q]) \notin FilesOf(cachetable) \cup DOMAIN blocked_files \cup IndexFiles
    <3>1. q # p /\ proc'[q] = proc[q] /\ Writing(q)
      BY <1>2, <2>2 DEF Writing
    <3> QED BY <3>1 DEF CacheInv, WriterInv
  <2> QED BY <1>1, <1>5, <2>1, <2>2, WriterFrame DEF CacheInv
<1>9. SenderInv'
  BY <1>1, <1>2, SenderFrame DEF CacheInv
<1>10. BlocksMatchHolders'
  <2> SUFFICES ASSUME NEW g \in Files
               PROVE  Blocks(g)' = Cardinality(Holders(g)') + thrown'[g]
    BY DEF BlocksMatchHolders
  <2>1. Blocks(g) = Cardinality(Holders(g)) + thrown[g] /\ thrown'[g] = thrown[g] /\ thrown[g] \in Nat
    BY <1>1 DEF CacheInv, BlocksMatchHolders, Shape
  <2>2. CASE g = f
    <3>1. Holders(g)' = Holders(g) \ {p} /\ p \in Holders(g)
      BY <1>1, <1>2, <2>2 DEF Holders
    <3>2. Cardinality(Holders(g)') = Cardinality(Holders(g)) - 1
      BY <3>1, HoldersFinite, FS_RemoveElement
    <3>3. Blocks(g)' = Blocks(g) - 1
      BY <1>5, <2>2
    <3> QED BY <1>1, <2>1, <3>2, <3>3, HoldersFinite, BlocksNat
  <2>3. CASE g # f
    <3>1. Holders(g)' = Holders(g)
      BY <1>1, <1>2, <2>3 DEF Holders
    <3> QED BY <1>1, <1>5, <2>1, <2>3, <3>1
  <2> QED BY <2>2, <2>3
<1> QED BY <1>6, <1>7, <1>8, <1>9, <1>10 DEF CacheInv

-----------------------------------------------------------------------------
(* purge(), remove() and loop(): records and files go.                     *)

LEMMA TableShrinks ==
  ASSUME CacheInv, up, NEW gone, gone \subseteq FilesOf(cachetable) \cup {NoFile},
         cachetable' \in Tables(Names, Records),
         \A c \in DOMAIN cachetable' : cachetable'[c].file # NoFile =>
           /\ c \in DOMAIN cachetable /\ cachetable'[c] = cachetable[c]
           /\ cachetable[c].file \notin gone,
         disk' = Drop(disk, gone), proc' \in [Procs -> ProcStates],
         \A q \in Procs : \/ proc'[q] = proc[q]
                          \/ /\ proc[q].pc \in {"idle", "purge", "list"}
                             /\ proc'[q].pc \in {"idle", "purge", "list"},
         UNCHANGED <<up, blocked_files, thrown, index, orig, clock>>
  PROVE  CacheInv'
<1>1. /\ disk' \in Tables(Files, Contents) /\ DOMAIN disk' = DOMAIN disk \ gone
      /\ \A f \in DOMAIN disk' : disk'[f] = disk[f]
  <2>1. disk' \in Tables(Files, Contents)
    BY DropTable DEF CacheInv, Shape
  <2> QED BY <2>1 DEF Drop
<1>2. Shape' /\ DownInv'
  BY <1>1 DEF CacheInv, Shape, DownInv
<1>3. TableInv'
  BY <1>1, TableFrame DEF CacheInv
<1>4. IndexInv'
  BY <1>1, IndexFrame DEF CacheInv
<1>5. WriterInv'
  <2>1. FilesOf(cachetable)' \subseteq FilesOf(cachetable) \cup {NoFile} /\ IndexFiles' = IndexFiles
    BY DEF FilesOf, IndexFiles
  <2>2. NoFile \notin DOMAIN disk
    BY TableProperties, CacheAssumption DEF CacheInv, Shape
  <2>3. ASSUME NEW q \in Procs, Writing(q)'
        PROVE  /\ proc'[q] = proc[q] /\ FileOf(proc[q]) \in DOMAIN disk
               /\ FileOf(proc[q]) \notin FilesOf(cachetable) \cup DOMAIN blocked_files \cup IndexFiles
    <3>1. proc'[q] = proc[q] /\ Writing(q)
      BY <2>3 DEF Writing
    <3> QED BY <3>1 DEF CacheInv, WriterInv
  <2>4. ASSUME NEW q \in Procs, Writing(q)'
        PROVE  FileOf(proc[q]) \in DOMAIN disk' /\ FileOf(proc[q]) # NoFile
    BY <1>1, <2>2, <2>3, <2>4
  <2> QED BY <1>1, <2>1, <2>3, <2>4, WriterFrame DEF CacheInv
<1>6. SenderInv'
  <2>1. \A q \in Procs : proc'[q].pc = "send" => proc'[q] = proc[q]
    OBVIOUS
  <2> QED BY <1>1, <2>1, SenderFrame DEF CacheInv
<1>7. BlocksMatchHolders'
  <2>1. \A g \in Files : Holders(g)' = Holders(g)
    BY DEF Holders
  <2>2. \A g \in Files : Blocks(g)' = Blocks(g)
    BY DEF Blocks
  <2> QED BY <2>1, <2>2, BlocksFrame DEF CacheInv
<1> QED BY <1>2, <1>3, <1>4, <1>5, <1>6, <1>7 DEF CacheInv

(* What purge() erases is in the table and not in use. *)
LEMMA EvictionsFree ==
  ASSUME NEW tab, IsFiniteSet(DOMAIN tab), NEW size, NEW n, NEW E \in Evictions(tab, size, n)
  PROVE  /\ E \subseteq DOMAIN tab
         /\ \A c \in E : ~InUse(tab[c].file)
<1>1. PICK s \in AccessOrders(tab), k \in 0 .. Cardinality(DOMAIN tab) : E = Victims(tab, s, k)
  BY DEF Evictions
<1> DEFINE C == Cardinality(DOMAIN tab)
<1>2. C \in Nat
  BY FS_CardinalityType
<1>3. s \in [1 .. C -> DOMAIN tab]
  BY <1>1 DEF AccessOrders, SetToSeqs
<1> HIDE DEF C
<1>4. \A j \in 1 .. k : s[j] \in DOMAIN tab
  BY <1>1, <1>2, <1>3 DEF C
<1>5. \A c \in E : \E j \in 1 .. k : c = s[j] /\ ~InUse(tab[s[j]].file)
  BY <1>1 DEF Victims
<1> QED BY <1>4, <1>5

(* Records of the table that name a file name different ones, and none is  *)
(* the file of a default record.                                           *)
LEMMA FilesDistinct ==
  ASSUME CacheInv
  PROVE  /\ DOMAIN cachetable \subseteq Names /\ IsFiniteSet(DOMAIN cachetable)
         /\ \A c \in DOMAIN cachetable : cachetable[c] \in Records
         /\ \A c, d \in DOMAIN cachetable :
              cachetable[c].file # NoFile /\ cachetable[d].file = cachetable[c].file => d = c
         /\ \A c \in DOMAIN cachetable : cachetable[c].file # NoFile => cachetable[c].file \in DOMAIN disk
<1>1. /\ DOMAIN cachetable \subseteq Names
      /\ \A c \in DOMAIN cachetable : cachetable[c] \in Records
  BY TableProperties DEF CacheInv, Shape
<1>2. IsFiniteSet(DOMAIN cachetable)
  BY <1>1, CacheAssumption, FS_Subset
<1> QED BY <1>1, <1>2 DEF CacheInv, TableInv

LEMMA CachePurge ==
  ASSUME CacheInv, NEW p \in Procs, PurgeLocked(p)
  PROVE  CacheInv'
<1>1. /\ proc[p].pc = "purge" /\ up /\ proc \in [Procs -> ProcStates]
      /\ proc' = [proc EXCEPT ![p] = Idle]
      /\ UNCHANGED <<up, blocked_files, thrown, index, orig, clock>>
  BY BusyIsUp DEF PurgeLocked, Goto, CacheInv, Shape
<1>2. PICK E \in Evictions(cachetable, cachesize, nfiles) :
        /\ cachetable' = Drop(cachetable, E)
        /\ disk' = Drop(disk, {cachetable[c].file : c \in E})
  BY DEF PurgeLocked
<1>3. E \subseteq DOMAIN cachetable
  BY FilesDistinct, EvictionsFree
<1> DEFINE gone == {cachetable[c].file : c \in E}
<1>4. gone \subseteq FilesOf(cachetable) \cup {NoFile}
  BY <1>3 DEF FilesOf
<1>5. cachetable' \in Tables(Names, Records)
  BY <1>2, DropTable DEF CacheInv, Shape
<1>6. DOMAIN cachetable' = DOMAIN cachetable \ E
      /\ \A c \in DOMAIN cachetable' : cachetable'[c] = cachetable[c]
  BY <1>2 DEF Drop
<1>7. ASSUME NEW c \in DOMAIN cachetable', cachetable'[c].file # NoFile
      PROVE  c \in DOMAIN cachetable /\ cachetable'[c] = cachetable[c] /\ cachetable[c].file \notin gone
  <2>1. c \in DOMAIN cachetable /\ c \notin E /\ cachetable'[c] = cachetable[c]
    BY <1>6
  <2>2. \A d \in E : cachetable[d].file # cachetable[c].file
    BY <1>3, <1>7, <2>1, FilesDistinct
  <2> QED BY <2>1, <2>2
<1>8. /\ proc' \in [Procs -> ProcStates]
      /\ \A q \in Procs : \/ proc'[q] = proc[q]
                          \/ /\ proc[q].pc \in {"idle", "purge", "list"}
                             /\ proc'[q].pc \in {"idle", "purge", "list"}
  BY <1>1 DEF ProcStates, Idle
<1>9. disk' = Drop(disk, gone)
  BY <1>2
<1> HIDE DEF gone
<1> QED BY <1>1, <1>4, <1>5, <1>7, <1>8, <1>9, TableShrinks

LEMMA CacheRemove ==
  ASSUME CacheInv, NEW c \in Names, remove(c)
  PROVE  CacheInv'
<1>1. /\ up /\ proc \in [Procs -> ProcStates] /\ cachetable' = Drop(cachetable, {c})
      /\ disk' = Drop(disk, {Lookup(c).file})
      /\ UNCHANGED <<up, blocked_files, thrown, proc, index, orig, clock>>
  BY DEF remove, CacheInv, Shape
<1> DEFINE gone == {Lookup(c).file}
<1>2. /\ gone \subseteq FilesOf(cachetable) \cup {NoFile}
      /\ Lookup(c).file # NoFile => c \in DOMAIN cachetable /\ Lookup(c).file = cachetable[c].file
  BY DEF FilesOf, Lookup, Phantom
<1>3. cachetable' \in Tables(Names, Records)
  BY <1>1, DropTable DEF CacheInv, Shape
<1>4. DOMAIN cachetable' = DOMAIN cachetable \ {c}
      /\ \A d \in DOMAIN cachetable' : cachetable'[d] = cachetable[d]
  BY <1>1 DEF Drop
<1>5. ASSUME NEW d \in DOMAIN cachetable', cachetable'[d].file # NoFile
      PROVE  d \in DOMAIN cachetable /\ cachetable'[d] = cachetable[d] /\ cachetable[d].file \notin gone
  BY <1>2, <1>4, <1>5, FilesDistinct
<1>6. disk' = Drop(disk, gone)
  BY <1>1
<1>7. proc' \in [Procs -> ProcStates] /\ \A q \in Procs : proc'[q] = proc[q]
  BY <1>1
<1> HIDE DEF gone
<1> QED BY <1>1, <1>2, <1>3, <1>5, <1>6, <1>7, TableShrinks

LEMMA CacheList ==
  ASSUME CacheInv, NEW p \in Procs, ListVisit(p)
  PROVE  CacheInv'
<1>1. /\ proc[p].pc = "list" /\ proc[p].todo \in SUBSET Names
      /\ up /\ proc \in [Procs -> ProcStates]
      /\ UNCHANGED <<up, blocked_files, thrown, disk, index, orig, clock>>
  BY BusyIsUp, StateFields DEF ListVisit, CacheInv, Shape
<1>2. PICK c \in proc[p].todo :
        /\ cachetable' = Put(cachetable, c, Lookup(c))
        /\ proc' = [proc EXCEPT ![p] = IF proc[p].todo = {c} THEN Idle
                                       ELSE [proc[p] EXCEPT !.todo = @ \ {c}]]
  BY DEF ListVisit, Goto
<1> DEFINE gone == {}
           r == IF proc[p].todo = {c} THEN Idle ELSE [proc[p] EXCEPT !.todo = @ \ {c}]
<1>3. Lookup(c) \in Records /\ c \in Names
  <2>1. Phantom \in Records
    BY DEF Phantom, Records
  <2> QED BY <1>1, <1>2, <2>1, FilesDistinct DEF Lookup
<1>4. cachetable' \in Tables(Names, Records)
  BY <1>2, <1>3, PutTable DEF CacheInv, Shape
<1>5. ASSUME NEW d \in DOMAIN cachetable', cachetable'[d].file # NoFile
      PROVE  d \in DOMAIN cachetable /\ cachetable'[d] = cachetable[d] /\ cachetable[d].file \notin gone
  BY <1>2, <1>5 DEF Put, Lookup, Phantom
<1>6. disk' = Drop(disk, gone)
  <2>1. disk = [x \in DOMAIN disk |-> disk[x]]
    BY TableProperties DEF CacheInv, Shape
  <2>2. DOMAIN disk \ {} = DOMAIN disk
    OBVIOUS
  <2> QED BY <1>1, <2>1, <2>2 DEF Drop
<1>7. r \in ProcStates /\ r.pc \in {"idle", "purge", "list"}
  <2>1. proc[p] \in ProcStates
    BY <1>1
  <2>2. proc[p] \in [pc : {"list"}, todo : SUBSET Names]
    BY <1>1, <2>1 DEF ProcStates, Idle
  <2>3. [proc[p] EXCEPT !.todo = @ \ {c}] \in [pc : {"list"}, todo : SUBSET Names]
    BY <2>2
  <2>4. \A s \in [pc : {"list"}, todo : SUBSET Names] : s \in ProcStates /\ s.pc = "list"
    BY DEF ProcStates
  <2>5. Idle \in ProcStates /\ Idle.pc = "idle"
    BY DEF ProcStates, Idle
  <2> QED BY <2>3, <2>4, <2>5
<1>8. proc' = [proc EXCEPT ![p] = r]
  BY <1>2
<1> HIDE DEF r
<1>9. /\ proc' \in [Procs -> ProcStates]
      /\ \A q \in Procs : \/ proc'[q] = proc[q]
                          \/ /\ proc[q].pc \in {"idle", "purge", "list"}
                             /\ proc'[q].pc \in {"idle", "purge", "list"}
  BY <1>1, <1>7, <1>8
<1>10. gone \subseteq FilesOf(cachetable) \cup {NoFile}
  OBVIOUS
<1> HIDE DEF gone
<1> QED BY <1>1, <1>4, <1>5, <1>6, <1>9, <1>10, TableShrinks

-----------------------------------------------------------------------------
(* add(): the record replaced and those evicted go with their files, the   *)
(* file of this request enters the table.                                  *)

LEMMA AddParts ==
  ASSUME CacheInv, NEW p \in Procs, AddLocked(p)
  PROVE  \E E \in SUBSET DOMAIN cachetable :
           LET c == proc[p].canon
           IN  /\ \A d \in E : ~InUse(cachetable[d].file)
               /\ cachetable' = Put(Drop(cachetable, E), c, proc[p].rec)
               /\ disk' = Drop(disk, {Lookup(d).file : d \in Replaced(c) \cup E})
<1> DEFINE c == proc[p].canon
           size == SizeWithout(cachetable, cachesize, Replaced(c))
           n == CountWithout(nfiles, Replaced(c))
<1>1. PICK E \in IF OverLimit(size, n) THEN Evictions(cachetable, size, n) ELSE {{}} :
        /\ cachetable' = Put(Drop(cachetable, E), c, proc[p].rec)
        /\ disk' = Drop(disk, {Lookup(d).file : d \in Replaced(c) \cup E})
  BY DEF AddLocked
<1> HIDE DEF size, n
<1>2. E \subseteq DOMAIN cachetable /\ \A d \in E : ~InUse(cachetable[d].file)
  <2>1. CASE OverLimit(size, n)
    <3>1. E \in Evictions(cachetable, size, n) /\ IsFiniteSet(DOMAIN cachetable)
      BY <1>1, <2>1, FilesDistinct
    <3> QED BY <3>1, EvictionsFree
  <2>2. CASE ~OverLimit(size, n)
    BY <1>1, <2>2
  <2> QED BY <2>1, <2>2
<1> QED BY <1>1, <1>2

LEMMA CacheAdd ==
  ASSUME CacheInv, NEW p \in Procs, AddLocked(p)
  PROVE  CacheInv'
<1>1. PICK c \in Canons, r \in Records : c = proc[p].canon /\ r = proc[p].rec
  BY StateFields DEF AddLocked, CacheInv, Shape
<1>2. /\ proc[p].pc = "addLocked" /\ up /\ proc \in [Procs -> ProcStates]
      /\ proc' = [proc EXCEPT ![p] = Idle]
      /\ UNCHANGED <<up, blocked_files, thrown, index, orig, clock>>
  BY BusyIsUp DEF AddLocked, Goto, CacheInv, Shape
<1>3. PICK E \in SUBSET DOMAIN cachetable :
        /\ cachetable' = Put(Drop(cachetable, E), c, r)
        /\ disk' = Drop(disk, {Lookup(d).file : d \in Replaced(c) \cup E})
  BY <1>1, AddParts
<1> DEFINE gone == {Lookup(d).file : d \in Replaced(c) \cup E}
<1>4. c \in Names
  BY CacheAssumption
<1>5. /\ r.file \in DOMAIN disk /\ disk[r.file].canon = c
      /\ r.file \notin FilesOf(cachetable) /\ r.file \notin DOMAIN blocked_files
      /\ r.file \notin IndexFiles
      /\ disk[r.file].canon \notin Png => disk[r.file].whole
      /\ r.mtime = disk[r.file].mtime /\ r.fsize = disk[r.file].size
      /\ \A q \in Procs : Writing(q) /\ FileOf(proc[q]) = r.file => q = p
  <2>1. Writing(p) /\ FileOf(proc[p]) = r.file
    BY <1>1, <1>2 DEF Writing, FileOf
  <2> QED BY <1>1, <1>2, <2>1 DEF CacheInv, WriterInv
<1>6. /\ gone \subseteq FilesOf(cachetable)
      /\ \A f \in gone : \E d \in DOMAIN cachetable : (d = c \/ d \in E) /\ f = cachetable[d].file
  <2>1. \A d \in Replaced(c) \cup E : d \in DOMAIN cachetable /\ Lookup(d) = cachetable[d]
                                        /\ (d = c \/ d \in E)
    BY DEF Replaced, Lookup
  <2> QED BY <2>1 DEF FilesOf
<1>7. /\ cachetable' \in Tables(Names, Records)
      /\ DOMAIN cachetable' = (DOMAIN cachetable \ E) \cup {c} /\ cachetable'[c] = r
      /\ \A d \in DOMAIN cachetable' : d # c => cachetable'[d] = cachetable[d]
  <2>1. Drop(cachetable, E) \in Tables(Names, Records)
    BY DropTable DEF CacheInv, Shape
  <2>2. cachetable' \in Tables(Names, Records)
    BY <1>3, <1>4, <2>1, PutTable
  <2> QED BY <1>3, <2>2 DEF Put, Drop
<1>8. /\ disk' \in Tables(Files, Contents) /\ DOMAIN disk' = DOMAIN disk \ gone
      /\ \A f \in DOMAIN disk' : disk'[f] = disk[f]
  <2>1. disk' \in Tables(Files, Contents)
    BY <1>3, DropTable DEF CacheInv, Shape
  <2> QED BY <1>3, <2>1 DEF Drop
<1> HIDE DEF gone
<1>9. /\ proc' \in [Procs -> ProcStates] /\ proc'[p].pc = "idle"
      /\ \A q \in Procs : q # p => proc'[q] = proc[q]
  BY <1>2 DEF ProcStates, Idle
<1>10. Shape' /\ DownInv'
  BY <1>2, <1>7, <1>8, <1>9 DEF CacheInv, Shape, DownInv
<1>11. r.file \in DOMAIN disk' /\ disk'[r.file] = disk[r.file] /\ r.file # NoFile
  <2>1. NoFile \notin DOMAIN disk
    BY TableProperties, CacheAssumption DEF CacheInv, Shape
  <2> QED BY <1>5, <1>6, <1>8, <2>1
<1>12. TableInv'
  <2> SUFFICES ASSUME NEW d \in DOMAIN cachetable', cachetable'[d].file # NoFile
               PROVE  /\ cachetable'[d].file \in DOMAIN disk' /\ Matches(d, cachetable[d])'
                      /\ \A e \in DOMAIN cachetable' :
                           cachetable'[e].file = cachetable'[d].file => e = d
    BY DEF TableInv
  <2>1. CASE d = c
    <3>1. Matches(d, cachetable[d])'
      BY <1>5, <1>7, <1>11, <2>1 DEF Matches
    <3>2. \A e \in DOMAIN cachetable' : e # c => cachetable'[e].file # r.file
      BY <1>5, <1>7 DEF FilesOf
    <3> QED BY <1>7, <1>11, <2>1, <3>1, <3>2
  <2>2. CASE d # c
    <3>1. d \in DOMAIN cachetable /\ d \notin E /\ cachetable'[d] = cachetable[d]
      BY <1>7, <2>2
    <3>2. cachetable[d].file \in DOMAIN disk /\ Matches(d, cachetable[d])
      BY <3>1 DEF CacheInv, TableInv
    <3>3. cachetable[d].file \notin gone
      BY <1>6, <2>2, <3>1, FilesDistinct
    <3>4. cachetable'[d].file \in DOMAIN disk' /\ disk'[cachetable[d].file] = disk[cachetable[d].file]
      BY <1>8, <3>1, <3>2, <3>3
    <3>5. Matches(d, cachetable[d])'
      BY <3>1, <3>2, <3>4 DEF Matches
    <3>6. cachetable'[d].file # r.file
      BY <1>5, <3>1 DEF FilesOf
    <3>7. \A e \in DOMAIN cachetable' : cachetable'[e].file = cachetable'[d].file => e = d
      BY <1>7, <3>1, <3>6, FilesDistinct
    <3> QED BY <3>4, <3>5, <3>7
  <2> QED BY <2>1, <2>2
<1>13. IndexInv'
  BY <1>2, <1>8, IndexFrame DEF CacheInv
<1>14. WriterInv'
  <2>1. FilesOf(cachetable)' \subseteq FilesOf(cachetable) \cup {r.file} /\ IndexFiles' = IndexFiles
    BY <1>2, <1>7 DEF FilesOf, IndexFiles
  <2>2. ASSUME NEW q \in Procs, Writing(q)'
        PROVE  /\ proc'[q] = proc[q] /\ FileOf(proc[q]) \in DOMAIN disk
               /\ FileOf(proc[q]) \notin FilesOf(cachetable) \cup DOMAIN blocked_files \cup IndexFiles
               /\ FileOf(proc[q]) # r.file
    <3>1. q # p /\ proc'[q] = proc[q] /\ Writing(q)
      BY <1>9, <2>2 DEF Writing
    <3> QED BY <1>5, <3>1 DEF CacheInv, WriterInv
  <2>3. ASSUME NEW q \in Procs, Writing(q)'
        PROVE  /\ FileOf(proc[q]) \in DOMAIN disk'
               /\ disk'[FileOf(proc[q])] = disk[FileOf(proc[q])]
    BY <1>6, <1>8, <2>2, <2>3
  <2> QED BY <1>2, <2>1, <2>2, <2>3, WriterFrame DEF CacheInv
<1>15. SenderInv'
  <2>1. \A q \in Procs : proc'[q].pc = "send" => proc'[q] = proc[q]
    BY <1>9
  <2> QED BY <1>8, <2>1, SenderFrame DEF CacheInv
<1>16. BlocksMatchHolders'
  <2>1. \A g \in Files : Holders(g)' = Holders(g)
    BY <1>2, <1>9 DEF Holders
  <2>2. \A g \in Files : Blocks(g)' = Blocks(g)
    BY <1>2 DEF Blocks
  <2> QED BY <1>2, <2>1, <2>2, BlocksFrame DEF CacheInv
<1> QED BY <1>10, <1>12, <1>13, <1>14, <1>15, <1>16 DEF CacheInv

-----------------------------------------------------------------------------
(* Stop, crash and start.                                                  *)

LEMMA CacheCrash == ASSUME CacheInv, Crash PROVE CacheInv'
<1>1. /\ up' = FALSE /\ cachetable' = Empty /\ blocked_files' = Empty /\ thrown' = NoErrors
      /\ proc' = [p \in Procs |-> Idle] /\ UNCHANGED <<disk, index, orig, clock>>
  BY DEF Crash, Forget
<1>2. DOMAIN cachetable' = {} /\ DOMAIN blocked_files' = {}
      /\ \A p \in Procs : proc'[p] = Idle /\ proc'[p].pc = "idle"
  BY <1>1, EmptyTable DEF Idle
<1>3. Shape' /\ DownInv'
  <2>1. proc' \in [Procs -> ProcStates]
    BY <1>1 DEF ProcStates
  <2>2. thrown' \in [Files \cup {NoFile} -> Nat]
    BY <1>1 DEF NoErrors
  <2> QED BY <1>1, <1>2, <2>1, <2>2, EmptyTable DEF CacheInv, Shape, DownInv
<1>4. TableInv' /\ WriterInv' /\ SenderInv'
  BY <1>2 DEF TableInv, WriterInv, Writing, SenderInv
<1>5. IndexInv'
  BY <1>1, IndexFrame DEF CacheInv
<1>6. BlocksMatchHolders'
  <2>1. \A f \in Files : Holders(f)' = {} /\ Blocks(f)' = 0 /\ thrown'[f] = 0
    BY <1>1, <1>2 DEF Holders, Blocks, NoErrors
  <2>2. Cardinality({}) = 0
    BY FS_EmptySet
  <2> QED BY <2>1, <2>2 DEF BlocksMatchHolders
<1> QED BY <1>3, <1>4, <1>5, <1>6 DEF CacheInv

LEMMA CacheStop == ASSUME CacheInv, Stop PROVE CacheInv'
<1>1. /\ up' = FALSE /\ cachetable' = Empty /\ blocked_files' = Empty /\ thrown' = NoErrors
      /\ UNCHANGED <<proc, dir, disk, orig, clock>>
      /\ \A p \in Procs : proc[p] = Idle /\ proc[p].pc = "idle"
  BY DEF Stop, Forget, Idle
<1> DEFINE Out == {[name |-> Stored[c], rec |-> cachetable[c]] : c \in DOMAIN cachetable}
<1>2. index' = Out \/ index' = index
  BY DEF Stop
<1>3. ASSUME NEW e \in Out
      PROVE  \E c \in DOMAIN cachetable :
               /\ e.name = Stored[c] /\ e.rec = cachetable[c] /\ e \in Entries
               /\ e = [name |-> Stored[c], rec |-> cachetable[c]] /\ c \in Names
  <2>1. PICK c \in DOMAIN cachetable : e = [name |-> Stored[c], rec |-> cachetable[c]]
    BY <1>3
  <2>2. c \in Names /\ cachetable[c] \in Records /\ Stored[c] \in Names
    BY FilesDistinct, CacheAssumption
  <2> QED BY <2>1, <2>2 DEF Entries
<1> HIDE DEF Out
<1>4. DOMAIN cachetable' = {} /\ DOMAIN blocked_files' = {}
  BY <1>1, EmptyTable
<1>5. Shape' /\ DownInv'
  <2>1. index' = NoIndex \/ index' \in SUBSET Entries
    BY <1>2, <1>3 DEF CacheInv, Shape
  <2>2. thrown' \in [Files \cup {NoFile} -> Nat]
    BY <1>1 DEF NoErrors
  <2> QED BY <1>1, <2>1, <2>2, EmptyTable DEF CacheInv, Shape, DownInv
<1>6. TableInv' /\ WriterInv' /\ SenderInv'
  BY <1>1, <1>4 DEF TableInv, WriterInv, Writing, SenderInv
<1>7. IndexInv'
  <2>1. CASE index' = index
    BY <1>1, <2>1, IndexFrame DEF CacheInv
  <2>2. CASE index' = Out
    <3> SUFFICES ASSUME NEW e \in Out, e.rec.file \in DOMAIN disk
                 PROVE  /\ Matches(e.name, e.rec)
                        /\ \A d \in Out : d.rec.file = e.rec.file => d = e
      BY <1>1, <2>2 DEF IndexInv, Matches
    <3>1. PICK c \in DOMAIN cachetable :
            /\ e.name = Stored[c] /\ e.rec = cachetable[c] /\ c \in Names
            /\ e = [name |-> Stored[c], rec |-> cachetable[c]]
      BY <1>3
    <3>2. cachetable[c].file # NoFile /\ disk[e.rec.file].canon \in Names
      <4>1. NoFile \notin DOMAIN disk /\ disk[e.rec.file] \in Contents
        BY TableProperties, CacheAssumption DEF CacheInv, Shape
      <4> QED BY <3>1, <4>1, CacheAssumption DEF Contents
    <3>3. Matches(c, cachetable[c])
      BY <3>2 DEF CacheInv, TableInv
    <3>4. disk[e.rec.file].canon = c \/ Stored[disk[e.rec.file].canon] = c
      BY <3>1, <3>3 DEF Matches
    <3>5. Stored[disk[e.rec.file].canon] = Stored[c]
      BY <3>2, <3>4, CacheAssumption
    <3>6. Matches(e.name, e.rec)
      BY <3>1, <3>3, <3>5 DEF Matches
    <3>7. ASSUME NEW d \in Out, d.rec.file = e.rec.file PROVE d = e
      <4>1. PICK b \in DOMAIN cachetable :
              d.rec = cachetable[b] /\ d = [name |-> Stored[b], rec |-> cachetable[b]]
        BY <1>3
      <4>2. b = c
        BY <3>1, <3>2, <3>7, <4>1, FilesDistinct
      <4> QED BY <3>1, <4>1, <4>2
    <3> QED BY <3>6, <3>7
  <2> QED BY <1>2, <2>1, <2>2
<1>8. BlocksMatchHolders'
  <2>1. \A f \in Files : Holders(f)' = {} /\ Blocks(f)' = 0 /\ thrown'[f] = 0
    BY <1>1, <1>4 DEF Holders, Blocks, NoErrors
  <2>2. Cardinality({}) = 0
    BY FS_EmptySet
  <2> QED BY <2>1, <2>2 DEF BlocksMatchHolders
<1> QED BY <1>5, <1>6, <1>7, <1>8 DEF CacheInv

(* What the constructor makes of the index and the directory. *)
LEMMA StartParts ==
  ASSUME CacheInv, Start
  PROVE  /\ up' = TRUE /\ UNCHANGED <<blocked_files, thrown, proc, index, orig, clock>>
         /\ cachetable' \in Tables(Names, Records)
         /\ disk' \in Tables(Files, Contents)
         /\ DOMAIN disk' = DOMAIN disk \ Orphans(cachetable')
         /\ \A f \in DOMAIN disk' : disk'[f] = disk[f]
         /\ \A c \in DOMAIN cachetable' :
              \E e \in Loadable : /\ e \in index /\ index # NoIndex /\ e \in Entries
                                  /\ e.name = c /\ cachetable'[c] = e.rec
<1>1. PICK tab \in [{e.name : e \in Loadable} -> Loadable] :
        /\ \A c \in DOMAIN tab : tab[c].name = c
        /\ cachetable' = [c \in DOMAIN tab |-> tab[c].rec]
        /\ disk' = Drop(disk, Orphans(cachetable'))
  BY DEF Start
<1>2. \A e \in Loadable : e \in index /\ index # NoIndex /\ e \in Entries
  BY DEF Loadable, CacheInv, Shape
<1>3. /\ DOMAIN cachetable' = DOMAIN tab
      /\ cachetable' = [c \in DOMAIN cachetable' |-> cachetable'[c]]
      /\ \A c \in DOMAIN cachetable' : /\ tab[c] \in Loadable /\ tab[c].name = c
                                       /\ cachetable'[c] = tab[c].rec
  BY <1>1
<1>4. \A c \in DOMAIN cachetable' : c \in Names /\ cachetable'[c] \in Records
  BY <1>2, <1>3 DEF Entries
<1>5. cachetable' \in Tables(Names, Records)
  BY <1>3, <1>4, TableProperties
<1>6. disk' \in Tables(Files, Contents)
  BY <1>1, DropTable DEF CacheInv, Shape
<1>7. DOMAIN disk' = DOMAIN disk \ Orphans(cachetable') /\ \A f \in DOMAIN disk' : disk'[f] = disk[f]
  BY <1>1 DEF Drop
<1>8. up' = TRUE /\ UNCHANGED <<blocked_files, thrown, proc, index, orig, clock>>
  BY DEF Start
<1> QED BY <1>2, <1>3, <1>5, <1>6, <1>7, <1>8

LEMMA CacheStart == ASSUME CacheInv, Start PROVE CacheInv'
<1>0. (\A p \in Procs : proc[p] = Idle) /\ blocked_files = Empty
  BY DEF Start, CacheInv, DownInv
<1>1. (\A p \in Procs : proc[p].pc = "idle") /\ DOMAIN blocked_files = {}
  BY <1>0, EmptyTable DEF Idle
<1>2. Shape' /\ DownInv'
  BY StartParts DEF CacheInv, Shape, DownInv
<1>3. TableInv'
  <2> SUFFICES ASSUME NEW c \in DOMAIN cachetable', cachetable'[c].file # NoFile
               PROVE  /\ cachetable'[c].file \in DOMAIN disk' /\ Matches(c, cachetable[c])'
                      /\ \A d \in DOMAIN cachetable' :
                           cachetable'[d].file = cachetable'[c].file => d = c
    BY DEF TableInv
  <2>1. PICK e \in Loadable : /\ e \in index /\ index # NoIndex /\ e.name = c
                              /\ cachetable'[c] = e.rec
    BY StartParts
  <2>2. e.rec.file \in DOMAIN disk
    BY <2>1 DEF Loadable
  <2>3. e.rec.file \notin Orphans(cachetable')
    BY <2>1 DEF Orphans, FilesOf
  <2>4. e.rec.file \in DOMAIN disk' /\ disk'[e.rec.file] = disk[e.rec.file]
    BY <2>2, <2>3, StartParts
  <2>5. Matches(c, e.rec) /\ \A d \in index : d.rec.file = e.rec.file => d = e
    BY <2>1, <2>2 DEF CacheInv, IndexInv
  <2>6. Matches(c, cachetable[c])'
    BY <2>1, <2>4, <2>5 DEF Matches
  <2>7. ASSUME NEW d \in DOMAIN cachetable', cachetable'[d].file = cachetable'[c].file PROVE d = c
    <3>1. PICK b \in index : b.name = d /\ cachetable'[d] = b.rec
      BY StartParts
    <3> QED BY <2>1, <2>5, <2>7, <3>1
  <2> QED BY <2>1, <2>4, <2>6, <2>7
<1>4. IndexInv'
  BY StartParts, IndexFrame DEF CacheInv
<1>5. WriterInv' /\ SenderInv'
  BY <1>1, StartParts DEF WriterInv, Writing, SenderInv
<1>6. BlocksMatchHolders'
  <2>1. \A f \in Files : Holders(f)' = Holders(f) /\ Blocks(f)' = Blocks(f)
    BY StartParts DEF Holders, Blocks
  <2> QED BY <2>1, StartParts, BlocksFrame DEF CacheInv
<1> QED BY <1>2, <1>3, <1>4, <1>5, <1>6 DEF CacheInv

-----------------------------------------------------------------------------
(* CacheInv is inductive: every critical section of the cache, every step  *)
(* of a request, of a script and of the environment, and a crash at any    *)
(* moment preserve it.                                                     *)
THEOREM CacheInductive == CacheInv /\ [Next]_vars => CacheInv'
<1> SUFFICES ASSUME CacheInv, [Next]_vars PROVE CacheInv'
  OBVIOUS
<1>1. CASE UNCHANGED vars
  <2>1. UNCHANGED <<up, cachetable, blocked_files, thrown, disk, index, proc, orig, clock>>
    BY <1>1 DEF vars, memory
  <2>2. Shape' /\ DownInv' /\ TableInv' /\ IndexInv'
    BY <2>1 DEF CacheInv, Shape, DownInv, TableInv, IndexInv, Matches
  <2>3. WriterInv' /\ SenderInv'
    <3>1. FilesOf(cachetable)' = FilesOf(cachetable) /\ IndexFiles' = IndexFiles
      BY <2>1 DEF FilesOf, IndexFiles
    <3>2. \A p \in Procs : Writing(p)' <=> Writing(p)
      BY <2>1 DEF Writing
    <3>3. WriterInv'
      BY <2>1, <3>1, <3>2 DEF CacheInv, WriterInv
    <3> QED BY <2>1, <3>3 DEF CacheInv, SenderInv
  <2>4. BlocksMatchHolders'
    BY <2>1 DEF CacheInv, BlocksMatchHolders, Blocks, Holders
  <2> QED BY <2>2, <2>3, <2>4 DEF CacheInv
<1>2. ASSUME NEW p \in Procs, RequestStep(p) PROVE CacheInv'
  BY <1>2, CacheThread, CacheCheck, CacheSendEnds, CacheCreate, CacheWrite, CacheAddStat, CacheAdd
     DEF RequestStep
<1>3. ASSUME NEW p \in Procs, ScriptStep(p) PROVE CacheInv'
  BY <1>3, CacheThread, CachePurge, CacheList DEF ScriptStep
<1>4. ASSUME NEW c \in Names, remove(c) PROVE CacheInv'
  BY <1>4, CacheRemove
<1>5. CASE Tick \/ CreateDir \/ \E o \in Origs : Info(o) \/ Edit(o)
  BY <1>5, CachePlain
<1>6. CASE Start \/ Stop \/ Crash
  BY <1>6, CacheStart, CacheStop, CacheCrash
<1> QED BY <1>1, <1>2, <1>3, <1>4, <1>5, <1>6 DEF Next

(* CacheInv holds in every reachable state, whatever the threads, the      *)
(* limits and the number of restarts.                                      *)
THEOREM CacheInvariance == Spec => []CacheInv
  BY InitCache, CacheInductive, PTL DEF Spec

(* Every record of cachetable names a file of its own that is in the       *)
(* directory and is what the record says.                                  *)
THEOREM RecordsCorrect == Spec => []RecordsNameTheirFiles
<1>1. CacheInv => RecordsNameTheirFiles
  <2> SUFFICES ASSUME CacheInv PROVE RecordsNameTheirFiles
    OBVIOUS
  <2> QED BY DEF CacheInv, TableInv, Matches, RecordsNameTheirFiles
<1> QED BY <1>1, CacheInvariance, PTL

(* A cache file carries exactly one block for every request that has it as *)
(* its hit and one for every sendFile() of it that threw an Error: check() *)
(* and deblock() balance on every other path.                              *)
THEOREM BlocksCorrect == Spec => []BlocksMatchHolders
<1>1. CacheInv => BlocksMatchHolders
  BY DEF CacheInv
<1> QED BY <1>1, CacheInvariance, PTL

-----------------------------------------------------------------------------
(* What a hit is made from.                                                *)

(* The renditions there are and the ones that are being made, and what the *)
(* requests have seen of their masters.                                    *)
Renditions ==
  {disk[f] : f \in DOMAIN disk}
    \cup {proc[p] : p \in {q \in Procs : proc[q].pc = "create"}}

Sights == {proc[p] : p \in {q \in Procs : proc[q].pc \in {"check", "send"}}}

MasterOf(x) == orig[OrigOf[x.canon]]

(* A version of the master later than the one a rendition was made from    *)
(* has a modification time not before the second in which that was read.   *)
FreshInv ==
  /\ \A x \in Renditions :
       /\ x.read <= clock /\ x.ver <= MasterOf(x).ver
       /\ MasterOf(x).ver > x.ver => MasterOf(x).mtime >= x.read
  /\ \A y \in Sights : y.ver <= MasterOf(y).ver
  /\ \A x \in Renditions, y \in Sights :
       OrigOf[x.canon] = OrigOf[y.canon] /\ y.ver > x.ver => y.mtime >= x.read

(* Every rendition and every sight is one that was there before. *)
SameMaking ==
  /\ \A x \in Renditions' : \E w \in Renditions :
       x.canon = w.canon /\ x.ver = w.ver /\ x.read = w.read
  /\ \A y \in Sights' : \E z \in Sights :
       y.canon = z.canon /\ y.ver = z.ver /\ y.mtime = z.mtime

LEMMA FreshTypes ==
  ASSUME CacheInv
  PROVE  /\ \A x \in Renditions : x.canon \in Canons /\ x.ver \in Int /\ x.read \in Int
         /\ \A y \in Sights : y.canon \in Canons /\ y.ver \in Int /\ y.mtime \in Int
         /\ \A c \in Canons : /\ OrigOf[c] \in Origs
                              /\ orig[OrigOf[c]].ver \in Int /\ orig[OrigOf[c]].mtime \in Int
         /\ clock \in Int
<1>1. ASSUME NEW x \in Renditions PROVE x.canon \in Canons /\ x.ver \in Int /\ x.read \in Int
  <2>1. CASE \E f \in DOMAIN disk : x = disk[f]
    <3>1. x \in Contents
      BY <2>1, TableProperties DEF CacheInv, Shape
    <3> QED BY <3>1 DEF Contents
  <2>2. CASE \E p \in Procs : x = proc[p] /\ proc[p].pc = "create"
    BY <2>2, StateFields DEF CacheInv, Shape
  <2> QED BY <2>1, <2>2 DEF Renditions
<1>2. ASSUME NEW y \in Sights PROVE y.canon \in Canons /\ y.ver \in Int /\ y.mtime \in Int
  BY StateFields DEF Sights, CacheInv, Shape
<1>3. ASSUME NEW c \in Canons
      PROVE  OrigOf[c] \in Origs /\ orig[OrigOf[c]].ver \in Int /\ orig[OrigOf[c]].mtime \in Int
  <2>1. OrigOf[c] \in Origs
    BY CacheAssumption
  <2> QED BY <2>1 DEF CacheInv, Shape
<1> QED BY <1>1, <1>2, <1>3 DEF CacheInv, Shape

LEMMA FreshFrame ==
  ASSUME CacheInv, FreshInv, SameMaking, orig' = orig, clock' \in Int, clock' >= clock
  PROVE  FreshInv'
<1>1. ASSUME NEW x \in Renditions'
      PROVE  /\ x.read <= clock' /\ x.ver <= MasterOf(x)'.ver
             /\ MasterOf(x)'.ver > x.ver => MasterOf(x)'.mtime >= x.read
  <2>1. PICK w \in Renditions : x.canon = w.canon /\ x.ver = w.ver /\ x.read = w.read
    BY DEF SameMaking
  <2>2. MasterOf(x)' = MasterOf(w) /\ w.read \in Int /\ clock \in Int
    BY <2>1, FreshTypes DEF MasterOf
  <2> QED BY <2>1, <2>2 DEF FreshInv
<1>2. ASSUME NEW y \in Sights' PROVE y.ver <= MasterOf(y)'.ver
  <2>1. PICK z \in Sights : y.canon = z.canon /\ y.ver = z.ver
    BY DEF SameMaking
  <2> QED BY <2>1 DEF FreshInv, MasterOf
<1>3. ASSUME NEW x \in Renditions', NEW y \in Sights',
             OrigOf[x.canon] = OrigOf[y.canon], y.ver > x.ver
      PROVE  y.mtime >= x.read
  <2>1. PICK w \in Renditions : x.canon = w.canon /\ x.ver = w.ver /\ x.read = w.read
    BY DEF SameMaking
  <2>2. PICK z \in Sights : y.canon = z.canon /\ y.ver = z.ver /\ y.mtime = z.mtime
    BY DEF SameMaking
  <2> QED BY <1>3, <2>1, <2>2 DEF FreshInv
<1> QED BY <1>1, <1>2, <1>3 DEF FreshInv

(* The steps that read and look at nothing. *)
LEMMA MakingFrame ==
  ASSUME CacheInv, FreshInv, orig' = orig, clock' = clock,
         \A f \in DOMAIN disk' :
           \/ /\ f \in DOMAIN disk /\ disk'[f].canon = disk[f].canon
              /\ disk'[f].ver = disk[f].ver /\ disk'[f].read = disk[f].read
           \/ \E p \in Procs : /\ proc[p].pc = "create" /\ disk'[f].canon = proc[p].canon
                               /\ disk'[f].ver = proc[p].ver /\ disk'[f].read = proc[p].read,
         \A p \in Procs :
           /\ proc'[p].pc = "create" => proc'[p] = proc[p]
           /\ proc'[p].pc \in {"check", "send"} =>
                /\ proc[p].pc \in {"check", "send"} /\ proc'[p].canon = proc[p].canon
                /\ proc'[p].ver = proc[p].ver /\ proc'[p].mtime = proc[p].mtime
  PROVE  FreshInv'
<1>1. ASSUME NEW x \in Renditions'
      PROVE  \E w \in Renditions : x.canon = w.canon /\ x.ver = w.ver /\ x.read = w.read
  <2>1. CASE \E f \in DOMAIN disk' : x = disk'[f]
    BY <2>1 DEF Renditions
  <2>2. CASE \E p \in Procs : x = proc'[p] /\ proc'[p].pc = "create"
    BY <2>2 DEF Renditions
  <2> QED BY <2>1, <2>2 DEF Renditions
<1>2. ASSUME NEW y \in Sights'
      PROVE  \E z \in Sights : y.canon = z.canon /\ y.ver = z.ver /\ y.mtime = z.mtime
  BY DEF Sights
<1>3. clock \in Int
  BY DEF CacheInv, Shape
<1> QED BY <1>1, <1>2, <1>3, FreshFrame DEF SameMaking

(* What the threads do leaves the making of a rendition alone, but for     *)
(* CheckStat and Read.                                                     *)
LEMMA FreshThread ==
  ASSUME CacheInv, FreshInv, NEW p \in Procs, RequestStep(p) \/ ScriptStep(p)
  PROVE  FreshInv'
<1>1. proc \in [Procs -> ProcStates]
  BY DEF CacheInv, Shape
<1>2. \A r : proc' = [proc EXCEPT ![p] = r] =>
               proc'[p] = r /\ \A q \in Procs : q # p => proc'[q] = proc[q]
  BY <1>1
<1>3. ASSUME NEW r, proc' = [proc EXCEPT ![p] = r], r.pc \notin {"create", "check", "send"},
             UNCHANGED <<orig, clock>>,
             \A f \in DOMAIN disk' : f \in DOMAIN disk /\ disk'[f] = disk[f]
      PROVE  FreshInv'
  BY <1>2, <1>3, MakingFrame
<1>4. CASE \E c \in Canons : Request(p, c)
  BY <1>3, <1>4 DEF Request, Goto
<1>5. CASE CheckStat(p)
  <2> DEFINE c == proc[p].canon
             o == orig[OrigOf[c]]
             y == [pc |-> "check", canon |-> c, mtime |-> o.mtime, ver |-> o.ver]
  <2>1. /\ proc' = [proc EXCEPT ![p] = y] /\ UNCHANGED <<disk, orig, clock>>
        /\ c \in Canons /\ proc[p].pc = "stat"
    <3>1. proc[p].pc = "stat"
      BY <1>5 DEF CheckStat
    <3>2. c \in Canons
      BY <1>1, <3>1, StateFields
    <3> QED BY <1>5, <3>1, <3>2 DEF CheckStat, Goto
  <2>2. /\ y.pc = "check" /\ y.canon = c /\ y.ver = o.ver /\ y.mtime = o.mtime
        /\ o.ver \in Int /\ o.mtime \in Int
    BY <2>1, FreshTypes
  <2>3. proc'[p] = y /\ \A q \in Procs : q # p => proc'[q] = proc[q]
    BY <1>2, <2>1
  <2> HIDE DEF y, c
  <2>4. Renditions' \subseteq Renditions
    BY <2>1, <2>2, <2>3 DEF Renditions
  <2>5. Sights' \subseteq Sights \cup {y}
    BY <2>1, <2>3 DEF Sights
  <2>6. \A z : MasterOf(z)' = MasterOf(z)
    BY <2>1 DEF MasterOf
  <2>7. MasterOf(y) = o
    BY <2>2 DEF MasterOf
  <2>8. \A x \in Renditions : x.canon \in Canons /\ x.ver \in Int /\ x.read \in Int
    BY FreshTypes
  <2>9. ASSUME NEW x \in Renditions, OrigOf[x.canon] = OrigOf[y.canon], y.ver > x.ver
        PROVE  y.mtime >= x.read
    <3>1. MasterOf(x) = o
      BY <2>2, <2>9 DEF MasterOf
    <3> QED BY <2>2, <2>9, <3>1 DEF FreshInv
  <2>10. \A x \in Renditions' : /\ x.read <= clock' /\ x.ver <= MasterOf(x)'.ver
                                /\ MasterOf(x)'.ver > x.ver => MasterOf(x)'.mtime >= x.read
    BY <2>1, <2>4, <2>6 DEF FreshInv
  <2>11. \A z \in Sights' : z.ver <= MasterOf(z)'.ver
    BY <2>2, <2>5, <2>6, <2>7 DEF FreshInv
  <2>12. \A x \in Renditions', z \in Sights' :
           OrigOf[x.canon] = OrigOf[z.canon] /\ z.ver > x.ver => z.mtime >= x.read
    BY <2>4, <2>5, <2>9 DEF FreshInv
  <2> QED BY <2>10, <2>11, <2>12 DEF FreshInv
<1>6. CASE CheckLocked(p)
  <2> DEFINE q == proc[p]
             f == Lookup(q.canon).file
             y == [pc |-> "send", canon |-> q.canon, file |-> f, mtime |-> q.mtime, ver |-> q.ver]
             r == [pc |-> "read", canon |-> q.canon]
  <2>1. /\ q.pc = "check" /\ UNCHANGED <<disk, orig, clock>>
        /\ proc' = [proc EXCEPT ![p] = y] \/ proc' = [proc EXCEPT ![p] = r]
    BY <1>6, Zenon DEF CheckLocked, Goto
  <2>2. CASE proc' = [proc EXCEPT ![p] = y]
    <3>1. y.pc = "send" /\ y.canon = q.canon /\ y.mtime = q.mtime /\ y.ver = q.ver
      OBVIOUS
    <3>2. proc'[p] = y /\ \A x \in Procs : x # p => proc'[x] = proc[x]
      BY <1>2, <2>2
    <3> HIDE DEF y
    <3> QED BY <2>1, <3>1, <3>2, MakingFrame
  <2>3. CASE proc' = [proc EXCEPT ![p] = r]
    <3>1. r.pc = "read"
      OBVIOUS
    <3> HIDE DEF r
    <3> QED BY <1>3, <2>1, <2>3, <3>1
  <2> QED BY <2>1, <2>2, <2>3
<1>7. CASE SendFile(p)
  <2>1. PICK r : /\ proc' = [proc EXCEPT ![p] = r] /\ r.pc \in {"sending", "idle"}
                 /\ UNCHANGED <<disk, orig, clock>>
    BY <1>7 DEF SendFile, Goto, Idle
  <2> QED BY <1>3, <2>1
<1>8. CASE SendFileEnds(p)
  BY <1>3, <1>8 DEF SendFileEnds, Goto, Idle
<1>9. CASE Read(p)
  <2> DEFINE c == proc[p].canon
             o == orig[OrigOf[c]]
             w == [pc |-> "create", canon |-> c, ver |-> o.ver, read |-> clock]
  <2>1. /\ proc' = [proc EXCEPT ![p] = w] \/ proc' = [proc EXCEPT ![p] = Idle]
        /\ UNCHANGED <<disk, orig, clock>> /\ c \in Canons
    <3>1. proc[p].pc = "read"
      BY <1>9 DEF Read
    <3>2. c \in Canons
      BY <1>1, <3>1, StateFields
    <3> QED BY <1>9, <3>2 DEF Read, Goto
  <2>2. CASE proc' = [proc EXCEPT ![p] = Idle]
    BY <1>3, <2>1, <2>2 DEF Idle
  <2>3. CASE proc' = [proc EXCEPT ![p] = w]
    <3>1. /\ w.pc = "create" /\ w.canon = c /\ w.ver = o.ver /\ w.read = clock
          /\ o.ver \in Int /\ o.mtime \in Int /\ clock \in Int
      BY <2>1, FreshTypes
    <3>2. proc'[p] = w /\ \A q \in Procs : q # p => proc'[q] = proc[q]
      BY <1>2, <2>3
    <3> HIDE DEF w, c
    <3>3. Renditions' \subseteq Renditions \cup {w}
      BY <2>1, <3>2 DEF Renditions
    <3>4. Sights' \subseteq Sights
      BY <3>1, <3>2 DEF Sights
    <3>5. \A z : MasterOf(z)' = MasterOf(z)
      BY <2>1 DEF MasterOf
    <3>6. MasterOf(w) = o
      BY <3>1 DEF MasterOf
    <3>7. ASSUME NEW y \in Sights, OrigOf[w.canon] = OrigOf[y.canon] PROVE ~(y.ver > w.ver)
      <4>1. MasterOf(y) = o /\ y.ver \in Int
        BY <3>1, <3>7, FreshTypes DEF MasterOf
      <4> QED BY <3>1, <4>1 DEF FreshInv
    <3>8. \A x \in Renditions' : /\ x.read <= clock' /\ x.ver <= MasterOf(x)'.ver
                                 /\ MasterOf(x)'.ver > x.ver => MasterOf(x)'.mtime >= x.read
      BY <2>1, <3>1, <3>3, <3>5, <3>6 DEF FreshInv
    <3>9. \A z \in Sights' : z.ver <= MasterOf(z)'.ver
      BY <3>4, <3>5 DEF FreshInv
    <3>10. \A x \in Renditions', z \in Sights' :
             OrigOf[x.canon] = OrigOf[z.canon] /\ z.ver > x.ver => z.mtime >= x.read
      BY <3>3, <3>4, <3>7 DEF FreshInv
    <3> QED BY <3>8, <3>9, <3>10 DEF FreshInv
  <2> QED BY <2>1, <2>2, <2>3
<1>10. CASE getNewCacheFileName(p)
  <2>1. PICK r : /\ proc' = [proc EXCEPT ![p] = r] /\ r.pc \in {"write", "idle"}
                 /\ proc[p].pc = "create" /\ UNCHANGED <<orig, clock>>
    BY <1>10 DEF getNewCacheFileName, Goto, Idle
  <2>2. \A f \in DOMAIN disk' :
          \/ f \in DOMAIN disk /\ disk'[f] = disk[f]
          \/ /\ disk'[f].canon = proc[p].canon
             /\ disk'[f].ver = proc[p].ver /\ disk'[f].read = proc[p].read
    <3>1. CASE disk' = disk
      BY <3>1
    <3>2. ASSUME NEW f, NEW v, disk' = Put(disk, f, v),
                 v.canon = proc[p].canon, v.ver = proc[p].ver, v.read = proc[p].read
          PROVE  \A g \in DOMAIN disk' :
                   \/ g \in DOMAIN disk /\ disk'[g] = disk[g]
                   \/ /\ disk'[g].canon = proc[p].canon
                      /\ disk'[g].ver = proc[p].ver /\ disk'[g].read = proc[p].read
      BY <3>2 DEF Put
    <3> QED BY <1>10, <3>1, <3>2 DEF getNewCacheFileName
  <2>3. proc'[p] = r /\ \A q \in Procs : q # p => proc'[q] = proc[q]
    BY <1>2, <2>1
  <2> QED BY <2>1, <2>2, <2>3, MakingFrame
<1>11. CASE Write(p)
  <2>1. PICK r : /\ proc' = [proc EXCEPT ![p] = r] /\ r.pc \in {"add", "idle"}
                 /\ UNCHANGED <<orig, clock>>
    BY <1>11 DEF Write, WriteOk, WriteClientGone, WriteError, Written, Goto, Idle
  <2>2. disk \in Tables(Files, Contents)
    BY DEF CacheInv, Shape
  <2>3. \A f \in DOMAIN disk' : /\ f \in DOMAIN disk /\ disk'[f].canon = disk[f].canon
                                /\ disk'[f].ver = disk[f].ver /\ disk'[f].read = disk[f].read
    <3>1. CASE disk' = disk
      BY <3>1
    <3>2. CASE disk' = Drop(disk, {proc[p].file})
      BY <3>2 DEF Drop
    <3>3. ASSUME NEW h \in BOOLEAN, Written(p, h)
          PROVE  \A f \in DOMAIN disk' :
                   /\ f \in DOMAIN disk /\ disk'[f].canon = disk[f].canon
                   /\ disk'[f].ver = disk[f].ver /\ disk'[f].read = disk[f].read
      <4>1. \A f \in DOMAIN disk : disk[f] \in Contents
        BY <2>2, TableProperties
      <4> QED BY <3>3, <4>1 DEF Written, Contents
    <3> QED BY <1>11, <3>1, <3>2, <3>3 DEF Write, WriteOk, WriteClientGone, WriteError
  <2>4. proc'[p] = r /\ \A q \in Procs : q # p => proc'[q] = proc[q]
    BY <1>2, <2>1
  <2> QED BY <2>1, <2>3, <2>4, MakingFrame
<1>12. CASE AddStat(p)
  BY <1>3, <1>12 DEF AddStat, Goto
<1>13. CASE AddLocked(p)
  <2>1. proc' = [proc EXCEPT ![p] = Idle] /\ UNCHANGED <<orig, clock>>
    BY <1>13 DEF AddLocked, Goto
  <2>2. \A f \in DOMAIN disk' : f \in DOMAIN disk /\ disk'[f] = disk[f]
    BY <1>13, AddParts DEF Drop
  <2> QED BY <1>3, <2>1, <2>2 DEF Idle
<1>14. CASE PurgeTest(p)
  BY <1>3, <1>14 DEF PurgeTest, Goto
<1>15. CASE PurgeLocked(p)
  <2>1. proc' = [proc EXCEPT ![p] = Idle] /\ UNCHANGED <<orig, clock>>
    BY <1>15 DEF PurgeLocked, Goto
  <2>2. \A f \in DOMAIN disk' : f \in DOMAIN disk /\ disk'[f] = disk[f]
    BY <1>15 DEF PurgeLocked, Drop
  <2> QED BY <1>3, <2>1, <2>2 DEF Idle
<1>16. CASE ListStart(p)
  BY <1>3, <1>16 DEF ListStart, Goto
<1>17. CASE ListVisit(p)
  <2>1. proc[p].pc = "list" /\ proc[p] \in ProcStates
    BY <1>1, <1>17 DEF ListVisit
  <2>2. \A T : [proc[p] EXCEPT !.todo = T].pc = "list"
    BY <2>1 DEF ProcStates, Idle
  <2>3. PICK r : /\ proc' = [proc EXCEPT ![p] = r] /\ r.pc \in {"list", "idle"}
                 /\ UNCHANGED <<disk, orig, clock>>
    BY <1>17, <2>2 DEF ListVisit, Goto, Idle
  <2> QED BY <1>3, <2>3
<1> QED BY <1>4, <1>5, <1>6, <1>7, <1>8, <1>9, <1>10, <1>11, <1>12, <1>13, <1>14, <1>15, <1>16,
           <1>17 DEF RequestStep, ScriptStep

LEMMA FreshStep == ASSUME CacheInv, FreshInv, [Next]_vars PROVE FreshInv'
<1>1. CASE UNCHANGED vars
  <2>1. UNCHANGED <<disk, proc, orig, clock>>
    BY <1>1 DEF vars
  <2> QED BY <2>1, MakingFrame
<1>2. ASSUME NEW p \in Procs, RequestStep(p) \/ ScriptStep(p) PROVE FreshInv'
  BY <1>2, FreshThread
<1>3. ASSUME NEW c \in Names, remove(c) PROVE FreshInv'
  <2>1. /\ UNCHANGED <<proc, orig, clock>>
        /\ \A f \in DOMAIN disk' : f \in DOMAIN disk /\ disk'[f] = disk[f]
    BY <1>3 DEF remove, Drop
  <2> QED BY <2>1, MakingFrame
<1>4. CASE CreateDir \/ Stop \/ \E o \in Origs : Info(o)
  <2>1. UNCHANGED <<disk, proc, orig, clock>>
    BY <1>4 DEF CreateDir, Stop, Info
  <2> QED BY <2>1, MakingFrame
<1>5. CASE Crash
  <2>1. /\ UNCHANGED <<disk, orig, clock>>
        /\ \A p \in Procs : proc'[p].pc = "idle"
    BY <1>5 DEF Crash, Idle
  <2> QED BY <2>1, MakingFrame
<1>6. CASE Start
  BY <1>6, StartParts, MakingFrame
<1>7. CASE Tick
  <2>1. UNCHANGED <<disk, proc, orig>> /\ clock' = clock + 1 /\ clock \in Int
    BY <1>7 DEF Tick, CacheInv, Shape
  <2>2. SameMaking
    BY <2>1 DEF SameMaking, Renditions, Sights
  <2> QED BY <2>1, <2>2, FreshFrame
<1>8. ASSUME NEW o \in Origs, Edit(o) PROVE FreshInv'
  <2>1. /\ UNCHANGED <<disk, proc, clock>>
        /\ orig'[o].ver = orig[o].ver + 1 /\ orig'[o].mtime = clock
        /\ \A b \in Origs \ {o} : orig'[b] = orig[b]
    BY <1>8 DEF Edit, CacheInv, Shape
  <2>2. Renditions' = Renditions /\ Sights' = Sights
    BY <2>1 DEF Renditions, Sights
  <2>3. ASSUME NEW x \in Renditions
        PROVE  /\ x.read <= clock' /\ x.ver <= MasterOf(x)'.ver
               /\ MasterOf(x)'.ver > x.ver => MasterOf(x)'.mtime >= x.read
    <3>1. /\ x.canon \in Canons /\ x.ver \in Int /\ OrigOf[x.canon] \in Origs
          /\ orig[OrigOf[x.canon]].ver \in Int
      BY FreshTypes
    <3> QED BY <2>1, <3>1 DEF FreshInv, MasterOf
  <2>4. ASSUME NEW y \in Sights PROVE y.ver <= MasterOf(y)'.ver
    <3>1. /\ y.canon \in Canons /\ y.ver \in Int /\ OrigOf[y.canon] \in Origs
          /\ orig[OrigOf[y.canon]].ver \in Int
      BY FreshTypes
    <3> QED BY <2>1, <3>1 DEF FreshInv, MasterOf
  <2> QED BY <2>2, <2>3, <2>4 DEF FreshInv
<1> QED BY <1>1, <1>2, <1>3, <1>4, <1>5, <1>6, <1>7, <1>8 DEF Next

(* A request that has a hit sends the rendition it asked for, and it is    *)
(* not older than the master that check() saw, unless the master was       *)
(* replaced in the seconds from the reading of the older version to the    *)
(* closing of the cache file: through replacements, evictions, crashes and *)
(* restarts.                                                               *)
THEOREM HitCorrect == Spec => []HitIsUpToDate
<1>1. Init => FreshInv
  BY EmptyTable DEF Init, FreshInv, Renditions, Sights, Idle
<1>2. CacheInv /\ FreshInv => HitIsUpToDate
  <2> SUFFICES ASSUME CacheInv, FreshInv, NEW p \in Procs, proc[p].pc = "send",
                      proc[p].file \in DOMAIN disk
               PROVE  LET q == proc[p]  d == disk[q.file]
                      IN  d.canon = q.canon /\ (d.ver >= q.ver \/ q.mtime \in d.read..d.mtime)
    BY DEF HitIsUpToDate
  <2> DEFINE q == proc[p]
             d == disk[q.file]
  <2>1. d \in Renditions /\ q \in Sights
    BY DEF Renditions, Sights
  <2>2. d.canon = q.canon /\ d.mtime >= q.mtime
    BY DEF CacheInv, SenderInv
  <2>3. d.ver \in Int /\ d.read \in Int /\ q.ver \in Int /\ q.mtime \in Int
    BY <2>1, FreshTypes
  <2>4. d.mtime \in Int
    <3>1. d \in Contents
      BY TableProperties DEF CacheInv, Shape
    <3> QED BY <3>1 DEF Contents
  <2>5. q.ver > d.ver => q.mtime >= d.read
    BY <2>1, <2>2 DEF FreshInv
  <2> HIDE DEF d, q
  <2>6. d.ver >= q.ver \/ q.mtime \in d.read..d.mtime
    BY <2>2, <2>3, <2>4, <2>5
  <2> QED BY <2>2, <2>6 DEF d, q
<1> QED BY <1>1, <1>2, CacheInvariance, FreshStep, PTL DEF Spec

-----------------------------------------------------------------------------
(* What a step may never do.                                               *)

(* The steps that can take a file from the directory. *)
LEMMA DiskSteps ==
  ASSUME CacheInv, [Next]_vars, ~ (DOMAIN disk \subseteq DOMAIN disk')
  PROVE  \/ Start
         \/ \E p \in Procs : Write(p) \/ AddLocked(p) \/ PurgeLocked(p)
         \/ \E c \in Names : remove(c)
<1>1. disk' # disk
  OBVIOUS
<1>2. ~UNCHANGED vars
  BY <1>1 DEF vars
<1>3. \A p \in Procs : ~getNewCacheFileName(p)
  BY <1>1 DEF getNewCacheFileName, Put
<1>4. ~(Stop \/ Crash \/ Tick \/ CreateDir) /\ \A o \in Origs : ~(Info(o) \/ Edit(o))
  BY <1>1 DEF Stop, Crash, Tick, CreateDir, Info, Edit
<1>5. \A p \in Procs : /\ \A c \in Canons : ~Request(p, c)
                       /\ ~CheckStat(p) /\ ~CheckLocked(p) /\ ~SendFile(p) /\ ~SendFileEnds(p)
                       /\ ~Read(p) /\ ~AddStat(p)
  BY <1>1 DEF Request, CheckStat, CheckLocked, SendFile, SendFileEnds, Read, AddStat
<1>6. \A p \in Procs : ~PurgeTest(p) /\ ~ListStart(p) /\ ~ListVisit(p)
  BY <1>1 DEF PurgeTest, ListStart, ListVisit
<1> QED BY <1>2, <1>3, <1>4, <1>5, <1>6 DEF Next, RequestStep, ScriptStep

(* Who unlinks a file in use. *)
LEMMA UnlinkStep ==
  ASSUME CacheInv, [Next]_vars, NEW f \in DOMAIN blocked_files \cap DOMAIN disk, f \notin DOMAIN disk'
  PROVE  \E p \in Procs : /\ proc[p].pc = "addLocked" /\ proc'[p] = Idle
                          /\ proc[p].canon \in DOMAIN cachetable
                          /\ cachetable[proc[p].canon].file = f
<1>1. f # NoFile
  BY TableProperties, CacheAssumption DEF CacheInv, Shape
<1>2. ~Start
  BY EmptyTable DEF Start, CacheInv, DownInv
<1>3. ASSUME NEW p \in Procs, Write(p) PROVE FALSE
  <2>1. proc[p].pc = "write" /\ Writing(p) /\ FileOf(proc[p]) = proc[p].file
    BY <1>3 DEF Write, Writing, FileOf
  <2>2. proc[p].file # f
    BY <2>1 DEF CacheInv, WriterInv
  <2>3. DOMAIN disk' = DOMAIN disk \/ disk' = Drop(disk, {proc[p].file})
    BY <1>3 DEF Write, WriteOk, WriteClientGone, WriteError, Written
  <2> QED BY <2>2, <2>3 DEF Drop
<1>4. ASSUME NEW c \in Names, remove(c) PROVE FALSE
  BY <1>4 DEF remove, Drop, InUse
<1>5. ASSUME NEW p \in Procs, PurgeLocked(p) PROVE FALSE
  <2>1. PICK E \in Evictions(cachetable, cachesize, nfiles) :
          disk' = Drop(disk, {cachetable[c].file : c \in E})
    BY <1>5 DEF PurgeLocked
  <2>2. \A c \in E : cachetable[c].file # f
    BY FilesDistinct, EvictionsFree DEF InUse
  <2> QED BY <2>1, <2>2 DEF Drop
<1>6. ASSUME NEW p \in Procs, AddLocked(p)
      PROVE  /\ proc[p].pc = "addLocked" /\ proc'[p] = Idle
             /\ proc[p].canon \in DOMAIN cachetable
             /\ cachetable[proc[p].canon].file = f
  <2>1. proc[p].pc = "addLocked" /\ proc'[p] = Idle
    BY <1>6 DEF AddLocked, Goto, CacheInv, Shape
  <2>2. PICK E \in SUBSET DOMAIN cachetable :
          /\ \A d \in E : ~InUse(cachetable[d].file)
          /\ disk' = Drop(disk, {Lookup(d).file : d \in Replaced(proc[p].canon) \cup E})
    BY <1>6, AddParts
  <2>3. PICK d \in Replaced(proc[p].canon) \cup E : Lookup(d).file = f
    BY <2>2 DEF Drop
  <2>4. d \notin E
    BY <2>2, <2>3 DEF Lookup, InUse
  <2> QED BY <2>1, <2>3, <2>4 DEF Replaced, Lookup
<1> QED BY <1>2, <1>3, <1>4, <1>5, <1>6, DiskSteps

(* purge() and remove(), called by any thread at any moment, never unlink  *)
(* a file that a request is about to send or sends; add() only does it to  *)
(* the file of the very rendition it replaces.                             *)
THEOREM UnlinksCorrect == Spec => OnlyAddUnlinksBlocked
<1>1. CacheInv /\ [Next]_vars =>
        [\A f \in DOMAIN blocked_files \cap DOMAIN disk :
           f \notin DOMAIN disk' =>
             \E p \in Procs : /\ proc[p].pc = "addLocked" /\ proc'[p] = Idle
                              /\ proc[p].canon \in DOMAIN cachetable
                              /\ cachetable[proc[p].canon].file = f]_vars
  BY UnlinkStep
<1> QED BY <1>1, CacheInvariance, PTL DEF Spec, OnlyAddUnlinksBlocked

(* A start of the server leaves in the directory exactly the files that    *)
(* the records it loaded name, whatever a crash had left there.            *)
THEOREM StartCorrect == Spec => StartCleansDirectory
<1>1. ASSUME CacheInv, [Next]_vars, ~up, up'
      PROVE  DOMAIN disk' = FilesOf(cachetable') \ {NoFile}
  <2>1. Start
    <3>1. ~UNCHANGED vars /\ \A c \in Names : ~remove(c)
      BY <1>1 DEF vars, remove
    <3>2. \A p \in Procs : proc[p].pc = "idle"
      BY <1>1 DEF CacheInv, DownInv, Idle
    <3>3. \A p \in Procs : ~RequestStep(p)
      BY <1>1, <3>2 DEF RequestStep, Request, CheckStat, CheckLocked, SendFile, SendFileEnds,
                        Read, getNewCacheFileName, Write, AddStat, AddLocked
    <3>4. \A p \in Procs : ~ScriptStep(p)
      BY <1>1, <3>2 DEF ScriptStep, PurgeTest, PurgeLocked, ListStart, ListVisit
    <3>5. \A o \in Origs : ~Info(o) /\ ~Edit(o)
      BY <1>1 DEF Info, Edit
    <3>6. ~Stop /\ ~Crash /\ ~Tick /\ ~CreateDir
      BY <1>1 DEF Stop, Crash, Tick, CreateDir
    <3> QED BY <1>1, <3>1, <3>3, <3>4, <3>5, <3>6 DEF Next
  <2>2. DOMAIN disk \subseteq Files /\ NoFile \notin Files
    BY <1>1, TableProperties, CacheAssumption DEF CacheInv, Shape
  <2>3. DOMAIN disk' = DOMAIN disk \ Orphans(cachetable')
    BY <1>1, <2>1, StartParts
  <2>4. \A f \in FilesOf(cachetable') \ {NoFile} : f \in DOMAIN disk
    <3>1. ASSUME NEW c \in DOMAIN cachetable', cachetable'[c].file # NoFile
          PROVE  cachetable'[c].file \in DOMAIN disk
      <4>1. PICK e \in Loadable : index # NoIndex /\ cachetable'[c] = e.rec
        BY <1>1, <2>1, StartParts
      <4> QED BY <3>1, <4>1 DEF Loadable
    <3> QED BY <3>1 DEF FilesOf
  <2> QED BY <2>2, <2>3, <2>4 DEF Orphans
<1>2. CacheInv /\ [Next]_vars => [~up /\ up' => DOMAIN disk' = FilesOf(cachetable') \ {NoFile}]_vars
  BY <1>1
<1> QED BY <1>2, CacheInvariance, PTL DEF Spec, StartCleansDirectory

-----------------------------------------------------------------------------
(* Eviction: what purge() takes, and how much.                             *)

(* The order that purge() works through lists every entry of the table     *)
(* once, and it stops at its end or where a counter falls below its goal.  *)
LEMMA EvictionOrder ==
  ASSUME NEW tab, IsFiniteSet(DOMAIN tab), NEW size, NEW n, NEW E \in Evictions(tab, size, n)
  PROVE  \E s \in [1 .. Cardinality(DOMAIN tab) -> DOMAIN tab] :
         \E k \in 0 .. Cardinality(DOMAIN tab) :
           /\ E = Victims(tab, s, k)
           /\ \A i, j \in 1 .. Cardinality(DOMAIN tab) : s[i] = s[j] => i = j
           /\ \A d \in DOMAIN tab : \E j \in 1 .. Cardinality(DOMAIN tab) : s[j] = d
           /\ \A i, j \in 1 .. Cardinality(DOMAIN tab) : i < j => tab[s[i]].atime <= tab[s[j]].atime
           /\ \/ k = Cardinality(DOMAIN tab)
              \/ k > 0 /\ GoalReached(SizeWithout(tab, size, E), CountWithout(n, E))
<1> DEFINE C == Cardinality(DOMAIN tab)
<1>1. PICK s \in AccessOrders(tab), k \in 0 .. C :
        /\ E = Victims(tab, s, k)
        /\ \/ k = Len(s)
           \/ /\ k > 0
              /\ GoalReached(SizeWithout(tab, size, Victims(tab, s, k)),
                             CountWithout(n, Victims(tab, s, k)))
  BY DEF Evictions
<1>2. C \in Nat
  BY FS_CardinalityType
<1>3. s \in [1 .. C -> DOMAIN tab] /\ \A i, j \in 1 .. C : i # j => s[i] # s[j]
  BY <1>1 DEF AccessOrders, SetToSeqs
<1> HIDE DEF C
<1>4. DOMAIN s = 1 .. C /\ Len(s) = C
  <2>1. s \in Seq(DOMAIN tab)
    BY <1>2, <1>3
  <2> QED BY <1>2, <1>3, <2>1
<1>5. \A i, j \in 1 .. C : i < j => tab[s[i]].atime <= tab[s[j]].atime
  BY <1>1, <1>4 DEF AccessOrders
<1>6. \A d \in DOMAIN tab : \E j \in 1 .. C : s[j] = d
  <2> DEFINE D == 1 .. C
             T == DOMAIN tab
  <2>1. IsFiniteSet(D) /\ Cardinality(D) = C
    BY <1>2, FS_Interval
  <2>2. s \in Injection(D, T)
    BY <1>3 DEF Injection, IsInjective
  <2>3. Cardinality(D) = Cardinality(T) /\ IsFiniteSet(T)
    BY <2>1 DEF C
  <2> HIDE DEF D, T
  <2>4. s \in Surjection(D, T)
    BY <2>2, <2>3, FS_Injection
  <2> QED BY <2>4 DEF Surjection, D, T
<1> QED BY <1>1, <1>3, <1>4, <1>5, <1>6 DEF C

(* An entry that stays is in use or was accessed no earlier than those     *)
(* that go.                                                                *)
LEMMA EvictionsOldest ==
  ASSUME NEW tab, IsFiniteSet(DOMAIN tab), NEW size, NEW n, NEW E \in Evictions(tab, size, n),
         NEW c \in E, NEW d \in DOMAIN tab \ E
  PROVE  tab[c].atime <= tab[d].atime \/ InUse(tab[d].file)
<1> DEFINE C == Cardinality(DOMAIN tab)
<1>1. PICK s \in [1 .. C -> DOMAIN tab], k \in 0 .. C :
        /\ E = Victims(tab, s, k)
        /\ \A e \in DOMAIN tab : \E j \in 1 .. C : s[j] = e
        /\ \A i, j \in 1 .. C : i < j => tab[s[i]].atime <= tab[s[j]].atime
  BY EvictionOrder
<1>2. C \in Nat
  BY FS_CardinalityType
<1> HIDE DEF C
<1>3. PICK i \in 1 .. k : c = s[i]
  BY <1>1 DEF Victims
<1>4. PICK j \in 1 .. C : d = s[j]
  BY <1>1
<1>5. CASE j \in 1 .. k
  BY <1>1, <1>4, <1>5 DEF Victims
<1>6. CASE j \notin 1 .. k
  <2>1. i \in 1 .. C /\ i < j
    BY <1>2, <1>3, <1>4, <1>6
  <2> QED BY <1>1, <1>3, <1>4, <2>1
<1> QED BY <1>5, <1>6

(* When no file is in use purge() takes as many entries as it visits. *)
LEMMA EvictionsCount ==
  ASSUME NEW tab, IsFiniteSet(DOMAIN tab), NEW size, NEW n, NEW E \in Evictions(tab, size, n),
         \A c \in DOMAIN tab : ~InUse(tab[c].file)
  PROVE  /\ E \subseteq DOMAIN tab /\ Cardinality(E) \in Nat
         /\ \/ E = DOMAIN tab
            \/ GoalReached(SizeWithout(tab, size, E), CountWithout(n, E))
<1>1. E \subseteq DOMAIN tab
  BY EvictionsFree
<1>2. Cardinality(E) \in Nat
  BY <1>1, FS_Subset, FS_CardinalityType
<1> DEFINE C == Cardinality(DOMAIN tab)
<1>3. PICK s \in [1 .. C -> DOMAIN tab], k \in 0 .. C :
        /\ E = Victims(tab, s, k)
        /\ \A d \in DOMAIN tab : \E j \in 1 .. C : s[j] = d
        /\ \/ k = C
           \/ GoalReached(SizeWithout(tab, size, E), CountWithout(n, E))
  BY EvictionOrder
<1> HIDE DEF C
<1>4. ASSUME k = C PROVE DOMAIN tab \subseteq E
  <2>1. ASSUME NEW d \in DOMAIN tab PROVE d \in E
    <3>1. PICK j \in 1 .. k : s[j] = d
      BY <1>3, <1>4
    <3>2. ~InUse(tab[s[j]].file)
      BY <3>1
    <3> QED BY <1>3, <3>1, <3>2 DEF Victims
  <2> QED BY <2>1
<1> QED BY <1>1, <1>2, <1>3, <1>4

(* A thread in purge() or add() gets out by the critical section. *)
LEMMA EvictionStep ==
  ASSUME CacheInv, [Next]_vars, NEW p \in Procs, proc[p].pc \in {"purge", "addLocked"},
         proc'[p] = Idle, up'
  PROVE  PurgeLocked(p) \/ AddLocked(p)
<1>1. proc' # proc /\ proc'[p] # proc[p] /\ proc \in [Procs -> ProcStates] /\ proc[p].pc # "idle"
  BY DEF Idle, CacheInv, Shape
<1>2. ~UNCHANGED vars /\ \A c \in Names : ~remove(c)
  BY <1>1 DEF vars, remove
<1>3. \A o \in Origs : ~Info(o) /\ ~Edit(o)
  BY <1>1 DEF Info, Edit
<1>4. ~Start /\ ~Stop /\ ~Crash /\ ~Tick /\ ~CreateDir
  BY <1>1 DEF Start, Stop, Crash, Forget, Tick, CreateDir
<1>5. ASSUME NEW q \in Procs, NEW r, Goto(q, r) PROVE q = p
  BY <1>1, <1>5 DEF Goto
<1>6. ASSUME NEW q \in Procs, RequestStep(q) PROVE q = p
  <2>1. \E r : Goto(q, r)
    <3>1. CASE \E c \in Canons : Request(q, c)
      BY <3>1 DEF Request
    <3>2. CASE CheckStat(q)
      BY <3>2 DEF CheckStat
    <3>3. CASE CheckLocked(q)
      BY <3>3 DEF CheckLocked
    <3>4. CASE SendFile(q) \/ SendFileEnds(q) \/ Read(q) \/ AddStat(q) \/ AddLocked(q)
      BY <3>4 DEF SendFile, SendFileEnds, Read, AddStat, AddLocked
    <3>5. CASE getNewCacheFileName(q)
      BY <3>5 DEF getNewCacheFileName
    <3>6. CASE Write(q)
      BY <3>6 DEF Write, WriteOk, WriteClientGone, WriteError, Written
    <3> QED BY <1>6, <3>1, <3>2, <3>3, <3>4, <3>5, <3>6 DEF RequestStep
  <2> QED BY <1>5, <2>1
<1>7. ASSUME NEW q \in Procs, ScriptStep(q) PROVE q = p
  <2>1. \E r : Goto(q, r)
    BY <1>7 DEF ScriptStep, PurgeTest, PurgeLocked, ListStart, ListVisit
  <2> QED BY <1>5, <2>1
<1>8. RequestStep(p) \/ ScriptStep(p)
  BY <1>2, <1>3, <1>4, <1>6, <1>7 DEF Next
<1>9. proc[p] # Idle
  BY <1>1
<1> QED BY <1>8, <1>9 DEF RequestStep, ScriptStep, Request, CheckStat, CheckLocked, SendFile,
             SendFileEnds, Read, getNewCacheFileName, Write, AddStat, PurgeTest, ListStart, ListVisit

(* purge(), on its own or in add(), takes no entry that was accessed later *)
(* than one it could have taken and leaves.                                *)
THEOREM EvictionOrderCorrect == Spec => EvictsLeastRecentlyUsed
<1>1. ASSUME CacheInv, [Next]_vars, NEW p \in Procs,
             proc[p].pc \in {"purge", "addLocked"}, proc'[p] = Idle, up',
             NEW c \in DOMAIN cachetable \ DOMAIN cachetable',
             NEW d \in DOMAIN cachetable \cap DOMAIN cachetable'
      PROVE  \/ cachetable[c].atime <= cachetable[d].atime
             \/ cachetable[d].file \in DOMAIN blocked_files
             \/ proc[p].pc = "addLocked" /\ proc[p].canon = d
  <2>1. IsFiniteSet(DOMAIN cachetable)
    BY <1>1, FilesDistinct
  <2>2. CASE PurgeLocked(p)
    <3>1. PICK E \in Evictions(cachetable, cachesize, nfiles) : cachetable' = Drop(cachetable, E)
      BY <2>2 DEF PurgeLocked
    <3>2. c \in E /\ d \in DOMAIN cachetable \ E
      BY <1>1, <3>1 DEF Drop
    <3> QED BY <2>1, <3>2, EvictionsOldest DEF InUse
  <2>3. CASE AddLocked(p) /\ proc[p].canon # d
    <3> DEFINE size == SizeWithout(cachetable, cachesize, Replaced(proc[p].canon))
               n == CountWithout(nfiles, Replaced(proc[p].canon))
    <3>1. PICK E \in IF OverLimit(size, n) THEN Evictions(cachetable, size, n) ELSE {{}} :
            cachetable' = Put(Drop(cachetable, E), proc[p].canon, proc[p].rec)
      BY <2>3 DEF AddLocked
    <3> HIDE DEF size, n
    <3>2. c \in E /\ d \in DOMAIN cachetable \ E
      BY <1>1, <2>3, <3>1 DEF Drop, Put
    <3>3. E \in Evictions(cachetable, size, n)
      BY <3>1, <3>2
    <3> QED BY <2>1, <3>2, <3>3, EvictionsOldest DEF InUse
  <2>4. CASE AddLocked(p) /\ proc[p].canon = d
    BY <2>4 DEF AddLocked
  <2> QED BY <1>1, <2>2, <2>3, <2>4, EvictionStep
<1>2. CacheInv /\ [Next]_vars =>
        [\A p \in Procs :
           proc[p].pc \in {"purge", "addLocked"} /\ proc'[p] = Idle /\ up' =>
             \A c \in DOMAIN cachetable \ DOMAIN cachetable' :
               \A d \in DOMAIN cachetable \cap DOMAIN cachetable' :
                 \/ cachetable[c].atime <= cachetable[d].atime
                 \/ cachetable[d].file \in DOMAIN blocked_files
                 \/ proc[p].pc = "addLocked" /\ proc[p].canon = d]_vars
  BY <1>1
<1> QED BY <1>2, CacheInvariance, PTL DEF Spec, EvictsLeastRecentlyUsed

-----------------------------------------------------------------------------
(* The counter nfiles never leaves its range.                              *)

LEMMA ModRange ==
  ASSUME NEW a \in Int, NEW b \in Nat \ {0}
  PROVE  a % b \in Nat /\ a % b < b
  OBVIOUS

LEMMA ModSmall ==
  ASSUME NEW a \in Nat, NEW b \in Nat \ {0}, a < b
  PROVE  a % b = a
  OBVIOUS

CountInv == /\ nfiles \in Nat /\ nfiles < CountMod
            /\ index # NoIndex => IsFiniteSet(index)

LEMMA CountStep == ASSUME CacheInv, CountInv, [Next]_vars PROVE CountInv'
<1> DEFINE FiniteIndex == index # NoIndex => IsFiniteSet(index)
           Right == nfiles \in Nat /\ nfiles < CountMod
<1>1. FiniteIndex'
  <2>1. CASE index' = index
    BY <2>1 DEF CountInv
  <2>2. CASE Stop /\ index' # index
    <3> DEFINE Out == {[name |-> Stored[c], rec |-> cachetable[c]] : c \in DOMAIN cachetable}
               D == DOMAIN cachetable
               f == [c \in D |-> [name |-> Stored[c], rec |-> cachetable[c]]]
    <3>1. index' = Out
      BY <2>2 DEF Stop
    <3>2. IsFiniteSet(D)
      BY FilesDistinct
    <3>3. f \in Surjection(D, Out)
      BY DEF Surjection
    <3> HIDE DEF f, D, Out
    <3> QED BY <3>1, <3>2, <3>3, FS_Surjection
  <2>3. ASSUME index' # index PROVE Stop
    <3>1. ~UNCHANGED vars /\ \A c \in Names : ~remove(c)
      BY <2>3 DEF vars, remove
    <3>2. \A o \in Origs : ~Info(o) /\ ~Edit(o)
      BY <2>3 DEF Info, Edit
    <3>3. ~Start /\ ~Crash /\ ~Tick /\ ~CreateDir
      BY <2>3 DEF Start, Crash, Tick, CreateDir
    <3>4. \A p \in Procs : ~ScriptStep(p)
      BY <2>3 DEF ScriptStep, PurgeTest, PurgeLocked, ListStart, ListVisit
    <3>5. \A p \in Procs : ~RequestStep(p)
      BY <2>3 DEF RequestStep, Request, CheckStat, CheckLocked, SendFile, SendFileEnds,
                  Read, getNewCacheFileName, Write, AddStat, AddLocked
    <3> QED BY <3>1, <3>2, <3>3, <3>4, <3>5 DEF Next
  <2> QED BY <2>1, <2>2, <2>3
<1>2. Right'
  <2>0. CountMod \in Nat \ {0} /\ nfiles \in Nat /\ nfiles < CountMod
    BY CacheAssumption DEF CountInv
  <2>1. CASE nfiles' = nfiles
    BY <2>0, <2>1
  <2>2. CASE \E a \in Int : nfiles' = a % CountMod
    BY <2>0, <2>2, ModRange
  <2>3. CASE nfiles' = 0
    BY <2>0, <2>3
  <2>e. ASSUME NEW E, E \subseteq DOMAIN cachetable, NEW m \in Int
        PROVE  Cardinality(E) \in Int /\ CountWithout(m, E) \in Int
    <3>1. Cardinality(E) \in Nat
      BY <2>e, FilesDistinct, FS_Subset, FS_CardinalityType
    <3>2. m - Cardinality(E) \in Int
      BY <3>1
    <3> QED BY <2>0, <3>1, <3>2, ModRange DEF CountWithout
  <2>4. CASE Start
    <3>1. IsFiniteSet(Loadable)
      <4>1. CASE index = NoIndex
        BY <4>1, FS_EmptySet DEF Loadable
      <4>2. CASE index # NoIndex
        <5>1. Loadable \subseteq index /\ IsFiniteSet(index)
          BY <4>2 DEF Loadable, CountInv
        <5> QED BY <5>1, FS_Subset
      <4> QED BY <4>1, <4>2
    <3>2. Cardinality(Loadable) \in Int
      BY <3>1, FS_CardinalityType
    <3>3. nfiles' = Cardinality(Loadable) % CountMod
      BY <2>4 DEF Start
    <3> QED BY <2>2, <3>2, <3>3
  <2>5. ASSUME NEW p \in Procs, AddLocked(p) PROVE Right'
    <3> DEFINE old == Replaced(proc[p].canon)
               size == SizeWithout(cachetable, cachesize, old)
               n == CountWithout(nfiles, old)
    <3>1. PICK E \in IF OverLimit(size, n) THEN Evictions(cachetable, size, n) ELSE {{}} :
            nfiles' = (CountWithout(n, E) + 1) % CountMod
      BY <2>5 DEF AddLocked
    <3>2. n \in Int
      <4>1. old \subseteq DOMAIN cachetable
        BY DEF Replaced
      <4> HIDE DEF old
      <4> QED BY <2>0, <2>e, <4>1
    <3> HIDE DEF size, n
    <3>3. E \subseteq DOMAIN cachetable
      BY <3>1, FilesDistinct, EvictionsFree
    <3>4. CountWithout(n, E) + 1 \in Int
      BY <2>e, <3>2, <3>3
    <3> QED BY <2>2, <3>1, <3>4
  <2>6. ASSUME NEW p \in Procs, PurgeLocked(p) PROVE Right'
    <3>1. PICK E \in Evictions(cachetable, cachesize, nfiles) : nfiles' = CountWithout(nfiles, E)
      BY <2>6 DEF PurgeLocked
    <3>2. E \subseteq DOMAIN cachetable
      BY FilesDistinct, EvictionsFree
    <3>3. nfiles - Cardinality(E) \in Int
      BY <2>0, <2>e, <3>2
    <3> QED BY <2>2, <3>1, <3>3 DEF CountWithout
  <2>7. ASSUME NEW c \in Names, remove(c) PROVE Right'
    <3>1. nfiles - 1 \in Int /\ nfiles' = (nfiles - 1) % CountMod
      BY <2>0, <2>7 DEF remove
    <3> QED BY <2>2, <3>1
  <2>8. UNCHANGED vars \/ (\E o \in Origs : Info(o) \/ Edit(o)) \/ Tick \/ CreateDir
          => nfiles' = nfiles
    BY DEF vars, memory, Info, Edit, Tick, CreateDir
  <2>9. Stop \/ Crash => nfiles' = 0
    BY DEF Stop, Crash, Forget
  <2>10. \A p \in Procs : ScriptStep(p) => PurgeLocked(p) \/ nfiles' = nfiles
    BY DEF ScriptStep, PurgeTest, ListStart, ListVisit, memory
  <2>11. \A p \in Procs : RequestStep(p) => AddLocked(p) \/ nfiles' = nfiles
    BY DEF RequestStep, Request, CheckStat, CheckLocked, SendFile, SendFileEnds,
           Read, getNewCacheFileName, Write, AddStat, memory
  <2> HIDE DEF Right
  <2> QED BY <2>1, <2>3, <2>4, <2>5, <2>6, <2>7, <2>8, <2>9, <2>10, <2>11 DEF Next
<1> QED BY <1>1, <1>2 DEF CountInv

LEMMA CountInvariance == Spec => []CountInv
<1>1. Init => CountInv
  BY CacheAssumption DEF Init, CountInv
<1> QED BY <1>1, CountStep, CacheInvariance, PTL DEF Spec

(* The arithmetic of nfiles in add(): N entries, the one to be replaced    *)
(* taken off, then the ones of E.                                          *)
LEMMA LimitStep ==
  ASSUME CacheInv, CountInv, NEW p \in Procs, AddLocked(p),
         MaxNfiles > 0, MaxCachesize = 0, blocked_files = Empty,
         nfiles = Cardinality(DOMAIN cachetable)
  PROVE  LET left == Cardinality(DOMAIN cachetable')
         IN  \/ left <= MaxNfiles \/ left <= NfilesGoal
             \/ proc[p].canon \in DOMAIN cachetable /\ left <= NfilesGoal + 1
<1>1. PICK c \in Canons : c = proc[p].canon
  BY StateFields DEF AddLocked, CacheInv, Shape
<1> DEFINE N == Cardinality(DOMAIN cachetable)
           o == Cardinality(Replaced(c))
           size == SizeWithout(cachetable, cachesize, Replaced(c))
           n == CountWithout(nfiles, Replaced(c))
<1>2. PICK E \in IF OverLimit(size, n) THEN Evictions(cachetable, size, n) ELSE {{}} :
        cachetable' = Put(Drop(cachetable, E), c, proc[p].rec)
  BY <1>1 DEF AddLocked
<1>3. /\ IsFiniteSet(DOMAIN cachetable) /\ N \in Nat /\ N = nfiles /\ N < CountMod
      /\ CountMod \in Nat \ {0} /\ MaxNfiles \in Nat
  BY FilesDistinct, FS_CardinalityType, CacheAssumption DEF CountInv
<1>4. /\ c \in DOMAIN cachetable => o = 1 /\ N > 0
      /\ c \notin DOMAIN cachetable => o = 0
  <2>1. CASE c \in DOMAIN cachetable
    <3>1. Replaced(c) = {c}
      BY <2>1 DEF Replaced
    <3>2. o = 1
      BY <3>1, FS_Singleton
    <3>3. N # 0
      BY <1>3, <2>1, FS_EmptySet
    <3> HIDE DEF N, o
    <3> QED BY <1>3, <2>1, <3>2, <3>3
  <2>2. CASE c \notin DOMAIN cachetable
    <3>1. Replaced(c) = {}
      BY <2>2 DEF Replaced
    <3> QED BY <2>2, <3>1, FS_EmptySet
  <2> QED BY <2>1, <2>2
<1>5. n = (N - o) % CountMod
  BY <1>3 DEF CountWithout
<1>m. MaxNfiles \in Nat /\ MaxNfiles >= 1
  BY CacheAssumption
<1>s. ~(MaxCachesize > 0)
  BY CacheAssumption
<1>6. OverLimit(size, n) => n >= MaxNfiles
  BY <1>s DEF OverLimit
<1>7. ~OverLimit(size, n) => ~(n >= MaxNfiles)
  BY DEF OverLimit
<1>8. \A x \in DOMAIN cachetable : ~InUse(cachetable[x].file)
  BY EmptyTable DEF InUse
<1>9. ASSUME NEW m, NEW z, GoalReached(z, m) PROVE m < NfilesGoal
  BY <1>9, <1>s DEF GoalReached
<1> HIDE DEF size
<1>10. /\ E \subseteq DOMAIN cachetable /\ IsFiniteSet(E)
       /\ \/ ~OverLimit(size, n) /\ E = {}
          \/ OverLimit(size, n) /\ E = DOMAIN cachetable
          \/ OverLimit(size, n) /\ CountWithout(n, E) < NfilesGoal
  <2>1. CASE ~OverLimit(size, n)
    BY <1>2, <2>1, FS_EmptySet
  <2>2. CASE OverLimit(size, n)
    <3> HIDE DEF n, N
    <3>1. E \in Evictions(cachetable, size, n)
      BY <1>2, <2>2
    <3>2. /\ E \subseteq DOMAIN cachetable
          /\ E = DOMAIN cachetable
             \/ GoalReached(SizeWithout(cachetable, size, E), CountWithout(n, E))
      BY <1>3, <1>8, <3>1, EvictionsCount
    <3> QED BY <1>3, <1>9, <2>2, <3>2, FS_Subset
  <2> QED BY <2>1, <2>2
<1> DEFINE e == Cardinality(E)
           L == Cardinality(DOMAIN cachetable')
           Keep == DOMAIN cachetable \ E
           kp == Cardinality(Keep)
<1>11. /\ e \in Nat /\ e <= N /\ kp = N - e /\ IsFiniteSet(Keep) /\ kp \in Nat
       /\ e = N => E = DOMAIN cachetable
  <2>1. e \in Nat /\ e <= N
    BY <1>3, <1>10, FS_Subset, FS_CardinalityType
  <2>2. kp = N - Cardinality(DOMAIN cachetable \cap E) /\ IsFiniteSet(Keep)
    BY <1>3, FS_Difference
  <2>3. DOMAIN cachetable \cap E = E
    BY <1>10
  <2>4. e = N => E = DOMAIN cachetable
    BY <1>3, <1>10, FS_Subset
  <2>5. kp \in Nat
    BY <2>2, FS_CardinalityType
  <2> QED BY <2>1, <2>2, <2>3, <2>4, <2>5
<1>12. DOMAIN cachetable' = Keep \cup {c}
  BY <1>2 DEF Put, Drop
<1>13. /\ c \in Keep => L = kp
       /\ c \notin Keep => L = kp + 1
  <2> HIDE DEF Keep
  <2>1. CASE c \in Keep
    <3>1. Keep \cup {c} = Keep
      BY <2>1
    <3> QED BY <1>12, <2>1, <3>1
  <2>2. CASE c \notin Keep
    BY <1>11, <1>12, <2>2, FS_AddElement
  <2> QED BY <2>1, <2>2
<1>14. c \in Keep => c \in DOMAIN cachetable
  OBVIOUS
<1>15. n = N - o
  <2> HIDE DEF n, N, o
  <2>1. N - o \in Nat /\ N - o < CountMod
    BY <1>3, <1>4
  <2> QED BY <1>3, <1>5, <2>1, ModSmall
<1>16. CountWithout(n, E) = (n - e) % CountMod
  BY DEF CountWithout
<1>17. NfilesGoal \in Int
  BY CacheAssumption DEF NfilesGoal
<1>18. L <= MaxNfiles \/ L <= NfilesGoal \/ (c \in DOMAIN cachetable /\ L <= NfilesGoal + 1)
  <2>e. E = {} => e = 0
    BY FS_EmptySet
  <2>k. E = {} => (c \in Keep <=> c \in DOMAIN cachetable)
    OBVIOUS
  <2>d. E = DOMAIN cachetable => e = N /\ c \notin Keep
    OBVIOUS
  <2> HIDE DEF n, N, o, e, L, kp, Keep
  <2>1. CASE ~OverLimit(size, n) /\ E = {}
    <3>1. n \in Int /\ o \in Int /\ n = N - o
      BY <1>3, <1>4, <1>15
    <3>2. n < MaxNfiles /\ kp = N
      BY <1>3, <1>7, <1>11, <2>1, <2>e, <3>1
    <3>3. L = n + 1
      BY <1>3, <1>4, <1>13, <2>1, <2>k, <3>1, <3>2
    <3>4. L <= MaxNfiles
      BY <1>m, <3>1, <3>2, <3>3
    <3> QED BY <3>4
  <2>2. CASE E = DOMAIN cachetable
    <3>1. L = kp + 1 /\ kp = 0
      BY <1>3, <1>11, <1>13, <2>2, <2>d
    <3>2. L = 1
      BY <3>1
    <3>3. L <= MaxNfiles
      BY <1>m, <3>2
    <3> QED BY <3>3
  <2>3. CASE E # DOMAIN cachetable /\ CountWithout(n, E) < NfilesGoal
    <3>1. e < N
      BY <1>3, <1>11, <2>3
    <3>2. n - e \in Nat /\ n - e < CountMod
      BY <1>3, <1>4, <1>11, <1>15, <3>1
    <3>3. n - e < NfilesGoal
      BY <1>3, <1>16, <2>3, <3>2, ModSmall
    <3> QED BY <1>3, <1>4, <1>11, <1>13, <1>14, <1>15, <1>17, <3>2, <3>3
  <2> QED BY <1>10, <2>1, <2>2, <2>3
<1> QED BY <1>1, <1>18

(* purge() evicts enough for the limit on the number of files, and the     *)
(* least recently used entries first, for every table, order of ties and   *)
(* hysteresis.                                                             *)
THEOREM EvictionCorrect == Spec => EvictionRight
<1>1. ASSUME CacheInv, CountInv, [Next]_vars, NEW p \in Procs,
             proc[p].pc = "addLocked", proc'[p] = Idle, up',
             MaxNfiles > 0, MaxCachesize = 0,
             blocked_files = Empty, nfiles = Cardinality(DOMAIN cachetable)
      PROVE  LET left == Cardinality(DOMAIN cachetable')
             IN  \/ left <= MaxNfiles \/ left <= NfilesGoal
                 \/ proc[p].canon \in DOMAIN cachetable /\ left <= NfilesGoal + 1
  <2>1. AddLocked(p)
    BY <1>1, EvictionStep DEF PurgeLocked
  <2> QED BY <1>1, <2>1, LimitStep
<1>2. CacheInv /\ CountInv /\ [Next]_vars =>
        [\A p \in Procs :
           /\ proc[p].pc = "addLocked" /\ proc'[p] = Idle /\ up'
           /\ MaxNfiles > 0 /\ MaxCachesize = 0
           /\ blocked_files = Empty /\ nfiles = Cardinality(DOMAIN cachetable)
           /\ NoFile \notin FilesOf(cachetable)
           => LET left == Cardinality(DOMAIN cachetable')
              IN  \/ left <= MaxNfiles \/ left <= NfilesGoal
                  \/ proc[p].canon \in DOMAIN cachetable /\ left <= NfilesGoal + 1]_vars
  BY <1>1
<1>3. Spec => FileLimitHolds
  BY <1>2, CacheInvariance, CountInvariance, PTL DEF Spec, FileLimitHolds
<1> QED BY <1>3, EvictionOrderCorrect DEF EvictionRight

=============================================================================
