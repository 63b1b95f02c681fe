------------------------------ MODULE IIIFCache ------------------------------
(***************************************************************************)
(* The image cache: class IIIFCache (handlers/iiifhandler/IIIFCache.cpp),  *)
(* the request threads that use it through IIIFHandler::send_iiif_file     *)
(* (IIIFSendFile.cpp) and the Lua functions of table "cache"               *)
(* (IIIFLua.cpp), with the cache directory they share.                     *)
(*                                                                         *)
(* Every block the code runs under the mutex "locking" is one action; what *)
(* it does before taking the mutex (stat() of the original, the limit test *)
(* of purge(true)) or without it (getSize(), loop()) is an action of its   *)
(* own, so that other threads can come in between.                         *)
(*                                                                         *)
(* A rendition is identified by its canonical URL.  What a cache file      *)
(* holds is abstracted to the rendition, the version of the original it    *)
(* was made from, and whether all its bytes were written.  Times are whole *)
(* seconds (the build without HAVE_ST_ATIMESPEC compares time_t).          *)
(***************************************************************************)
EXTENDS Integers, Sequences, FiniteSets, FiniteSetsExt, SequencesExt

CONSTANTS
  Procs,           \* request threads
  Names,           \* keys of cachetable
  Canons,          \* canonical URLs that are requested, a subset of Names
  Origs,           \* master image files
  OrigOf,          \* the master file of each canonical URL
  Stored,          \* a key cut to the 255 bytes that .iiifcache keeps of it
  Png,             \* canonical URLs of format png
  FSize,           \* bytes of the complete rendition
  Files,           \* names that mkstemp() makes up
  NoFile,          \* the empty cachepath of a default-constructed record
  NoIndex,         \* .iiifcache has never been written
  MaxCachesize,    \* max_cachesize, 0 for no limit
  MaxNfiles,       \* max_nfiles, 0 for no limit
  HystNum, HystDen,\* cache_hysteresis as a fraction
  SizeMod,         \* 2^64, the modulus of cachesize
  CountMod,        \* 2^32, the modulus of nfiles
  MaxClock,        \* bound: last second of the run
  MaxVer,          \* bound: number of versions of a master
  MaxCalls         \* bound: calls of cache.delete and cache.filelist, and
                   \* errors of sendFile on a file that is there

ASSUME CacheAssumption ==
  /\ IsFiniteSet(Procs) /\ IsFiniteSet(Names)
  /\ Canons \subseteq Names /\ Png \subseteq Names
  /\ OrigOf \in [Names -> Origs]
  /\ Stored \in [Names -> Names] /\ \A c \in Names : Stored[Stored[c]] = Stored[c]
  /\ FSize \in [Names -> Nat \ {0}]
  /\ NoFile \notin Files
  /\ MaxCachesize \in Nat /\ MaxNfiles \in Nat
  /\ HystNum \in Nat /\ HystDen \in Nat \ {0}
  /\ SizeMod \in Nat \ {0} /\ CountMod \in Nat \ {0}
  /\ MaxClock \in Nat /\ MaxVer \in Nat
  /\ MaxCalls \in Nat

(* A canonical URL ends with its quality and format, so that one longer    *)
(* than the 255 bytes of the index is cut to a key that is requested by    *)
(* nobody.  (An identifier with a directory called, say, default.jpg in it *)
(* could break this.)                                                      *)
ASSUME CutKeysApart == \A c \in Canons : Stored[c] \in Canons => Stored[c] = c

VARIABLES
  up,            \* the server process runs
  cachetable,    \* key -> CacheRecord, a partial function
  sizetable,     \* master file -> mtime of its SizeRecord, a partial function
  blocked_files, \* cache file -> number of blocks, a partial function
  cachesize,     \* bytes in the cache
  nfiles,        \* files in the cache
  thrown,        \* not in the code: the errors of sendFile, for each cache file
  proc,          \* what each request thread is doing
  dir,           \* the cache directory exists
  disk,          \* the cache files in it, a partial function
  index,         \* the contents of .iiifcache
  orig,          \* version and modification time of each master
  clock,         \* time()
  calls          \* how many of the events that MaxCalls bounds there were

memory == <<cachetable, sizetable, blocked_files, cachesize, nfiles, thrown>>
vars == <<up, memory, proc, dir, disk, index, orig, clock, calls>>

-----------------------------------------------------------------------------
(* Partial functions, standing for std::unordered_map and the directory. *)

Put(f, k, v) == [x \in DOMAIN f \cup {k} |-> IF x = k THEN v ELSE f[x]]

Drop(f, K) == [x \in DOMAIN f \ K |-> f[x]]

Empty == [x \in {} |-> 0]

Idle == [pc |-> "idle"]

(* The record that cachetable[key] creates when the key is not there. *)
Phantom == [file |-> NoFile, mtime |-> 0, atime |-> 0, fsize |-> 0]

Lookup(c) == IF c \in DOMAIN cachetable THEN cachetable[c] ELSE Phantom

-----------------------------------------------------------------------------
(* purge(): eviction in the order of the last access.                      *)

SizeGoal == (MaxCachesize * HystNum) \div HystDen
NfilesGoal == (MaxNfiles * HystNum) \div HystDen

OverLimit_Strict(size, n) ==
  \/ MaxCachesize > 0 /\ size > MaxCachesize
  \/ MaxNfiles > 0 /\ n > MaxNfiles

OverLimit(size, n) ==
  \/ MaxCachesize > 0 /\ size >= MaxCachesize
  \/ MaxNfiles > 0 /\ n >= MaxNfiles

GoalReached(size, n) ==
  \/ MaxCachesize > 0 /\ size < SizeGoal
  \/ MaxNfiles > 0 /\ n < NfilesGoal

(* The enumerations that std::sort may leave behind: entries accessed in   *)
(* the same second come in any order.                                      *)
AccessOrders(tab) ==
  {s \in SetToSeqs(DOMAIN tab) :
     \A i, j \in DOMAIN s : i < j => tab[s[i]].atime <= tab[s[j]].atime}

(* blocked_files.at(path) finds an entry: purge() and remove() keep off.   *)
InUse_Never(f) == FALSE

InUse(f) == f \in DOMAIN blocked_files

(* The entries among the first k that purge() erases. *)
Victims(tab, s, k) == {s[i] : i \in {j \in 1..k : ~InUse(tab[s[j]].file)}}

SizeWithout(tab, size, E) ==
  (size - MapThenSumSet(LAMBDA c : tab[c].fsize, E)) % SizeMod

CountWithout(n, E) == (n - Cardinality(E)) % CountMod

(* What the loop of purge() erases: it stops after the first entry that    *)
(* brings one of the two counters below its goal.                          *)
Evictions(tab, size, n) ==
  LET Reached(s, j) == GoalReached(SizeWithout(tab, size, Victims(tab, s, j)),
                                   CountWithout(n, Victims(tab, s, j)))
      EndsAt(s) == {k \in 0..Cardinality(DOMAIN tab) :
                      /\ \A j \in 1..k-1 : ~Reached(s, j)
                      /\ k = Len(s) \/ (k > 0 /\ Reached(s, k))}
  IN  UNION {{Victims(tab, s, k) : k \in EndsAt(s)} : s \in AccessOrders(tab)}

-----------------------------------------------------------------------------
(* Server start, stop and crash.                                           *)

NoErrors == [f \in Files \cup {NoFile} |-> 0]

Init ==
  /\ up = TRUE /\ proc = [p \in Procs |-> Idle]
  /\ cachetable = Empty /\ sizetable = Empty /\ blocked_files = Empty
  /\ cachesize = 0 /\ nfiles = 0 /\ thrown = NoErrors
  /\ dir = TRUE /\ disk = Empty /\ index = NoIndex
  /\ orig = [o \in Origs |-> [ver |-> 1, mtime |-> 1]]
  /\ clock = 1 /\ calls = 0

(* The records of .iiifcache whose file is still there; access() on the    *)
(* directory itself succeeds for a record with an empty cachepath.         *)
Loadable_NoAccessTest == IF index = NoIndex THEN {} ELSE index

Loadable ==
  IF index = NoIndex THEN {}
  ELSE {e \in index : e.rec.file \in DOMAIN disk \cup {NoFile}}

FilesOf(tab) == {tab[c].file : c \in DOMAIN tab}

(* The files the constructor deletes: those no record of the table names.  *)
Orphans_None(tab) == {}

Orphans(tab) == Files \ FilesOf(tab)

(* IIIFCache::IIIFCache: load the index, delete the files it does not know *)
(* of, derive sizetable.  With equal keys the record read last stays.      *)
Start ==
  /\ ~up /\ dir
  /\ up' = TRUE
  /\ \E tab \in [{e.name : e \in Loadable} -> Loadable] :
       /\ \A c \in DOMAIN tab : tab[c].name = c
       /\ cachetable' = [c \in DOMAIN tab |-> tab[c].rec]
       /\ nfiles' = Cardinality(Loadable) % CountMod
       /\ cachesize' = MapThenSumSet(LAMBDA e : e.rec.fsize, Loadable) % SizeMod
       /\ disk' = Drop(disk, Orphans(cachetable'))
       /\ \E first \in [{OrigOf[c] : c \in {d \in DOMAIN tab :
                                             tab[d].rec.file # NoFile}}
                          -> DOMAIN tab] :
            /\ \A o \in DOMAIN first :
                 OrigOf[first[o]] = o /\ tab[first[o]].rec.file # NoFile
            /\ sizetable' = [o \in DOMAIN first |-> tab[first[o]].rec.mtime]
  /\ UNCHANGED <<blocked_files, thrown, proc, dir, index, orig, clock, calls>>

Forget ==
  /\ up' = FALSE
  /\ cachetable' = Empty /\ sizetable' = Empty /\ blocked_files' = Empty
  /\ cachesize' = 0 /\ nfiles' = 0 /\ thrown' = NoErrors

(* IIIFCache::~IIIFCache, after the worker threads have been joined: the   *)
(* table is written out, keys cut to their first 255 bytes.                *)
Stop ==
  /\ up /\ \A p \in Procs : proc[p] = Idle
  /\ index' = IF dir THEN {[name |-> Stored[c], rec |-> cachetable[c]] :
                             c \in DOMAIN cachetable}
                     ELSE index
  /\ Forget
  /\ UNCHANGED <<proc, dir, disk, orig, clock, calls>>

(* The process dies: the directory is all that remains. *)
Crash ==
  /\ up
  /\ Forget
  /\ proc' = [p \in Procs |-> Idle]
  /\ UNCHANGED <<dir, disk, index, orig, clock, calls>>

-----------------------------------------------------------------------------
(* The environment: time passes, masters are replaced, a missing cache     *)
(* directory is created again before the next start.                       *)

Tick ==
  /\ clock < MaxClock
  /\ clock' = clock + 1
  /\ UNCHANGED <<up, memory, proc, dir, disk, index, orig, calls>>

(* A master changes at any time, also between the moment a thread has read *)
(* it and the one it closes the cache file.  It gets the time of the       *)
(* change: one moved into place with an older time is not noticed.         *)
Edit(o) ==
  /\ orig[o].ver < MaxVer
  /\ orig' = [orig EXCEPT ![o] = [ver |-> @.ver + 1, mtime |-> clock]]
  /\ UNCHANGED <<up, memory, proc, dir, disk, index, clock, calls>>

CreateDir ==
  /\ ~up /\ ~dir
  /\ dir' = TRUE
  /\ UNCHANGED <<up, memory, proc, disk, index, orig, clock, calls>>

-----------------------------------------------------------------------------
(* IIIFHandler::send_iiif_file and send_iiif_info.                         *)

Goto(p, r) == proc' = [proc EXCEPT ![p] = r]

(* IIIFCache::getSize: a SizeRecord older than the master is erased. *)
getSize(o) ==
  sizetable' = IF o \in DOMAIN sizetable /\ orig[o].mtime > sizetable[o]
                 THEN Drop(sizetable, {o}) ELSE sizetable

Request(p, c) ==
  /\ up /\ proc[p] = Idle
  /\ getSize(OrigOf[c])
  /\ Goto(p, [pc |-> "stat", canon |-> c])
  /\ UNCHANGED <<up, cachetable, blocked_files, cachesize, nfiles, thrown,
                 dir, disk, index, orig, clock, calls>>

(* A request for info.json only asks for the size. *)
Info(o) ==
  /\ up /\ getSize(o)
  /\ UNCHANGED <<up, cachetable, blocked_files, cachesize, nfiles, thrown, proc,
                 dir, disk, index, orig, clock, calls>>

(* IIIFCache::check, the part before the mutex: stat() of the master.      *)
(* "ver" is not in the code: it remembers which version was current.       *)
CheckStat(p) ==
  /\ proc[p].pc = "stat"
  /\ LET o == orig[OrigOf[proc[p].canon]]
     IN  Goto(p, [pc |-> "check", canon |-> proc[p].canon,
                  mtime |-> o.mtime, ver |-> o.ver])
  /\ UNCHANGED <<up, memory, dir, disk, index, orig, clock, calls>>

(* tcompare(mtime, fr.mtime) > 0 *)
Newer_Never(mtime, rec) == FALSE

Newer(mtime, rec) == mtime > rec.mtime

(* The part under the mutex.  A miss is followed by deblock(""), which     *)
(* leaves blocked_files as it was.                                         *)
CheckLocked(p) ==
  LET q == proc[p]
      c == q.canon
      f == Lookup(c).file
      n == IF f \in DOMAIN blocked_files THEN blocked_files[f] ELSE 0
  IN  /\ q.pc = "check"
      /\ cachetable' = IF c \in DOMAIN cachetable
                         THEN [cachetable EXCEPT ![c].atime = clock]
                         ELSE cachetable
      /\ \/ /\ c \in DOMAIN cachetable /\ ~Newer(q.mtime, cachetable[c])
            /\ blocked_files' = Put(blocked_files, f, n + 1)
            /\ Goto(p, [pc |-> "send", canon |-> c, file |-> f, mtime |-> q.mtime, ver |-> q.ver])
         \/ /\ c \in DOMAIN cachetable => Newer(q.mtime, cachetable[c])
            /\ UNCHANGED blocked_files
            /\ Goto(p, [pc |-> "read", canon |-> c])
      /\ UNCHANGED <<up, sizetable, cachesize, nfiles, thrown,
                     dir, disk, index, orig, clock, calls>>

Counted == calls < MaxCalls /\ calls' = calls + 1

(* Connection::sendFile(cachefile).  When the file cannot be opened, it    *)
(* has gone or access(), stat() or fopen() fails on a file that is there   *)
(* (no descriptor is left, say), it throws an Error, which the catch       *)
(* clauses around it (InputFailure and IIIFError) do not take:             *)
(* processRequest answers 500, deblock() is not called.                    *)
SendFile(p) ==
  LET q == proc[p]
  IN  /\ q.pc = "send"
      /\ \/ /\ q.file \in DOMAIN disk
            /\ Goto(p, [pc |-> "sending", file |-> q.file])
            /\ UNCHANGED <<thrown, calls>>
         \/ /\ IF q.file \in DOMAIN disk THEN Counted ELSE UNCHANGED calls
            /\ Goto(p, Idle)
            /\ thrown' = [thrown EXCEPT ![q.file] = @ + 1]
      /\ UNCHANGED <<up, cachetable, sizetable, blocked_files, cachesize, nfiles,
                     dir, disk, index, orig, clock>>

(* IIIFCache::deblock: the count goes down, an entry below 1 is erased.    *)
deblock_EraseAll(f) == Drop(blocked_files, {f})

deblock(f) ==
  IF blocked_files[f] > 1 THEN [blocked_files EXCEPT ![f] = @ - 1]
                          ELSE Drop(blocked_files, {f})

(* The file has been sent, or the client is gone. *)
SendFileEnds(p) ==
  /\ proc[p].pc = "sending"
  /\ blocked_files' = deblock(proc[p].file)
  /\ Goto(p, Idle)
  /\ UNCHANGED <<up, cachetable, sizetable, cachesize, nfiles, thrown,
                 dir, disk, index, orig, clock, calls>>

(* IIIFImage::read and the conversions after it; an error ends the request. *)
(* "ver" and "read" are not in the code: what was read, and when.           *)
Read(p) ==
  /\ proc[p].pc = "read"
  /\ LET c == proc[p].canon
     IN  \/ Goto(p, [pc |-> "create", canon |-> c, ver |-> orig[OrigOf[c]].ver,
                     read |-> clock])
         \/ Goto(p, Idle)
  /\ UNCHANGED <<up, memory, dir, disk, index, orig, clock, calls>>

(* mkstemp() makes up a name that is not in the directory.  Names are      *)
(* random: one that is still mentioned anywhere is not drawn again.        *)
Mentioned ==
  DOMAIN disk \cup FilesOf(cachetable) \cup DOMAIN blocked_files
    \cup (IF index = NoIndex THEN {} ELSE {e.rec.file : e \in index})

getNewCacheFileName(p) ==
  /\ proc[p].pc = "create"
  /\ \/ /\ dir
        /\ \E f \in Files \ Mentioned :
             /\ disk' = Put(disk, f, [canon |-> proc[p].canon, ver |-> proc[p].ver,
                                      read |-> proc[p].read, whole |-> FALSE,
                                      size |-> 0, mtime |-> clock])
             /\ Goto(p, [pc |-> "write", canon |-> proc[p].canon, file |-> f])
     \/ /\ Goto(p, Idle)               \* mkstemp() or opening the file failed
        /\ UNCHANGED disk
  /\ UNCHANGED <<up, memory, dir, index, orig, clock, calls>>

(* img.write(..., "HTTP") sends the rendition to the client and to the     *)
(* cache file; closeCacheFile() ends it.                                   *)
Written(p, whole) ==
  LET c == proc[p].canon  f == proc[p].file
  IN  /\ disk' = [disk EXCEPT ![f].whole = whole,
                              ![f].size = IF whole THEN FSize[c] ELSE 0,
                              ![f].mtime = clock]
      /\ Goto(p, [pc |-> "add", canon |-> c, file |-> f])

WriteOk(p) == Written(p, TRUE)

(* The client closes the connection.  Only the PNG writer catches the      *)
(* InputFailure (conn_write_data): libpng runs to its end, the rest of the *)
(* bytes reaches neither client nor file.  Elsewhere it ends the request   *)
(* and the file stays behind.                                              *)
WriteClientGone(p) ==
  \/ proc[p].canon \in Png /\ Written(p, FALSE)
  \/ proc[p].canon \notin Png /\ Goto(p, Idle) /\ UNCHANGED disk

(* An IIIFError: the file is unlinked. *)
WriteError(p) ==
  /\ disk' = Drop(disk, {proc[p].file})
  /\ Goto(p, Idle)

Write(p) ==
  /\ proc[p].pc = "write"
  /\ WriteOk(p) \/ WriteClientGone(p) \/ WriteError(p)
  /\ UNCHANGED <<up, memory, dir, index, orig, clock, calls>>

(* IIIFCache::add, the part before the mutex. *)
AddStat(p) ==
  LET q == proc[p]
  IN  /\ q.pc = "add"
      /\ Goto(p, [pc |-> "addLocked", canon |-> q.canon,
                  rec |-> [file |-> q.file, mtime |-> disk[q.file].mtime,
                           atime |-> clock, fsize |-> disk[q.file].size]])
      /\ UNCHANGED <<up, memory, dir, disk, index, orig, clock, calls>>

(* The record of the same canonical URL that add() replaces. *)
Replaced(c) == {c} \cap DOMAIN cachetable

(* The part under the mutex: the file of an earlier record is unlinked and *)
(* taken off the counters (the record stays in the table), purge(false)    *)
(* makes room, the record is entered.  The SizeRecord entered with it has  *)
(* no mtime: {img_w_p, img_h_p, resolutions} leaves it zero.               *)
AddLocked(p) ==
  LET c == proc[p].canon
      r == proc[p].rec
      old == Replaced(c)
      size == SizeWithout(cachetable, cachesize, old)
      n == CountWithout(nfiles, old)
  IN  /\ proc[p].pc = "addLocked"
      /\ \E E \in IF OverLimit(size, n) THEN Evictions(cachetable, size, n)
                                        ELSE {{}} :
           /\ cachetable' = Put(Drop(cachetable, E), c, r)
           /\ cachesize' = (SizeWithout(cachetable, size, E) + r.fsize) % SizeMod
           /\ nfiles' = (CountWithout(n, E) + 1) % CountMod
           /\ disk' = Drop(disk, {Lookup(d).file : d \in old \cup E})
      /\ sizetable' = Put(sizetable, OrigOf[c], 0)
      /\ Goto(p, Idle)
      /\ UNCHANGED <<up, blocked_files, thrown, dir, index, orig, clock, calls>>

-----------------------------------------------------------------------------
(* The Lua functions cache.purge, cache.delete and cache.filelist.         *)

(* purge(true) tests the limits before it takes the mutex ... *)
PurgeTest(p) ==
  /\ up /\ proc[p] = Idle
  /\ OverLimit(cachesize, nfiles)
  /\ Goto(p, [pc |-> "purge"])
  /\ UNCHANGED <<up, memory, dir, disk, index, orig, clock, calls>>

(* ... and does not test them again. *)
PurgeLocked(p) ==
  /\ proc[p].pc = "purge"
  /\ \E E \in Evictions(cachetable, cachesize, nfiles) :
       /\ cachetable' = Drop(cachetable, E)
       /\ cachesize' = SizeWithout(cachetable, cachesize, E)
       /\ nfiles' = CountWithout(nfiles, E)
       /\ disk' = Drop(disk, {cachetable[c].file : c \in E})
  /\ Goto(p, Idle)
  /\ UNCHANGED <<up, sizetable, blocked_files, thrown, dir, index, orig, clock, calls>>

(* remove(canonical).  For a key that is not in the table cachetable[key]  *)
(* is a default record, and the path to remove is the directory: rmdir()   *)
(* succeeds when it is empty.                                              *)
remove(c) ==
  LET r == Lookup(c)
  IN  /\ up /\ Counted
      /\ ~InUse(r.file)
      /\ disk' = Drop(disk, {r.file})
      /\ dir' = (dir /\ ~(r.file = NoFile /\ disk = Empty /\ index = NoIndex))
      /\ cachesize' = (cachesize - r.fsize) % SizeMod
      /\ cachetable' = Drop(cachetable, {c})
      /\ nfiles' = (nfiles - 1) % CountMod
      /\ UNCHANGED <<up, sizetable, blocked_files, thrown, proc, index, orig, clock>>

(* loop(): the keys are collected, without the mutex ... *)
ListStart(p) ==
  /\ up /\ proc[p] = Idle
  /\ DOMAIN cachetable # {}
  /\ Counted
  /\ Goto(p, [pc |-> "list", todo |-> DOMAIN cachetable])
  /\ UNCHANGED <<up, memory, dir, disk, index, orig, clock>>

(* ... and then looked up one by one with cachetable[key], which enters a  *)
(* default record for a key that has disappeared.                          *)
ListVisit(p) ==
  /\ proc[p].pc = "list"
  /\ \E c \in proc[p].todo :
       /\ cachetable' = Put(cachetable, c, Lookup(c))
       /\ Goto(p, IF proc[p].todo = {c} THEN Idle
                  ELSE [proc[p] EXCEPT !.todo = @ \ {c}])
  /\ UNCHANGED <<up, sizetable, blocked_files, cachesize, nfiles, thrown,
                 dir, disk, index, orig, clock, calls>>

-----------------------------------------------------------------------------
RequestStep(p) ==
  \/ \E c \in Canons : Request(p, c)
  \/ CheckStat(p) \/ CheckLocked(p) \/ SendFile(p) \/ SendFileEnds(p)
  \/ Read(p) \/ getNewCacheFileName(p) \/ Write(p) \/ AddStat(p) \/ AddLocked(p)

ScriptStep(p) == PurgeTest(p) \/ PurgeLocked(p) \/ ListStart(p) \/ ListVisit(p)

Next ==
  \/ \E p \in Procs : RequestStep(p) \/ ScriptStep(p)
  \/ \E c \in Names : remove(c)
  \/ \E o \in Origs : Info(o) \/ Edit(o)
  \/ Start \/ Stop \/ Crash \/ Tick \/ CreateDir

Spec == Init /\ [][Next]_vars

-----------------------------------------------------------------------------
(* Properties.                                                             *)

(* Every record of the table names a file of its own that exists, holds    *)
(* the rendition the key stands for, has the size the counters were        *)
(* charged with and is complete unless it is a PNG: through evictions,     *)
(* replacements, deletions, failed requests, crashes and restarts with an  *)
(* index from an earlier run.  (cachetable, add(), purge(), remove(), the  *)
(* constructor.)                                                           *)
RecordsNameTheirFiles ==
  \A c \in DOMAIN cachetable :
    LET f == cachetable[c].file
    IN  f # NoFile =>
          /\ f \in DOMAIN disk
          /\ disk[f].canon = c \/ Stored[disk[f].canon] = c
          /\ disk[f].size = cachetable[c].fsize
          /\ disk[f].mtime = cachetable[c].mtime
          /\ disk[f].canon \notin Png => disk[f].whole
          /\ \A d \in DOMAIN cachetable \ {c} : cachetable[d].file # f

Holders(f) ==
  {p \in Procs : proc[p].pc \in {"send", "sending"} /\ proc[p].file = f}

Blocks(f) == IF f \in DOMAIN blocked_files THEN blocked_files[f] ELSE 0

(* A file is blocked once for every request that is about to send it or is *)
(* sending it, and once for every request since the start whose sendFile() *)
(* threw an Error: no other path loses a block or leaves one behind.  (The *)
(* latter keeps a file that is still there from being purged until the     *)
(* server stops.)  (check(), deblock(), the catch clauses around           *)
(* sendFile().)                                                            *)
BlocksMatchHolders ==
  \A f \in Files : Blocks(f) = Cardinality(Holders(f)) + thrown[f]

(* While the server runs a blocked file disappears only when add()         *)
(* replaces the record of that very rendition: purge() and remove() leave  *)
(* it alone, whatever thread calls them.                                   *)
OnlyAddUnlinksBlocked ==
  [][\A f \in DOMAIN blocked_files \cap DOMAIN disk :
       f \notin DOMAIN disk' =>
         \E p \in Procs : /\ proc[p].pc = "addLocked" /\ proc'[p] = Idle
                          /\ proc[p].canon \in DOMAIN cachetable
                          /\ cachetable[proc[p].canon].file = f]_vars

(* An entry is evicted only when no entry that stays, is not blocked and   *)
(* was in the table before has been accessed longer ago.  (purge().)       *)
EvictsLeastRecentlyUsed ==
  [][\A p \in Procs :
       proc[p].pc \in {"purge", "addLocked"} /\ proc'[p] = Idle /\ up' =>
         \A c \in DOMAIN cachetable \ DOMAIN cachetable' :
           \A d \in DOMAIN cachetable \cap DOMAIN cachetable' :
             \/ cachetable[c].atime <= cachetable[d].atime
             \/ cachetable[d].file \in DOMAIN blocked_files
             \/ proc[p].pc = "addLocked" /\ proc[p].canon = d]_vars

(* After a start the directory and the table agree: no file that requests  *)
(* or crashes of earlier runs left behind, no record without its file.     *)
(* (IIIFCache::IIIFCache.)                                                 *)
StartCleansDirectory ==
  [][~up /\ up' => DOMAIN disk' = FilesOf(cachetable') \ {NoFile}]_vars

(* With a limit on the number of files alone, add() leaves at most that    *)
(* many files in the table, or the goal of purge() if that is higher, if   *)
(* no file is in use or was left blocked by an error of sendFile(), nfiles *)
(* was right and no record is a default one, even when the table had       *)
(* outgrown the limit because files were in use.                           *)
(* A record that is replaced and then purged is taken off nfiles twice:    *)
(* the goal is missed by one, which for a cache_hysteresis below 1 still   *)
(* is within the limit.  (purge(), add().)                                 *)
FileLimitHolds ==
  [][\A p \in Procs :
       /\ proc[p].pc = "addLocked" /\ proc'[p] = Idle /\ up'
       /\ MaxNfiles > 0 /\ MaxCachesize = 0
       /\ blocked_files = Empty /\ nfiles = Cardinality(DOMAIN cachetable)
       /\ NoFile \notin FilesOf(cachetable)
       => LET left == Cardinality(DOMAIN cachetable')
          IN  \/ left <= MaxNfiles \/ left <= NfilesGoal
              \/ proc[p].canon \in DOMAIN cachetable /\ left <= NfilesGoal + 1]_vars

(* purge() evicts enough, and the right ones. *)
EvictionRight == EvictsLeastRecentlyUsed /\ FileLimitHolds

(* A request that gets a cache hit is going to send a rendition of the     *)
(* canonical URL it asked for, made from a version of the master no older  *)
(* than the one check() saw; the one exception is a master that was        *)
(* replaced in the very seconds in which the rendition was made, from the  *)
(* one in which the older version was read to the one in which the cache   *)
(* file was closed (that last one also after the closing: times are whole  *)
(* seconds).  Across replacements, evictions, crashes and restarts no      *)
(* record vouches for another stale file.  (check(), add(), the            *)
(* constructor.)                                                           *)
HitIsUpToDate ==
  \A p \in Procs :
    LET q == proc[p]  d == disk[q.file]
    IN  q.pc = "send" /\ q.file \in DOMAIN disk =>
          /\ d.canon = q.canon
          /\ d.ver >= q.ver \/ q.mtime \in d.read..d.mtime

=============================================================================
