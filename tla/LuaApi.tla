------------------------------- MODULE LuaApi -------------------------------
(***************************************************************************)
(* The functions a Lua script calls on the server (src/lib/LuaServer.cpp): *)
(* the files of server.fs, the uploads of its request, and the head of its *)
(* response.                                                               *)
(*                                                                         *)
(* Scripts run in worker threads, each with a Lua state and a Connection   *)
(* of its own; they share the files and the working directory, which is    *)
(* the process's.  The directory for uploads is configured as "./tmp", so  *)
(* the name of a temporary file is relative to the working directory at    *)
(* the moment it is used.                                                  *)
(*                                                                         *)
(* A function reports <<success, value>>; a C++ Error thrown inside it     *)
(* ends the script and is answered by ScriptHandler; any other exception   *)
(* is caught by nobody and ends the process.                               *)
(***************************************************************************)
EXTENDS Integers, Sequences, FiniteSets

CONSTANTS
  Scripts,      \* the workers that run scripts
  Names,        \* file names a script uses
  TmpNames,     \* names mkstemp may choose
  Data,         \* contents of a file that is not empty
  PathArgs,     \* the paths a script passes, <<directory or ".", name>>
  MaxUploads,   \* bound: files in one request
  MaxCalls,     \* bound: calls of the scripts, together
  MaxRequests   \* bound: requests, together

\* mkstemp chooses a name no file has and no script spells out.
ASSUME NamesAssumption == /\ {"num", "sub"} \subseteq Names
                          /\ (Names \cup {"home"}) \cap TmpNames = {}
                          /\ \A p \in PathArgs : p[2] \in Names \cup {"home"}
ASSUME DataAssumption == Data \cap {"none", "empty", "dir"} = {}
ASSUME BoundsAssumption == {MaxUploads, MaxCalls, MaxRequests} \subseteq Nat

VARIABLES
  files,     \* <<directory, name>> -> contents, "dir" or "none"
  cwd,       \* the working directory of the process
  req,       \* script -> its request
  alive,     \* the process runs
  stopping,  \* a STOP message was written to the stop pipe
  served,    \* requests so far
  made,      \* calls so far
  last,      \* the last call: its result, and what it stored where
  lost       \* temporary names whose files the end of the request does not reach

vars == <<files, cwd, req, alive, stopping, served, made, last, lost>>

\* "home" is where the server started and "sub" a directory in it.
Dirs == {"home", "sub"}
SubDir == <<"home", "sub">>
HomeDir == <<"/", "home">>
AllNames == Names \cup TmpNames
Places == (Dirs \X AllNames) \cup {HomeDir}
Contents == Data \cup {"none", "empty", "dir"}
Heads == {"X-A", "Set-Cookie"}

\* A Lua value: a string that names a file, an integer, or something else.
Str(p) == [t |-> "str", p |-> p, i |-> 0]
Num(n) == [t |-> "int", p |-> <<".", "num">>, i |-> n]
Other == [t |-> "other", p |-> <<".", "num">>, i |-> 0]
Values == {Str(p) : p \in PathArgs} \cup {Num(n) : n \in 1..(MaxUploads + 1)} \cup {Other}
Args1 == {<<>>} \cup {<<a>> : a \in Values}
Args2 == {<<>>} \cup (Values \X Values)

\* lua_isstring holds of numbers, too; lua_isinteger does not hold of strings.
IsString(v) == v.t \in {"str", "int"}
IsInteger(v) == v.t = "int"

\* Where a path leads from the working directory, and what is there.
At(p) == <<IF p[1] = "." THEN cwd ELSE p[1], p[2]>>
Look(p) == IF At(p) \in Places THEN files[At(p)] ELSE "none"
DirExists(d) == d = "home" \/ (d = "sub" /\ files[SubDir] = "dir")
CanCreate(p) == At(p) \in Places /\ DirExists(At(p)[1]) /\ Look(p) # "dir"
Readable(p) == Look(p) \in Data \cup {"empty"}

NoRequest ==
  [pc |-> "idle", uploads |-> <<>>, sent |-> FALSE, buffered |-> FALSE, gone |-> FALSE,
   set |-> [h \in Heads |-> 0], wire |-> [h \in Heads |-> 0], took |-> [h \in Heads |-> 0],
   status |-> "200"]

NoCall == [ok |-> TRUE, typed |-> TRUE, by |-> {}, idx |-> 0, to |-> <<>>]

Init ==
  /\ files = [f \in Places |-> IF f \in {HomeDir, SubDir} THEN "dir" ELSE "none"]
  /\ cwd = "home"
  /\ req = [s \in Scripts |-> NoRequest]
  /\ alive = TRUE /\ stopping = FALSE /\ served = 0 /\ lost = {}
  /\ made = 0 /\ last = NoCall

Uploads(s) == {req[s].uploads[k].tmp[2] : k \in DOMAIN req[s].uploads}
Owned(n) == \E s \in Scripts : n \in Uploads(s)
Present(n) == \E d \in Dirs : files[<<d, n>>] # "none"
FreeTmp == {n \in TmpNames : ~Owned(n) /\ ~Present(n)}

\* Connection's constructor has stored the request's files under fresh names
\* in the working directory (module Request).
Accept(s) ==
  /\ alive /\ req[s].pc = "idle" /\ served < MaxRequests
  /\ \E n \in 0..MaxUploads : \E names \in [1..n -> FreeTmp], data \in [1..n -> Data \cup {"empty"}] :
       /\ \A i, j \in 1..n : i # j => names[i] # names[j]
       /\ n > 0 => DirExists(cwd)
       /\ files' = [f \in Places |->
            IF \E i \in 1..n : f = <<cwd, names[i]>>
              THEN data[CHOOSE i \in 1..n : f = <<cwd, names[i]>>] ELSE files[f]]
       /\ req' = [req EXCEPT ![s] = [NoRequest EXCEPT !.pc = "init",
            !.uploads = [i \in 1..n |-> [tmp |-> <<".", names[i]>>, data |-> data[i], dir |-> cwd]]]]
  /\ served' = served + 1
  /\ UNCHANGED <<cwd, alive, stopping, made, last, lost>>

(***************************************************************************)
(* The end of a script.                                                    *)
(***************************************************************************)

\* The head as send_header writes it.
SendHead(r) ==
  IF r.sent THEN r ELSE [r EXCEPT !.sent = TRUE, !.wire = r.set]

\* ScriptHandler ends with flush(); when the peer is gone flush() throws an
\* InputFailure, which ScriptHandler catches.  processRequest goes on to
\* cleanupUploads either way.
Finished(s) == /\ req' = [req EXCEPT ![s] = [SendHead(@) EXCEPT !.pc = "cleanup"]]
               /\ UNCHANGED lost

\* The request is over and the files it still names stay.
Abandoned(s) == /\ req' = [req EXCEPT ![s] = NoRequest]
                /\ lost' = lost \cup Uploads(s)

\* An Error is answered by send_error with status 500; once the head is out the
\* setBuffer in send_error throws again, this Error leaves the handler, and
\* processRequest answers it without removing the files.
Failed(s) ==
  IF req[s].sent THEN Abandoned(s)
  ELSE /\ req' = [req EXCEPT ![s] = [SendHead([@ EXCEPT !.status = "500"]) EXCEPT !.pc = "cleanup"]]
       /\ UNCHANGED lost

\* The interpreter is made for the request and runs the init script; an error
\* there reaches dont_panic, whose Error leaves processRequest's inner try.
LuaServer(s) ==
  /\ alive /\ req[s].pc = "init"
  /\ \/ req' = [req EXCEPT ![s].pc = "run"] /\ UNCHANGED lost
     \/ Abandoned(s)
  /\ UNCHANGED <<files, cwd, alive, stopping, served, made, last>>

\* Mutant: an error of the script skips the removal of the uploads.
executeChunk_NoCleanup(s) ==
  /\ alive /\ req[s].pc = "run"
  /\ \/ Finished(s)
     \/ req' = [req EXCEPT ![s] = NoRequest] /\ UNCHANGED lost
  /\ UNCHANGED <<files, cwd, alive, stopping, served, made, last>>

\* The script returns, or raises an error of its own.
executeChunk(s) ==
  /\ alive /\ req[s].pc = "run"
  /\ Finished(s) \/ Failed(s)
  /\ UNCHANGED <<files, cwd, alive, stopping, served, made, last>>

\* cleanupUploads removes the temporary files one after the other.
cleanupUploads(s) ==
  /\ alive /\ req[s].pc = "cleanup"
  /\ IF req[s].uploads = <<>>
       THEN req' = [req EXCEPT ![s] = NoRequest] /\ UNCHANGED <<files, lost>>
       ELSE LET u == Head(req[s].uploads) IN
            /\ files' = IF Readable(u.tmp) THEN [files EXCEPT ![At(u.tmp)] = "none"] ELSE files
            /\ req' = [req EXCEPT ![s].uploads = Tail(@)]
            /\ lost' = IF cwd = u.dir THEN lost ELSE lost \cup {u.tmp[2]}
  /\ UNCHANGED <<cwd, alive, stopping, served, made, last>>

(***************************************************************************)
(* Calls.  A function gets the script and the arguments.                   *)
(***************************************************************************)

Call(ok, typed, by, idx, to) ==
  /\ made' = made + 1
  /\ last' = [ok |-> ok, typed |-> typed, by |-> by, idx |-> idx, to |-> to]

\* The call returns without having touched the connection.
Result(ok) == Call(ok, TRUE, {}, 0, <<>>) /\ UNCHANGED <<req, alive, stopping, served, lost>>
Answered(ok) == Result(ok) /\ UNCHANGED <<files, cwd>>
Rejected == Answered(FALSE)

\* The same, with the upload that was asked for and the destination.
Stored(s, ok, idx, to) ==
  Call(ok, TRUE, {s}, idx, At(to)) /\ UNCHANGED <<req, alive, stopping, served, lost>>

\* The call changes the connection of s to r.
Connection(s, r) ==
  /\ Call(TRUE, TRUE, {}, 0, <<>>)
  /\ req' = [req EXCEPT ![s] = r]
  /\ UNCHANGED <<files, cwd, alive, stopping, served, lost>>

\* A std::string is made of the null pointer lua_tostring returns for a value
\* that is neither string nor number: std::logic_error, caught nowhere.
Dies(typed) ==
  /\ Call(FALSE, typed, {}, 0, <<>>)
  /\ alive' = FALSE
  /\ UNCHANGED <<files, cwd, req, stopping, served, lost>>

\* The Error a function throws because the head is out ends the script.
Throws(s) == /\ Abandoned(s) /\ Call(FALSE, TRUE, {}, 0, <<>>)
             /\ UNCHANGED <<files, cwd, alive, stopping, served>>

HasString(a) == Len(a) >= 1 /\ IsString(a[1])

lua_fs_ftype(s, a) == Answered(HasString(a) /\ Look(a[1].p) # "none")

lua_fs_modtime(s, a) == Answered(HasString(a) /\ Look(a[1].p) # "none")

lua_fs_readdir(s, a) == Answered(HasString(a) /\ Look(a[1].p) = "dir")

lua_fs_is_readable(s, a) == Answered(HasString(a))

lua_fs_is_writeable(s, a) == Answered(HasString(a))

lua_fs_is_executable(s, a) == Answered(HasString(a))

lua_fs_exists(s, a) == Answered(HasString(a))

lua_fs_unlink(s, a) ==
  LET ok == HasString(a) /\ Readable(a[1].p) IN
  /\ Result(ok)
  /\ files' = IF ok THEN [files EXCEPT ![At(a[1].p)] = "none"] ELSE files
  /\ UNCHANGED cwd

\* Bound: the only directory a script makes is SubDir.
lua_fs_mkdir(s, a) ==
  LET typed == Len(a) >= 2 /\ IsString(a[1]) /\ IsInteger(a[2])
      ok == typed /\ Look(a[1].p) = "none" /\ At(a[1].p) = SubDir
  IN /\ typed /\ Look(a[1].p) = "none" => At(a[1].p) = SubDir
     /\ Result(ok)
     /\ files' = IF ok THEN [files EXCEPT ![SubDir] = "dir"] ELSE files
     /\ UNCHANGED cwd

IsEmpty(d) == \A n \in AllNames : files[<<d, n>>] = "none"

\* A process may stay in a directory that was removed.
lua_fs_rmdir(s, a) ==
  LET ok == HasString(a) /\ Look(a[1].p) = "dir" /\ At(a[1].p) = SubDir /\ IsEmpty("sub") IN
  /\ Result(ok)
  /\ files' = IF ok THEN [files EXCEPT ![SubDir] = "none"] ELSE files
  /\ cwd' = IF ok /\ cwd = "sub" THEN "removed" ELSE cwd

lua_fs_getcwd(s, a) == Answered(cwd # "removed")

lua_fs_chdir(s, a) ==
  LET ok == HasString(a) /\ cwd # "removed" /\ Look(a[1].p) = "dir" IN
  /\ Result(ok)
  /\ cwd' = IF ok THEN At(a[1].p)[2] ELSE cwd
  /\ UNCHANGED files

\* Opening the destination truncates it, before anything is read; operator<<
\* fails when the source has no characters, also because it was truncated.
CopyTo(s, from, to, idx) ==
  LET ok == CanCreate(to) /\ At(to) # At(from) /\ Look(from) # "empty" IN
  /\ Stored(s, ok, idx, to)
  /\ files' = IF CanCreate(to)
                THEN [files EXCEPT ![At(to)] = IF ok THEN Look(from) ELSE "empty"] ELSE files
  /\ UNCHANGED cwd

\* The arguments are not checked: a source that is no string cannot be opened.
lua_fs_copyfile(s, a) ==
  IF Len(a) < 2 \/ ~IsString(a[1]) \/ ~Readable(a[1].p) THEN Rejected
  ELSE IF ~IsString(a[2]) THEN Dies(FALSE)
  ELSE CopyTo(s, a[1].p, a[2].p, 0)

\* uploads.at(index - 1), with an index from Lua that starts at 1.
HasUpload(s, v) == v.i \in DOMAIN req[s].uploads
\* Mutant: the index is taken as if it started at 0.
Upload_FromZero(s, v) ==
  req[s].uploads[IF v.i < Len(req[s].uploads) THEN v.i + 1 ELSE v.i]

Upload(s, v) == req[s].uploads[v.i]
SourceOf(s, v) == IF IsInteger(v) THEN Upload(s, v).tmp ELSE v.p

\* Bound: directories are not moved.
lua_fs_mvfile(s, a) ==
  IF Len(a) < 2 \/ ~IsString(a[1]) \/ (IsInteger(a[1]) /\ ~HasUpload(s, a[1]))
    THEN Rejected
  ELSE IF ~IsString(a[2]) THEN Dies(FALSE)
  ELSE LET from == SourceOf(s, a[1])
           to == a[2].p
           ok == Readable(from) /\ CanCreate(to)
       IN /\ Look(from) # "dir"
          /\ Stored(s, ok, a[1].i, to)
          /\ files' = IF ok THEN [[files EXCEPT ![At(from)] = "none"]
                                    EXCEPT ![At(to)] = files[At(from)]] ELSE files
          /\ UNCHANGED cwd

lua_copytmpfile(s, a) ==
  IF Len(a) < 2 \/ ~IsInteger(a[1]) \/ ~HasUpload(s, a[1]) \/ ~Readable(Upload(s, a[1]).tmp)
    THEN Rejected
  ELSE IF ~IsString(a[2]) THEN Rejected  \* opening a null name fails
  ELSE CopyTo(s, Upload(s, a[1]).tmp, a[2].p, a[1].i)

lua_setbuffer(s, a) ==
  IF \E k \in DOMAIN a : ~IsInteger(a[k]) THEN Rejected
  ELSE IF req[s].sent THEN Throws(s)
  ELSE Connection(s, [req[s] EXCEPT !.buffered = TRUE])

\* Values that are no strings are skipped; without a buffer the first output
\* sends the head.  The peer may be gone: send() throws an InputFailure, which
\* ends the script.
lua_print(s, a) ==
  LET output == ~req[s].buffered /\ \E k \in DOMAIN a : IsString(a[k]) IN
  \/ Connection(s, IF output THEN SendHead(req[s]) ELSE req[s])
  \/ output /\ Connection(s, [req[s] EXCEPT !.pc = "cleanup", !.gone = TRUE])

\* Connection::header
header(s, h) ==
  IF req[s].sent THEN Throws(s)
  ELSE Connection(s, [req[s] EXCEPT !.set[h] = made + 1, !.took[h] = made + 1])

\* Both values go unchecked into a std::string.
lua_send_header(s, a) ==
  IF Len(a) # 2 THEN Rejected
  ELSE IF ~IsString(a[1]) \/ ~IsString(a[2]) THEN Dies(FALSE)
  ELSE header(s, "X-A")

\* The options of a cookie: a third argument that is a table with entries of
\* the right names and types, or not.
lua_send_cookie(s, a) ==
  IF Len(a) < 2 THEN Rejected
  ELSE IF ~IsString(a[1]) \/ ~IsString(a[2]) THEN Dies(FALSE)
  ELSE Rejected \/ header(s, "Set-Cookie")

\* Nothing is returned, and nothing said about a head that is out already.
lua_send_status(s, a) ==
  Connection(s, [req[s] EXCEPT !.status = IF Len(a) = 1 THEN "given" ELSE "200"])

\* Server::stop writes to the stop pipe of the main thread (module Server).
lua_exitserver(s, a) ==
  /\ Call(TRUE, TRUE, {}, 0, <<>>)
  /\ stopping' = TRUE
  /\ UNCHANGED <<files, cwd, req, alive, served, lost>>

\* The functions of the table "server.fs".
fs_methods(s, a) ==
  \/ lua_fs_ftype(s, a) \/ lua_fs_modtime(s, a) \/ lua_fs_readdir(s, a)
  \/ lua_fs_is_readable(s, a) \/ lua_fs_is_writeable(s, a) \/ lua_fs_is_executable(s, a)
  \/ lua_fs_exists(s, a) \/ lua_fs_unlink(s, a) \/ lua_fs_rmdir(s, a)
  \/ lua_fs_getcwd(s, a) \/ lua_fs_chdir(s, a)

fs_methods2(s, a) == lua_fs_mkdir(s, a) \/ lua_fs_copyfile(s, a) \/ lua_fs_mvfile(s, a)

\* The values of the table "server" that say where the uploads are.
server_uploads(s) == {Str(req[s].uploads[k].tmp) : k \in DOMAIN req[s].uploads}

\* The functions of the table "server" that have an effect; the others are in
\* module LuaData.
createGlobals(s) ==
  \/ \E a \in Args1 : \/ fs_methods(s, a) \/ lua_setbuffer(s, a) \/ lua_print(s, a)
                      \/ lua_send_status(s, a) \/ lua_exitserver(s, a)
  \/ \E a \in Args2 \cup (server_uploads(s) \X Values) :
        \/ fs_methods2(s, a) \/ lua_copytmpfile(s, a)
        \/ lua_send_header(s, a) \/ lua_send_cookie(s, a)

Run(s) == alive /\ req[s].pc = "run" /\ made < MaxCalls /\ createGlobals(s)

Next == \E s \in Scripts : Accept(s) \/ LuaServer(s) \/ Run(s) \/ executeChunk(s) \/ cleanupUploads(s)

Spec == Init /\ [][Next]_vars

(***************************************************************************)
(* Properties.                                                             *)
(***************************************************************************)

\* copyTmpfile(i, to) and moveFile(i, to) that report success have put the file
\* server.uploads[i] of this very request at "to", whatever the other scripts
\* have done to the files and to the working directory since it was uploaded.
UploadDelivered ==
  [][made' > made /\ last'.ok /\ last'.idx > 0 =>
       \A s \in last'.by : /\ last'.idx \in DOMAIN req[s].uploads
                           /\ files'[last'.to] = req[s].uploads[last'.idx].data]_vars

\* A call that reports failure has changed no file; only the destination of a
\* copy may have been emptied, by the ofstream that copyFile and copyTmpfile
\* open before they know that there is something to copy.
FailureKeepsFiles ==
  [][made' > made /\ ~last'.ok =>
       \A f \in Places : files'[f] # files[f] => f = last'.to /\ files'[f] = "empty"]_vars

\* What a file function reports to the script is what it did to the files.
FilesAsReported == UploadDelivered /\ FailureKeepsFiles

\* Temporary files outlive their request only after a chdir during the request,
\* or an Error that send_error could not answer (Cserve.cpp, cleanupUploads).
NoTempLeft ==
  \A n \in TmpNames : Present(n) /\ ~Owned(n) => n \in lost

=============================================================================
