# A TLA+ verification project for cserve

cserve is a multithreaded HTTP(S) server in C++ with loadable request handlers.
Its main handler is an IIIF image server: it transcodes regions of master images
on demand and keeps the results in a cache on disk. This directory holds TLA+
modules that model the program from the sockets to the image files, TLC configurations
that check them on small instances, and proofs for TLAPS.

Source paths below are relative to the repository.

## Inventory

| component | state | operations | interacts with |
|---|---|---|---|
| **Server main loop** `lib/Cserve.cpp` (`Server::run`, `accept_connection`, `close_socket`) | the polled snapshot, the loop index, `running`, the stop pipe | poll, one iteration per snapshot entry, stop, join | SocketControl, ThreadControl, the workers by control pipes, the signal thread by the stop pipe, clients by sockets |
| **Worker threads** `process_request`, `processRequest` | the request in hand | receive a task, read a request, call the handler, report `FINISHED_AND_CONTINUE` or `FINISHED_AND_CLOSE` | main loop, Connection, handlers |
| **Signal thread** `sig_thread`, `Server::stop` | - | `sigwait`, send EXIT | main loop |
| **SocketControl** `lib/SocketControl.cpp` | `generic_open_sockets`, `waiting_sockets`, `working_sockets`, five ids (indices into the vector) | add_*, remove, move_to_waiting, get_waiting, close_all_dynsocks, broadcast_exit | called by the main loop only |
| **ThreadControl** `lib/ThreadControl.cpp` | list of threads, queue of idle threads | create, push, pop, join | main loop |
| **Connection, requests** `lib/Connection.cpp`, `ChunkReader.cpp` | parsed request line, headers, body | parse, read body, chunks, multipart uploads | workers, handlers |
| **Connection, responses** `lib/Connection.cpp`, `SockStream.cpp` | header/body state, output buffer, chunked flag, cache file | header, send, sendAndFlush, flush, sendFile, finalize | handlers, image writers |
| **Routing** `Server::get_handler`, `RequestHandlerLoader.cpp`, ping/test handlers | route table | longest-prefix match | workers |
| **IIIF cache** `handlers/iiifhandler/IIIFCache.cpp` | `cachetable`, `sizetable`, `blocked_files`, `cachesize`, `nfiles`, the cache directory and its index `.iiifcache` | constructor (load), destructor (save), check, deblock, add, purge, remove, getSize, loop | image requests of all workers at once, Lua scripts |
| **IIIF requests** `IIIFSendFile.cpp`, `IIIFHandler.cpp`, preflight, canonical URL | the request in hand | parse the URL, preflight, check cache, transcode, add | cache, Connection, image formats |
| **IIIF parameters** `iiifparser/` | - | region, size, rotation, quality arithmetic | requests |
| **File handler** `FileHandler.cpp` | - | send a file, byte ranges | Connection |
| **Script handler, Lua server** `ScriptHandler.cpp`, `LuaServer.cpp`, `LuaSqlite.cpp`, `IIIFLua.cpp` | a Lua state per request | bindings | everything |
| **Configuration** `CserverConf.cpp`, `ConfValue.cpp`, `cserver.cpp` | option table | file, environment, command line | start-up |
| **Images and metadata** `IIIFImage.cpp`, `imgformats/`, `metadata/` | pixel buffers | read, transform, write | requests |
| **Helpers** `Hash`, `Parsing`, `HttpHelpers`, `Error` | - | wrappers | all |

What is hard here:

- *The main loop changes the list it walks.* `run()` copies the sockets for
  `poll()`, then walks an index over that copy while its iterations erase from and
  append to the list that the index, and five ids, refer to.
- *Connections and threads are handed around by value* through a list, a queue and
  two pipes per worker; each must be in exactly one of these places.
- *Shutdown* runs concurrently with busy workers and a blocked handshake.
- *The cache* is shared by all workers, does part of its work before it takes its
  mutex or without it, protects files with a blocking count that some paths do not
  give back, counts with unsigned counters in four places, and survives crashes
  only through an index that is written at an orderly stop.
- *A response is put together by several hands*: the handler sets modes and headers,
  an image writer or a script sends the body, the destructor of Connection ends it,
  and errors are reported on the same stream. On a kept connection one byte too many
  or too few makes the client misread everything that follows.
- *Requests are parsed from a stream that may be cut anywhere*: boundaries of forms in
  data that looks like them, chunks that end within lines, limits that hold for sums.
- *Scripts share a process*: one working directory, one set of files and databases,
  while each has its own Lua state, and exceptions that cross the interpreter.
- *Image arithmetic is done five times*: by the parameters, the canonical URL and the
  four readers, each with its own rounding, levels and exceptions.

The hazards are listed one by one, with line and covering properties, in
`PROJECT.json`.

What makes each part correct: the main loop loses no connection, thread or wakeup,
closes each descriptor once, never blocks within a scan and ends when told to;
a response has the length its head announces, whatever fails on the way;
the cache serves for a canonical URL only a complete, current rendition of it,
never deletes a file in use, keeps its limits and counters, and after a restart
agrees with its directory; a request reaches its handler complete and unmixed, a script
has the effects it reports, options and routes have their documented priority, and an
image request yields the region, size and orientation its URL names, within what the
access rules allow.

## Modules

| module | models | extends |
|---|---|---|
| `SocketControl` | the operations of class SocketControl as operators on a record | |
| `Server` | `Server::run`, the workers, the signal thread, clients | `SocketControl` |
| `ConnectionPool` | what the main loop promises: connections, a FIFO queue, threads | |
| `ServerRefinement` | the mapping of `Server` to `ConnectionPool` | `Server` |
| `ServerProofs` | the layout of the socket list, where connections and threads are, the refinement of the pool; theorems | `ServerRefinement`, TLAPS |
| `Request` | the input side of Connection, ChunkReader, `processRequest` around it | |
| `Response` | the output side of Connection, the handlers by the way they use it, an HTTP client | |
| `Config` | options, configuration file, routes, `get_handler` | |
| `LuaApi` | files, uploads, headers and the response as scripts use them | |
| `LuaData` | values between Lua, JSON, tokens, C++; preflight results; pages; MIME types; HTTP client | |
| `LuaSqlite` | the SQLite binding | |
| `IIIFCache` | class IIIFCache, `send_iiif_file` as its user, the Lua table `cache`, the directory, crash and restart | |
| `IIIFParams` | region, size, rotation, quality, canonical URL as operators | |
| `IIIFImage` | images in memory and the operations on them | `IIIFParams` |
| `ImageFormats` | readers and writers of PNG, JPEG, TIFF and JPEG2000 | `IIIFImage` |
| `IIIFHandler` | URLs, preflight, info, blobs, specials, renditions and the cache between requests | `ImageFormats` |
| `IIIFLua` | the Lua functions on images | `ImageFormats` |
| `IIIFCacheProofs`, `LuaSqliteProofs`, `LuaApiProofs`, `ConfigProofs`, `RequestProofs`, `ResponseProofs` | inductive invariants and theorems | the module named, TLAPS |
| `IIIFProofs` | the same for the image requests and the image functions of scripts, which share their operators | `IIIFHandler`, `IIIFLua`, TLAPS |
| `MC...` | the instances for TLC: symmetry, functions and sets for the constants | the module named |

Definitions ending in `_Name` next to a definition (`Dispatch_KeepsThread` before
`Dispatch`) are faulty variants: each replaces its original in one experiment that
shows that a property would notice the fault (`mutants` in `PROJECT.json`).

### Server

`sc` is the SocketControl object: `open` is `generic_open_sockets` with control
sockets (the worker numbers), the stop pipe, the listeners and the clients, and
the five ids are the 0-based indices of the source, including the values below
-1 that the decrements in `remove()` produce. `snap` is the `revents` of the
snapshot, `idx` the loop index. One iteration of the loop is one action:
`FinishedAndContinue` and `FinishedAndClose` (a worker's message), `Stop`,
`AcceptHttp`, `AcceptSsl`/`HandshakeEnds` (the TLS handshake blocks the main
thread, so it is a control point), `AcceptFails`, `Dispatch` and `Enqueue` (input
on a client), `CloseHangup`, `NoEvent`. The loop's bound is the present length of
the list, so the index can run past the snapshot: the value read there is any of
`OutOfRange`. A peer that has closed is reported as input or as a hangup
(`HangupRevents`).

Workers have four control points: `poll`, `reading` (the constructor of
Connection), `handling`, `gone`. What the handler does is abstracted to the value
`processRequest` returns. Clients connect, send up to `MaxReqs` requests one after
the other and close whenever they like. Descriptors are `open`, `closed` or
`reclosed`; the latter has no counterpart in the pool and is excluded by the refinement.

`ConnectionPool` is the abstract specification: a connection is outside, polled,
waiting, served or closed; a polled one gets an idle thread or a place at the end of the
queue; a thread that finishes takes the head of the queue before it is idle; a stop
closes what is served. `ServerRefinement` reads the stage of a connection off the
descriptor, the socket list, the queue, and `working_sockets` together with pipes and
workers; if these disagree the stage is "lost", which the pool does not have.
`ImplementsPool` (`INSTANCE ... WITH`, the pool's specification as a property) therefore
contains that no descriptor is closed twice and that the list closed at shutdown is
what the workers really serve.

Left out: failures before the loop (socket, bind, pthread_create end the start);
deletion of threads (its branches need a worker to close its pipe end, which no
worker does); `POLLERR` and `POLLNVAL`, which are only logged; bytes of a
pipelined second request, which the stream buffer of the first one swallows;
exceptions other than the project's own, which end the process; use of an SSL
object after `SSL_free` at shutdown.

### IIIFCache

A rendition is its canonical URL, a cache file is the rendition, the version of
the master it came from, completeness, size and modification time. What the code
does under the mutex is one action; what it does before (`CheckStat`, `AddStat`,
`PurgeTest`) or without (`getSize`, `ListStart`, `ListVisit`) is one of its own.
A request runs `Request`, `CheckStat`, `CheckLocked`, then `SendFile`,
`SendFileEnds` on a hit, or `Read`, `getNewCacheFileName`, `Write`, `AddStat`,
`AddLocked` on a miss. `Write` has the outcomes of the image writers: success, an
IIIFError (the file is unlinked), a client that went away (JPEG, TIFF and J2K let
the exception end the request and leave the file; PNG swallows it). `Stop`
writes the index with keys cut to 255 bytes (`Stored`), `Crash` writes nothing,
masters are replaced at any moment (`Edit`, which gives the new one the time of the
change), scripts purge, delete and list, `Start` is the constructor. `sendFile()` throws an
Error when the cache file has gone, and also when `access()`, `stat()` or `fopen()` fails on
a file that is there; nothing takes that Error on its way past `deblock()`. Two ghosts serve
the properties: `thrown` counts these Errors for each file, and a file knows in which second
its master was `read`. Counters are modulo `SizeMod` and `CountMod`, small
stand-ins for 2^64 and 2^32 so that wrapping is reached.

Times are whole seconds: without `HAVE_ST_ATIMESPEC`, which no build file defines,
the code compares `time_t`. `Stored` cuts a key to what the index keeps of it; a key that
is cut is taken to be the key of no other request (`CutKeysApart`: such a
key has lost the quality and format that end every canonical URL; an identifier with a
directory called `default.jpg` in it could break this). Left out: the resolutions and the image
dimensions stored with a record; masters are never deleted; a name that is still
mentioned in table, index or blocks is not drawn again by `mkstemp`.

### Response

The operations of Connection are operators that take the object and return the
object, the tokens written and how the call ended (normally, with an Error, with an
InputFailure). A failing stream shows at the first write, after the head or after
the data (`Failures`), which are the places where the outcomes differ: whether the
head counts as sent and whether the cache file has the data. `job.kind` names the
handler by the way it uses the connection (table at the head of the module), and
the actions are the calls it makes: `Setup`, `SendText`, `FlushPart`, `TextEnds`,
`SendInfo`, `Encode` with the portions in which the image writers hand over their
data, `AddToCache`, `SendFile`, `LastFlush`, `HandlerFails`. `Return` is the
destructor and the value of `processRequest`, `InternalError` its last catch clause.
The client (external) reads tokens, not calls: it counts what a head or a size line
announces, skips empty lines between responses and is lost when a token does not
fit, in particular on two different Content-Length lines.

Left out: headers other than Content-Length; how the output buffer grows; partial
writes of the socket (the sockets block); `sendData`, which nothing calls; scripts
that call `setBuffer` or `sendHeader` after the head was sent, where an exception
crosses the Lua interpreter; HEAD requests, which no handler treats specially.

### Request

The stream is a sequence of tokens, one per byte where bytes matter (line ends, dashes,
the boundary, data) and one per line in the head. Every read of the constructor is an
action at its control point: request line, headers, the body by length, the chunks, the
lines of a form, a value, the bytes of a file with the state of the boundary search
(`cnt`), the two bytes behind a boundary. The client sends a request in two pieces or
drops the connection anywhere (`Cuts`); a stream without tokens is a timeout or a closed
peer. Temporary files are kept in `disk`. `cleanup` is `cleanupUploads`, which only the
path without an exception reaches.

Left out: the text of headers and their options, percent decoding, a Content-Length that
is no number (it ends the process), pipelined requests.

### Config

`add_config`, the command line with the environment, the Lua file read option by option,
`set_values`, `addRoute` of each handler in any order (they sit in a hash table), `run`,
and `get_handler` for every method and path. An option carries its value and the place it
came from; a data size is a number that goes through the two-digit text of
`DataSize::as_string`. CLI11 is external: it accepts or rejects the command line.

### LuaApi

Two scripts in worker threads share the file system and the working directory. A request
is `Accept` (uploads are stored in `./tmp`), `LuaServer` (the init script), `Run` (calls
of `server.fs.*`, `copyTmpfile`, `sendHeader`, `sendCookie`, `sendStatus`, `setBuffer`,
`print`), `executeChunk` and `cleanupUploads`. Relative names are resolved when they are
used. A call reports success or failure, or throws; what nobody catches ends the process.

### LuaData

Pure functions, evaluated once per behaviour on one input: tables to JSON and back,
tokens, values passed through C++ (`LuaValstruct`), the results of preflight functions,
Basic credentials through base64, MIME types, the life of a curl handle, pages cut at
`<lua>` tags. The nesting of values is bounded by `Depth`; `Half` stands for 2^31.

### LuaSqlite

Per script the userdata of databases and queries and, external, the connections and
statements of SQLite behind them. The collector may destroy what the script has dropped at
any time and everything in any order at the end. A statement remembers its bindings, the
rows still to come and, as history, those returned. Every `sqlite3_step` may fail, of a
select as well (another connection, in this process or not, is committing). The statement
then remembers its failure, and `sqlite3_reset` answers with it once more, so that the next
call with arguments ends in that error before it has cleared or bound anything (`Refused`).

### IIIFParams, IIIFImage, ImageFormats

Operators without state. Parameters are records of their parts; sizes are computed with
the exact quotients that the floats of the code stand for. A pixel is the set of the spots
of the original it was computed from, so that crops, turns, averages and formats can be
compared without colours; metadata are what the formats keep or lose. A reader is a plan
(which rectangle of which level, scaled to what extent), or an exception, or undefined
pixels where the code reads behind a buffer. A writer says what remains of an image.

### IIIFHandler

`Request` takes a URL apart as the regular expressions do, runs the preflight function
(`Access`) and answers with a rendition, info.json, the file, a special script's output,
a redirect or an error. Renditions are cached under the canonical URL, so that the second
request may get what the first one produced. An exception that leaves the handler closes
the connection (`Closed`) or ends the process (`Dead`).

### IIIFLua

One script, one image handle, files under two names: `new`, `dims`, `exif`, `exifgps`,
`crop`, `scale`, `rotate`, `topleft`, `watermark`, `write`, `send`, collection, and calls
with wrong arguments. `shown` is a ghost: the picture last written under a name.

## Runs

| run | instance | shows |
|---|---|---|
| `server_safety` | 1 worker, 3 connections over both listeners, `poll()` limit 6, undefined reads behind the snapshot yield anything | every safety invariant of the loop; it implements the pool |
| `server_limits` | 2 workers, 3 connections, HTTP only, two descriptors, `poll()` limit 7 | hand-over stays right when `accept()` fails and entries with descriptor -1 fill the list, and when `poll()` fails |
| `server_live` | 1 worker, 2 connections, fairness | requests are read, a stop ends |
| `cache_safety` | 2 threads, 2 renditions (one PNG) with keys that collide in the index, limit 1 file, 2 versions of the master, Lua purge, one delete or list or `sendFile()` that cannot open a file that is there, crash, restart | records name their files, hits are current, blocks match holders, eviction, clean start |
| `response_keepalive` | 2 requests on a connection, all kinds of handler, bodies of 0, 1, 3 and 4 bytes, encoder buffer of 3, every range from one place of the body to another, files that vanish, failing handlers, a client that leaves at any write | a kept connection is in step, bodies arrive as produced, every request is answered, the cache file is the body |
| `request_parts` | 2 requests; every file of up to 3 bytes in a form, forms of up to 3 parts in chunks of 1 to 12 bytes, bodies of all types at and beyond the limit, cut off at several places | requests and forms arrive as sent, limits hold, temporary files go |
| `lua_sqlite` | 2 scripts, 2 databases and 2 queries each, one file and a missing one | handles are released, iterations are right |
| `config_priority` | every pair of option types with every combination of sources, three route lists, all handler orders | priority of the sources, longest route |
| `lua_scripts` | 2 scripts, 2 requests, 2 uploads, 2 calls | files are as reported, no temporary file is left |
| `lua_values` | tables of depth 1, all kinds of values, credentials, pages | values survive, preflight decides, pages are in order |
| `iiif_requests` | masters of 9 x 7, 17 x 10, 8 x 6 and 5 x 9 pixels in 4 formats (two pyramids, one JPEG2000 with levels, one damaged), 2 requests out of some 300, 4 kinds of granted access and 7 others | renditions as asked, restriction, hits equal fresh renditions, regions inside |
| `lua_images` | 8 originals of 3 x 2 pixels, 4 calls | pictures survive operations and files |

Bounds. One worker and three connections are the smallest instance in which a
connection is dispatched, a second one waits and a third one moves up in the list
during one scan, which is what the index arithmetic has to survive. Two workers
and fewer descriptors than connections put entries with descriptor -1 beside real
connections (in that run reads behind the snapshot yield "no event": otherwise the queue
of -1 entries grows without bound). Two request threads and two file names
give two overlapping misses of one rendition and a hit in between; two seconds
and two versions give "older", "same second" and "newer"; `MaxCalls` bounds deletions,
listings and files that are there and cannot be opened, purges are not bounded. `MaxReqs`, `MaxClock`, `MaxVer`, `MaxCalls`, `FdLimit`,
`PollLimit`, `MaxRequests`, `MaxDbs`, `MaxStmts`, `MaxUploads`, `MaxOptions`, `Depth` are
the only bounds; all are constants. Two requests suffice to see whether the first one
left client, connection, cache or working directory in a bad state. Options do not
influence each other, so pairs are enough. Masters are not square; 8 x 6 pixels are
divisible by one factor and not by the next, 9 x 7, 17 x 10 and 5 x 9 by none, so that
levels and derived sides have to be rounded. Four calls are: read, change, write, read
again.

`response_keepalive` contains the requests that the source takes and does not serve right:
a JPEG that fills the buffer exactly, a range that `sendFile()` neither keeps nor refuses
(one that ends at byte 0, ends before it starts, or ends with the place behind the last
byte), a bad range or a vanished file after FileHandler has set Content-Length. From the
first such request on a connection `unguarded` is set and `InStep`, `BodiesDelivered` and
`Answered` say nothing about that connection any more; they are about everything
before, and about bad ranges that are refused in time. `CacheMirrorsBody` has no such
exception. Deadlock is checked where the system cannot stop; the server may really
stop, so it is not checked there, where `GracefulStopOnceUp` takes its place, nor in the
runs that end with the last call.

Fairness (`FairSpec`). Each thread of the process is scheduled: weak fairness of
the main loop, of the signal thread and of every worker. A read ends by input,
by the peer closing or by `SO_RCVTIMEO`, which the code sets when the keep-alive
timeout is not 0 (the run uses 5); the same holds for the blocking `SSL_accept`.
Handlers are assumed to return. Clients and signals are not fair.

## Where code and intention differ

Behaviour of the code that the models contain and that a property would have to exclude
if it were not exempted, by name, in its statement. (The properties say that these are the
only ways.)

*Main loop.* After `remove(i)` or `move_to_waiting(i)` the list is shifted against the
snapshot: the next entry's event is applied to its neighbour, which is dispatched without
input or closed although its client is there (Cserve.cpp:750). Without a TLS port
`ssl_sock_id` is -1, becomes -2 when the HTTP listener is removed, and `remove(-2)` throws
out of `run()` at the stop. A signal before the stop pipe exists is lost. After a failure
of `poll()` the workers get no EXIT and are waited for. `keep_alive 0` does not switch
keep-alive off. `close_all_dynsocks` skips every other socket; waiting connections are not
closed at a stop.

*Cache.* `add()` unlinks the file of the record it replaces although it may be blocked
(IIIFSendFile.cpp:242 says it is "blocked from deletion"). An Error of `sendFile()`
(Connection.cpp:1231 to 1248: the file has gone, or no descriptor is left to open it) skips
`deblock()`; a file that is there stays blocked until the server stops and is never purged.
The PNG writer hides that the
client left and a cut file is cached. A record gets the time of the cache file, not of the
master, so an edit during the transcoding, or in the second in which the cache file is closed, goes
unnoticed; so does a master that is moved into place with an older time. `purge()` stops when either
counter is below its goal, and with a `cache_hysteresis` of 1 `add()` can leave one file
more than the limit. `add()` and the purge inside it can take one record off the
counters twice. `add()` enters size records without a time. Deleting an unknown rendition
from an empty cache removes the directory. Listing while another thread deletes enters
default records.

*Responses.* A JPEG that fills its buffer exactly ends in an empty chunk, and `finalize()`
writes a second one. An end of 0 of a byte range stands for the end of the file, an end
behind the last byte promises one byte too many, an end before the start makes the length
wrap; the error page for a range or file that `sendFile()` refuses has two Content-Lengths
when FileHandler had set one. An unbuffered script delivers only what it prints first; a writer
that fails after its first chunk leaves a response that looks complete; `sendAndFlush` on
a buffer that holds data announces all of it and sends only its argument; the length of
the 500 response is in hexadecimal after a chunk.

*Requests.* A chunk that ends between CR and LF in the head of a part breaks the line
(`SplitsHead`). The recorded size of an upload counts one too many when the boundary
search starts again. Bodies of GET and HEAD requests stay in the stream and are read as
the next request (`Unread`). Temporary files stay behind after an exception.

*Configuration.* With a configuration file, a boolean option is read as an integer and
fetched as a boolean, which ends the program (CserverConf.cpp:286); a size without a
value in the file keeps two digits of its default, 200MB becoming 2MB (ConfValue.cpp:51);
a rejected command line is ignored; routes of one handler on one path share their data
whatever the method.

*Scripts.* `chdir` moves all threads; the copy functions empty their destination first,
report failure for an empty source and destroy a file copied onto itself; a second cookie
replaces the first; an error page after the head was sent throws again. In the SQLite
binding the mode is looked for in the wrong argument, a failed open leaks its connection,
integers are cut to 32 bits, and a call without arguments continues the old iteration. After
a select that failed because the file was busy, a call with new arguments raises that error
again before it clears the bindings; a script that catches it and goes on without arguments
gets the rows for the arguments of the call before (LuaSqlite.cpp:250).
JSON arrays come back numbered from 0, empty tables vanish, a token is cut at the first
dot of its payload, a page without a closing tag ends the process.

*Images, extents.* JPEG2000 sizes that divide exactly come out larger, a percentage is
applied twice on a pyramidal TIFF, and `^max` grows to the configured limits for PNG only
(`OtherExtent`). The directory of a pyramid is chosen by the factor of its width alone
(IIIFIOTiff.cpp:991); a side derived on a level that rounds is up to two pixels larger than
on the image (`Slack`). TIFF is scaled by the method configured for JPEG (IIIFIOTiff.cpp:1224).

*Images, regions.* On a pyramid the numbers of a region are divided by the factor that the
size calls for, which need not be the factor of the directory that is read
(IIIFIOTiff.cpp:1032, `OtherPlace`). Numbers of 2^31 and more wrap around in
`crop_coords()` (`NumbersFit` keeps below). A percentage of 0 is divided by and is left
out of the inputs (`IsSize`). A region with a negative corner cannot be written in a URL.

*Images, cache.* The canonical URL has the size of the whole image also for a region, so two
renditions share a key, and the watermark is not in it (`SharedKey`). Angles are in tenths
of a degree there (`SameAngle`).

*Images, requests.* A restriction is compared with the size on the whole image; `red:n`, which
IIIFSize.h:40 says may be in a URL and IIIFHandler.cpp:149 refuses there, is accepted as a
restriction and then ignored, because `undefined()` is true of it (IIIFSize.h:151; the
comment above says it is true of a size that no string has initialized). A mirrored image that is not turned has an undefined extent
(IIIFImage.cpp:737). A number before `info.json` is
taken for a rotation. A URL without an identifier ends the process, a restriction with a
bad size and a quality that cannot be converted to close the connection unanswered. JPEG
loses IPTC data, and XMP data that came out of one JPEG make the next one lose what
follows; TIFF keeps neither EXIF orientation nor position; digests other than sha256 are
labelled sha256; writing JPEG, PNG or TIFF changes the image in memory; a failed write
leaves a broken file behind, except for JPEG.

## Proofs

The theorems hold for every value of the constants that satisfies the named assumptions,
so for every number of threads, connections, requests, files and bytes. The proofs are
about the specifications without fairness (`Spec`, `ScriptSpec`). An invariant that a run checks is
seldom inductive; each proof rests on a stronger one, which says more about where things
are, and which was model-checked on the instance of the run before it was proved. These
are theorems as well (`Invariance`, `HolderInvariance`, `CacheInvariance`,
`UploadsInvariance`, `StepInvariance`, `ConfigInvariance`, `RequestInvariance`,
`SentAreKept`, `ScriptInvariance`).

| theorem | states |
|---|---|
| `ServerProofs!TypeCorrect` | `TypeOK` |
| `ServerProofs!NoLostWakeup` | `NoIdleThreadWhileWaiting` |
| `ServerProofs!IdsCorrect` | `IdsPointRight` |
| `ServerProofs!ScanNeverBlocks` | `SnapshotStaysTrue` |
| `ServerProofs!ThreadsCorrect` | `ThreadsAccountedFor` |
| `ServerProofs!OneHolderCorrect` | `OneHolder` |
| `ServerProofs!ServerImplementsPool` | `ImplementsPool` |
| `IIIFCacheProofs!RecordsCorrect` | `RecordsNameTheirFiles` |
| `IIIFCacheProofs!BlocksCorrect` | `BlocksMatchHolders` |
| `IIIFCacheProofs!HitCorrect` | `HitIsUpToDate` |
| `IIIFCacheProofs!UnlinksCorrect` | `OnlyAddUnlinksBlocked` |
| `IIIFCacheProofs!StartCorrect` | `StartCleansDirectory` |
| `IIIFCacheProofs!EvictionCorrect` | `EvictionRight` |
| `LuaSqliteProofs!HandlesCorrect` | `HandlesReleased` |
| `LuaSqliteProofs!IterationCorrect` | `IterationRight` |
| `LuaApiProofs!TempsCorrect` | `NoTempLeft` |
| `LuaApiProofs!FilesCorrect` | `FilesAsReported` |
| `ResponseProofs!CacheCorrect` | `CacheMirrorsBody` |
| `ResponseProofs!InStepCorrect` | `InStep` |
| `ResponseProofs!BodiesCorrect` | `BodiesDelivered` |
| `ResponseProofs!AnsweredCorrect` | `Answered` |
| `ConfigProofs!OptionsCorrect` | `OptionsAsPromised` |
| `ConfigProofs!RoutingCorrect` | `DispatchedToLongestRoute` |
| `RequestProofs!LimitHolds` | `WithinLimit` |
| `RequestProofs!TempsGo` | `TempFilesRemoved` |
| `IIIFProofs!SentIsInside` | `RegionInside`, under `NumbersFit` |
| `IIIFProofs!SentAsAsked` | `DeliveredAsAsked`, under `NumbersFit` |
| `IIIFProofs!HitsStayFresh` | `HitIsFresh`, under `NumbersFit` |
| `IIIFProofs!RestrictionIsKept` | `RestrictionHolds`, under `NumbersFit` |
| `IIIFProofs!TopleftKeepsPicture` | `TopleftUpright`, under `SmallNumbers` |
| `IIIFProofs!ScaleUsesSource` | `ScaleCoversSource`, under `SmallNumbers` |
| `IIIFProofs!WrittenIsReadBack` | `ReadsBack`, under `SmallNumbers` |
| `IIIFProofs!ChecksumIsDecisive` | `ChecksumDecides`, under `SmallNumbers` |

### Main loop

Assumptions: `NThreadsAssumption`, `ServerAssumption`, `SocketsDistinct` (at least one
thread; sockets pairwise different, and different from the values that stand for none).

Whether an id is right after `remove()` depends on where in the vector everything
else is, and whether a control message is there when the index arrives depends on
which part of the snapshot the scan has still to visit. `IndInv` (end of `Server`)
therefore states the whole layout of the vector (`Layout`: `LayoutUp` while the
listeners are there, `LayoutDown` after the stop branch), what the fixed part of the
snapshot still says truly behind the index (`SnapInv`), that a busy worker has a job
(`BusyHasJob`), and the type and wakeup invariants themselves. The lemmas describe
`Erase`, `remove`, `add_dyn_socket` and `close_all_dynsocks` on a layout; there is one
lemma per action or group of similar actions.

`OneHolder` and `ThreadsAccountedFor` count; what is inductive is where things are.
`HolderInv` says for every connection in which single place it is (`PlaceInv`), that
`working_sockets` are what the threads have to do (`WorkingInv`), for every thread that it
is queued once or has one task (`ThreadInv`), and for the backlog of the listeners that
nothing in it was accepted (`BacklogInv`). After a stop only the parts survive that the
shutdown needs. The counts follow by cardinality of singletons.

For the refinement, `Stages` reads the stage of a connection off `HolderInv`: it is never
"lost". Each action then is a step of the pool (`PoolAccept`, `PoolEnter`, `PoolTake`,
`PoolLeave`, `PoolFinish`, `PoolStop`, ...) or leaves the pool as it is (`PoolStutter`).

### Image cache

Assumptions: `CacheAssumption` (finitely many threads and keys; cutting a key twice
cuts it once; sizes are positive), `CutKeysApart`.

`CacheInv` joins: records name files that match them, each its own (`TableInv`); the
entries of an index that an earlier run wrote would load as good records if the server
stopped now, whichever of their files have gone since (`IndexInv`, what makes the
restart after a crash right); a file that is being written is known to its
writer alone (`WriterInv`, without which two misses of one rendition could share a file);
a request with a hit sends what it asked for (`SenderInv`); blocks match the senders and
the Errors of `sendFile()`. `HitIsUpToDate` needs a second invariant beside it, `FreshInv`,
about the renditions, finished or in the making, and the masters: a version later than the
one a rendition was made from has a time not before the second in which the older one was
read, be it the version of today or one that a request has seen (`Sights`). With it, a hit on
a stale file leaves only a master that was replaced in the seconds in which the rendition
was made.
The action properties follow from `CacheInv` in the state before. `EvictionRight` needs
that the counter of files is a number below its modulus (`CountInv`), and folds over the
order in which `purge()` takes its candidates, for every hysteresis and every order of
equal times.

The proof corrected the property: with a hysteresis of 1, `add()` of a rendition that is
in the table already can end one file above the limit, because the record it replaces is
taken off the counter twice when the purge takes it as well. `FileLimitHolds` says so now.

### Scripts

`LuaSqlite` (`ValuesAssumption`: values are positive numbers, 0 is NULL): `SqliteInv` says
that a userdata holds its handle exactly as long as the connection is open, that a closed
connection waits for its statements, and what is left of an iteration belongs to the
arguments that were bound last. `AllReleased` excepts the connection that a failed open leaks.

`LuaApi` (`NamesAssumption`: the names `mkstemp` draws are spelt out by no script):
`UploadsInv` says that nobody but its upload wrote under a temporary name, in any
directory, and that such a file lies where the request will look for it or is one of those
the code loses (`lost`: after a `chdir`, or an Error that nobody could answer).

### Responses

Assumption: `ResponseAssumption` (the buffer holds at least a byte, sizes stay below the
modulus, ranges are pairs of numbers as the handlers parse them). Sizes, ranges, portions,
the buffer and the number of requests are otherwise arbitrary, and files may vanish.

The source takes some requests that put a connection out of step (see "Where code and
intention differ"). No assumption leaves them out: the ghost `unguarded` marks the connection
at the step that brings one, and `InStep`, `BodiesDelivered` and `Answered` are claimed for
a connection that is not marked. `Accept` marks by what was asked for (`Unguarded`),
`SendFile` by whether the file is still there. Of the other requests `AskedFacts` says that
what they ask for lies within the body or is refused by `sendFile()` in time.

The client reads tokens, so the first part of the module is about reading sequences of
any length. `FeedAll` is a recursive function; the induction it needs comes
from the well-foundedness of the numbers, applied to a *set* of numbers (`LeastNumber`,
`Induction`), since the induction theorems of the library, whose parameter is an
operator, cannot be used. From it follow: reading two sequences one after the other
(`FeedBoth`), a body behind its length (`PlainResponse`), a chunk (`ChunkRead`), the end of
a chunked transfer (`ResponseEnds`). `Seen(c, g, b)` is the client as it must be when the
object is in state c, the responses g are complete and b was written of the present
body. For each operation (`sendAndFlush`, `flush`, `send`, `sendFile`, `send_error`,
`finalize`) there is a lemma on what it leaves of the object and one that it takes
`Seen` to `Seen`.

`StepInv` then says that, as long as the client is there and the connection is not marked, some g and b exist for
which `Steady(g, b)`: the answers g are those that were meant, the client is
`Seen(conn, g, b)`, and b is what the handler has produced so far (`Producing`), all of it
(`Written`), or, after an Error, something the last resort can still complete
(`Escaped`). There is one lemma per action. `CacheInv` of this module is simpler: the cache
file has what the encoder handed over, unless the encoder notices a failed write.

### Start and routes

Assumptions: `HandlersAssumption`, `SizesAssumption`, `RoutesAssumption` (sizes are natural
numbers; paths are sequences of characters). Options, lists of routes, sizes and the order
in which handlers are entered are arbitrary.

`ConfInv` says phase by phase how far the start is: what was read of the file is what
`ReadOption` makes of the values as parsed (`ReadingInv`), the final values have the
promised source and their routes are still routes after the way through text (`FinalInv`).
A path may be entered by several handlers; what is entered for it then is a route of the
last one, whose data are complete (`EntriesInv`), and a handler with data has left none of
its paths unentered (`AddedInv`), which makes the longest match longest over the routes of
all handlers. That there is a longest one rests on the well-foundedness of the numbers
(`Greatest`); that sizes below 100 survive is arithmetic of the two-digit text
(`SmallSizeKept`).

### Requests

Assumption: `RequestAssumption` (a limit and a number of requests; bodies are sequences of
tokens, parts have a kind, a name and data; nothing bounds their lengths). The client may
stop anywhere.

`RInv` joins four parts. `TypesRight`: the stream and the object are what they seem, every
upload names a file that was made for it, the content is within the limit. `PlacesRight`:
there are no uploads before the form is read; while a file is written it is the last one
and no upload yet; a match with the boundary is under way in a file only (otherwise the
bytes held back in `cnt` would be written to nobody). `TempsKnown`: a file that exists is
an upload or the one being written, unless an exception has ended the request, and between
requests there is none. `BytesCounted`: the bytes of the uploads, those of the file being
written and the `cnt` that are held back are no more than the counter of the parser, which
is what it compares with `max_post_size`; a byte that was held back is paid for before it
is known to be data. `WithinLimit` and `TempFilesRemoved` follow; neither speaks of requests
that end by an exception, whose files stay (see above).

What the client sends is put together with `FlattenSeq`, a recursive function of a sequence
of pieces; that the result is a sequence of tokens is shown by induction over a set of
numbers (`FlattenTyped`), as in `Response`. The bytes of the uploads are counted as a set
of places (upload, position), so that the sum needs no induction of its own but the
cardinality of disjoint sets.

### Image requests

Assumptions: `ParamsAssumption`, `ParametersAssumption` (the numbers of a URL are natural, a
percentage is not 0), `MastersAssumption` (sides from 1 to `LargestSide` pixels, for which
the floats of the code give exact quotients; the first directory of a TIFF is the image
and no directory is smaller than a pixel), `LimitsAssumption`, `RequestsAssumption`. The
theorems on readers are stated under `NumbersFit`: the sums of `crop_coords()` stay within
its 32 bits. The instance satisfies it (`MCNumbersFit`). Masters, levels, regions,
sizes, restrictions, limits and the number of requests are otherwise arbitrary.

`IInv` says of the whole history what a single answer needs: whatever is in the cache was
made by `Transcode` for some request with that canonical URL (`CacheIsMade`), and what was
sent last is the master, what was just made, or what was made for a request of the same name
(`SentIsServed`, `HitIsImage`). The rest is about one or two requests:

- *Regions and sizes.* `CropCoordsInside` bounds `crop_coords()`; `GetSizeMeant` shows that
  the cases of `get_size()` give the extent that the property states in words of its own
  (`MeansExtent`), form by form, from bounds on quotients rounded up, down and to the
  nearest.
- *Readers.* One lemma each (`PngDelivers`, `JpegDelivers`, `J2kDelivers`,
  `TiffDelivers`) that a plan is inside of its level, near the place named and of the extent
  meant. For the pyramid the directory has to be found first: `FactorIsFactor` and
  `ReduceIsFactor` say what the factors of `get_size()` are, `LevelTaken` which directory
  is read, `PlacedOnLevel` and `LevelDelivers` what the divided numbers still mean there.
- *Names.* Two requests of one canonical URL agree on the texts of its parts
  (`NameParts`), so in regions (`RegionsAgree`), in sizes, given that the key is not one that
  two renditions share (`FullSizesAgree`, `LevelsAgree`), and in the rotation up to a tenth of a
  degree; so their plans are alike (`NamesPlanAlike`). With `CacheIsMade` this carries a
  statement about a new rendition over to a hit, for `HitIsFresh`, `DeliveredAsAsked` and
  `RestrictionHolds`.
- *Restrictions.* `ChosenIsAllowed`: the size that is granted is no larger than the
  restriction. On a pyramid a side that is derived on a level exceeds it by at most two
  pixels (`ProportionGrows`, `DerivedExactly`, `PyramidFits`); that bound is the `Slack` of
  the property, so it is known to be enough for every image.

### Image functions of scripts

Assumptions: `ParamsAssumption`, `ArgumentsAssumption` (regions and sizes are what their
constructors yield), `ParamSetsAssumption` (a pyramid begins with the image, at most 32
levels), `OriginalsAssumption`. The last one says of a file that may be there at the start
what its format asks for and that it carries a digest only if this server has stored it:
somebody else's file may have anything in that field. The theorems are stated under
`SmallNumbers`: sides are at most 32768 and so small that no sum or product of them or of the
numbers in an argument wraps. The instance satisfies it (`MCSmallNumbers`). Files, pixels,
arguments and the number of calls are otherwise arbitrary.

`ScriptInv` is inductive: the image behind the handle is one the server makes
(`ImageFitsServer`: a filled grid of pixels, an orientation from 1 to 8, 8 or 16 bits, no
palette), every file can be read or is what a failed write left (`FileFits`, `Broken`), and
what a script was last shown under a name is in its file (`ShownInv`, `IsShown`). There is
one lemma per call. What the calls do to an image is shown before, operator by operator:

- *Turns.* Mirroring and turning permute the pixels (`MirrorFields` and what follows); the
  turn and the mirroring that `topleft()` chooses for each of the eight orientations give what
  a viewer would show of it (`TopleftFields`). That is all of `TopleftUpright`.
- *Scaling.* `ScaleCovers`: when a side is made smaller, the spans that the averaged or
  interpolated pixels are taken from cover it without a gap (a place less than a hundredth past
  a pixel is taken from that pixel alone, as `bilinn()` does). The arithmetic is that of
  quotients, for every pair of sides.
- *Reading.* `PlanSided` bounds what the readers deliver; `WholeIsRead` and `WholeImage`
  show that reading all of a file as it is gives its pixels, whatever levels, tiles or eighths
  the reader goes through. `FieldsRead...` say what each reader returns of the metadata.
- *Writing.* `PngWritten`, `JpegWritten`, `TiffWritten` and `J2kWritten`: a writer that
  succeeds leaves a file that holds the picture (`Holds`), one that fails a broken file or none.

`ReadsBack` puts writing and reading together with `ShownInv` between them, which is what
makes it hold whatever happens to other files and to the image in the meantime. For
`ChecksumDecides` the digest that travels with a file is followed from `readOriginal()`
through the readers: they keep it or lose all of it (`EssentialsRead`), and a file that is
broken has no side that a digest could have been taken of.

### Model-checked only

- Liveness (`RequestIsRead`, `GracefulStopOnceUp`): out of TLAPS's reach.
- `LuaData`: its operators are RECURSIVE, which TLAPS cannot take; what a recursive
  conversion yields for every table would need induction over data.
- `RequestsIntact` of `Request`: it compares what was parsed with what the client meant, so
  its invariant has to relate every position within the stream to a position within a
  request (through chunks, parts and a boundary search that may begin again). What is
  proved of the parser does not need this.

## What could follow

- An abstract specification of the cache, a map from renditions to contents, which
  `IIIFCache` and the `cache` of `IIIFHandler` would both implement.
- The relation between stream and request that `RequestsIntact` needs.

## Not modelled

- `lib/CLI11.hpp`, `ext/`: vendored libraries. OpenSSL, curl, SQLite, Lua, libtiff,
  libjpeg, libpng and Kakadu appear by what the code sees of them (external).
- Colour values, palettes and profiles, the bytes of the codecs, the pixels of a rotation
  by other angles than multiples of 90 degrees, resolution tags, the fields inside EXIF,
  IPTC and XMP blocks: numerical work or copies of records.
- Reads behind buffers inside the pixel code (the 512 bytes of the essentials, the
  watermark's last row): where the result reaches the image it is "undefined".
- The data race inside the hash tables of the cache beyond the phantom records.
- Partial writes of the socket stream; percent decoding, cookies and header options.
- Loading of handler libraries, logging, uuid, the ping and test handlers: no state.
