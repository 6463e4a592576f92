# FusionFS and HyCache in TLA+

FusionFS is a distributed file system in which every node is a client, a
metadata server and a data server at once. Applications use it through FUSE.
HyCache, in the same repository, is a FUSE file system of one node over a fast
and a slow disk. FusionFS brings two stores of its own: ZHT, a distributed hash
table, and a copy of UDT, the protocol over UDP its transfers use. This directory
specifies all four in TLA+, checks small instances with TLC and proves theorems
about every instance with TLAPS. Source paths below are relative to
`src/fusionFS/src` unless they say otherwise.

## The system

| Component | State | Operations | Talks to |
|---|---|---|---|
| FUSE client, `fusionfs.c` | the physical directory `rootdir` of its node, open descriptors | one handler per system call | ZHT (through `util.c`), `ffsnetd` of other nodes (through `ffsnet.cpp`), the local disk |
| ZHT wrappers, `util.c` and the top of `fusionfs.c` | none | `zht_insert`, `zht_lookup`, `zht_remove`, `zht_append`, `zht_delete` | ZHT client |
| ZHT client, `zht/src/cpp_zhtclient.cpp` | member list, one cached socket per server, shared by all threads | `insert`, `lookup`, `remove` | ZHT servers over TCP |
| ZHT server, `zht/src/server_general.cpp` | a NoVoHT map, sockets to two replicas | one event loop, `dataService` | replicas |
| NoVoHT, `zht/src/common/novoht.cpp` | hash table with chains, log file | `put`, `get`, `remove`, `resize`, `writeFile`, `readFile` | file |
| LRU cache, `zht/inc/lru_cache.h` | list, index, size | `insert`, `fetch`, `remove`, `touch`, `clear` | ZHT client |
| ffsnet client and daemon, `ffsnet/` | files of the node | `ffs_recvfile`, `ffs_sendfile`, `ffs_rmfile`, `ffs_mkdir`; one thread per connection | UDT |
| UDT, `udt/src` | sockets and multiplexers of a process, per connection two buffers, two loss lists, windows and timers, per multiplexer a heap and lists of sockets | `listen`, `accept`, `connect`, `send`, `recv`, `sendmsg`, `recvmsg`, `close`, `startup`, `cleanup`, `epoll_wait`, options; a sending, a receiving and a collecting thread | UDP |
| HyCache, `src/hycache` | files on SSD and HDD, symbolic links, a queue of the files on the SSD | FUSE handlers | local disks |

ZHT maps the path of a file to the address of the node that holds its primary
copy, and the path of a folder to its listing, a string of names. Data is never
sent to ZHT: `fusion_getattr`, which the kernel calls before every other call on
a file, fetches the file from the registered node into the local physical
directory, all other handlers work on the local copy, and `fusion_release`
either registers this node as the new owner (the file was open for writing) or
drops the local copy (it was open for reading).

What makes the system correct, and what is hard about it:

* An address in ZHT leads to a node that has the file. Creation, removal, release
  and the clean-up in `readdir` each change ZHT and the disk in several steps, in
  different orders, and a client may be killed between any two of them. A copy
  that is dropped is a copy: the primary is never dropped. Fetching never
  replaces new contents by old ones, and an open sees the latest closed contents.
* A listing and the registered files agree, although a listing is changed by
  reading it, editing it and writing it back; `rmdir` removes empty directories
  only, although the check and the removal are apart. Every handler returns.
* The store below behaves as the file system takes it to: a call to ZHT acts on
  one map at one moment and returns its own answer, although a client keeps a
  bounded cache of sockets, a server reads whatever has arrived, and servers die.
  The table of a server is a map through resizes, and its file, where it has one,
  is that map through rewrites and crashes. Replicas follow.
* A transfer delivers the file or fails, while other threads transfer, write or
  remove the same file, and its sockets go away whatever it left undone.
* UDT delivers what was written, once and in order, over a network that loses,
  repeats and reorders; the worker threads, the collecting thread and the callers
  share sockets, multiplexers, buffers and lists under several locks, and a
  thread that waits is woken up.
* The users of HyCache see one disk, although its files may be on either of two, and
  the fast disk keeps its limit, where the code looks at it: in this version
  `ssd_is_full` returns 0 at once (`util.c:33`), so nothing is moved out.

No lock protects the metadata of FusionFS: its README has "Add lock/unlock to ZHT
to synchronize concurrent accesses" as its first open point. Several properties
therefore hold for disciplines of use, which the runs and the theorems state;
what happens outside of them is told in [Outside the assumptions](#outside-the-assumptions).

## Modules

| Module | What it is | Implements |
|---|---|---|
| `FusionFS` | the FUSE handlers over an atomic ZHT and atomic transfers | |
| `FusionFSOwners` | `FusionFS` under single ownership; its inductive invariant | `PrimaryCopy`: every file has one primary copy that is written, and copies of it |
| `FusionFSProofs` | the theorems about the two | |
| `ZHT` | the ZHT client with its connection cache, and the server's event loop | `AtomicMap`: a map whose calls take effect once between start and return |
| `ZHTProofs` | the theorems about it | |
| `NoVoHT` | the hash table of a server with its file | `KeyValue`: a map with put, get and remove |
| `NoVoHTProofs` | the theorems about it | |
| `ZHTReplicas` | a server that sends inserts on to its replicas | |
| `FFSNet` | the four calls of `ffsnet.cpp` and the threads of `ffsnetd.cpp` | |
| `FFSNetProofs` | the theorem about it | |
| `UDTTransfer` | one connection of a stream: both buffers, loss lists, acknowledgements, timers, close | `Stream`: what is read is what was written |
| `UDTMessages` | the same connection with messages and times to live | |
| `UDTTransferProofs` | the theorems about a stream and about messages, about the order of the numbers, and about the send buffer, the windows, the polls, the receiving list and the places of the heap of `MCUDTData` | |
| `UDTListening`, `UDTConnecting` | the sockets of a process that listens, or connects: callers, worker, collecting thread | |
| `UDTOptions` | the sizes two sockets set, negotiate and grant each other, and the theorem about them | |
| `UDTSocketsProofs` | the theorems about a process that listens and one that connects, and about all three as one run checks them | |
| `UDTSeqNo` | `CSeqNo`: numbers that wrap | |
| `UDTSndLossList`, `UDTRcvLossList` | ranges of lost numbers in circular arrays | `LossSet`: a set of numbers |
| `UDTSndBuffer` | the ring of blocks of a sender | `SendQueue`: a queue of packets |
| `UDTRcvBuffer` | the array of units of a receiver | `Delivery`: a queue of bytes (stream), whole messages (datagrams) |
| `UDTWindow` | the window of acknowledgements, the windows of arrivals | (in the module) the last acknowledgements |
| `UDTUnitQueue` | the pool of units and its count without a lock | |
| `UDTSchedule` | the heap of senders, the sending thread, its timer | |
| `UDTRcvQueue` | the receiving thread, its list, its table, connecting sockets | |
| `UDTEPoll` | polls, and the threads that tell them of events | |
| `HyCache` | the FUSE handlers over two disks | `PlainFiles`: one disk |
| `HyQueue` | the linked ring of `util.c` | the queue of `HyCache`: a sequence of entries |
| `HyCacheProofs` | the theorems about the handlers of HyCache, its limit, its ring and its refinement | |

`MCOwners`, `MCFusion`, `MCZHT`, `MCNoVoHT`, `MCUDTTransfer`, `MCUDTSockets`,
`MCUDTData` and `MCHyCache` are the instances for TLC (`FFSNet` needs none). Most of
them are sums of instances: a variable `part` (or `process`), chosen in the initial state, says which instance runs, and the variables of the others
stand still. One run then explores the small instances one after the other, and
each property speaks of the part it belongs to.

The layers fit together by their abstractions. `FusionFS` takes a call to ZHT as
one atomic step that is answered, which `ZHT` refines for as long as the servers
run and a client has one call at a time. `ZHT` takes the table of a server as a
map, which `NoVoHT` refines while the table is open (the server never closes it).
`FusionFS` takes a transfer as one step that succeeds or fails, whose steps
`FFSNet` has. `FFSNet` takes a connection as a reliable stream each way that ends
or breaks, which `UDTTransfer` refines. `UDTTransfer` takes the loss lists as
sets, the buffers as windows over the stream and the acknowledgements as numbers,
which `UDTSndLossList`, `UDTRcvLossList`, `UDTSndBuffer`, `UDTRcvBuffer` and
`UDTWindow` refine. `HyCache` takes the queue as a sequence, which `HyQueue`
refines.

### FusionFS

State: `addr` and `list` are ZHT; `store[n][f]` and `ldir[n]` the physical
directory of a node; `clock` numbers contents in the order they were written;
`up`, `fd`, `pc`, `call`, `got` and `old` are the clients: whether each runs,
the open descriptor of a process, and for the handler that serves it the next
step, the system call and its local variables (`res`/`oldaddr`, `oldval`/`filelist`).

A handler is a sequence of actions, one for each remote call or local system
call that changes or reads shared state, in the order of the code:

| System call | Actions |
|---|---|
| any call on a file | `Begin`, `Getattr` (the lookup), `Fetch` (the transfer), `Lstat`, then |
| stat | returns |
| open for reading or writing | `Open` |
| truncate | `Truncate` |
| create | `Creat`, `AppendGet`, `AppendPut`, `Register` (or `Open` if the file is there) |
| unlink | `DeleteGet`, `DeletePut`, `LookupOwner`, `RemoveEntry`, `RemoveData` |
| write | `Write` |
| close | `BeginRelease`, `Close`, then `Register`, `DropCopy` or nothing |
| mkdir | `MkdirLocal`, `NewListing`, `AppendGet`, `AppendPut` |
| rmdir | `CheckEmpty`, `RmdirLocal`, `DeleteGet`, `DeletePut`, `RemoveListing` |
| opendir and readdir | `Opendir`, `ReaddirGet`, `ReaddirScan` |

`Mount` is a client's start (`main`), `Crash` the death of its process.

What the code really does, where it is not what it seems to do, is in the
model: `zht_lookup` returns 0 for a missing key, so every branch on
`ZHT_LOOKUP_FAIL` is dead and a missing key reads as the empty string; a transfer
from the empty address fails; a listing that is built by `zht_append` from a
missing key lacks the leading blank `zht_delete` searches for; `rm -r path*`
expands to siblings; `creat` that fails does not stop `fusion_create`.

Assumptions on the environment: the kernel looks a path up (`getattr`) before
every call on a file, holds the lock of the parent directory during create,
unlink, mkdir and rmdir and of the directory during readdir (on one node only),
and refuses mkdir of a directory that exists locally; a call to ZHT or to a
daemon is atomic and answered; one level of directories below the root; a
process has one descriptor open at a time and makes one call at a time.

### ZHT and its replicas

State of `ZHT`: `table[h]` and `up[h]` are the servers; `sock[c]` the descriptors
of a client process, each with the requests and answers on their way; `cache[c]`
the `LRUCache`, most recently used first; `pc`, `call`, `fd` and `ret` the threads.

| Code | Actions |
|---|---|
| `insert`, `lookup`, `remove` called | `Begin` |
| `str2SockLRU` | `Fetch`, then `Connect` (`makeClientSocket`) and `Cache` (`LRUCache::insert`, `close`) if the cache misses |
| `generalSendTo` | `Send` |
| `generalReceive` and what is made of the bytes | `ReceiveAck` (insert, remove), `ReceiveText` (lookup) |
| event loop and `dataService` | `Serve` |
| a server's process dies, is started again | `CrashServer`, `RestartServer` |

What the code really does is in the model: insert and remove return the contents
of a buffer that may never have been filled; lookup throws when the stream has
ended, which ends the process; a descriptor is not closed when the connection
fails; the socket of a dead server stays in the cache; the server takes all that
has arrived for one package, of which the last fields win; threads of a process
share sockets.

`ZHTReplicas` is the same server with `NUM_REPLICAS` above zero: `insert` puts and
sends the package to each replica over a connection made once (`link`), `Receive`
is a replica that reads all that arrived, `CrashReplica` and `RestartReplica` its
death and return. Answers of replicas are never read, and no removal is sent on.

Assumptions: TCP, which loses nothing while both ends live and tells a client
that its server died, with or without the answers on their way (a process is
killed, its host stays); a request arrives whole; SIGPIPE is ignored (libfuse does
so for clients); the cache operations are atomic although the build defines no
`_REENTRANT` and they take no mutex; where threads share sockets nothing is
evicted; one server per host, which has no replicas in `ZHT` (as `zht.cfg` has it
and `Readme.txt` asks for).

### NoVoHT

State: `kvpairs`, `numEl` and `nRem` as in the code; `db` the file as a sequence
of records with what stdio still buffers; `open`; `dbfile`, whether the table has
a file at all (the server gives it none). `put`, `get` and `remove` are one
action each, with the resize or rewrite they make; `Close` is the destructor,
`Open` the constructor with `readFile` and the rewrite after it. `Crash` ends the
process between two operations or during a rewrite, with any part of the buffer
written; `CrashOpening` ends it while the file is read.

What the code really does: `resize` leaves the element count at zero; a table
that is opened reads records with the same stream `put` appends to, so reading
stops after the first live one, and the rewrite drops the rest.

Left out: the two lock flags (one thread uses a table), keys and values that are
empty, hold a tab or exceed 299 characters; positions are record numbers, not bytes.

### FFSNet

A call is a thread of the client (`pc`, `sock`, `local`, `promised`) and a thread
of the daemon (`spc`, `ssock`, `inode`, `path`), with the bytes between them as
`up` and `down`. `Start`, `Connect`, `Request`, `SendSize`, `SendFile`, `RecvSize`,
`RecvFile`, `Status` and `Close` follow `ffsnet.cpp`; `Accept`, `RecvType`,
`RecvName`, `SendSizeOf`, `SendBlock`, `RecvBlock`, `Remove`, `SendStatus` and
`CleanUp` follow `ffsnetd.cpp`. `count` is the number of startups not cleaned up,
`collecting` says whether the thread that collects broken sockets runs, `Collect`
is one of its rounds and `Break` a connection that is lost. A file is a sequence
of blocks of one upload or another; a writer truncates at open and writes each
block at its own offset, so concurrent uploads mix. Both ends return early at every
place they do in the code, and then leave sockets and the library as they are.

### UDT

`UDTTransfer` has five threads: at the sender the caller of `send` and `close`
(`send`, `close`, `LingerDone`, `LingerExpires`), the sending worker (`packData` in two
steps, `TakeLost` before `m_AckLock` and `SendLost` under it, and `SendNew`) and the
receiving worker (`ProcessAck` and `ProcessNak` of `ReceiveLast` and `ReceiveCopy`, and the
expiration timer `Expire`); at the receiver the receiving worker (`processData`, the
full and the light acknowledgement) and the caller of `recv`. The network keeps a
set of packets: an arrival may take the packet (`ReceiveLast`) or leave a copy
(`ReceiveCopy`), any packet may be lost, none has an order. Numbers are those of
`UDTSeqNo` and wrap between the two packets of the run.

`UDTMessages` replaces the callers by `sendmsg` and `recvmsg`, for messages of one
packet or two (`MessagesAssumption`), gives some of them a time to live, and adds the drop request: `SendLostOrDrop` is `packData` for a
packet of an old message, `ProcessDrop` the receiver's side of it.

`UDTListening` and `UDTConnecting` have the maps of `api.cpp` (`m_Sockets`,
`m_ClosedSockets`, the queued and accepted sockets, the multiplexer with its
reference count) and one action for every stretch of code between two releases of a lock:
`bind`, `listen`, `Accepts`, `CloseListener`, `CloseCore`, `CloseMove`, `Answer`
(`newConnection`), `Receives`, `Break`, `Unlist`, `Collects` (`checkBrokenSockets`,
`removeSocket`); and `startup`, `newSocket`, `connect`, `ConnectGets`,
`ConnectTimesOut`, `cleanup`, `CloseAll`, `Drained`, `Abandon`. `Crashed` is the state
after `accept` followed a null pointer (see below), from which no step is taken.

`UDTOptions` has `setOpt` and `getOpt` for the sizes, with their clamps in the order
of the code, `open`, `connect` of both ends, `newConnection` and the window that
acknowledgements advertise.

The structures are each on their own, driven by the calls their users make, at the
granularity of their locks: one action per call where one lock covers it
(`UDTSndLossList`, `UDTRcvLossList`, `UDTWindow`, `UDTRcvBuffer`), a load and a store
where there is none (`m_iCount` in `UDTUnitQueue`, `addBuffer` in `UDTSndBuffer`), and
the check, the wait and the signal apart where threads sleep (`UDTSchedule`,
`UDTRcvQueue`, `UDTEPoll`). `UDTRcvQueue` follows the receiving worker from the packet
to the socket and the timers, with the callers that connect and close beside it;
`UDTEPoll` the workers and callers that look at a socket first and report it after.

Assumptions: system time and UDP sockets do what they promise; a lock is never
left held; memory is not exhausted except in `UDTUnitQueue`.

### HyCache

State: `fs` holds names, links, files with content and mode on both disks and the
open handles; `sdir` and `hdir` the directory on each; `queue` the entries of
`util.c`; `mounted`, `known` and `seen` what has
happened since the mount; `limited` whether `ssd_is_full` looks or, as in this version,
returns 0 at once; `lru` is `MODE_LRU`, or else the queue is LFU. Each
handler is one action, with the entry it adds to the queue or moves in it and the
evictions it makes (`mv` of the first file and a symbolic link in its place while the
disk is over its limit): `create`, `open`, `mknod`, `getattr`, `truncate`, `chmod`, `setxattr`,
`unlink`, `link`, `rename`, `write`, `read`, `ftruncate`, `release`, `mkdir`, `rmdir`,
`renameDir`, and `Remount`, which loses the queue. A handle that `create` gave is for
writing only, since `schfs_create` calls `creat` (`schfs.c:1138`); `pread` fails on it. `HyQueue` is the ring that
`insque` and `remque` keep, with its head, its tail and the freed entries.

Handlers run one at a time, as with `-s` (`schfs.c:15` gives it). The constant
`Careless` names the uses under which the code fails (see below); a run without them
checks that everything else works.

## Runs

| Run | Instance | Shows |
|---|---|---|
| `MCFusionOwners` | 3 nodes, 3 processes, a file in a directory and one in the root, two handlers at once, the client of the first node may be killed and restarted; every file has one writing process, alone on its node, and directories are listed and removed elsewhere | `OwnerHoldsData`, `DropsOnlyCopies`, `CopiesNeverGoBack`, and the refinement of `PrimaryCopy` (`KeepsPrimaryCopies`) |
| `MCFusion` | 3 nodes and 3 processes, of which one changes the name space and lists the root, one on another node reads, lists and may be killed; or all three create, write and read one file, one handler and one writer at a time | `ListedIffRegistered`, `RmdirOnlyEmpty`, and `HandlersReturn` under fairness; `CloseToOpen`, the hand-over of the primary copy |
| `MCZHT` | 2 client processes of one thread, 2 servers with one key each, a cache for one socket, 2 descriptors, one crash with a restart | `CacheIsSockets`; `CallsReturn` under fairness; `IsAtomicMap`: calls are atomic and answers are their own until a server is lost |
| `MCNoVoHT` | 3 keys of which two share a chain, 2 values, a table that grows from one slot to four, 4 records; or a server with two replicas on two hosts, 3 inserts, 2 crashes | `TableIsSound` (pairs in the chain of their hash, file and table alike, no crash leaves two values of a key), `IsMap` (the refinement of `KeyValue` while the table is open); `ReplicasCatchUp`, `NewestArrives` |
| `FFSNet` | 2 calls at once on one file, every pair of the four kinds, uploads of one block, one connection that breaks | `TransfersAreWhole`; `CallsReturn` and `SocketsGo` under fairness |
| `MCUDTTransfer` | up to 2 packets of a stream (`Sends`) whose numbers wrap between them, buffers of 2 and 3, 2 packets on the network, a close at any time; or messages of 1, 1 and 2 packets, the first with a time to live and the second without order, up to the first that is given up | `EndsAgree` (of a stream: what one end keeps covers what the other misses, and a close that returns in time has delivered what was sent), `ReadsAreWhole` (of messages: the same of both ends, and each is read whole, once, and in order if it asks for it), `ReadsInOrder` (the refinement of `Stream`); `AllArrives` under fairness: what was sent is read, also after a close that returned in time |
| `MCUDTSockets` | a listener with a backlog of 1 and 2 peers that repeat their requests; or 2 threads that connect, close and clean up; or the sizes of two sockets with 3 calls of `setOpt` and a small and a large value of each | `OneLive`, `SocketsAreSound`, `SizesAgree`; `QueuedIsAccepted`, `AllCollected`, `CleanupReturns` under fairness |
| `MCUDTData` | each structure on its own: see below | `StructuresAreSound`, `LossesAreSets`, `SendsInOrder`, `DataIsRead`, `AcksAreRemembered`; `WorkersServe`, `WaitsEnd` under fairness |
| `MCHyCache` | 3 files and one handle; 2 files and two handles; 2 files with modes in an LFU queue; the ring of 3 names and 4 entries | `DisksAgree`, `LimitHolds`, `OneDisk` (the refinement of `PlainFiles`), `QueueKeepsOrder` (the ring does what `HyCache` says of the queue) |

Bounds of `FusionFS`: `MaxInFlight` handlers run at once (two, so that any two
steps of two handlers interleave; one where the run is about calls that follow
each other), `MaxNames` names per listing and `MaxClock` writes (two or three: an
old and a new version of a file, and one in between). Every hazard here needs two
handlers and two versions at most.

Of `ZHT`: two hosts and a cache of one evict a socket at every change of server,
and two descriptors are what a connection needs while the old one is still open,
so every number is used again; the code's 1024 behave the same, later. Of
`NoVoHT`: three keys make a chain of two with a pair elsewhere, two resizes, and,
with `MagicNumber` 2, rewrites. Of `ZHTReplicas`: with three inserts a replica
reads none, one or two packages at once and one is on its way while it falls.

Of `FFSNet`: a block is any number of bytes that is sent whole; a file of one
block shows a size read before and after a truncation. Two calls make every pair
of a reader and a writer.

Of `UDTTransfer`: the comparison of numbers needs `SeqNoTH` above twice the
window, so 16 numbers do for a window of 2; the two packets are 15 and 0. Two
packets under way let an old one overtake a new one in each direction, and the
receiver's buffer is smaller than the numbers. `UDTMessages` has one message of each
kind in four packets (`Packets`); its numbers wrap behind the first. The timers count nothing: a timer that may fire does.

Of `UDTListening`: two peers fill the backlog of one and leave one outside; a
request arrives any number of times. Of `UDTConnecting`: two threads make one
start-up that is not the last and one clean-up that is. Of `UDTOptions`: one and the
default or more of each size; three calls suffice to set a limit between two values
that depend on it.

Of `MCUDTData`: the loss lists have windows of 3 and 5 over 8 and 12 numbers, enough
for two ranges with a gap between them that touch, overlap, split and wrap; the
buffers 4 blocks or units, enough for a message of three packets across the end of
the ring and one behind it; the window of acknowledgements 3, which comes round with
numbers that repeat; the pool 2 entries of 3 units; the heap 3 sockets, the smallest
on which a removal from the middle moves another; the receiver's list 3 sockets; a
poll one socket of which 5 threads report.

Of `HyCache`: every file that is not empty is over the limit (`Total` 0), so that
each use of the queue evicts; two files exchange places, and a third is the entry
between head and tail. With three files a file that is created is closed by the next
call; with two handles only the first comes from `create` (`MadeThenClosed`, `OneMade`).

Deadlock is checked in `MCFusionOwners`, `MCFusion`, `MCHyCache` and `MCHyRmdir`. The others may really stop:
both processes have ended (`MCZHT`), a table was closed and its records used up, all
calls have returned, a connection is closed, a bounded counter is at its end. Instead
of it they check, under fairness, that whoever waits goes on.

Fairness is weak unless said otherwise and only on steps the code takes by itself:

* `FusionFS`: the steps of each process's own handler. No such step waits for another
  process, FUSE runs a thread per request, every remote call is answered. Programs are
  under no fairness (nothing makes them call or close), nor are restarts.
* `ZHT`: the steps of a thread, and the server reading a socket: the event loop serves
  every socket with data. Calls return also when a server stays away.
* `ZHTReplicas`: a replica that runs reads what has arrived (the same event loop).
* `FFSNet`: the threads of clients and daemon, and the collecting threads, which come
  round every second; not the breaking of a connection.
* `UDTTransfer`: callers that call again (`send`, `recv`), the worker taking a lost packet
  and the timer. Strong on sending and on the acknowledgement, which wait for room on
  the bounded network only, and on arrivals: a packet that is sent for ever arrives
  (each packet of data by itself, some acknowledgement; nothing is assumed of loss
  reports). Packets do not stay on the network for ever.
* `UDTListening`, `UDTConnecting`: the receiving worker and the collecting thread loop;
  `accept`, `close` and `cleanup` end once nothing holds them up; a connect has a time
  limit. When a caller closes is left open.
* `UDTSchedule`, `UDTRcvQueue`, `UDTUnitQueue`, `UDTEPoll`: the worker loops, time passes,
  a signal that was begun is sent, a reader that took a unit gives it back, a wait comes
  round. Strong on time passing for the list of sockets, since packets may keep one young
  for a while and not for ever.

Three runs expect a violation; each checks what the repository says of itself:

| Run | Claim | What happens |
|---|---|---|
| `MCNoVoHTReopen` | `zht/src/common/zht_util.cpp:23`: a persistent hash table | of two pairs one is there after closing and opening |
| `MCHyRmdir` | `src/hycache/schfs.c:193`: the directory trees are kept in step | `rmdir` of a directory that has files fails on the SSD, succeeds on the HDD and returns 0 |
| `MCUDTMessages` | `udt/doc/doc/t-msg.htm:30`: a message with an infinite time to live will always be delivered | the drop request for the message before it names one number too many; the receiver counts that packet as received |

## Proofs

`FusionFSProofs` proves, for every set of nodes, processes, files, directories,
calls and bounds that satisfies the assumptions of `FusionFS`:

* `TypeCorrect`: `Spec => []TypeOK`. `TypeOK` is not inductive: that `Register`
  writes an address under a file, and `AppendPut` a listing under a folder,
  depends on which system call can be at which step. `TypeInv` adds that
  (`Serving`, `OpsAt`), and the proof has one case per action.
* `ListingsAgree`: `OneWriter(w)` gives `Spec => []ListedIffRegistered`, and
* `RemovesEmpty`: `OneWriter(w)` gives `Spec => []RmdirOnlyEmpty`.

`OneWriter(w)` is about what programs do and where: one process makes and removes
files and directories, alone on a node whose client is not killed, and lists only
the root; every other process stats, reads, truncates and lists on other nodes, whose
clients may be killed. `ASSUME WriterAssumption` makes TLC evaluate it on the
instance of `MCFusion`. Both properties are false with two writers (two updates
of one listing lose a name) and when the writer's client dies inside a call. They are false,
too, when the writer lists a directory that is empty: `fusion_readdir` then removes the
physical directory, the `mkdir` that the kernel lets through puts the name into the
root's listing a second time, `rmdir` takes one of the two away together with the
listing, and the next `ls /` brings the directory back without one. The first name that
is added to the listing of that directory has no blank before it and stays when its
file is unlinked.

Neither property is inductive. A name is listed because a handler read the listing two
steps ago and nobody has written it since; `rmdir` goes on because the listing was
empty once. `WriterInv` says more of what agrees: between two calls a file is
registered, listed and on the writer's node, or none of the three (`Settled`); a
directory is on the node, in the root's listing and has a listing, or none
(`Placed`); no name is listed twice (`NoTwins`), or a removal would leave one. During a
call the path it is about is the exception, and `MakesFile`, `RemovesFile`, `MakesDir`
and `RemovesDir` say how far it has come. `ReaderStep` shows that a step of another
process leaves all of it alone (`Undisturbed`), and one lemma for each action that a
step of the writer keeps it (`Own`). They rest on lemmas about the listings as sets of
names, `NamesAppended` and `NamesWithout`.

* `OpensGetLatest`: `Sharing` gives `Spec /\ []OneAtATime => [][OpensLatest]_vars`, and
* `OneByOneGetsLatest`: `Sharing` and `MaxInFlight = 1` give `Spec => [][OpensLatest]_vars`.

`Sharing` is what programs that hand files to each other keep to: a node for each of
them, no crash, one writer of a file at a time, and no truncation by path, removal or
listing. `OneAtATime` keeps two handlers from working on one path at once; on different
files they interleave freely, and programs write to what they have open at any time. The run
`MCFusion` checks the second theorem's instance under the name `CloseToOpen`, and
`ASSUME SharingAssumption` makes TLC evaluate `Sharing` on it. Each part of the discipline is needed:
a second open for writing registers what the first does not have; a reader on the
writer's node drops the writer's copy; an unlink leaves copies behind that nothing
replaces once no address is registered; a truncation by path changes a copy that nobody
registers; and a file that is written, closed and registered between the fetch and the open of one
handler is opened as it was.

An open gets what was fetched two steps before, so the property is not inductive.
`Versions` says where the latest contents of a file are: with the one process that has
it open for writing or has not registered it yet (`Writes`, `WriterHasLatest`), and no
other node is ahead of the address that ZHT has (`RegisteredIsLatest`). `Opening` says
what a handler relies on: the address it looked up is still the one registered, and
after the fetch its node has the latest contents unless somebody writes. One lemma for each action
shows both for the file the step is about, and `UntouchedShared` for every other file.

The last part of the module is about `FusionFSOwners`, which adds the assumptions of single ownership, on the calls
that programs make and not on what the code does: `OwnerType`, `OwnerChanges`
(only the owner changes a file), `OwnerAlone` (nobody else uses it on the owner's
node), `OwnerUndisturbed` (nobody lists or removes directories there) and
`OwnerCloses` (it does not unlink a file it has open). Any number of other
processes on other nodes may do the rest, and clients may be killed and
restarted. It proves

* `AddressesAreGood`: `Spec => []OwnerHoldsData`;
* `OnlyCopiesAreDropped`: `Spec => []DropsOnlyCopies`;
* `Implements`: `Spec => KeepsPrimaryCopies`, the refinement of `PrimaryCopy`;
* `ContentsNeverGoBack`: `Spec => CopiesNeverGoBack`.

`OwnerHoldsData` is not inductive: a handler looks an address up and acts on it
several steps later. `OwnerInv` says for each process what it relies on at the
steps that register, drop or remove (`ProcInv`), and for each file that ZHT names
the owner's node or none (`AddrIsBase`). The argument is rely/guarantee: a step
of a process keeps its own `ProcInv` and gives the others `Guarantee`, which says
that addresses, primary copies and their folders change only by their owner;
`OthersKeep` shows that `Guarantee` is all the other processes need. For the two
results about contents, `FetchesFromBase` (a transfer under way comes from the
owner's node) shows that every copy made is of the primary, and `BaseIsLatest`
that no copy is newer than it.

`MCFusionOwners` checks the same five properties, with the assumptions evaluated
by TLC on its instance.

`ZHTProofs` is about `ZHT` where the threads of a process call one at a time
(`~SharedSockets`; with shared sockets both results are false). For any number of
processes, threads, servers and keys, any sizes of the cache and of the descriptor
table, and any number of crashes it proves

* `CachesAreSockets`: `Spec => []CacheIsSockets`;
* `ZHTIsAtomicMap`: `Spec => IsAtomicMap`, the refinement of `AtomicMap`, if a client
  does not run out of descriptors (`EnoughFds`: the cache is smaller than the table, or
  there is a descriptor for every server). Without that a call is made without a socket
  although every server runs, and what insert and remove then return is made up.

`CacheIsSockets` is not inductive: that the cache and the descriptors agree depends on
which thread is about to put a socket into the cache, and that a thread gets its own
answer depends on what is on every socket. `Inv` says that at most one thread of a
process is in a call (`Alone`), that every socket is quiet but the one this thread waits
on (`SocketOK`), that there is on it the thread's request, the answer to it, or after a
crash nothing (`Waits` in `ThreadOK`), that a server has one entry at most in a cache
(`CacheOK`), and that nothing is lost without a crash (`DownIsFault`). `Local` reduces
each step to the thread that makes it and its process. The two proofs share a small set
of reduced steps (`SendsOn`, `SendsInVain`, `TakesAnswer`, `GoesWithout`, `Fails`,
`Served`): lemmas show that each action of `ZHT` is one of them under `Inv`, and then
that each of them keeps `Inv` and maps to a step of `AtomicMap` or a stutter. The call
takes effect in `Serve`. `NoneMissing` (a call is without a socket only after a crash)
counts descriptors against the entries of the cache with the pigeonhole theorem.
The search in the cache (`SelectInSeq`) takes the least of a set of positions, which is
there because the order of the natural numbers is well founded (`HasMin`).

`NoVoHTProofs` is about `NoVoHT`, for every hash function, size of the table, load at
which it is resized, number of removals before it is compacted, set of keys and values
and length of the file, with a file and without. It proves

* `NoVoHTIsSound`: `Spec => []TableIsSound`;
* `NoVoHTIsMap`: `Spec => IsMap`, the refinement of `KeyValue` while the table is open.

`TableIsSound` is nearly inductive. `IInv` adds the mark in the buffer, which must be on a
record that is there; that a table without a file has none; and, what matters, that the
file with its buffer holds one live record of a key at most (`Fresh`), where
`OneLiveValue` allows equal ones. Any beginning of the records in the buffer may be
what a crash leaves, with the mark or without it: `CrashIs` shows that none of them
holds two values of a key, because `put` writes out the mark before the new record. After
a crash while the table is opened only `OneLiveValue` is left (`ClosedInv`), and that
is enough for the next opening, which reads one record.
The proof has two halves. The first reasons about chains once: with `Chained` (a pair
is in the chain of its hash, which has no other of that key), replacing, joining and
dropping a pair (`Replaced`, `Joined`, `Dropped`) and resizing (`ResizedIs`) are what
they are for the set of pairs (`PairsIn`), wherever the pair was. `FlattenSeq`, which puts
the chains one behind another, and `Resized` are recursive functions. That they exist and
what they return (`FlatIndex`, `ResizedIs`) is proved by induction on a set of numbers
(`Induct`), from the least number outside it. The second half is about the file: `Match`
says that the live records are the pairs, each at the place its pair knows, and
`MatchMarked`, `MatchAdded` and `MatchMoved` that marking, appending and rewriting keep
it so. The count of `TableIsSound` is then a bijection, from the pairs by their
positions to the live records (`CountLive`).

`FFSNetProofs` proves `TransferIsWhole`: `Spec => []TransfersAreWhole`, for any number
of calls and connections that break and any size of the files; `CallsAssumption` only
keeps names apart. The property speaks of transfers that have ended; what makes it true
is on the way before. `Download` and `Upload` say for each call that the elements on the
way follow, in the stream of the transfer, what the receiver has taken, and, while the
connection stands, end where the sender is (`Taken + Len(down) = 1 + sent`; `Read`
and `Made` for an upload). A connection that breaks leaves a beginning of them: the
second half is lost, the first half still holds, and it matters that nothing is sent
after it. `stale` is what the other threads can do to the file: whoever writes it marks
all who have it open (`TouchedIs`), so a thread that is not marked finds it as it left
it; `Only` is the frame of a step, and `Local` reduces each of the 20 actions to the call
that makes it. `Counts` says that `m_iInstanceCount` is no less than the number of calls
that have the library in use. Returns that skip the cleanup only raise it, so `cleanup` by
one call cannot stop the library under another.

`UDTSocketsProofs` is about a process that listens (`UDTListening`), for any number of
sockets and peers, any backlog and any connections that break, and about one that
connects (`UDTConnecting`), for any finite number of threads. It proves

* `ListeningInvariant`: `Spec => []Inv`, the inductive invariant of the first, and
  `OneConnection`: `Spec => []OneLive`;
* `InstancesCounted`: `C!Spec => []ConnInv`, that of the second, and `StopsCleanly`:
  `C!Spec => [](C!TypeOK /\ C!FinalAlone /\ C!OffMeansGone)`: the collecting thread closes
  sockets only when no thread has the library in use, and has left none when it has ended;
* `ProcessesAreSound`: `SocketsSpec => []SocketsAreSound`, both beside each other, as
  `MCUDTSockets` has them;
* `SizesOfTheRunAgree`: `SocketsSpec => []SizesAgree`.

`OneLive` is not inductive: nothing in it keeps the worker from connecting a peer a second
time, since the look at `m_PeerRec` and the new socket are steps apart. `Inv` orders the
sockets of a peer by their numbers, which count down: only the newest may work
(`Newest`), and while the worker is between the look and the new socket none does
(`Admits`). The look is enough because it finds the newest of the peer's sockets, which
is the least of a set of numbers (`MinIs`), and because what it finds broken or closed
never works again (`Lives`). `Waits` and `Comes` follow a socket from `newConnection`
through the queue to the caller: it is open and in one place at a time, so `accept`
neither hands a socket out twice nor takes one that was collected. That the
multiplexer counts its sockets (`MuxCounts`) is one cardinality (`Bound`), which a step
changes by one (`OneMore`, `OneLess`) or not at all.

`ConnInv` adds to the properties of a process that connects that `m_iInstanceCount` is the
number of threads that are between startup and cleanup (`CountIsRight`), that there are
none while the collecting thread is anything but on (`StoppedAlone`), that a socket
within `close` belongs to a thread that is there (`LeavingActs`, or the second half of a
close could put a socket back after the last one was collected), and what is closed by
the time the collecting thread drains (`Emptied`). The step that matters is `cleanup`: the
count is zero only when the set of threads is empty (`OneLessThread`, from the theorems
on cardinality).

`UDTOptions` proves `SizesAlwaysAgree`: `Init /\ [][Next]_optVars => []SizesAgree`, for
any values callers give to the options and any number of calls, where `Called` says that
they are numbers and that `UDT_FC` does not go below the buffer it limits (the code lets
it, see below). `SizesAgree` speaks of two ends that are both connected. Before that,
`Inv` says that no size passes its limits (`Limits`), whichever was set last
(`StoredKeeps`), that the units of a queue hold what the socket that opened it may be
sent (`Units`: a handshake lowers the packet size and never raises it), and that each
handshake under way grants the buffer of the connection it comes from, or more
(`ChildOK`: a repeated one grants `UDT_FC`), so that the loss list made from it covers
whatever is acknowledged later (`Granted`).

`UDTTransferProofs` is about a stream (`UDTTransfer`) and a connection of messages
(`UDTMessages`), for any number of packets, any sizes of the buffers and of the
network, wherever the numbers begin and however they wrap. It proves

* `EndsAlwaysAgree`: `Spec => [](WindowsAgree /\ CloseDelivers)`;
* `ImplementsStream`: `Spec => IsStream`, the refinement of `Stream`;
* `MessagesAreReadWhole`: `MessagesSpec => []ReadsAreWhole`;
* `EndsOfTheRunAgree`, `RunReadsInOrder` and `MessagesOfTheRunAreWhole`: `PartsSpec =>
  []EndsAgree`, `PartsSpec => ReadsInOrder` and `PartsSpec => []ReadsAreWhole`, the same
  of the connections of the run.

The one assumption on the constants that is more than their types is that the stream has
`m_iSeqNoTH` - 2 packets at most (2^30 - 3 in the code): the network of the model may keep
a packet for ever, and one that is still under way when its number comes round is taken
for another. The code makes the same assumption of the time a packet
lives, which the model does not have.

None of this is inductive. The invariant speaks of places in the stream instead of
numbers: `Number(k)` is the number of place k, and `Apart` says that `seqcmp` and `seqoff`
of two numbers are the order and the distance of their places, across the wrap, so that
everything below is about integers. The acknowledgements of the two ends, the
newest packet and the front of the buffer are places (`LastAck`, `Acked`, `Heard`,
`Newest`, `Base`), in the order `Base <= Acked <= Newest + 1 <= next` and
`first <= Acked`. `Present(k)` says that everything before k has arrived. It is what an
acknowledgement means, full or light, and it stays true; so does all that a packet
under way says (`Honest`), since both ends only go forward (`Forward`,
`StaysHonest`). An old packet that comes late is therefore as good as a new one: there
is no step of the proof for the order in which packets arrive. `SenderOK` and
`ReceiverOK` say that what is in the loss list of the sender is still in its buffer,
which the offset of a lost packet needs (`m_iSndLastDataAck` and not `m_iSndLastAck`,
which a light acknowledgement moves), and that from the front to the newest number a packet is
in the receiver's buffer or in its loss list, never both. The step that matters is
`ProcessData`: whether it closes a gap, opens one or extends the stream, the losses
afterwards are those before and the places it jumped over, without its own (`DataCore`).
That the least number missing is before all others (`MissingIs`) rests on the order of
places being well founded (`EarliestIs`).

All this (`Core`) says nothing of who reads, and a connection of messages has it too
until one is given up: up to then its steps are those of the stream, but for `sendmsg` and
`recvmsg` (`MsgSteps`). A stream adds `StreamOK`, that what was read is all before the
front of the buffer. For messages this is false, since those that ask for no order are read ahead
and marked (`passed`). `PassedOK` says that exactly what was read is in front of the
buffer or marked behind its front, and `InboxOK` what the theorem is about: whole messages,
none twice, and every one that asks for order after all before it. `recvmsgKeeps` is the
step. `BehindFront` shows why it may throw away the packets in front of the first message
that can be read (`Front`): all that is acknowledged is there (`Core`), so a packet there
that is neither the first of a whole message nor the rest of one was marked. `FoundIs`
shows that what `scanMsg` finds is one message from its first packet to its last, although
it looks at no more than the ends of messages, and was not read; `FirstFound` that one
which ends before the acknowledgement begins at `Front`, so that everything before it was read.
That a message has two packets at most is used there (`MessageIs`); of the order of messages
only that their numbers grow.

The module also has `ComparesInWindow`: in any window of `m_iSeqNoTH` numbers, wherever
it begins and however it wraps, `seqcmp` is the order in which the numbers are given out
and `seqoff` and `seqlen` are their distance. It holds for every `MaxSeqNo` and
`SeqNoTH` that `SeqNoAssumption` allows, the code's 2^31 - 1 and 2^30 - 1 among them,
where the runs have numbers that wrap after a few packets. It is arithmetic: by
`SeqNoAssumption` two numbers less than a window apart differ by less than
`m_iSeqNoTH`, or, if one of them has wrapped, by at least as much.

Then the module proves of the send buffer, which `UDTTransfer` has as the numbers of
packets added and sent, that a ring of blocks which grows is as good (`UDTSndBuffer`, for
any sizes, messages and numbers that `Bounds` allows, as `SndBufferAssumption` in
`MCUDTData` has TLC evaluate them):

* `SendBufferIsSound`: `SB!Spec => [](SB!CountsPackets /\ SB!RingIsWhole)`;
* `SendBufferIsQueue`: `SB!Spec => [][SB!KeepsQueue]_SB!vars`, each call by that of
  `SendQueue`.

`Bounds` says that messages are shorter than two growths of the ring, which is as far as
the model of `addBuffer` goes, and that there are more numbers than blocks, without which
two messages in the ring could have one number. `BufferInv` has a witness for the ring, as
`HyCacheProofs` has for its queue: an order `o` in which the links go round (`IsRing`), begun
anew at whatever mark the proof looks from (`Turned`). `Marked` says how many blocks of
it are read and how many filled, and that one is free. Only a number tells where a message
ends (`SameMsg` goes on while it is the same, past the packets added, into blocks used
long ago): so the invariant says of every block how many messages ago its number was
given out (`Aged`, `Before`), that what is filled ascends to the next number, and that
no age is as great as the number of numbers. The step that adds is `addBuffer` in a ring it
has just made larger, behind the last mark (`Larger`, `Widened`, `FilledWith`); the
one that reads a packet again, or finds it expired, is where ages tell its message from
what is before and behind it (`MessageEnds`).

Of the windows (`UDTWindow`, for arrays of any size and any intervals, as `Sizes` asks:
at least one acknowledgement, and three arrivals, since the median leaves one out) it proves

* `WindowIsLog`: `W!Spec => [][W!KeepsLog]_W!vars`;
* `SpeedOfArrivals`: `W!Spec => []W!SpeedIsSound`;

and of the polls (`UDTEPoll`, any sockets and numbers of polls)

* `EventsAreWatched`: `E!Spec => []E!ReportedIsWatched`.

That the two arrays are a log needs no more than that head and tail are places of them
(`AckInv`): `Log` is what is between them, going round (`Round`), and `store` makes it
longer (`LogGrows`) and `acknowledge` shorter (`LogShortens`) whatever it holds. The speed
takes more. That there is a median at all is that in the order of the intervals, and of
their places if they are equal, every rank is taken (`RankIsTaken`, from the pigeonhole
principle). A regular interval is above an eighth of the median, hence not 0; their sum,
which `Sums` follows place by place, is at least that many times the least of them and at
most that many times the greatest (`SumsBound`), and the
mean is between the two (`MeanIsBetween`).

Of the thread that receives (`UDTRcvQueue`, any number of sockets, as `Given` asks only
that they are finitely many) it proves

* `ReceivingListIsSound`: `R!Spec => [](R!ListIsWhole /\ R!OldestFirst /\
  R!FreedIsForgotten /\ R!OneStray)`.

`RcvInv` has three parts. `NodesOK` is about the links alone: `IsList` has a witness `c`, as
the send buffer has its order, whose sockets the links lead through, forwards and
backwards (`Linked`), those that are old before those that are not (`ByAge`). A node that
is inserted joins at the end (`LastJoins`), one that is removed leaves wherever it is
(`OneLeaves`), and `update` is to leave and to join (`OneMoves`). That the walk from the
first node, which `Order` counts, returns `c` and stops is proved last (`OrderIs`): `c` has
no socket twice, so it is no longer than there are sockets. `PlacesOK` ties the list to
what sockets know: `m_bOnList` is true of just those on the list or among the new entries,
never both, and only once they have connected and before they are freed; so the worker
inserts none twice, and what is freed has left. `StoresOK` is about the packet the worker
still has to store when the socket it looked up leaves: none waits for that socket then,
and it is looked up no more.

Of the thread that sends (`UDTSchedule`, any sockets, any bound of the time between two
packets) it proves

* `HeapPlacesAgree`: `S!Spec => []S!PlacesAgree`.

`Agree(x, G)` says that of the heap `x` while it is worked on: the sockets of `G` have left
it and do not know yet. A swap keeps it (`SwapAgrees`), so a step up or down does
(`RaisedAgrees`, `LoweredAgrees`, which has to show that the two below a place have a
least), and any number of them (`StepsKeep`). In `remove_` the socket that goes is in `G`
while the last one, in its gap, moves down. That the socket on top is due first is neither
checked nor claimed: the code breaks it (see below).

`HyCacheProofs` is about the whole run of `MCHyCache`, for any files, identities,
handles, limit and modes, in all its parts. It proves

* `PlacesAgree`: `Tame => (HySpec => []DisksAgree)`, and `LimitIsKept`: `Tame => (HySpec
  => LimitHolds)`;
* `IsOneDisk`: `Careful => (HySpec => OneDisk)`, the refinement of `PlainFiles`, step by
  step;
* `RingIsQueue`: `Tame => (HySpec => QueueKeepsOrder)`, that of the queue by the ring.

`Tame` is that no file is renamed over another and no filled directory removed;
`Careful` that besides no file is open while others push it out, no mode of a file
renamed on the HDD is changed, and no file is read through the handle that created it:
the uses under which the code fails (see below), which
`Careless` names. Both ask something of the applications and nothing of the sizes. What
the first three say of `HySpec`, whose parts have bounds for TLC (one handle, two names),
they say of `Spec` too, which has them not. `LimitIsKept` says nothing of this version of
the code, where `limited` is FALSE.

`HyInv` is the inductive invariant of the disks. `Agrees` says that what is on the HDD
has its link (`Placed`), that the queue names each file once and only files of the SSD,
and that a file known since the mount is in it; `Idle` that an identity nobody refers to
is empty, so that a new file is; `Rooted` that a file has its directory, without which
`mkdir` and `rmdir` would part the trees. The step that matters is making room. `After`
is a recursive function, the disks after so many evictions, and `Rounds` the number at
which the loop ends. `Movable` and `Out` say what the disks are then: the files out are
the first of the queue, in their new place, and the others are where they were (by
induction on the number, `Induct`). The loop ends
within the limit or with an empty queue; for the limit it is left to count what the
handler adds to the files that take room (`Big`): `create` nothing, `open` one.
That users see one disk is that an eviction changes neither
`Tree` nor what a handle leads to.

The ring needs a witness: `IsRing(r, c)` says that the links of `r` are those of the
sequence `c`, forwards and backwards, with its head and its tail, and `Whole` that there
is such a sequence, of just the entries that `malloc` gave. `Contents` walks the links with
a recursive function; that it returns the sequence is proved by induction on a set of
numbers (`Induct`). `insque` and `remque` are then `InsertAt` and `RemoveAt` of `c`, at
every place, the head and the tail among them (`IsPut`, `Shortened`), and what is left is
about sequences: the walk of `get_pos_lfu` ends where the first entry with a higher
count is, because the counts ascend (`Ordered`).

Everything else is only model-checked: all that is said about `ZHTReplicas` and the data
structures of UDT but those five, and about messages after one was given up. Liveness
(that calls return, of ZHT and of `FFSNet`, that sockets which connect go away) is out
of the prover's reach, and so is what a RECURSIVE operator computes for every input (the
set that a loss list stands for).

## Outside the assumptions

These uses were met while modelling. The checked properties exclude them by a
constant or an assumption, and fail without it; the rest is left out with its reason.

FusionFS:

* `fusionfs.c:206`: a client that mounts late has an empty root, and the next `ls /` may
  delete primary copies (`LateJoin`). A physical directory that two clients share loses
  its primary at the release of a reader (`fusionfs.c:869`).
* `fusionfs.c:1064`: `readdir` of an empty directory runs `rm -r path*`, which takes the
  siblings with the same prefix (`Prefix`).
* `fusionfs.c:845`: release of a file that another node unlinked registers it again,
  because the branch on `ZHT_LOOKUP_FAIL` is dead (`UnlinkOpenFiles`); copies fetched
  earlier outlive the file (`fusionfs.c:208`).
* `fusionfs.c:835`: a writer on the node of a reader that registers while the reader
  releases loses the primary copy, and a reader's fetch replaces what another program of
  its node writes (`fusionfs.c:263`; `OwnerAlone`).
* `fusionfs.c:411`: a file created in a directory while another process removes it loses
  its folder (`OneWriter`).
* `fusionfs.c:121`: two writers of one listing lose an update (`OneWriter`); a listing built from a
  missing key has no leading blank and its first name cannot be removed; a listing is
  at most `ZHT_MAX_BUFF` characters and is copied unchecked (`fusionfs.c:140`).

ZHT:

* Threads of one process share the socket of a server and may read each other's answers
  (`SharedSockets`). The socket of a server that was lost stays in the cache
  (`cpp_zhtclient.cpp:176`), and a failed connect leaks its descriptor.
* `lru_cache.h:125`: `clear` leaves the current size; nobody calls it.
* `novoht.cpp:99`: `map_lock` is tested and set in two steps, and `get` and `remove` do
  not take it; the server has one thread.
* `server_general.cpp:601`: one buffer holds the status of a call and its text.
* With replicas: removals are never replicated, a server whose replica died ends by
  SIGPIPE where that is not ignored, a connection that was lost is not made again, and
  with one host, or three replicas, the third socket is 0, the standard input.

Transfers: an upload that failed half-way returns success (`ffsnet.cpp:307`); a removal
whose answer is lost reads as success (`ffsnetd.cpp:278`).

UDT:

* `api.cpp:717`: `accept` looks the peer's address up again and follows a null pointer if
  the connection was closed or collected meanwhile (`Crashed`, from which nothing follows).
* `core.cpp:681`: a connect that a shutdown or keep-alive overtook succeeds without a
  connection. `core.cpp:732`: a socket that was rejected counts as connected.
* `core.cpp:2478`: the second cookie is computed from a stream that still holds the
  first, so a request that crosses the minute is never accepted.
* `api.cpp:1308`: deleting a multiplexer joins its worker while the manager's lock is
  held, which the worker needs to admit a connection. `UDTListening` deletes a listener
  only when the worker is not within `newConnection`, since it is deleted a second
  after it was closed at the earliest.
* `core.cpp:294`: `UDT_FC` set below the receiver's buffer afterwards leaves a window the
  lists are too small for (`Lowered`).
* `core.cpp:2287`: after a message was given up (`MCUDTMessages`). `buffer.cpp:494`: the
  receiver compares the number of a message with its flags, so what it has of a message
  that was given up is never taken out.
* `list.cpp:640`: removing a range across the wrap leaves the last number
  (`DropAcross`). `buffer.cpp:203`: a file that ends early is counted as what was asked
  for. `buffer.cpp:646`: a message larger than the buffer is returned in part, as its
  comment says. `window.cpp:228`: with a median of zero the estimate of the bandwidth
  divides by zero.
* `queue.cpp:413`: a removal from the middle of the heap moves the last socket down and
  never up, so a socket may be sent late; `PlacesAgree` holds, the order of times does not.
* `core.cpp:1202`: a reader that empties the buffer clears the event of a packet that came
  in between; `core.cpp:2238`: the error of a peer wakes nobody who waits.

HyCache (`Careless`): a file pushed out while it is open loses what is written to its
handle afterwards (`schfs.c:661`); a rename over another file that has an entry, or is
on the other disk, leaves that entry or that file behind; `rmdir` of a directory with
files (`MCHyRmdir`); `chmod` of a file that was renamed on the HDD also follows its
link, which still leads to the old name. A program that creates a file for reading and
writing cannot read it through that handle: `creat` (`schfs.c:1138`) gives one for writing
only, `pread` (`schfs.c:637`) fails with `EBADF`, and `read` returns that; with
`readCreated` in `Careless` `OneDisk` is violated by these two calls. Without `-s` several FUSE threads change the
queue without a lock (`util.c:322`).

## Not modelled

* `FusionFS`: handlers that are one local system call and change neither metadata nor
  contents (read, chmod, chown, utime, statfs, flush, fsync, extended attributes, access,
  fgetattr), and symlink, link, rename and mknod, which its README lists as not working.
* ZHT: UDP, `str2Sock` and `tearDownTCP` (called by nobody), reading the configuration,
  requests that TCP delivers in pieces, the operation that shuts a server down, `clear`,
  `touch`, `remove` and `exists` of the cache (called by nobody); the utilities for
  hashing and reading member lists, of which the hash is the constant `HostOf`.
* UDT: congestion control and its rate (numbers that only delay), statistics, rendezvous
  connections, `select`, the cache of peers, system sockets in polls, receive time limits,
  options no size depends on, MD5, Windows.
* HyCache: threads, symbolic links of users, special files, the log.
* Code that a protocol buffer compiler generated, earlier copies of the transfer code that
  are built into nothing, logging and parameters, tests and benchmarks (of which
  `test_basic.sh` gives the calls of the second part of `MCFusion`).
