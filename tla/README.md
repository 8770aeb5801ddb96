# Verification of linux-base

TLA+ specifications of the programs of this repository, the TLC configurations
that check them on small instances, and TLAPS proofs of the main results.

The repository is a collection of small C, C++ and JavaScript programs about
Linux system calls. Two of them are libraries with shared state and threads (the
MySQL connection pool and the thread pool), two talk to each other over TCP (the
epoll server and the connection generator), and the rest stand alone. There is no
documentation apart from comments and messages.

## The system

| Component | Source | State | Operations | Modelled in |
|---|---|---|---|---|
| MySQL connection pool | `mysql-connection-poll/` | FIFO of idle connections, connection count, last error, one mutex, one condition variable, a time stamp per connection | `run`, `getConnection`, the `shared_ptr` deleter, producer thread, scanner thread | `ConnectionPool` (destructor left out) |
| Pool demo client | `test-connection-poll.cpp` | the raw `MYSQL *` of the last connection, a loop counter | set up, insert in a loop, exit | `PoolDemo`, on top of `ConnectionPool` |
| Thread pool | `thread-poll.c` | LIFO list of tasks, terminate flag, mutex, condition variable | `createThreadPoll`, `pushTaskThreadPool`, `destroyThreadPool`, worker loop | `ThreadPool` |
| Compare-and-swap counter | `lock.c` | one shared int | read, compare, store, in two threads (the model has three) | `LockCounter` |
| Address book | `address-book.c` | sorted doubly linked list, a size, a file, the menu loop's variable | insert, print, delete, search, save, load, leave | `AddressBook` |
| epoll server | `tcp-server.c` | listening sockets, accepted sockets, a batch of events, a message buffer | set-up, `epoll_wait`, accept, read until `EAGAIN`, close | `TcpServer` |
| Connection generator | `tcp-connect.c` | count of connections, socket of the round, a batch of events | connect, `epoll_wait`, send, recv, close | `EpollClient`; with the server: `TcpSystem` |
| HTTP client | `http-connect.c` | one socket, one timeout, a growing answer, a file | resolve, connect, `select`/`recv` loop, save | `HttpClient` |
| DNS client | `dns.c` | one query, one answer, a list of records | encode, send, receive, parse, free | `DnsClient` |
| MySQL image store | `mysql.c` | a table, a statement's result, a buffer, a file | insert, select, fetch by column, save | `ImageStore` (`selectUserTable` left out) |
| Bloom filter | `bloom-filter/` | a byte array | `set`, `test` | `BloomFilter` (`BitSet`'s uncalled members left out) |
| Node.js demos, schema, build files | | none of their own | | not modelled |

How they interact: callers of the pool share `ConnectionPoolPrivate` with the
pool's two detached threads, under `mutex`, and are woken through `cond`; a
connection comes back through the deleter of the last `shared_ptr`, in whatever
thread drops it. The thread pool's owner shares the task list with the workers;
only `destroyThreadPool` touches it without the mutex. Server and generator share
nothing but TCP connections. The demo is a client of the pool. The other programs
stand alone; they talk to servers and files that are not part of the repository.

What is hard here: wake-ups (which notification is missing, and does anybody
depend on it), tests whose result must still hold after a slow call under the
mutex, timeouts that race a late answer, writes without the mutex,
edge-triggered events, batches of events that were true when they were
collected, counters kept beside the thing they count, answers that arrive in
pieces or not at all, byte formats that several pieces of code must agree on, and
a process that is killed while it rewrites its file. `PROJECT.json` lists these hazards one by one,
each at its line, with the properties that cover it.

## Modules

| Module | Role |
|---|---|
| `LendingPool` | what a connection pool promises: borrow, restore, grow, shrink, refuse only when nothing is available |
| `ConnectionPool` | the pool's code; implements `LendingPool` |
| `MCConnectionPool` | symmetry for TLC |
| `ConnectionPoolProofs` | theorems about `ConnectionPool` for all constants |
| `PoolDemo` | the demo program as the pool's one client; extends `ConnectionPool` |
| `PoolDemoProofs` | its theorem |
| `SequenceElements` | lemmas about natural numbers and about sequences without repetitions, cited by the proof modules |
| `TaskBag` | what a thread pool promises: each task once, or discarded after shutdown |
| `ThreadPool` | the thread pool's code; implements `TaskBag` |
| `ThreadPoolProofs` | theorems about `ThreadPool` for all constants |
| `LockCounter` | the counter of `lock.c` |
| `Book` | what an address book promises: a bag of names and a saved bag |
| `AddressBook`, `MCAddressBook` | list, file and menu; implements `Book` |
| `AddressBookProofs` | theorems about `AddressBook` for all constants |
| `TcpServer` | the epoll server, the kernel's sockets and the peers |
| `EpollClient` | the connection generator, its sockets and their peers |
| `TcpSystem` | both of them, each in place of the other's peers |
| `TcpServerProofs`, `TcpSystemProofs` | theorems about the server and the composition |
| `HttpClient`, `DnsClient`, `ImageStore`, `BloomFilter` | one small program each |
| `Programs`, `MCPrograms` | the programs that stand alone, side by side, with their constants; an instance for TLC |
| `ProgramsProofs` | theorems about counter, generator, HTTP client, DNS client, image store and Bloom filter |

Operators whose comment starts with "Mutation" are not part of a specification:
each is a wrong version of the definition that follows it, kept to show that a
property notices the mistake (`PROJECT.json`, "mutants").

### ConnectionPool

`queue`, `count` and `error` are the fields of the same meaning; `held[c]` are the
connections a client still has a `shared_ptr` to; `idle[k]` is the time since
`refreshAliveTime`; `usable[k]` is what `connect` returned; `client`, `producer`
and `scanner` are program counters, and `mutex` is the owner of the lock.

A stretch of code that runs under the mutex and does not wait is one step,
because nobody else can see its intermediate states. Three things break that up:
`cond.wait`/`wait_for`, which gives the mutex up (`Wait`, `Timeout`, `Expire`,
`ProducerWait`); `mysql_real_connect`, during which time passes although the
mutex is held (`ProducerConnect`, `ProducerCreate`); and the scanner's loop, which
deletes one connection per step so that clock ticks can fall between two tests.
`Tick` is the processor-time clock behind `clock()`. It is unrelated to
wall-clock time, so a timeout or the end of a sleep may come at any moment.
`Fill` runs before any other thread exists and takes no lock, as in `run`.
`ScannerEmptyFront` is `front()` of an empty queue, which is undefined: either a
stale slot is read that looks fresh, or `undefined` is set and the behaviour ends.

Not modelled: the destructor (static destruction while the detached threads run),
a second `run`, and torn reads of `error` in `lastError`.

### PoolDemo

`main` and `mysqlInsert` of `test-connection-poll.cpp` are the one client. Its steps
are the pool's actions with a program counter `at` beside them: the setters are
the constants, `Prepare` is `run`, and each iteration asks (`Ask`, `Await`, `Get`),
gives the connection back at the end of the block that holds the `shared_ptr`
(`Drop`), and then runs the query on the raw pointer `db` (`Query`). The demo faults
if `getConnection` answers nullptr (`Refused`). `Exit` is the start of the static
pool's destruction; what happens from there on is undefined and not modelled.

### ThreadPool

The owner is the one thread that has the pool's address. Its writes of `terminate`
(136) and `task` (142) are not under the mutex, so every read of the two by a
worker is a step of its own: `TestTask`, `CheckTerminate`, `Recheck`, `PopTask`;
`Wait` comes after the test, so that the flag may be raised in between.
`tasks` is the list from its head; `prev` and `next` are what `INSERT_LIST` and
`DELETE_LIST` at the head need and carry nothing else. A failing
`pthread_create` frees the pool under the workers that run; the next thing they do
is undefined, and the behaviour ends there. Each task is pushed once at most.

### LockCounter

`compare_and_swap` is an ordinary C function: `Compare` and `Store` are two steps.
The counter starts at 0, the threads are `Threads` and the rounds `Rounds`. `main` does
not join its threads: after ten seconds it returns (`MainReturns`, at any moment, since
time is not modelled), and threads that are still in their loops end with it.

### AddressBook

The heap is explicit: `prev`, `next`, `name`, and the set of nodes not freed. `Fresh`
says what malloc may leave in a link: zero, or `Raw`, a value that was never assigned;
following it sets `wild` and ends the behaviour. The two links of a node are
independent (`Leftovers`): with garbage in `prev` and zero in `next`, a recycled block's
usual state, a list grows behind a first node that has no proper `prev`. Names are
numbers in the order of `strcmp`, phone numbers travel with them. One step is one
round of the menu loop: `select` is the variable that `scanf("%d")` leaves unchanged
when it refuses the "q" the menu offers, `pending` says that a "q" is still in
stdin, where the next `scanf("%s")` takes it as a name. `KilledInSave` is a process
that dies between `fopen("wb")` and `fclose`, leaving a prefix of the records; the same
is left, while the process goes on, when the disk is full, because nobody looks at what
`fwrite` and `fclose` return (`SaveEntry`). A disk that is full stays full, so that what
is saved is a prefix and has no gap. A file that cannot be opened leaves both
saving and loading without effect. Read errors other than the end of the file, after which
`load_entry` loops forever, are left out.

### TcpServer

Server actions follow the loop at 91-158, one system call each, since peers and
kernel act in between. `events` is what is left of the batch. `queued`, `inbox`,
`ready` and `gone` are the kernel's: `ready` is epoll's list of edge-triggered
sockets with news; whatever arrives puts a socket there, reporting it takes it
off, and `EPOLL_CTL_ADD` puts it there if something has arrived before. Listening
sockets are level-triggered. Data is counted in chunks of one `recv`; of a peer
whose data may hold zero bytes (`Binary`) `strncat` may drop a chunk or a part of it. A
batch has `MaxEvents` events at most, 1024 in the code. A failing `accept` ends the
server, as in the code; a failing `EPOLL_CTL_ADD` of an accepted socket, which the code
does not notice, leaves it "unwatched" (`AcceptUnwatched`). That the listening sockets are
added (82), and that `fcntl` makes accepted ones non-blocking (113), is assumed. The number that is printed with each
message (`count`) is left out: it counts reports up and closed connections down
and influences nothing.

### EpollClient

A round opens a connection (`Open`, with the first `send`) and, when `connections`
is at the end of a thousand or at the cap, asks epoll for events. Events are
level-triggered: a socket is reported as "out" while its send buffer has room, and
the code looks at EPOLLIN only otherwise. `Send`, `Recv`, `Disconnect` and `Error`
take what they do from `sockfd`, the socket opened in this round, and what they
close from `clientfd`, exactly as the code does.

### TcpSystem

The server's peers are the generator's sockets. The module instantiates both
modules and joins their actions: a connect of one is a connect of the other
(`Connect`), a message that the generator sends travels on `wire` until it is
delivered to the server's receive buffer (`Deliver`), an end of file follows the
data (`Finish`), and what the server closes reaches the generator's kernel
(`HangUp`). A send into a full buffer is lost, because nobody looks at what `send`
returns. A `connect` that finds a port nobody listens on fails (`Refused`, part of what the
generator does when it runs); any other may fail (`ConnectFails`). Once the server has ended nothing more happens: what the generator does
against any other server is the subject of `EpollClient`.

### HttpClient

The answer is a sequence of characters, blank lines that end the header, and zero bytes, and
arrives one by one. `select` and `recv` are one step each, so that the server may send,
close or reset in between. The server may never stop: of what it sends after the first `MaxLength`
characters, plain text, the model only records that it is there and whether it has
been read (`beyond`). `tv` is what Linux leaves of the timeout that the
program sets once. `UpToNul` is what `strncat` takes of a chunk. Where the code goes
on with an error result (no host, no connection, -1 from `recv` taken as a length,
no blank line in the answer, no file) the behaviour ends in "undefined" or has the
outcomes the build can produce.

### DnsClient

Messages are sequences of bytes. `LabelsOf` and `QName` are `dnsCreateBody` with
`strtok`: what has been written, and the label that has begun, after each character
of the host name. `NameAt` is `dnsParseName`, `SkipName` the loop that skips the
question's name, and `ParseRecord` one round of `dnsResponseParse`. `dnsParseName` writes no
terminator, the blocks it writes into are fresh from `malloc` (306, 324), and the
length it computes is dropped: the string that the list ends up with goes on with what the
block held, up to a zero byte (`Leftovers`, independently for the owner's name and for a
CNAME's; 255 stands for whatever that is). The two loops
that follow the bytes are functions of a depth: `NamesIn(m)[d]` is what a name of at
most d labels and pointers reads like at each offset, and one round (`ReadName`,
`Skip`) makes depth d from depth d - 1. As many as the message has bytes are enough,
because a correct server's pointers lead backwards. The server is external: it answers the question it was
asked with any records whose names are written as labels, as a pointer, or as
labels and a pointer, and remembers in `truth` what they mean and in `names` which
name can be read from which offset. Messages stay below `MaxMessage`, and labels of
the host name within the 63 bytes of the protocol (`Proper`). An owner's name that
is not a pointer leads the parser astray (`ParseAstray`), and freeing a non-empty
list runs past its first record (`FreeAnswer`): both end the behaviour.

### ImageStore

`Write` is the program built to write, `Select`, `Fetch`, `FetchEnds` and `Save` the one built to
read. `column` is the number the fetch loop increments once per row and passes as
the column number; `total` and `buffer` are what consecutive rows leave behind.
`imgWrite` opens the copy and never closes it, so its bytes reach the file when the process
ends and stdio is flushed: `Save` stands for all of that, and a process that is killed, or whose
last flush fails, for `SaveFails`.

### BloomFilter

`SetBit` and `TestBit` are `BitSet::set` and `BitSet::test` on an array of bytes, each the set of
its bits that are 1. `new char[]` leaves the bytes as they are: `Init` takes several
patterns. The hash functions are the constant `Position`.

### Programs

The stand-alone programs have nothing to do with each other. `Programs` puts them
side by side, each behaviour being one of one program, so that one run of TLC
checks them all. It declares the constants and variables of all of them; where
two programs have a variable of the same name (`step`, `response`, `result`), it is
the same variable. The variables of the other programs stay at 0, and
`CounterOnly` to `BloomOnly` say so of every step. Its properties say "if this is
program x, then x's property"; the constants are parameters, and `MCPrograms` gives
them values.

## Runs

| Run | Question | Instance |
|---|---|---|
| `PoolSafety` | ownership, count and limits, age order, complete scans, refinement of `LendingPool` | 2 clients, 3 connections, initSize 1, maxSize 3, one tick of idle time, spurious wake-ups |
| `PoolLive` | is every caller woken again and again; does an empty queue get refilled while nothing expires | 2 clients, 2 connections, initSize 1, maxSize 2 |
| `PoolDemo` | is the demo's raw pointer still good when the query runs | 1 client, 3 connections, 2 iterations, connects that fail |
| `Workers` | each task once, no task left to a sleeper, shutdown, refinement of `TaskBag`, progress | 3 workers, 3 tasks, spurious wake-ups |
| `BookSafety` | links, order, size, refinement of `Book`, over crashes and restarts | 3 nodes, 3 names |
| `Server` | nothing stranded, lost or stale; sockets are closed | 1 port, 3 peers, one of them with binary data, 2 chunks each, backlog 2, 2 events in a batch |
| `TcpSystem` | is the count exact against this server; is the cap reached; is everything printed | 2 descriptors, cap 2, polling after 1, 3, ... connections and at the cap, 2 ports, backlog 1, 2 events in a batch, room for 2 messages |
| `Programs` | counter: what survives of the updates, and do the loops end; generator: count and batch against any peers; HTTP: is the answer whole, does the loop end; DNS: is the query what the server reads, is the list what it wrote; images: is the copy the original; Bloom filter: no false negatives | 3 threads and 3 rounds; 3 sockets, cap 4; answers up to 4 in chunks of 2, or longer; host names up to 4 bytes, 2 records; 3 rows, buffer of 3; 19 bits, 3 keys |
| `PoolEmptyScan`, `PoolStarves`, `PoolStalls`, `BookNoData` | a comment or a message that the code does not live up to; TLC finds the counterexample | as small as the counterexample allows |

Why the bounds are enough to be interesting. In the pool, three connections over
an initSize of 1 let the scanner delete two in one scan, and two clients let one
of them take what the other was woken for, time out beside a connection, and
drain the queue under the scanner. `idle` saturates one tick past the limit: the
code compares it with the limit and with nothing else. In the demo, two
iterations run a query while the scanner sees the connection of the one before.
Three workers are one that runs a task, one that sleeps and one in between. In
the address book, three nodes are the front, the middle and the end of the list;
three names make insertions in all these places and duplicates. Three peers on
one port give batches that mix accepts and reads in any order and that do not hold
all events, and two chunks let data arrive before the accept, in the middle of the recv
loop, or after the report. In the generator, a cap above the number of descriptors forces
descriptors to be used again. With a backlog of 1 the generator's second connect
has to wait for the server, and a send buffer of 2 fills before the server has
read. HTTP answers of four in chunks of two have a full, a short and an empty last
chunk, a header cut anywhere, and data behind it. A host name of four bytes has up
to two proper labels and every improper arrangement of dots; two records are
enough for a pointer to a name that itself ends in a pointer. Three rows hold a
repeated insert with a NULL before, between or behind. The filter's keys share a
bit, share a byte, and have three equal hashes, and its last byte is not whole.

### Fairness

* Pool: a thread that can run runs; a thread that asks for the mutex gets it if the
  mutex is free again and again (strong fairness: `std::mutex` is not FIFO, but a
  waiter that competes infinitely often is served); `wait_for` and `sleep_for` end;
  `mysql_real_connect` returns. Clients need not call or return anything, and
  spurious wake-ups need not happen.
* Thread pool: the same for workers; the owner finishes `createThreadPoll` and
  `destroyThreadPool` once it is in them, and need not push or destroy.
* Counter: every thread runs. `main` need not return, but may.
* Server: the program's thread runs; peers need not act.
* `TcpSystem`: both programs run, and the network delivers what was sent to each
  socket and the end of file after it. The server need not fail, and neither side
  hears of a close in bounded time.
* What peers send is bounded (`MaxSends`; in `TcpSystem` by the cap), so `GoneIsClosed`,
  `CapIsReached` and `AllPrinted` hold for peers that pause: one that sends faster than
  the server reads keeps it in the loop at 137 forever, and every other socket waits.
  Nor do they speak of sockets that `EPOLL_CTL_ADD` has refused. In the same way the
  runs of the thread pool have finitely many tasks: the list is last in, first out, and with
  tasks pushed without end an old one may never be reached.
* HTTP client: the program runs; its server need not do anything. `Ends` is for servers
  that let `select` wait again and again (`ServerPauses`, a condition of the property): time
  passes in a round in which nothing can be read. A server that always has
  something ready keeps the loop going forever, because `select` returns at once and
  Linux takes nothing off the timeout.

No run assumes fairness for the address book, the DNS client, the image store and
the Bloom filter: they wait for a user, a datagram or a caller. The DNS client may
in fact wait forever (`Lose`).

### What the runs show

The violations, and what else was noticed on the way:

* `PoolEmptyScan`: with initSize 1, two connections lent out and none queued, the
  scanner calls `front()` of an empty queue (connectionpool.cpp:163).
* `PoolStalls`: the scanner deletes the last queued connection and notifies nobody,
  so the producer stays in `wait` below maxSize (167 against the comment at 107).
  `GrowsWhileYoung` shows that expiry is the only way into this.
* `PoolStarves`: `wait_for` is restarted with the full timeout after each wake-up
  (119 against the comment at 29). `NeverStuck` shows that this is the only way not
  to return: the caller is awake again and again.
* `BookNoData`: `load_entry` does not maintain `contacts->size`, and `delete_entry`
  refuses to delete from a book that was loaded (269, 184). `SizeCovered` shows
  that the size errs only downwards.
* Not given a run of their own, because nothing in the repository says otherwise.
  The pool: the deleter (97-102) does not notify waiting clients, although the
  comment at 146 promises it; they depend on their timeout. `createConnection`
  ignores the result of `connect` (179), so a connection that never came up is lent
  like any other (`usable`). `mysql_real_connect` runs under the mutex (145), and
  everybody waits for it. At maxSize, with the queue empty, the producer locks and
  unlocks without pause (144). A second `run` would fill the queue without the
  mutex (76). `getAliveTime` counts processor time (connection.cpp:51): idle
  connections of an idle process do not age.
* The address book: the first node is linked without assigning its links (45-49), so a
  second one behind it is appended to a list whose front has a garbage `prev`.
  "q to exit" (281) repeats the last command.
* The HTTP client: the comment at 103 says that it polls every 5 s; on Linux the 5 s are
  one budget for all rounds, as `Ends` shows. Elsewhere, where `select` leaves its timeout
  alone, each round has its own.
* The server: one failing `accept` ends it (108). A zero byte in the data hides what follows it
  in the same chunk (141). `count` (154) is printed as the
  number of a connection and is not one. An edge-triggered event may be handled
  when its data was read by the previous round of the loop (124, 137), and prints
  an empty message. What is read in the same loop as the end of the stream is freed
  unprinted (144); `AllPrinted` shows that this does not happen to the generator's
  messages while both programs live.
* The generator: EPOLLIN is looked at only without EPOLLOUT (137), `send` and `recv`
  take the newest socket (135, 140), and a `send` to a peer that has gone ends the process
  by SIGPIPE. `CountIsExact` shows why the miscounting is never seen against
  `tcp-server.c`, and `OpenAreCounted` that it errs on the safe side elsewhere.
* The DNS client: `recvfrom` waits forever for a lost datagram; decoded names are not
  terminated (306, 324), so that `ListIsAnswer` can only say what they begin with; an owner's name that
  is spelled out is not parsed (309); of a pointer only the low byte is used (225),
  which is why messages are assumed to be shorter than 256 bytes; `freeDnsAnswer`
  (347) does not reach the second record; after an error main frees an answer that
  was never initialised. `inet_ntop` writes up to 16 bytes into `malloc(4)`, which
  the C library's allocator happens to make room for.
* The image store saves one image truly only if all rows of the user hold the same
  one (`CopyIsStored`): the length is the last row's, the bytes are the first's. The
  schema's dump has no column `y_img`. `imgWrite` reports success before anything has
  reached the disk.
* The Bloom filter may claim keys that were never added, because its bytes start
  uninitialised; it never denies one that was. `BitSet::any` tests `!= 1`; nobody
  calls it. `bloom-filter/test.cpp` does not compile (12).

## Proofs

`ConnectionPoolProofs` proves for all clients, connections, sizes and idle times:

| Theorem | States |
|---|---|
| `TypeCorrect` | `Spec => []TypeOK` |
| `InductiveInvariant` | `Spec => []Inductive` |
| `OwnershipHolds` | no connection has two owners |
| `SizeHolds` | the count is right and within limits |
| `IdleOrderHolds` | the queue is ordered by age |
| `ScanIsComplete` | a scan leaves no expired connection above initSize |
| `ImplementsLendingPool` | the pool implements `LendingPool` |

`ThreadPoolProofs` proves for all workers, tasks and numbers of threads:

| Theorem | States |
|---|---|
| `TypeCorrect` | `Spec => []TypeOK` |
| `InductiveInvariant` | `Spec => []Inductive` |
| `TasksAreTakenOnce` | a task is in the list once, with one worker, or done |
| `TasksAreCovered` | while a worker sleeps, somebody awake comes for each listed task |
| `AllAreWoken` | no worker sleeps once `destroyThreadPool` has broadcast |
| `NoEmptyPop` | a worker about to take a task finds one |
| `NothingStartsAfterDestroy` | nothing is taken once `destroyThreadPool` has given the mutex up |
| `ImplementsTaskBag` | the thread pool implements `TaskBag` |

The other proof modules:

| Module | Theorem | States |
|---|---|---|
| `PoolDemoProofs` | `QueriesAreSafe` | the demo's queries run on connections that are in the queue, for any sizes, idle times and iterations |
| `TcpServerProofs` | `ServerInvariant` | the strengthening, with the types of all variables |
| | `EventsStayCurrent` | an event is still true when its turn comes |
| | `NothingIsLost` | up to the close, text that was sent is in the buffer, in `message` or printed; of other data nothing is there twice |
| | `NothingIsStranded` | the server never sleeps on a watched socket that epoll has forgotten |
| `TcpSystemProofs` | `CountStaysExact` | against `tcp-server.c` the count is exact |
| `AddressBookProofs` | `BookInvariant` | the heap holds a sorted list that `next` and `prev` describe, but for links at its two ends that malloc left |
| | `LinkedHolds` | the nodes in use are the nodes of the list, `prev` leads back, and only the ends lack a link |
| | `SortedHolds` | list and file are sorted |
| | `SizeCoveredHolds` | the size is between 0 and the number of nodes in use |
| | `BookImplementsBags` | list and file implement the two bags of `Book` |
| `ProgramsProofs` | `InductiveInvariant` | the strengthening, one part for each program |
| | `NeverAheadHolds` | the counter is never above the number of rounds that have ended, for any threads and rounds |
| | `TwoSurviveHolds` | at the end it is at least 2, or 1 after one round each |
| | `OpenAreCountedHolds` | against any server, the generator's count is not below the number of open sockets nor above the cap |
| | `EventsAreOpenHolds` | the generator's events are about open sockets |
| | `SavedIsReceivedHolds` | the HTTP answer is collected and saved as it was sent, whatever its length and the pieces |
| | `QueryIsEncodedHolds` | the question is the host name's labels with their lengths, the root label, type and class, for host names of any letters |
| | `ListIsAnswerHolds` | the list has the types, addresses and names that the server encoded, whatever labels and pointers it used and whatever follows a name in memory, and the parse ends where the message does |
| | `CopyIsStoredHolds` | a copy made from rows with one image is that image, for any images and buffer |
| | `NoFalseNegativesHold` | the filter denies no key that was added, for any number of bits, keys and hash functions |

The assumptions are the ones named in the modules: client names differ from the
two thread names, sizes are natural numbers, and `Conns` is a finite set with at
least as many members as the pool may need (`operator new` does not run out below
the limit); for the thread pool, that `Workers` is finite, has at least the wanted
number of members and does not contain the name of the free mutex; for the demo,
that it is the only client and that initSize is at least 1 (with 0 the first call
may time out); for the server, that ports and peers are finite and disjoint, and that a batch has room for an event; for
the generator, that 0 is no descriptor it gets and that Round is above 1; for the
address book, that the nodes are finite in number, differ from the null pointer
and the unassigned one, and that names are compared like numbers; for `Programs`,
the `Assumption` of each program's module: at least one thread and one round,
images with bytes, positions within the bit array, letters and labels that are bytes
other than 0 and the dot, host names that leave the question room in a message, and so on.
TLC evaluates all of
these in the runs.

The argument for the connection pool. None of the properties of the pool is inductive by itself.
`SizeWithinLimits` needs that the producer's test against maxSize, made before its
connect, still holds when connect returns; that needs the mutex to exclude every
other change of `count` meanwhile, so the strengthening `Inductive` has
`CriticalSections` (who is in a critical section owns the mutex, and nobody else)
and `producer = "connect" => count < MaxSize`. `IdleOrder` needs `Ownership`
(a connection queued twice would be refreshed in two places) and `TypeOK`, since a
new or returned connection has age 0, the least there is. What `run` does without
the lock is covered by `BeforeRunning`. The proof has one lemma per group of
actions; the lemmas about queues (what `Append` and `Tail` do to `Queued`, to
distinctness and to cardinality) are stated once. The refinement maps `Take` to
`Lend`, `Expire` on an empty queue to `Refuse`, `Fill` and `ProducerCreate` to
`Grow`, `ScannerReclaim` to `Shrink`, `Return` to `Restore`, and everything else to
a stutter; `Inductive` supplies the guards.

The argument for the thread pool. The owner writes two fields without the mutex,
so the invariant says what a worker still knows of them between two of its
reads. `Typed` has the mutex (whoever is in the critical section owns it).
`Knowledge` has the rest: the flag is up exactly while the owner is in or past
`destroyThreadPool`; a worker about to test the flag has seen an empty list, which
nobody can fill because pushing takes the mutex; one that has found the flag down
and is about to wait also knows that nothing has been broadcast yet; a worker at
the second test has seen a task or the flag; a worker about to take a task has one, and the owner has
not broadcast, because broadcasting takes the mutex too and the list is cleared
only afterwards; nobody sleeps after the broadcast. `DestroyWakesAll` and
`PopHasTask` are read off it. `TaskOnce` is inductive next to it, since only `Push`,
`PopTask`, `RunTask` and `ClearTasks` move a task (`DataStep`). `NoTaskIdle` counts:
a push adds one task and wakes one worker, taking a task removes one of each, and a
worker goes to sleep only when the list is empty (`ComingSteps`).

The argument for the demo. `DemoInv` follows the demo through one iteration next to
`Inductive`: `main` holds a connection only between `getConnection` and the end of
the block, so everything else is in the queue; and while the query runs its
connection is the queue's last, since the producer, which appends too, finds a
queue that is not empty. The scanner deletes from the front, and only while more
than initSize connections exist; so it stops at the last one at the latest,
because initSize is at least 1. For the same reason a call finds the queue
non-empty: it never waits, and never times out.

The argument for the server. `NothingStranded` speaks of the moment before
`epoll_wait`; `AllReported` says what holds in between: an open socket with something to
read is on the ready list or among the events still to be handled. Reading a socket dry is what lets its event
go. `BatchIsCurrent` needs that events are distinct (a second event of a port would
find its queue empty) and that an accepted socket was waiting in one queue only
(`QueuesAreApart`), since accepting and closing change what the remaining events
are about. The generator's batch (`EventsAreOpen`) is inductive with its types; the
count needs it, because a close removes an open socket only if the event is about
one. For `CountIsExact`, the server closes a socket only after its peer has left, and
the generator leaves a socket only by closing it because something arrived, or by
ending; nothing arrives, because the server sends nothing. So the circle never starts:
`OnlyWrites` and `ServerWaits` are the two halves.

The argument for the address book. The invariant names the list: `IsList(b, s)` says
that s is a sequence of different nodes which starts at `front`, that from each
node `next` leads to the following one, `prev` back, and the names ascend, and that
only the outer links of the two ends are null or unassigned, both unassigned only if
s is a single node (`EndLinks`). Nothing less is inductive: that `next` and `prev`
agree pairwise allows rings beside the list, and since `next` and `prev` of a first
node are independent, one end may keep its garbage however long the list becomes.
With s in hand, what a loop of the program sees is known (`WalkIs`, `FindIs`), an
insertion is `Inserted(s, k, n)` (`LinkedIn`) and a deletion `Removed(s, k)`
(`Unlinked`). A search ends at a node of s or at the outer link of an end
(`SearchEnds`). Whoever follows an unassigned link, there or at the front, stops the
model: a node that was being inserted is then not linked, and the list stays as it
is (`InsertKeepsList`). Names are counted over the set of the
nodes of s, so that one insertion or deletion changes one count by one (`CountIs`,
`PersonInserted`, `DeleteCounts`), and `BagStep` says which step of `Book` a step of
the menu is. Loading is an induction over the records of the file (`LoadKeepsList`):
either all of them are in the list, and `LoadEntry` maps to `Load`, or an unassigned
link was followed, and it maps to a stutter, as it does when `fopen` fails.

The argument for the counter. `NeverAhead` needs that a value still to be compared
with is not ahead either. `TwoSurvive` sounds like a statement about the order of
all steps but has a small invariant: a thread whose first round is over finds the
counter above 0, and whoever stores after its first round stores at least 2; so a
last store of 1 is some thread's first round, and if that thread is through, it had
no other.

The argument for the other programs. The generator's batch (`NextEventKeeps`) is
inductive with its types, against peers that may do anything. In the HTTP client,
`HttpInv` says that `result` is the first `received` characters of the answer as long
as it is text, whatever the pieces were, and that nothing is outstanding when the
loop has met the server's close. In the image store, `ImagesInv` holds that from the
first fetched row on buffer and length are those of the one image, although they
may come from different rows. For the Bloom filter, `set` and `test` compute the same
byte and bit, each position is inside the array (`ByteInArray`), and setting a bit
clears none (`SetBitKeeps`).

The argument for the DNS client. What is hard is that a record's name may point into
any earlier one, so that a property of one record is a property of the bytes before
it. `Spells(m, o, x)` says that offset o of m reads x, and that it does so in every
message that begins with m; so whatever the server appends, it stays true
(`SpellsStays`), and a label or a pointer in front of what spells y
spells the longer name. `Names` says that the server's `names` are spelled where it
believes them to be. The message is the header, the question and the records laid end
to end (`Laid`): a sequence of starts, one more than there are records, and between
two of them an owner's name, ten fixed bytes and the data (`RecordAt`). While the
server writes, the invariant is that the message is laid so; when the client has
received it, `Parsing` adds that `ptr` is the start of the record after the last one
listed, and that each listed record begins with the names of a true one and has its
address, in reverse order. A readable owner's name is a
pointer, hence two bytes, which is what the parser skips. That the question is there
to be pointed into is the other half: `QueryIsEncoded`. It follows by walking the host
name (`LabelsOf`): after k characters, what is written is the host name with each
dot's place taken by the length of the label behind it, and this is what the
server's reading expects at every dot (`QuestionIn`). The depth is an induction too:
a part of the question that begins at o needs no more rounds than there are bytes
behind it.

Inductions over data. The library's induction rules take the statement as an
operator, which the provers cannot instantiate. `SequenceElements` states the rule
for a set of numbers instead (`NatSetInduction`, from the well-foundedness of the
natural numbers): the set is that of the numbers for which the statement holds.
The loops of the address book are proved that way, and so are those of the DNS
client over characters, offsets and depths. That `LabelsOf`, `NamesIn` and `EndsIn`, which are
recursive functions, exist and satisfy their equations is proved the same way
(`RoundsExist`), once for the three.

Only model-checked: what is under fairness (`NeverStuck`, `GrowsWhileYoung`,
`TasksAreRun`, `WorkersExit`, `GoneIsClosed`, `CapIsReached`, `AllPrinted`,
`Finishes`, `Ends`), since liveness is out of the prover's reach. Every invariant,
every safety action property and every refinement that a passing run checks is also a theorem.

## Not modelled

* The pool's destructor: it frees what detached threads still use, so every
  continuation is undefined. `PoolDemo` ends where it starts.
* A second call of `run`, and calls of it after `getConnection`: no program does it.
* `selectUserTable` in `mysql.c`, which prints a table, and the reading of the file
  to be written: they change nothing that another step sees.
* `BitSet::reset`, `some`, `any` and `size`, which nobody calls, and the hash functions
  themselves, of which nothing is needed but that they are functions.
* The earlier server kept in comments at the end of `tcp-server.c`, `isContinue` in
  `tcp-connect.c` (always 0), and its branches for EINTR and for events without
  EPOLLIN and EPOLLOUT.
* The Node.js load generators, the schema and the build files: what matters in them
  is inside Node's library, or has no behaviour.
* Texts: phone numbers, the HTTP request, what is printed.

## What could come next

All components with behaviour of their own are modelled and checked, and every
safety property of a run is proved. Left is what the proofs leave to the bounds: a
server that writes messages of 256 bytes and more, whose pointers `dnsParseName`
reads wrongly (225), would need a property that says how, and the liveness properties
would need a prover for fairness.
