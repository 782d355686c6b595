# A verification project for Principle-in-System-Design

The repository holds the programs of a course on systems programming: three
multi-threaded file servers with their client, a forking file server with its
client, an iterative `ls` server, a shell with pipes and background jobs, and a
number of small programs that stand alone. This directory models them in TLA+, checks
the models with TLC and proves part of what is checked with TLAPS.

## 1. Inventory

Paths are relative to `src/`. "MT" is `multi-threaded client and server/`.

### Concurrent programs

**Pool server: hand-off queue** (`MT/pool_server.c` 20-52, 128-151).
State: the ring `q[300]`, `first`, `last`, `numInQ`, the mutexes `mutex`, `empty`,
`full`. Operations: `putOnQ` by the main thread for every accepted socket,
`getOffQ` by each of `N_THREADS` workers. The threads share memory only. Hard:
`numInQ` is tested outside of the mutex; `empty` and `full` are mutexes used as
event flags, locked by one thread and unlocked by another. Correct when: no index
or counter update is lost, nothing is overwritten, nothing is taken that was not
put, nobody sleeps beside work.

**Pool server: transfer and timer** (`MT/pool_server.c` 54-127). `handle_request`
and `time_out` as in the leader-follower server, except that a failing `read` does
not end the process, and that the descriptor comes out of the queue. Hard: -1 is queued
like a socket, and a name that was not read is whatever is on the stack. Correct when: a
connection is in one place at a time, and whoever waits for a file sees its end.

**Leader-follower server** (`MT/leader_follower_server.c`). State: `leader_mutex`,
the listening socket and its backlog, the interval timer, and the connection,
requested name and file position of every thread. Operations: lock, accept, set the
timer, unlock, `handle_request`; the alarm handler; `error()`, which is `exit(-1)`
for the whole process. Hard: the error path inside of the critical section, an exit
in the middle of other threads' transfers. Correct when: one thread is in `accept`,
no connection is dropped or served twice, and clients get the file or see the
server end.

**Thread-per-request server** (`MT/per_request_server.c`). State: `thread_array[300]`
and `thread_count` besides the above. `pthread_join` follows `pthread_create` at
once. Correct when: as above, one request at a time; `thread_count` only grows.

**Client** (`MT/client.c`). State: per thread the index into `files[]`, the socket
and the local copy. Operations: connect, write the name, read to the end. Hard: an
end of file from a dead server looks like the end of the file; one failing thread
ends the process; a local `open` or `write` that fails is not looked at. Correct when:
what is read is the file in order, and a thread goes on with a short copy only if the
server stopped or a local call failed.

**Forking server and client** (`concurrent server - client/c_server.c`,
`c_client.c`). State: the descriptors of each process, the children, pending
SIGCHLD. Interaction: one connection per file, forked at both ends. Hard: descriptors
that survive in the parent keep connections open; SIGCHLD merges; both children read.
Correct when: no zombie stays, each copy ends with all of its file, or with an error of
the client's child.

**Command shell** (`Command shell/myshell.c`). State: `in_pipe`, `pass_through`,
`process_stack`/`psp`, descriptors, children. Operations: one turn of the main loop
(`check_children`, `get_command_line`, `verify_command_line`, `set_child_io`, fork,
wait, close). Hard: which processes hold pipe ends, `wait` for the wrong child, state
that a refused command leaves behind. Correct when: the stack is the list of live
children, no write end is left open, the prompt comes back.

**Iterative `ls` server and client** (`iterative server - client/ls_server.c`,
`ls_client.c`). State: the one connection that is served, the child and its copy of
the unflushed standard output, the clients' arguments. Operations: accept, read the
name, fork, list, wait, close; connect, ask, read to the end. Hard: the only process
waits for a child that writes to a client; what the server printed before the fork is
in the child's buffer. Correct when: a client sees the whole listing, then the end of
file, and no client that runs waits for ever.

**Directory listing** (`Unix Command/my_ls.c`, `iterative server - client/my_ls.c`).
State: the directories being read, the indentation. The two differ: one goes down into
every directory, the other stops at the first. Hard: entries that vanish between
`readdir` and `stat`. Correct when: what stays is listed, once, and the indentation
shows the tree.

**Signal counting** (`Signal Handling/handle_signals.c`). Three counters and handlers
that nest. Hard: signals merge while they are pending, a handler is interrupted between
a count and its test. Correct when: the third SIGTSTP is the last.

**Process tree** (`Unix process creation/my_fork.c`). Four processes that write and
wait. Hard: a `wait` takes any child. Correct when: each ends after its children.

### Sequential programs

**Music library** (`C Program/MusicLibrary.c`). State: `music_library[1024]`,
`current_number_of_songs`, the file between runs. Operations: the commands I, D, L, Q
and loading. Hard: the loops at both ends of the array, the unused element behind the
last song, a search that ignores case with a check that does not. Correct when: no song
is lost by an insertion, a listed song is found, and "not exist" is true.

**String functions** (`C String/string.h`). Pure functions, and `strtok` with its static
pointer. Correct when they do what the C standard says.

**C tokenizer** (`C String/parseC.c`). State: the place in the input. Correct when
comments and strings end where they do in the text, and a text is read to its end.

**Command executor** (`Bash Command/execute.c`). State: the arguments and the buffer
`path`. Correct when the arguments are the words and the first program that can be run
is run.

**File copying** (`UNIX IO/my_copy.c`). State: the two files and their offsets. Hard:
short writes with writes behind them, a full disk, a file copied on itself, what was in
the target before. Correct when a run that reports nothing has copied the file, and
nothing is misplaced in front of a write that was cut short.

**Timer** (`UNIX IO/Timer.*`), **shell scripts** (`bash script/`), **build files**: they
read clocks, wrap other programs or start them, and keep no state that another part
depends on. They stay out.

## 2. Plan

Done, in this order: `SocketQueue` with `BoundedFifo` (the least protected shared
state); `FileTransfer` with `LeaderFollower`, `PerRequest` and `CopyService`; `ForkCopy`;
`JobShell`; `MusicLibrary`; `PoolServer`, which puts the queue and the transfer together;
the programs that stand alone (`SignalCount`, `ForkTree`, `LsService`, `DirListing`,
`FileCopy`, `CString`, `Tokenizer`, `Executor`); proofs about the queue and its refinement
of the FIFO, about the three copy servers and their refinement of `CopyService`, about the
forking server, the shell, and the programs that stand alone.

Left to model: what a worker of the pool does with the stale descriptor that an
underflow hands it (`PoolServer` stops there; `SocketQueue` goes on but has no transfer);
the copying functions of `string.h` on their memory; the loop of `ls` over several
arguments.

Every safety property that a run checks is proved, and the safety part of each refinement. What
is left to TLC alone, liveness, is listed in section 5.

## 3. Modules

| module | models | composes |
| --- | --- | --- |
| `BoundedFifo` | abstract: one producer, one consumer, a FIFO of bounded length | |
| `SocketQueue` | queue and threads of `pool_server.c` | refines `BoundedFifo` |
| `CopyService` | abstract: what a user of a client and a server may rely on | |
| `FileTransfer` | `client.c`, `handle_request`, the timer, TCP connections | states the refinement of `CopyService` |
| `LeaderFollower` | the threads of `leader_follower_server.c` | extends `FileTransfer`, refines `CopyService` |
| `PerRequest` | the threads of `per_request_server.c` | extends `FileTransfer`, refines `CopyService` |
| `PoolServer` | `pool_server.c` as a whole | extends `FileTransfer`, uses what `SocketQueue` shows |
| `ForkCopy` | `c_server.c` with `c_client.c` | |
| `JobShell` | `myshell.c` and the programs it starts | |
| `LsService` | `ls_server.c` with `ls_client.c` | |
| `DirListing` | both `my_ls.c` | |
| `SignalCount`, `ForkTree` | `handle_signals.c`, `my_fork.c` | |
| `FileCopy` | `my_copy.c` | |
| `CString`, `Tokenizer` | `string.h`, `parseC.c` | |
| `Executor` | `execute.c` | |
| `MusicLibrary` | `MusicLibrary.c`, its file, and kills | |
| `SmallPrograms` | the programs that stand alone, side by side | INSTANCEs of nine modules |
| `SocketQueueProofs` | theorems on the queue and its refinement of the FIFO | extends `SocketQueue` |
| `FileTransferProofs` | lemmas on the transfer | |
| `LeaderFollowerProofs`, `PerRequestProofs`, `PoolServerProofs` | theorems on the copy servers | extend `FileTransferProofs` |
| `ForkCopyProofs`, `JobShellProofs` | theorems on the forking programs and on the shell | extend their modules |
| `SmallProgramsProofs` | theorems on the programs that stand alone | extends `SmallPrograms` |
| other `MC...` | values of constants for TLC | extend their modules |

`SmallPrograms` has a variable `program` that says which of the nine programs a
behaviour is of; the variables of the others keep their initial values, so the states of
the run are the sum of those of the programs and not their product. The modules name what
they ask of their constants, and `ConstantsAssumption` collects it: the theorems rest on it,
and TLC evaluates it for the values `MCSmallPrograms` gives the constants. Each module has
its own `TypeOK`; the run checks their conjunction.

`MCMusicOwned` adds to the music library a history variable, the songs its user has put
in and not removed, for the one run that needs it.

Definitions marked `(fault)` are what a plausible slip in the code would make of the
definition that follows them. No specification uses them; substituted for that
definition they make TLC find the property violated, which shows that the property
depends on the code.

**`SocketQueue`.** Every statement of `putOnQ` and `getOffQ` that touches a global is
an action; `pc` is the statement a thread is about to run. `numInQ++` is a load
(together with the index of the line before, in the same critical section) and a
store. The condition of each `while` is tested without the mutex, as in the code.
`accept` returns the lowest free descriptor, or -1, which is queued as well. What
happens to a request is one action, `Handled`, that closes the descriptor.
`pthread_mutex_unlock` of a mutex that another thread locked, or that nobody holds,
is undefined in POSIX; the default mutexes of NPTL release it or do nothing, and the
program relies on that, so the model has it.

**`FileTransfer`.** A copier is a thread of a client. It has one connection at a time,
and the connection carries its name. `Connect` succeeds when the server listens
(10 threads per client stay below the backlog of 200, so the backlog has no bound
here), before any thread accepts. `asked`, `wire` and `hung` are the two directions
and the end of a connection. A name is one message: the client writes it in one call,
the server reads once, and a name is far shorter than a segment. Data is counted in
buffers. A handler's actions are the statements of `handle_request` that wait, fail or
move data. A failure of the server's `error()` is `ServerExits`. A write to a client
that was killed is either lost or kills the server by SIGPIPE; which of the two
depends on whether the reset has arrived.

`client.c` reads on when its local `open` fails (it only calls `perror`) and never looks at
what `write` returns. So what a thread has read and what is in its local file are two
things. `copy` is what it has read, in the order in which it writes it; `missed` says what of
the present file did not get to the disk: 0 when `open` failed (then no `write` succeeds), k
when the k-th `write` failed or was short. Which clients can lose something is the constant
`Failing`, so that a run can leave it out; the theorems are about every value.
`CopyService` has the same variable and promises that blocks are read in order and without
a gap, that only what is in `missed` is missing from the disk, and that nobody stops for
it. It does not promise that a failed `write` is reported: the code does not. The local
directories start empty, as after `make clean`, so that without `O_TRUNC` nothing older is
left behind the copy.

**`LeaderFollower`, `PerRequest`.** The loops of `accept_client_requests`, the creation
and end of threads, and the alarm. In `PerRequest` a handler is identified with its
element of `thread_array`; the store behind the end of the array (`Overrun`) may do
nothing visible or end the server.

**`ForkCopy`.** `sfd` and `cfd` say which processes hold each end of each connection;
`read` returns 0 when nobody holds the other end. `signal()` has its BSD meaning (the
default of gcc): the handler stays installed, SIGCHLD is blocked while it runs and
pends at most once, `accept` is restarted. The client's own SIGCHLD handler is left out:
the client ends without waiting for its children and nothing depends on it. A child of
the client exits when the request cannot be written, the local file not be created, a
`read` fails behind a reset, or a `write` to the file fails (`CopyFails`); `copy` counts
what it has read, and a `write` that is short passes unseen there too.

**`JobShell`.** Process n and pipe n belong to the n-th command. `readers` and
`writers` are the processes that hold the ends of each pipe, inherited by `fork` and
never closed by `dup2`. The user types any command, an empty line, or the end of the
input. What `expand_path` and the access checks refuse is a command named "bad".
Programs read, write at most `MaxWrites` blocks, end when they are through, or die at
any time.

**`MusicLibrary`.** A song is its title, a title a number, and `Fold` gives the order of
`strcasecmp`; 0 is the empty title that unused elements have. The shifting loops are
the arrays they leave behind. `Delete` matches whatever is in the slot the search
returns, listed or not. Q is two steps, because `fopen` empties the file before
`fclose` writes it. `MaxSongs` and `MinSongs` bound the counter.

**`PoolServer`.** The ring is a sequence, `putOnQ` one step that waits for room, and
`getOffQ` two: its test, and the critical section. `SocketQueue` has the statements, and
what is checked and proved there justifies the larger steps: the critical sections exclude
each other, the test for a full queue stays true, nobody sleeps for good beside a queue he
could use, and each of its steps is one of these or leaves the queue as it is
(`QueueIsShared`). The test for an empty one does not stay true, which is why it is a step
of its own; a take from the empty queue is recorded in `underflowed` and ends the behaviour,
because the descriptor it hands out is an old one, from a connection that is handled a
second time then. All that is said of the pool is said up to that take, and `OnePlace` says
so; that it happens is the violation of `NoUnderflow`. `None` is the -1 of a failing
`accept`; calls on it fail and nobody looks. After a failing `read` the name is any name an
earlier call may have left, or none.

**`LsService`.** A listing is a number of blocks, and what the server has printed about
itself one more, in front of it, when its standard output is not a terminal and so not
flushed before `fork`. `Kill` ends a client, `Stop` stops it. `write_to_client` and
`read_from_client` are never called and left out. A `read`, `accept` or `fork` that fails
ends the server (`ServerExits`). The second `close` of the same
descriptor has no effect in a process of one thread.

**`DirListing`.** Both programs as one: the variable `ls` says which. A stack of
directories with what `readdir` has yet to return stands for the recursion. `Remove` takes
an entry away at any time; a directory that is being read may return it still. A device is
not printed (`process` knows files and directories only). Only the indentation of a line is
modelled, as it alone shows the tree.

**`SignalCount`.** A stack of calls of `sighandler`, each at a statement. The kernel's part
is in `Send`, `Deliver` and `Continue`: signals merge, a signal waits while its own handler
runs, SIGCONT discards a pending SIGTSTP.

**`ForkTree`.** Each of the four processes forks its children one after the other, writes and
waits; `ForkedAt`, `WriteAt` and `Waits` say at which step, read off the branches of
`my_fork` and `fork_again`. A failing `fork` ends its process with `exit(1)`.

**`FileCopy`.** A file is a sequence of bytes, 255 (which a signed `char` cannot tell from
EOF) and one other. How much room the disk has is not a state of the model, because others
change it at any time: every `write` that makes the file grow takes any part of what it was
given, and the next one may succeed again. Methods 2 and 3 read on behind all they have read
and write on behind what was written, so that bytes behind a short write may end up at the
wrong place; `cut` is a history variable, the place where the first write that was short
stopped. The source may be missing or be the target; a file may not open, and the target is
emptied (method 1) or made by then if it is the source that does not (`MakeTarget`);
`check_file` then closes a null pointer.

**`CString`.** The functions are recursive functions over positions, next to definitions
that say what the C standard says. `size_t` has `SizeMod` values. `strspn` has no `return`
at its end, so its result there is any value. `strtok` is a state machine: its pointer, the
buffer with its zeros, and a caller that calls until it is told NULL, and once more.

**`Tokenizer`.** Per function, which characters are consumed. `text` is a history variable, a
reference scanner that runs over the characters consumed so far and knows comments, strings
and constants; "odd" are texts the program is not made for, such as a comment that ends with
two stars. The fall-through of `parseOpeartor` is `Swallowed`.

**`Executor`.** A line of letters and blanks (the newline is one to `parse`), the file of that
name in the current directory and in each directory of PATH: a program, something `execve`
refuses, or nothing. After a refusal `args[0]` points at the buffer that is written next, and
what happens then is any outcome.

## 4. Runs

| run | bounds | shows |
| --- | --- | --- |
| `queue_pool` | 2 workers, ring of 2, 1 descriptor besides stdin | `MutualExclusion`, `CountersAgree`, `NoOverflow`; no lost wakeup (`ProducerNotForgotten`, `WorkersNotForgotten`); `Drains` |
| `queue_single` | 1 worker, ring of 2, 4 descriptors | `NoUnderflow`, `ServesOwnSocket`; the FIFO with its liveness (`ImplementsFifo`) |
| `queue_underflow` | 2 workers | violated: `NoUnderflow` |
| `leader_copy` | 2 clients, one of them with a failing disk, 2 server threads; files of 2, 0 blocks and one missing | `OneLeader`, `NothingLostOrRepeated`; `CopyService` with progress (`ImplementsCopyService`): no thread stops for a local failure, and a short copy goes back to a named one or to the end of the server |
| `per_request_copy` | 2 clients of 2 threads, one file; `thread_array` of 3 | `OneSlotPerConnection`; `CopyService` with progress |
| `pool_copy` | 2 clients, 2 workers, ring of 2, a file of 1 block, one -1 under way | `OnePlace`: up to the first underflow no connection is lost or handled twice; `Answered` |
| `fork_copy` | 3 files, two of them missing | `NoZombieForgotten`, `MissingFileEnds`, `FileArrives` |
| `fork_end` | 1 file of 1 block | violated: `CopyEnds` |
| `shell_pipeline` | 3 commands, pipes of 1 block, programs write up to 2 | `StackListsChildren`, `OnlyFailedForksStay`, `OnlyPassThroughStaysOpen`, `ReturnsUnlessPipeFull` |
| `shell_flag` | 2 commands | violated: `InPipeOnlyInPipeline` |
| `small_programs` | see below | one or two properties of each of nine programs |
| `music_missing` | 4 songs, 3 titles and the empty one | violated: `NotExistIsTrue` |

What `small_programs` checks, with its bounds:

| program | bounds | properties |
| --- | --- | --- |
| `SignalCount` | 2 SIGINT, 1 SIGQUIT, 4 SIGTSTP | `ThirdIsLast` |
| `ForkTree` | each letter once | `ParentsEndLast` |
| `FileCopy` | files up to 3 bytes, buffer of 2, up to 2 repetitions | `DoneMeansCopied` |
| `DirListing` | a directory with a directory in it, 2 files, a device | `StaysMeansListed`, `TreeCanBeRead` |
| `LsService` | 2 clients of 2 names, listings of 2 blocks, window of 1 | `ShowsWhole`, `Answered` |
| `CString` | strings up to 3 of 3 chars, one of them negative | `LikeTheStandard`, `TokensAreFields` |
| `Tokenizer` | texts of any length over 16 characters | `InStep`, `EndsUnlessOpen` |
| `Executor` | lines up to 4, PATH up to 3 directories | `ArgsAreWords`, `RunsFirst` |
| `MusicLibrary` | 3 songs, 4 titles of which 2 differ in case only | `FindsWhatIsListed`, `InsertionLosesNothing` |

Why these bounds are enough. A ring of 2 is filled, emptied and wrapped; it is the
smallest that tells full from empty and first from last. Two workers are the smallest
number that race in `getOffQ`; the theorems are about any number. With one worker,
two queued sockets, one in the worker's hand, one in the main thread's and stdin are
all the descriptors that can be open at once. `MinCount = -1` lets the counter
underflow once; after that the ring holds nothing that was put, and the workers stop
at their test. In the transfer, a file of two blocks with `Window = 1` makes the server
wait in `write`; two handlers and two copiers make every pair of steps meet; the empty
file has an end and no block; the missing file ends the server. With `thread_array` of
3 the fourth connection is the first behind it. In `pool_copy` a ring of 2 takes both
connections, or one and a -1, and two workers can meet at an item or at the empty
queue. Two missing files let two children
die while the SIGCHLD handler runs. Three commands are the longest pipeline with a
command that has a pipe on both sides, and one block more than a pipe holds makes its
writer wait. Three songs are the fewest with one in the middle to remove, and one more
shows what an insertion then overwrites.

`Failing` holds one of the two clients in `leader_copy`, so that a thread whose `open` or `write`
fails runs beside one whose do not, on a file of two blocks of which either can be missed; it
is empty in `per_request_copy` and `pool_copy`, which are about the servers.

In `small_programs`: the fourth SIGTSTP is the one that must not be counted. A buffer of 2
cuts a file of 3 into a whole and a partial block, so that a short write of the first can be
followed by one that succeeds. Two
levels of directories tell the program that goes down from the one that does not. In strings
of 3 a needle of 2 can begin at the first place, later, or too late. The tokenizer's state is
finite, so its texts are not bounded at all. A PATH of 3 has a directory before, at, and
after one that is refused. Two listings by each of two clients let a connection be used again
while the other client waits.

`CHECK_DEADLOCK FALSE` is set where the program may stop: clients end when they have
their files, the servers exit, a child waits for a peer that needs nothing more, the
shell exits at the end of input or the bound on commands is reached, the small programs
end. The runs of the queue and `music_missing` keep deadlock checking: the pool never
stops, and the library always takes another command.

### Fairness

Weak fairness of each thread or process says that the scheduler runs whatever can run;
no property asks that one particular thread gets a mutex, only that some thread does, so
strong fairness is not needed but in one place: in `PoolServer` a failing `accept` takes the
main thread away from `Accept` and brings it back, and `SF` says that it does not fail each
time somebody is waiting. A thread's steps inside one function are under one
fairness condition, so nothing is assumed about which branch is taken. There is no
fairness on what the environment decides: a client connecting to the pool, a failing
`accept`, `fork` or `pipe`, the alarm, a user who types or interrupts, a program that
dies. The abstract `CopyService` asks that a copier that can grow its copy or go on
does one of the two; a failure of a copier's server or process is a step of its own.
`ReturnsUnlessPipeFull` is stated for programs that read their input and end.
In `LsService` nobody is killed or stopped for sure, and what is not stopped goes on; in
`Tokenizer` the program runs, but nobody has to type.

### Findings

- `queue_underflow`: `getOffQ` does not test `numInQ` again under the mutex. Of two
  workers that see the same item, the second takes a stale one, and the counter
  becomes -1; `while (numInQ == 0)` never holds a worker back after that.
- `fork_end`: after a file that exists, the server's child reads the next request
  and the client's child reads the file, each until the other closes.
- `shell_flag`: a refused command leaves `in_pipe` set, and the next line reads from
  the old pipe.
- `music_missing`: `crunch_up_from_index` assigns to one element again and again. A
  removal that is not at the end doubles a song and cuts off the last one.

What the models show besides, without a run that is violated, because nothing in the
repository says otherwise or the property names the case as its exception:

- Pool: unlocking `empty` when it is free is not remembered, so two puts in a row wake one
  worker (`Drains` holds: the second socket is late, not lost).
- Client: one that starts before the server listens is refused and gives up, although
  `tries = 3` is declared. It opens its copy without `O_TRUNC`. After a local `open` or
  `write` that failed it goes on, and a copy may lack any of its blocks (`missed`).
- Thread-per-request: `thread_array` is used up by connections, not by threads that are
  alive; one element would do.
- Shell: `check_children` calls a `wait` that sleeps. With a background job alive the shell
  takes the next line only when the job has ended.
- Music library: it finds, and removes, a song in the slot behind the last one, which takes
  its counter below zero, and then the next insertion vanishes: it is stored in front of the
  counter, which becomes 0 (`InsertionLosesNothing` has the case); a title that differs from
  another in case only may not be found; Q empties the file before it writes it.
- `ls` server: a client that is stopped holds up all others; with standard output not a
  terminal, the server's own messages come in front of each listing.
- `my_copy`: method 1 ends at a byte 255 and empties a file that is copied on itself; methods 1
  and 3 do not notice a write that was lost or cut short, and if there is room again the bytes
  that follow come to lie in its place; methods 2 and 3 leave the end of a longer target;
  `check_file` closes a null pointer when a file cannot be opened.
- `string.h`: `strtok` never returns the last field, and crashes when called once more; a
  negative `char` is ordered first; `strncmp` with a count of 0 compares everything, so that
  `strstr` does not find the empty string in any; `strchr` finds neither the terminator nor a
  negative `char` that is asked for as an `unsigned char`; `strspn` returns nothing for a
  string that it spans. `LikeTheStandard` states these exactly and leaves no other case out.
- `parseC`: a comment that ends with two stars goes on; comments and strings that are open at
  the end of the input loop for ever; a character behind an operator may be swallowed.
- `execute`: a line that ends in a blank, as each one that was typed does, has an empty last
  argument; after a file that `execve` refuses, what is run next is undefined.
- `my_fork`: one `wait` too many, which returns at once.

## 5. Proofs

`SocketQueueProofs`, for any number of workers, any ring and any descriptors:

- `TypeCorrect`, `MutualExclusionHolds`. `LockInv` adds to mutual exclusion that
  whoever is inside holds `mutex`. Without it a thread inside would not keep the next
  one from `lock`.
- `CountersAlwaysAgree`, `NeverOverflows`. `CountInv` adds that a value loaded by
  `numInQ++` or `numInQ--` is the current one until it is stored: this is where mutual
  exclusion enters. That the test for a full queue stays true until the store follows
  from workers making the queue shorter only. The arithmetic of the ring is in lemmas
  of its own.
- `ProducerNeverForgotten`, `WorkersNeverForgotten`. Both rest on the same point: the
  mutex that stands for the event is free from the wakeup until a sleeper takes it, and
  the sleeper then tests again.
- `SingleWorkerNeverUnderflows` assumes a set of one worker. `SingleInv` says that its
  test of `numInQ` stays true up to its decrement. `queue_underflow` shows what the
  assumption is for.

- `StepsImplementFifo`, for one worker and a ring of any size. The ring
  read from `last` on is the queue, what a thread holds is its hand. The invariant is that of
  the theorems above with `StoredInv`: between `q[first] = ...` and the store of `numInQ` the
  slot behind the queue holds the item. Storing leaves the queue alone because that slot
  differs from every slot in use (`SlotsDiffer`, from the queue not being full), and taking
  shifts the rest by one (`SlotShift`, the arithmetic of `%`). The one worker is
  what keeps the queue from being empty when it is taken from.
- `SingleWorkerServesOwnSocket` builds on the same invariant: the open descriptors in main's
  hand, in the queue and in the worker's hand are all different, so that the lowest free number
  `accept` hands out is in none of them, and `close` frees the worker's alone.
- `QueueIsShared`, for any number of workers: what `numInQ` counts (`Waiting`) is one FIFO.
  `PutCount` appends to it when there is room, `GetCount` takes its first item, all other steps
  leave it alone, and the tests of lines 29 and 44, made without the mutex, see whether it is
  full or empty. That is the queue `PoolServer` has, statement by statement. The hypotheses are
  that the ring is not overdrawn before the step and that the step is not a take from the empty
  queue: with two workers that take happens (`queue_underflow`), and `PoolServer` has it as
  `Underflow`. `RingInv` holds behind it as well; its part `PlacedInv` says where the item lies
  that is stored and not yet counted.

`FileTransferProofs` has the lemmas on `client.c` and `handle_request` that the copy servers
need, for any number of clients, threads and files and files of any length. `W` stands for the
places a server adds to the backlog and the handlers.

- `ConnInv(W)`: a connection is in the backlog once, in `W`, or with one handler, and is not
  closed there; between two copies a copier's is nowhere, so that its name can be used
  again. Without the last part a new connection might meet its predecessor.
- `TransferInv(W)`: nothing has been sent on a connection that waits; from `open` on the
  handler has the name the client asked for; what it has sent is what the client has read,
  then what is on the way, whatever its disk did with it. That is `NothingLostOrRepeated`
  with what leads up to it.
- `PrefixInv`: what a client has read and will get is a beginning of its file even after the
  server has ended, when `TransferInv` says nothing any more; and all of it, if the
  connection was closed by a server that still runs.

Per action there is one lemma for each of the three, and one that maps the step to `Grow`,
`LocalOpenFails`, `Advance`, `ServerStops`, `ClientStops` or a stutter of `CopyService`.

`LeaderFollowerProofs` (`W` is empty):

- `OneLeaderAlways`: the threads at `accept`, `unlock` and `quit` are exactly those that hold
  `leader_mutex`; inductive with the type of `hpc` alone.
- `TypeCorrect`, `OneHandlerEachAlways`: from `ThreadInv`, which is `ConnInv` with the fact that
  a thread that handles a request has a connection.
- `NothingLostOrRepeatedAlways`: from `DataInv`, which adds `TransferInv`.
- `StepsImplementCopyService`: from `DataInv` and `PrefixInv`, the safety part of
  `ImplementsCopyService`.

`PerRequestProofs` (`W` is what main has accepted and not given to a thread): `TypeCorrect`,
`OneThreadAtATimeAlways`, `NothingLostOrRepeatedAlways`, `StepsImplementCopyService`. One
invariant serves all four. That the element of `thread_array` a new thread gets is not in
use follows from the join; behind the end of the array the server may end at any step.
`OneSlotPerConnectionAlways` (`SlotInv`) counts the set `Seen` of connections, each a copier and
a place in its plan, that the server has closed: it grows by one in the step that ends a
thread, in no other, and `thread_count` follows at the join.

`PoolServerProofs` (`W` is `Held`, what main has in its hand and what is on the queue, -1
apart): `OnePlaceAlways`, `TypeCorrect`, `NothingLostOrRepeatedAlways`,
`StepsImplementCopyService`, from `PoolInv`. It adds to `ConnInv(Held)` that a connection is
on the queue once and not also in main's hand, that a worker on its way to the queue
has none (`QueueInv`), and that an open one is somewhere (`NotLost`); a -1 may be there any
number of times. These are about the pool up to its first underflow, as the model is:
`OnePlace` has it as its hypothesis, for the others it is where `Next` ends.

`ForkCopyProofs`, for any number of files, blocks and any window:

- `NoZombieIsForgotten`: with the type of `schild` the property is inductive; the point is the
  loop of `waitpid` and that SIGCHLD can pend once while the handler runs.
- `TypeCorrect` (with `HandInv`, what main holds at each statement) and `CopyStaysWithinFile`:
  the copy, what is on the way and what is left to send never exceed the file.
- `ServedCopiesNeverEnd`: what the run `fork_end` shows on one file of one block is so for
  every number of files of every size. `ForkInv` says where each connection is at the server
  (`PlaceInv`), which process of the client holds it (`ClientInv`), and that a child of the
  server that has ended while its client had not was asked for a file that is not there
  (`EndInv`): until then it waits for an end of file that the client is to give.

`JobShellProofs`, for any number of commands and blocks: `TypeCorrect` (`CountInv`);
`StackListsChildrenAlways`, `OnlyFailedForksStayAlways`, `CommandsRunAlone`, from `StackInv`:
a child of the shell has its entry or is the plain command that is waited for, and while a
command is read, checked and forked there is no child. `RemoveFrees` is what `check_children`
does to the stack. `OnlyPassThroughStaysOpenAlways` (`PipeInv`, what the shell holds open at each
statement), and `InputEnds` (`EndInv`): the write end of a pipe is with its one writer only,
so that whoever reads it comes to the end when the writer has.

`SmallProgramsProofs`: a step of `SmallPrograms` is one of the program that runs and leaves the
others alone (`OneProgramRuns`), so each theorem has an invariant of its own program:

- `ThirdIsLastAlways` (`SignalInv`): a handler is on the stack once, as its signal waits while it
  runs, so only one call at a time is between the count and its test.
- `ParentsEndLastAlways` (`TreeInv`): how many children of a process are born and not reaped
  follows from the statement it is at.
- `RunsFirstAlways` (`ExecInv`): what was skipped along PATH could not be run.
- `ShowsWholeAlways` (`LsInv`): what the client has printed, what is on the way and what the child
  still has to write make up the listing, in that order (`LsContents`); a client is in the
  backlog, at the server, or hung up on, and has to ask anew before it is there again
  (`LsPlaces`).
- `TreeCanBeReadAlways`, `StaysMeansListedAlways` (`DirInv`): no entry is met twice
  (`DirOnce`); behind the line of a directory that is being read there are only lines that are
  indented more (`DirShape`); and of each entry that is there it is known why it is not
  listed or at which directory of the stack it will be met (`DirStays`).
- `DoneMeansCopiedAlways` (`CopyInv`): method 1 has copied a front of the source; in the others
  everything before `wr` is copied, behind it is what was there, and the two offsets are the same
  until a write is cut short; from then on what is in front of `cut` is. No target grows beyond
  the longer of the source and what it was (`NotTooLong`), as `wr` does not overtake `rd`.
- `InStepAlways` (`LexInv`): for each place of the program, where the text can be. The program
  reads pairs of characters, so it is at times one character behind the scanner; the invariant
  says which character it still has to read then (`InText`).
- `FindsWhatIsListedAlways`, `InsertionLosesNothingAlways` (`MusicInv`): the songs in use are in
  order at every command and at every line of the file that is loaded (`Ordered`); in an array in
  order the binary search comes to the song, or to the slot where it belongs (`SearchFinds`),
  and what is shifted from there stays in order. That an insertion adds one song and takes none
  away is `InsertionCounts`; where faulty removals have left a counter of -1, the other half
  of the property, that nothing is listed then, is `Listed` of 0 songs.
- `LikeTheStandardAlways`: each of the functions of `string.h` with its exceptions
  (`StrstrEmpty` is that of the empty needle), for any two strings over any set of chars,
  and for any number of values of `size_t` that is larger than a string.
- `TokensAreFieldsAlways` (`StringInv`): the tokens returned are the first fields, the next one
  begins at `p`, and the string from there on is as it was given (`Cutting`).
- `ArgsAreWordsAlways` (`LineInv`): the words of the line satisfy the equation by which `parse` is
  defined, and nothing else does (`ParseIsWords`).
- `TypesAlways`: the `TypeOK` of all nine. Most are part of the invariants above. Those that are
  not need an argument: three handlers at most, because no signal's handler is on the stack
  twice (`SignalTypes`, by counting); no offset behind the end of a file of full length
  (`CopySizes`); no client with more than a listing, by what is printed, on the way and to be
  written taken together (`LsLengths`); words without a blank in them (`WordsAreLetters`).

What a recursive function computes is proved without a rule of induction, which the provers
cannot instantiate. `LeastElement` gives the least of a set of naturals that is not empty,
here of the arguments for which a claim fails; below it the claim holds, and one step of the
recursion carries it over. A function defined by `f[x \in S] == ...` is the one that
satisfies its equation, if there is one; `TailRecursion` says that there is one when each
argument leads to the next until an end is reached, as a loop does. The k-th field or word
is the element of rank k of a set of positions (`RankOnto`, `WithoutLeast`), which takes
facts on the cardinality of finite sets.

The assumptions are the named ASSUMEs of the modules: positive sizes, the main thread not
being a worker, `None` and `Nobody` being nobody and no file, files having a length, the tree
of `DirListing` having a root above which there is nothing. TLC evaluates them in
every run that uses the module.

Proved and not in a run: `TypeOK` of `LeaderFollower`, `PerRequest`, `PoolServer`,
`ForkCopy` and `JobShell`, `OneHandlerEach`, `OneThreadAtATime`, `NothingLostOrRepeated` of
`PerRequest` and `PoolServer`, `CopyWithinFile`, `ServedCopyNeverEnds`, `OneCommandAtATime`,
`InputEndsWithItsWriter`, `QueueStep`, `StepsOfFifo`, `StepsOfService` (the last two are
implied by `ImplementsFifo` and `ImplementsCopyService`, which are in runs).

Only model-checked is all liveness (`Drains`, `Answered`, `FileArrives`, `MissingFileEnds`,
`ReturnsUnlessPipeFull`, `EndsUnlessOpen`, the progress of `CopyService` and the FIFO): fairness
and ENABLED are out of reach of the installed provers.

## 6. Not modelled

Contents of files below the size of a buffer (except in `FileCopy`), names, paths and
messages; a name that arrives in pieces; descriptor and memory exhaustion other than the
bounds above; what the client's missing `O_TRUNC` leaves behind a copy that is shorter than
an older local file, as its directories start empty; the bytes of a buffer that a short
local `write` did take (the block counts as missed); the exact second at which the alarm
rings (it may ring whenever the timer runs); redirected files of the shell, which make
nobody wait; the pool behind an underflow; what a line of `ls` says of its entry; `strlen`,
`strcpy`, `strcat` and `strdup`, which on sequences are the length and concatenation; `read`
that fails in the middle of a copy of `my_copy`; symbolic links, which the `stat` of `ls`
follows, and names longer than the `new_path[100]` that `my_ls.c` builds: `DirListing` has
plain trees only; the clocks of `Timer`, the scripts and the build files.

Three other arrays of fixed size have no bound in the code either: `process_stack`, of which
`OnlyFailedForksStay` says what stays on it, `music_library[1024]`, and `indent[100]` in
both `my_ls.c`, which is enough for directories nested 24 deep. `MaxSongs` and the tree of
the run stay below them.
