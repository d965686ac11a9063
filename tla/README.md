# Models and proofs of linux-server-learn

TLA+ modules that model the parts of this repository that have a state worth
the name, TLC configurations that check them on small instances, and TLAPS
proofs for every value of the constants.

## The system

The repository is a set of Linux server exercises. CMake builds one of them,
`processpool_cgi.cpp`; the others are programs of one file, some of them with
a header they share. Nothing is persisted, and no two programs talk to each
other. The parts with a protocol of their own:

| part | state | operations | interacts with | hard behaviour | what makes it correct |
|---|---|---|---|---|---|
| process pool (`processpool.h`) | per child: pid, socket pair; round-robin counter; `m_stop`; signal pipe; epoll sets | dispatch a connection, accept it, serve it, reap, stop | parent and children by socket pairs, a shared listening socket, signals | signals between any two calls, edge-triggered events that coalesce, crashes, blocking `send`, an uninitialised local | no message without a connection, no loop without end, no blocked dispatch, SIGTERM ends the children |
| CGI connection (`processpool_cgi.cpp`) | buffer, read index | `process` on each event | called by a pool's child | a line cut anywhere, a full buffer, reset | the name is the first line; nothing is dropped or stranded |
| sorted timer list (`lst_timer.h`) | doubly linked list, head, tail | add, adjust, delete, tick | callbacks into its user | pointer surgery at head, tail, middle; addresses reused | sorted, well linked; a tick runs exactly what is due, in order |
| timer wheel (`time_wheel_timer.h`) | slots, current slot, rotations | add, delete, tick | callbacks | multiples of the wheel's length, adding at any position | each callback runs on its tick |
| inactive connection closer (`close_inactivate_conn.cpp`) | connections, `users[fd].timer`, the list, signal pipe | accept, read, close, signals | the timer list | descriptors and addresses reused while events are pending, signals in or out of `epoll_wait` | each connection has its own live timer; events are about the connection they name |
| heap timer (`min_heap.cpp`) | array, size, capacity | construct (empty, or from an array), add | nobody calls it | `add_timer` makes a hole and never fills it | heap order, no timer lost (false of `add_timer`) |
| chat server (`chatroom_server.cpp`) | array of `pollfd`, `users` | accept, read, remove | clients | entries moved while the loop runs, several events for one entry | each user at one index, each event handled once, who left is dropped |
| chat server (`chatroom_multiprocess_server.cpp`) | `users`, `sub_process`, shared memory | accept and fork, forward, reap | one child per user | tables compacted while children keep indices, so that they come to share a segment; shared buffers overwritten while they are read; forks that fail; uninitialised pids | the count of users is that of the entries, no older text for a new one, no child left at the end |
| HTTP parsers (`http_conn.*`, `parse_http.cpp`) | buffer, indices, line and request state machines | read, parse, answer | `http_conn`: thread pool, epoll with EPOLLONESHOT | lines cut anywhere, NUL bytes in them, parsing resumed after a bad request | the result does not depend on the cuts |
| thread pool (`threadpool.h`, `locker.h`) | list, semaphore, mutex, `m_stop` | append, run, destroy | workers | list and semaphore change at different times; destruction under sleeping workers | posts match requests, each request taken once, all processed |
| one-shot echo threads (`test_epolloneshot.cpp`) | one-shot registrations, a local whose address a thread gets | accept, start a thread, echo, arm again | threads, clients | the argument overwritten before it is read, data that comes around the arming | one reader per connection, no event lost |
| small concurrency exercises (`deadlock.cpp`, `pv.cpp`, `thread_fork.cpp`) | a lock or two | | | order of locks | |

The rest (about 25 files) demonstrates single system calls.

## What is modelled, and how

**ProcessPool** models `processpool.h` whole, with the environment it needs.

| model | code |
|---|---|
| `parent.pc` | `fork`: the constructor's loop; `wait`: in `epoll_wait`; `batch`: going through the events it returned; `sigs`: going through the bytes of the signal pipe; `exit` |
| `child[i].pc` | `none`, `setup` (before `setup_sig_pipe`, SIGTERM kills it), `wait`, `batch`, `zombie`, `gone` (reaped) |
| `ready`, `batch` | the events epoll would report, and those it has reported that are still to be handled (edge triggered: an event in `ready` is void once the descriptor was emptied and nothing came since) |
| `pend`, `bytes`, `todo` | signals pending for a process; bytes its handler wrote to the signal pipe; bytes `recv` took from it. Bytes are counted by kind, which makes their order arbitrary; SIGINT is handled as SIGTERM is |
| `msgs` | the four-byte messages in the socket pairs, numbered by a ghost counter |
| `m_pid`, `pid` | the parent's table, and the uninitialised local of lines 235 and 334, which keeps whatever value of `Garbage` it holds: the build leaves one stack slot untouched. `{0}` is what the built program has there. It may be the pid of a CGI program, too, which is a value that is no child's; in the child's loop the program that has it is then reaped without a byte (`same`, `MayBeSame`) |
| `Reap` | one SIGCHLD byte, with the loop `while ((pid == waitpid(..)) > 0)` as written |
| `ChildConn` | `users[sockfd].process()`, by its effect on the child: the connection is kept, closed, or closed after a fork |

An action is what a process does between two system calls whose order with
other processes matters: a dispatch, an `accept`, the handling of one byte. The
handler runs between any two of them. A signal that arrives while a child
sleeps in `epoll_wait` and no event is ready interrupts it
(`ChildInterrupted`). A CGI program inherits its child's end of the pipe
(`PipeOpen`), and every child the parent's ends of the pipes made before it
(`PipeHangup`). SIGCHLD for children stopped by job control is left out.

**CgiConn** models one connection: the client's bytes arrive in pieces of any
size at any time, also between two calls of `recv`. When the buffer is full, `recv`
is asked for 0 bytes: it returns 0 if some are waiting or the client has shut its
side, which the code takes for an end of file, and fails with EAGAIN if none are.
**CgiConnMC**, the module of its run, gives it all short streams, and names that differ
from those of the HTTP parsers, so that one module can hold the proofs about both.

**TimerList** models `lst_timer.h` with `head`, `tail`, `prev`, `next`,
`expire` as they are; the loop of the private `add_timer` and the loop of
`tick` take a step per iteration. A timer is an address, which can be
allocated again after it was freed, with what was in it. **TimerQueue** is what
the list promises, and TimerList is checked to implement it. `adjust_timer` is
called as the one program that uses it does: with a later time.

**TimeWheel** models `time_wheel_timer.h`; **Countdown** is what it promises of the
timeout given to `add_timer`, in seconds: the callback runs once, on the first tick by
which more than the timeout has passed, though never on the very next tick
(`LetsPass`). It knows nothing of how the wheel counts ticks (`TicksOf`). The
arithmetic of slots and rotations is the code's; the doubly linked list of a slot
is a set. **TimeWheelMC**, the module of its run, gives it names that differ from the sorted
list's, so that one module can hold the proofs about both.

**CloseInactive** models `close_inactivate_conn.cpp`. Since the reading end of
the signal pipe is not in the epoll set, the code after `recv` on it and
`time_handler` cannot run and have no action. It uses the timer list through
its promise: a set of live timers, from which one is deleted.

**PollChat** models `chatroom_server.cpp`.

| model | code |
|---|---|
| `i` | the index of the loop over `fds`, -1 in `poll` |
| `fds[e]` | `fd`, whether `POLLOUT` is asked for (once a text has come; or-ing with `~POLLIN` sets it too, and `POLLIN` stays), `revents` |
| `users[fd]` | whose address the slot of a descriptor holds |
| `conn[fd]` | the kernel's side: pieces unread, whether the peer is there, a pending error, and (ghost) whose connection it is |
| `due` | ghost: what the last `poll` reported and the pass has not come to |

The branches of the body are tried in the code's order (`Branch`). Users send,
leave and reset between any two turns of the loop. A text never reaches
anybody, as no line sets `write_buf`: lines 171 to 174 have no action.

**MultiChat** models `chatroom_multiprocess_server.cpp`: the parent and a process per
user.

| model | code |
|---|---|
| `server` | the parent's loop: events, `user_count`, `stop_server`, `terminate`, signals raised (`signals`) and read from the pipe (`todo`) |
| `users[s]` | of each slot of `users`, the parent's end of the pipe; the client's address and socket are not used after the fork |
| `pipe[f]` | of each descriptor, the child whose pipe the parent has there, nothing, or one that a failing fork left open |
| `child[k].idx` | the index of its segment, fixed at the fork |
| `child[k].slot` | its entry in `sub_process`, -1 when erased |
| `child[k].holds` | the parent's ends it inherited: while one is open, the child at the other end sees no end of file (`Held`, `HangUp`) |
| `child[k].up`, `down` | the announcements in its pipe, towards the parent and back |
| `segment[i]` | a part of the shared memory, as two halves |

The parent's actions are the branches of its loop over the events, or over the bytes of
the signal pipe, which come in any order. A child's are those of `run_child`; `memset`,
`recv` into the segment and `send` from it are separate steps, and the last two work
through the halves one after the other, so that a reader finds parts of texts. A text is
its writer and a number. Two values are never assigned in the code, and are choices in the
model. The `pid` of lines 322 to 324 may be that of any child `waitpid` returns
(`ReapUser`), or not (`ReapOther`), anew each time; in the first case the record of the
last user moves, but not its child's index or entry, so that an index is given out again
while in use and a wrong pipe is closed later. (If the unassigned `pid` is what `waitpid`
returns when there is nothing to reap, the loop spins: no step.) The other is
`users[].pid`, which line 355 kills (`KillAll`: the whole group, or nobody). A descriptor
closed in one event may be in the batch, or be another child's by then. No pid is used
twice.

**HttpParse** models the parsers of `parse_http.cpp` and of `http_conn.cpp`, one or the
other by the variable `parser`. A byte is a CR, an LF, a NUL or one of three words;
`ParseLine` is `parse_line` with its indices (in `http_conn` the function is the same but
for names), `Text` the C string that `strpbrk` and the comparisons see, which ends at the
first NUL, be it a zeroed line end or one the client sent. The reference definition,
`Verdict`, speaks of the bytes received and knows neither pieces nor indices.
`http_conn`'s `process` has the effect of line 267 as it is compiled, `(line_status ==
parse_line()) == LINE_OK`. It is modelled as called after each read with new bytes, and
`write` when the socket can be written to, which is what they are for; `read` returns
false in every case, and `web_server.cpp` closes the connection on that. Whether a request
line is taken depends on the length of its url (`MayBeTaken`, a choice); `do_request` and
`process_write` are their outcomes, a reply to write or an end of the connection. (The
latter calls `add_content_length`, which is declared and not defined, so that it does not
link.) `write` sends the reply until it fails.

**ThreadPool** models `threadpool.h` with the semaphore and mutex of
`locker.h`: the constructor one thread at a time, `append` as lock, refusal or
push, post; `run` as wait, lock and look, pop and unlock, process. Line 71 names
the constructor of the mutex where it means `lock()`, so that no caller of
`append` compiles; the model locks. From the destructor on, or when the
constructor throws with workers running, these use freed memory: the model ends.

**OneShot** models `test_epolloneshot.cpp`. `local` is the stack slot of
`fds_for_new_worker`; a thread reads it when it comes to run, so `StartThread`
for the next descriptor may come first, and `Accept` may put other locals there.
`mishap` is a ghost that remembers that an argument was lost this way, or that
`pthread_create` failed. The properties are about runs without one, and say what the
one-shot registration gives then; that the argument may be lost is a fault of the code
which the model has and no property denies.

Abstractions common to all: descriptors, messages and bytes are model values or
small numbers, nothing is printed, system calls that fail only when the machine
is out of resources do not fail (except `fork` in CgiConn and MultiChat), and assertions on
them are left out.

## The runs

All bounds are constants of the configurations; a pass explores every state.

| run | shows | bounds and why they are enough |
|---|---|---|
| PoolDispatch | AcceptBacked, PipeEdgeBacked, FullPipeIsRead, RoundRobin, ReapBacked, NoBusyReap, MarkedIsReaped | two children, pipes of two messages, three connections, one signal, one crash, `pid` holding 0 or the first child's pid: a pipe is full, events coalesce, a child dies with messages unread, a child takes a connection announced to another, two SIGCHLDs merge |
| PoolServe | ChildReapBacked, TermEndsChildren, ConnectionsServed | `Backlog = 1`: a client connects only when none is waiting, also before and during set-up. Two children, two CGI programs whose SIGCHLDs merge and which may outlive their child, SIGTERM and a crash at any moment; `pid` holds 0, or 3, which is no child's and may be a CGI program's |
| PoolBurst | ConnectionsServed is violated | `Backlog = 2`: two connections waiting together |
| CgiConn | NameIsFirstLine, NoRequestDropped, NothingStranded, Answered | all streams of up to five bytes of three kinds, a buffer of four: CRLF at and over each edge of a piece and of the buffer, two CRLFs, a buffer filled exactly and one byte more |
| TimeWheel | InOneSlot, FiresOnItsTick | three slots, intervals of two, timeouts below one interval, of a whole turn and of two turns; three timers so that a slot holds a firing and a waiting one |
| TimerList | WellLinked, RunsDueInOrder, CallsReturn | three timers and four times: head, middle and tail, ties, every move of an adjusted timer |
| CloseInactive | TimerPerConn, EventsAreCurrent | two descriptors, three connections, so that a descriptor is reused while the other's events are pending |
| PollChat | EntriesMatch, NothingPassedOver, LeaverDropped | two users, three descriptors and four connections: a full server, the last entry moved into the middle and onto itself, a descriptor reused, a reset with and without text unread |
| MultiChat | CountedAreKnown, NothingOlder, StopsWhenAllReaped | `USER_LIMIT = 1`, so two users at a time (the test of line 261 lets one more in), three connections, any fork may fail, texts and signals to stop are two in all: two texts of one user are what an older one needs, one text and one signal, or two signals, meet in any order. Among the states explored: two children alive with one index, the pipe of a child alive closed by mistake, descriptors leaked, a text cleared or overwritten between its halves |
| HttpParse | CutIndependent, GotIsEarned, ServedUnended | all streams of up to seven bytes over six letters, cut in every way: a request line, a header, an empty line or a NUL in its place |
| ThreadPool | PostsMatch, TakenOnce, TasksServed | three workers, a limit of one (so two requests in the list, line 72), five requests: refusals, a worker between wait and lock while others overtake it |
| OneShot | SoleReader, NewsIsSeen | two descriptors, three connections, so that one is used again, three pieces, three threads |

Deadlock is not checked: every server may sleep for ever when its clients,
whose actions are bounded, have nothing more to say.

Each property was also seen to fail on a model with a plausible mistake; the
mistaken operators stand in the modules before those they replace, under names
with a suffix (`SuccessorNoWrap`), and no specification uses them.

### Fairness

`FairSpec` of ProcessPool: weak fairness of each process's next step and of the
delivery of pending signals. The processes are scheduled by the kernel and no
step waits for another forever, except `send` on a full pipe, which is a guard
of `Dispatch`. Nothing is assumed of clients, CGI programs or the operator. In
CgiConn, TimerList and PollChat, weak fairness of the one process's steps. In
ThreadPool, of each worker's steps and of an `append` that has begun; weak
fairness of a worker's next step is enough, since a request is anyone's, and a post
left over stays until some worker takes it. The other modules state none and
have no liveness property.

### Findings

PoolBurst is the one run that ends in a violation: connections that come together are
stranded, where the comment "new connect" (`processpool.h:196`) takes an event
for a connection: edge-triggered events coalesce, and one connection is
dispatched, and one accepted, per event (`:296`, `:208`).

Other facts about the code met while modelling, each in the model as the code has it:

- `processpool.h:336` and `:344` compare where they mean to assign, so one child
  is reaped per SIGCHLD byte and none is marked as joined; `:188` makes a
  signal that interrupts `epoll_wait` end a child.
- `close_inactivate_conn.cpp:110`: the signal pipe is never watched, so no signal is
  handled; `:184`: one `recv` per edge leaves data, or the end of file, unread.
- `processpool.h:344`: a dead child keeps its turn, and what is dispatched to it waits
  for a later message to a child alive.
- `chatroom_multiprocess_server.cpp:324` compares an unassigned `pid`; no line
  assigns `users[].pid`, which `:355` kills; `:261` lets one user more in than
  there are segments. `:334` moves a user's record and not what his child knows of it:
  two children may then share a segment, and a later death closes the pipe of a child
  alive. A segment is cleared before each `recv` and read without regard to its writer,
  so that a text announced may be sent empty, later, mixed with another, or as another
  user's. One announcement is read per edge (`:149`, `:371`), so that of two that come
  together one waits for the next.
  Children inherit the parent's ends of the pipes, so that a closed one may be no end of
  file; a `fork` that fails leaves both ends open. After the decision to stop, the rest
  of the batch may still fork a child.
- `chatroom_server.cpp` never sends anything (`write_buf` is not set).
- `http_conn.cpp:166`: `read` returns false in every case; `:201` skips seven
  characters that are not there; `:267` chains two comparisons, so that the loop
  body runs only while no line is complete, once: a request is accepted before its line
  has ended, and served only if the client then sends a NUL byte. `write` (`:350`) sends
  a finished reply again and again until the socket takes no more.
- `parse_http.cpp:123` takes a header line that begins with a NUL byte for the empty one.
- `threadpool.h:71` does not compile where `append` is used.
- `min_heap.cpp:95` to `:106`: `add_timer` never stores the timer.

## What is proved

The proofs are in modules of their own, for all values of the constants that
satisfy the modules' assumptions.

- **ProcessPool_proof**: all safety invariants of `ProcessPool`. For `ReapBacked` the
  inductive invariant joins the types with: the SIGCHLD bytes pending, unread or taken
  (`Debt`) are at most the zombies, plus one if a child with the pid that `pid` happens to
  hold was reaped (`Credit`). Neither a signal's merging with one already pending, nor a
  second child's death may raise the left side more than the right; and in the one step
  that reaps without spending a byte, the pid reaped is the garbage value. `NoBusyReap`
  follows, since 0 and -1 are no child's pid. `ChildReapBacked` is the same of a child and
  its CGI programs, one of which may have the pid its loop compares with. For what goes
  through the pipes, `PipeInv` joins `AcceptBacked` and `RoundRobin` with three facts of
  each child (`ChildOK`): its pipe holds at most `PipeCap` messages; it has no events
  before it is set up and none left of a batch when it waits; its events of the pipe are
  no more than its messages, unless the pipe has hung up, and at least one when the pipe
  is full. The last two hold each other up: an event merged with one already there is a
  message more than events, and the one event left is enough for the child to go on. Of
  the parent one must know that it has no events of the listener before it serves
  (`ParentOK`), of the messages that their numbers are at most `sent` (`Numbered`).
  `MarkedIsReaped` has an invariant of its own, `MarkInv`: while the parent forks, the
  children that are there are unmarked.
- **Lines_proof**: the programs that read lines from a stream cut anywhere. `ConnTypeOK`,
  `NothingStranded`, `NameIsFirstLine`, `NoRequestDropped` of the CGI connection. The last
  two are not inductive: while `process` searches piece by piece, one must know that what
  was received before holds no complete line (`NoLineYet`). That the first end found in
  the new bytes is the first of the stream needs a least element, which the library's
  theorem on well-founded relations gives. `CutIndependent`, `GotIsEarned`,
  `ServedUnended` of the HTTP parsers, for streams with NUL bytes anywhere. Two kinds of
  lemma meet: what more bytes change in the reference (a verdict once given stands,
  `VerdictStands`; a stray line end makes all later lines worthless, `StrayEndsAll`), and
  what `parse_line` finds, which is one of three things (`ParseLineFinds`: an open line, a
  stray end, a complete line), provided the buffer is as `Searched` says: what was
  received with the ends of the lines read zeroed, no end in the part of the next line
  looked at, no stray before. `Replied` says what the answers given tell of the bytes
  read; it is the invariant between two calls of `parse_line`, where `CutIndependent` is
  silent. For `http_conn` the reason is `Unserved`: a step of `process_read` that goes on
  found no complete line, and starts with a byte to look at, so that a text without any
  was cut off by a NUL among the bytes received.
- **MultiChat_proof**: `CountedAreKnown`, `NothingOlder`, `StopsWhenAllReaped`, with any
  child matching the unassigned pid. The invariant is of the types and four facts.
  `InOrder`: children are numbered as they are forked, one for a connection at most.
  `Counted`: the count is the cardinality of the children with an entry, and every child
  not reaped has one; this is what stopping needs. `Written`: all that any segment holds
  of a user is the last text his child received, in the segment of that child's index,
  and nothing of his while the child is between `memset` and `recv`; it is kept however many
  children write there, since each clears the whole segment before it writes. `Told`: an
  announcement on its way, in a pipe or being passed on, is not newer than the last
  text of its writer. The last two give `NothingOlder`. The closing of pipes takes
  announcements away and adds none (`HangUpKeeps`); most steps change nothing of
  a child that the facts speak of (`Steady`, `Follows`), and `ReapUser`, which takes one
  entry away and one from the count, is a lemma on cardinalities.
- **Timers_proof**: both kinds of timer. `WheelTypeOK`, `InOneSlot`, and that the wheel
  implements `Countdown`. The refinement maps a timer to `rotation * N` plus the slots
  from the current one to its own; the lemmas are about quotient and remainder
  (`DivMod`, `ModSmall`), about the tick on which a timeout is over (`TicksPass`) and
  about that distance when a timer is placed (`SlotAhead`)
  and when the wheel turns (`Nearer`). `TypeOK`, `WellLinked` of the sorted list, and
  that the list implements `TimerQueue`. The inductive invariant speaks of links, not of
  positions: neighbours in the list name each other, head and tail name nobody beyond
  them, and no part of the list but the whole holds the head and with each timer the
  next (`Chain`); times do not fall along a link (`Ordered`); what the loops hold in
  their local variables is in the list, and what they have passed is not later
  (`Locals`). Putting a timer in and taking one out keep `Chain` in each of the
  positions (the lemmas on list surgery). That the head expires first (`FirstExpires`)
  is what the refinement needs: those that do not expire before the head are closed under
  `next`. `WellLinked` says this with the n-th timer from the head, a recursive
  function: that it exists is a least-element argument (`AllOfNat`), and that it ends at
  the tail after as many steps as there are timers needs the timers to be distinct, and
  finitely many (`TimersAssumption`: they are addresses).
- **CloseInactive_proof**: `TypeOK`, `TimerPerConn`, `EventsAreCurrent`, which together
  are inductive: an event's being current is what makes the deletion in `ReadEnd` delete
  the right timer.
- **ThreadPool_proof**: `PostsMatch`, `TakenOnce`. `PostsMatch` counts the workers
  awake, and needs the cardinality lemmas for a worker joining or leaving them. For
  `TakenOnce` one must know besides who holds the mutex (`Held`), and that a request is
  in one place: in the list, with a worker, refused or processed, and requests leave the
  list in the order of `made` (`Answered`).
- **PollChat_proof**: `EntriesMatch`, `NothingPassedOver`. They are proved together with
  the types, with `FirstEntry` (entry 0 is the listener's, and reports only what the
  listener has) and `RoomToAccept` (a descriptor is free for each user waiting). When
  the last entry is moved, the set of what is still to come loses the entry that is
  handled and nothing else.
- **OneShot_proof**: `SoleReader`, `NewsIsSeen`. As long as there was no mishap, a
  descriptor goes round: armed, reported, in the hands of one thread, armed again
  (`Orderly`: `EventsInTurn`, `ThreadsInTurn`, `NothingLost`).

Only model-checked: the liveness properties (`TermEndsChildren`, `ConnectionsServed`,
`Answered`, `CallsReturn`, `LeaverDropped`, `TasksServed`), since the proof system
handles neither fairness nor `ENABLED` here. Every other property of a passing run is
proved.

## Not modelled, and what is left

- Nothing to model: the exercises on single system calls, daemon and user-id
  set-up, the clients, `main.cpp`.
- `min_heap.cpp`: an unfinished class that no program includes. It has no operation
  that looks at a timer or takes one out (no `top`, `pop` or `tick`), and
  `add_timer` never stores the one it is given, so that nothing can be observed of the
  heap that its constructor makes of an array.
- `web_server.cpp`: it cannot be built (`threadpool.h:71`), and as written would
  close each connection at its first event. Of `http_conn`'s `do_request` and
  `process_write` only the outcomes are modelled, of `write` the loop: not the mapping of
  the file, nor the text of the replies.
- `deadlock.cpp`, `pv.cpp`, `thread_fork.cpp`: two or three steps in a fixed order,
  which is their point. `locker.h`'s `cond`: nothing uses it.
- The use of freed memory by a pool's workers after its end.

What would come next: the wall clock set back under the timer list (`adjust_timer` with
an earlier time), and the interruption of `epoll_wait` during set-up, neither of which a
property covers yet.
