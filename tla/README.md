# A TLA+ model of protobuf_sandbox

`protobuf_sandbox` is a server that takes commands (`payload.proto`: an id and a method)
over TCP and answers each with a `Response`. This directory holds TLA+ modules that
model it, TLC configurations that check them on small instances, and theorems about them
that TLAPS proves. `PROJECT.json` lists all of it: components, runs, mutants, the source
lines of every definition, findings, hazards, theorems.

## The system

| part | state it keeps | operations | how it interacts |
| --- | --- | --- | --- |
| server main (`server.cpp`) | `CtrlC` | the loop, the signal handler | calls `CommandProcessor`; a signal handler sets a flag it polls |
| `CommandProcessor` | `m_Running`, the FIFO `m_CmdFIFO` and its mutex, `m_response`, `m_latestResult`, the worker's `Done` | `init`, `Start`, `doWork`/`processCommands`, `Shutdown`; `recvCBRoutine` (receive thread); `programLoop` (worker thread) | shares the FIFO with the receive thread, the result with the worker, the socket with both |
| `SocketTransport` | `m_ReadBuffer`, `m_CmdBuffer`, the receive thread's `Done`, `m_CommStarted` | `StartComm`, `StopComm`, `update_rx` (receive thread) | cuts the byte stream into lines, calls `recvCBRoutine` |
| `LinuxSocket`, server mode | `m_ConnectionState`, `m_ClientSock`, `m_ServerSock` | `init`, `ListenForClient`, `readBlock`, `sendData`, `ResetConnection`, `CloseConnection`, destructor | written by the receive thread, read and closed by main, without a lock |
| `LinuxSocket`, client mode | the same members | `reconnect`, `readLine`, `sendData`, `CloseConnection` | used by the client only, in one thread; the server is at the other end |
| client (`client.cpp`) | a command counter | a fixed dialogue | stops at its first command: `newCmd` is null at line 105 |
| `CNT_JSON` | none (works on cJSON trees) | typed getters and setters, increments, `addParamsMap`, `copyItem`, merge, diff, files | a library; the server uses it to read its configuration |
| cJSON, `Logger`, `Callback`, `payload.proto` | - | third party; output; a forwarded call; message types | - |

What makes it hard: three threads with one mutex for the FIFO, and none for the socket
members, the `Done` flags and `m_Running`; clients that come and go at any moment; a
stream that is cut anywhere; shutdown by joins. And some undefined behaviour: a null
`newCmd` when the FIFO is empty, `set_center_point` past the end of an empty field, a
response without its required id, the join of a thread that was never created.

What makes each part correct:

- the FIFO: every command is taken once, in order; "empty" means empty;
- `processCommands`: one reply per command, in order, with the result that was asked
  for; nothing is done after a quit that is honoured;
- shutdown: it ends, and only after both threads have;
- `update_rx`: the lines handed over are the lines of the stream;
- the socket: CONNECTED means there is one, a live client is never forgotten, waiting
  clients get their turn, after `StopComm` nobody uses the sockets;
- `readLine`: it takes exactly one line, whatever the timing, and comes back in time;
- client and server together: a command that is sent is taken once, whole and in order,
  and answered;
- the attribute calls: a getter returns what was set, one call changes one name, a merge
  gives the source's values and keeps the rest, and it returns;
- the diff: one entry for each attribute whose value differs by more than an epsilon or
  that only the first object has, and an end; the map conversions: the way there and
  back changes nothing.

## Modules

- `CommandQueue` - what the FIFO promises: hand over, look at, take, and "nothing
  there". An abstract specification, no code.
- `CommandProcessor` - the server process: main, the worker, and the receive thread as
  the caller of `recvCBRoutine`. `main`, `rx` and `worker` are program counters.
  `LockFIFO`, `Front`, `PopFront`, `FindEmpty` are the critical section of
  `processCommands`; `RxLock`, `RxPush`, `RxCommit` that of `recvCBRoutine`, in which
  the read and the write of the deque are separate steps, so that without the mutex a
  push would be lost. `AnswerX` are the branches on the method, `Send` serialises and
  sends. `Shutdown`, `StopComm`, `JoinRx`, `JoinWorker` are the end. The sections under
  `m_Working_Results` are single steps: they only set the radius, and the end of the
  process is the only thing that can cut them short.
- `CommandProcessorProofs` - the theorems about the threads, the queue, the end and the
  replies.
- `SocketTransport` - the receive thread inside `update_rx`, the `LinuxSocket` members
  it shares with main, the kernel's side (backlog, open descriptors, bytes in flight)
  and the clients. One step per access to shared data: `RxAccept` (the kernel hands out
  a connection), `RxStore` (`m_ClientSock`) and `RxConnected` (the state) are three
  steps, as are the parts of `CloseConnection` and the test and use of `m_ClientSock` in
  `sendData`. When `fcntl` fails in `init` the listener stays `blocking`, and `accept`
  waits (`RxBlock`, `RxWake`). Bytes are a newline, a NUL and any other. Main's part
  between these calls is abstracted to "answers the delivered lines in order", which is
  what `CommandQueue` promises.
- `SocketTransportProofs` - the theorems about it.
- `JsonAttributes` - the attribute calls of `CNT_JSON` on one object, which is the
  sequence `doc` of cJSON items. `WithX` is what a setter makes of an object, `GetX`
  what a getter reads; the action of a call applies the one to `doc`. `mergeJSONObjects`
  is a loop with a position, so that it may fail to end.
- `JsonAttributesProofs` - the theorems about it.
- `LineReader` - what a call of `readLine` promises, as one step on the stream: one
  line, or a full buffer, of which it leaves open whether that is a success, or nothing
  when there is nothing, or a failure that loses an unfinished line. An abstract
  specification, no code.
- `ClientSocket` - `LinuxSocket` in client mode. `ReadLineEnd`, `ReadChar`, `ReadAgain`,
  `ReadEof`, `ReadError`, `ReadInterrupted` are the outcomes of the one-byte `read`,
  `EndOfTurn` is the timeout at the end of the loop's body. The server and the kernel
  are the environment: they send, close and reset at any moment. It implements
  `LineReader`: the abstract stream is what has been read of the line, followed by what
  has not been read.
- `ClientSocketProofs` - the theorems about it.
- `RemoteCall` - client and server composed, on bytes. The client's `sendCommand` and
  `readLineFromSocket` (by `LineReader`), then a pass of `update_rx` with its callbacks
  (`Receive`) and a pass of `processCommands` as one step each; their parts are in the
  modules above. `Parse` is the protobuf parser on a line, its result ignored as in
  `recvCBRoutine`: what was parsed before an error remains. A quit ends the service
  where `m_exit_on_quit` says so (`Stops`).
- `RemoteCallProofs` - the theorems about it.
- `JsonDiff` - `diffJSONObjects`, its recursion as a stack of calls, one item a step. A
  pointer to an item is the sequence from that item on, because `doesAttributeExist`
  goes on to the items behind it when it is asked of a scalar. `Close` are the pairs of
  numbers that `AreSame` takes for the same. `AllDue`, at its end, is what the
  comparison of objects should say, from the parts where they differ.
- `JsonDiffReference` - what a diff should say, by recursion over the two objects, and
  the properties that are about it. It is a module of its own because no proof can use a
  recursive operator.
- `JsonDiffProofs` - the theorems about `JsonDiff`.
- `JsonMaps` - the four map conversions; `JSONToMap` is a loop with a position and a
  stringstream that all items share. `Place` is the order of the keys in a `std::map`,
  that of the integers or of the strings: `MapToJSON` adds them in it. A null pointer
  makes `JSONToMap` return false at once.
- `JsonMapsProofs` - the theorems about it.
- `ListLemmas` - what these proofs share: least and greatest numbers, first places in a
  sequence, parts of a concatenation.
- `MC...` - values for the constants of these modules.

How the code appears in the models:

- Undefined behaviour is a choice of outcomes. `PastEnd` and `Uninit` say whether the
  two protobuf calls abort or go on (this depends on how the library and the headers
  were built), `BadJoin` what joining a handle that was never written does. The run and
  the proofs take every combination of them. A null dereference ends the process.
- A method is the first of the substrings `processCommands` looks for; the empty
  command's `ByteSize() == 0` branch sets what the last branch sets again.
- `contact_radius` is "default" or "random"; the center points are not in the model of
  the response, because the code never makes the repeated field any longer.
- A descriptor is named after its connection; a client connects once. Only main closes
  descriptors, and only once, at shutdown: the kernel can give a number out again only
  between `CloseClient` and `ForgetClient`, where the new connection is lost under its
  own number as it is under another.
- In `JsonAttributes` numbers are not negative; a double is counted in halves and
  truncated to `valueint`, a string is its length (what `strcpy` cares about), the
  contents of an array or object are a value that printing may round, or that does not
  parse any more once it is printed (an infinite number), of which the code does not
  ask: such an item is left out of a merge, or its null pointer ends the process where
  it should replace another. A double that no `int` holds becomes `INT_MIN`, which is
  what the conversion instruction of the usual processors gives; in C++ that conversion
  is undefined. The calls are made on an object, as everywhere in the repository; the
  branches for an item or an array are left out. `setAttributeValue_Int` writes to an
  item after it was replaced: when the item was freed by that the write has no effect,
  as with glibc's allocator.
- `STATE_NO_CONNECTION` and `STATE_SERVER_LISTENING` are unreachable for the receive
  thread of the server, and `m_ReceiveMode` is always the block mode.

## Runs

| run | checks |
| --- | --- |
| `command_processor` | types; one reply per command in order; a reply has the result that its command asked for, whatever earlier ones have left in it; nothing after quit; threads ended at exit; refinement of `CommandQueue`; a stop request ends the process; queued commands are taken |
| `socket_transport` | types; lines are the stream; no byte lost without NULs; CONNECTED has a socket; no live client forgotten; `StopComm` joins; when a client was connected it closes the listener and every client that is still there |
| `socket_transport_live` | `StopComm` returns, unless `accept` waits on a blocking listener; waiting clients are accepted |
| `json_attributes` | types; read-your-write, integers as doubles and the reverse too; one step, one name, and all other items where they were; no name lost; the result of a merge, which leaves out what does not parse, and that it returns, or dies of what does not parse, when no name is empty |
| `json_diff` | types; the diff says what is due, each once, and reads no null pointer, on objects with unambiguous names and the same types; it returns |
| `json_maps` | types; what is merged, also by a call that fails; there and back; a conversion returns |
| `client_socket` | types and the buffer's bounds; `LineReader` is implemented; the wait is bounded; a lost connection is noticed only when all was read; `readLine` returns |
| `remote_call` | types; which commands arrive, and in what shape; at most once and in order; each is answered, but behind a quit that is honoured |
| `reply_to_sender` | violated: the reply goes to the sender (`client.cpp:117`) |
| `stop_race` | violated: after `StopComm` in the listening state no client socket is open (`SocketTransport.cpp:166`) |
| `client_dialogue` | violated: the client reads the reply that is there (`client.cpp:117`) |
| `stale_reply` | violated: a reply holds the field of its own command only (`client.cpp:117`, `client.cpp:135`) |

Where code and docs part, and no run says so:

- a buffer that is full before the end of the line makes `readLine` return true,
  although "Buffer full before end of line found" (`LinuxSocket.cpp:290`) stands in
  front of a return false: `done` is set, and that test never succeeds. `LineReader`
  leaves the value open;
- the descriptor of a client that has gone is never closed, not even by `StopComm`,
  although `MAXCONNECTIONS` is 1;
- when `fcntl` cannot make the listener non-blocking `init` only logs it, and `StopComm`
  may then wait for ever for a thread that waits in `accept`;
- a setter adds a second item when the name exists with another type, although its
  comment says "the attribute doesn't exist"; `addParamsMap` sets only `valuedouble`;
- the diff says "was added" of what only the first object has (`CNT_JSON.c:1034`), with
  an empty text unless it is a string, and nothing of what only the second has; numbers
  are compared with an epsilon that does not depend on their size, and an infinite
  number differs from itself. The properties say what the code is due to say under these
  rules;
- `readLineFromSocket` passes its `true` as the timeout, not as `stopOnDisconnect`
  (`client.cpp:45`), and makes a string of all 512 characters of the buffer, so that the
  test for an empty line (`client.cpp:118`) never succeeds after a timeout;
- `sendCommand` sends no newline, which `update_rx` waits for: the commands stay in
  `m_CmdBuffer` until an id has the byte 10. `RemoteCall` takes clients that end their
  commands with one and clients that do not;
- a command with id 0 loses what is read behind that byte and may damage the command
  behind it: with the bytes cut after the zero, a `start` with id 0 is taken as a
  `start` with id 8. `CommandsArrive` excludes zero ids for this reason;
  `AtMostOnceInOrder` does not.

Every property of a passing run has a mutant: a definition with a plausible mistake,
kept next to the one it replaces, under which TLC finds the property violated.

The server as written dies at the first poll of an empty FIFO (`newCmd->ByteSize()` on
null). The model does too, so most of its behaviours are short; the properties speak of
those in which commands keep coming, and of the shutdown path, which a stop request
reaches before the next poll.

Bounds. `MaxCommands` = 3: enough for a command behind a quit, for two pushes during one
pop, and for a reply of which two earlier ones have set fields. Two clients: one
connected, one waiting; scripts of at most three bytes with a read buffer of three, so
that a line is read in one piece or in several, a read is full (two bytes and the NUL),
and the rest of one client's line is completed by the other's. `stop` is answered as
`start` is and left out of the commands. The liveness run of the transport uses fewer
inputs, as each client's last byte is what matters there.

For `JsonAttributes` two names that differ in case and an empty one, which also serves
as a name with no variant, in objects of three items: enough for a name with two types
or two cases in front of another. The ints are 0 and 1 with -2 as the smallest, the
doubles 0, 1/2, 1 and 2: one is truncated, and one is too large for an `int`. Of the
contents one prints as it is, one loses digits and one does not parse. `addParamsMap`
gets one number, as any other leaves the same disagreement in an item. A merge adds only
what is missing, so it may start with three items. The two names are the smallest set in
which the library's exact comparison and cJSON's disagree.

For `JsonDiff` all pairs of objects of at most two items: a first item of every type
under one of two names that differ in case, and a few second ones (another name, the
same name in the other case, no name); nested objects of up to two items, one level
further down for one of them. That is enough for a name that is found and not fetched,
for an item that is fetched under the other case, for an array compared with a scalar, a
longer or a shorter one, and for every crash of the code. Of the numbers two are less
than an epsilon apart and one is infinite. `DiffSaysWhatIsDue` and `ComparableSurvives`
are claimed for objects with unambiguous names and with the same types under the same
names; for others TLC finds wrong comparisons and crashes.

For `JsonMaps` two integers with three names, a name that is no integer, and a null
name, in two or three items over every map: a key that is replaced, one that is named
twice, and a failure at any position.

For `ClientSocket` a buffer of three bytes, five bytes of four kinds (two characters,
`\n`, `\r`), a timeout of two pauses and two connections: enough for a line that is
longer than the buffer, for a timeout before and within a line, for bytes left over for
the next call, and for a reconnection in between. A reset discards what was not read.

For `RemoteCall` three commands with ids 1, 10 (the newline), 1290 (two bytes, the
second a newline) and 0, a quit at the end, in the middle or first, `m_exit_on_quit`
both ways, and every division of the bytes into reads. The client's buffer holds eight
symbols in the passing run, so that it fills up, and forty in the violated one, where it
never does, as with the real 512.

A read-your-write of booleans is claimed only for names without another type:
`getAttributeValue_Bool` gives up at the first item of the name. `MergeEnds` assumes
named items because with an empty name the loop never ends (`CNT_JSON.c:800`);
`MergeUnnamed` is that step, which changes nothing. It lets the process die where what
does not parse is to replace an attribute.

Fairness. Each thread that can take a step takes one (`WF` on each thread): the
scheduler runs all threads. Taking the mutex needs no strong fairness since the receive
thread hands over at most `MaxCommands` commands; with an endless stream of them a
pthread mutex makes no such promise. In `FairSpec` of `SocketTransport` main need not
leave its loop or answer, but once inside a call it goes on; clients are assumed to
close in the end, an assumption about them and not about the code, without which a
waiting client waits for ever (one connection is served at a time). In `ClientSocket`
the loop of `readLine` goes on, and signals do not interrupt every `read`; nothing is
assumed of the server. In `RemoteCall` the server's threads run and the client's
`readLine` returns, which `ClientSocket` shows. In the JSON modules a call that was
begun goes on: the calls are sequential code.

## Proofs

`CommandProcessorProofs` proves, for every set of commands, every bound and all
outcomes:

- `TypeCorrect`: `TypeOK` always;
- `QuitIsLast`: `NothingAfterQuit` always;
- `ExitIsClean`: `JoinedBeforeExit` always;
- `QueueImplemented`: the specification implements `CommandQueue`.

All follow from `Invariance`: `IndInv` is inductive. None of the properties is so by
itself. `TypeOK` needs to know that main pops a non-empty deque (`HoldsInv`), which
needs mutual exclusion (`LockInv`), which needs to know that `StartComm` does not
restart a running thread (`ThreadInv`). `QueueInv` - accepted is taken followed by the
deque - carries the refinement. `QuitInv` says that once a quit has been taken main is
on the way out. Assumptions: those on the constants, which the runs evaluate.

It also proves, from the same invariant, of the replies:

- `EveryCommandAnswered`: `OneReplyPerCommand` always;
- `RepliesCarryResults`: `ReplyCarriesResult` always.

Neither is inductive. `ReplyCarriesResult` speaks of the replies sent, and `m_response`
is filled in several steps before it is: `ResponseInv` says what it is at each of them,
as a function of the commands it has seen (`Describes`) - fields of earlier commands
included, as it is never cleared - and `SentInv` that each reply sent was such a
description of the commands up to its own, from which its own result follows. A later
command does not change that (`DescribesStays`). `OneReplyPerCommand` counts, and needs
`AnsweringInv` to know which command the count is short of. The proofs rest on
`UnsetAssumption`: the value of an unset field is none of the values.

`ClientSocketProofs` proves, for every set of bytes, every buffer length, every timeout
and all bounds:

- `TypeCorrect`: `TypeOK` always, with the place that the next character needs;
- `WaitIsBounded`: `BoundedWait` always;
- `LostOnlyWhenRead`: `LostWhenRead` always;
- `CleanBuffer`: `NothingBehindLine` always, which no run checks;
- `Refinement`: the specification implements `LineReader` (`ReadsLines`).

They follow from `Invariant`. `BoundedWait` is not inductive: a pause adds to `slept`,
so the invariant has to relate what has been slept to what is left of the timeout,
before and after the first character (`WaitInv`). `LostWhenRead` needs to know that a
descriptor without a connection has nothing to read (`LinkInv`). The refinement maps the
stream to what the buffer holds of the line followed by the queue (`Unread`); a
character moves from one to the other and leaves the stream as it is (`MoveOne`,
`WriteOne`), a line end cuts the stream where `LineReader` does (`CutOne`), and a
failure is a `GiveUp` only because no line end is left in the buffer (`BufferInv`).
Assumptions: `ReadAssumption` and `BoundsAssumption`, which the runs evaluate.

`SocketTransportProofs` proves, for every set of clients and of scripts, every length of
the read buffer and any backlog:

- `TypeCorrectness`: `TypeOK`; `LinesOfTheStream`: `LinesAreTheStream`; `BytesKept`:
  `NoByteLost`; `ConnectedSocket`: `ConnectedHasSocket`; `LiveClientKept`:
  `NoLiveClientForgotten`; `StopJoins`: `StoppedIsJoined`; `StopCloses`:
  `StopConnectedCloses`, all of them always.

The members have no lock, so the invariant cannot be one of a critical section.
`ThreadInv` is the life of the receive thread as main sees it, `StopInv` the order of
the closes. `SocketInv` relates `m_ClientSock`, the result of `accept` and the
connection state at each place of the receive thread, but only as long as main closes
nothing (`Open`, which lasts to the join when `StopComm` joins first): afterwards it is
false, which is the finding of `stop_race`. `StopCloses` takes from it that each
descriptor but `m_ClientSock` is that of a client that has gone when main begins to
close (`Gone`); those stay open, as `ResetConnection` has leaked them, and the theorem
says nothing else of them. `SocketInv` holds `ConnectedHasSocket` and
`NoLiveClientForgotten` in place, as the step that would break one is enabled by the
other. `BufferInv` is the NUL at the end of the buffer and its clearing between reads.
`LinesInv` says without a recursion what `LinesAreTheStream` says: the k-th line is what
lies between the ends of lines k-1 and k of the bytes received, and `m_CmdBuffer` what
lies behind the last (`IsCut`). An append leaves the ends of the lines where they were
(`EndStays`), and a cut takes the next one off.

`JsonAttributesProofs` proves, for every set of names with any notion of case, any
doubles from 0 up, ones that no `int` holds included, any strings and contents, also
ones that do not parse back, and objects of any size:

- `TypeCorrectness`: `TypeOK` always;
- `SettersAreRead`: `ReadYourWrite` always;
- `OthersStay`: `OthersUntouched`, and `NamesStay`: `NoNameLost`, which are about steps;
- `MergeEndsRight`: `MergeAgrees` always.

`Find` and `GetObjectItem` are shown to give first places (`ListLemmas`). Every step is
shown to be one of two: an item of some name is replaced by one of the same name
regardless of case, or one is added behind; from this follow the two action properties.
`MergeAgrees` speaks of the end of a merge only, so of one that no null pointer has
ended; `MergeInv` is its loop invariant, `MergedUpTo` the items done so far.
`CopiedNames` are the names of those that parse back: the others leave the target as it
is. That nothing is there twice is a count: the object has as many items as there are
names.

`JsonMapsProofs` proves, for all names, keys, numbers and objects:

- `TypeCorrectness`: `TypeOK`, `ConversionMerges`: `MergedUpToFailure`, `ThereAndBack`:
  `RoundTrip`, all of them always.

`MergedUpToFailure` speaks of calls that have returned; `LoopInv` says the same of the
items done so far, and that none of them was a failure: the stream is good whenever a
key is read, because it is cleared. A call that was given a null pointer returns false,
and the map is as before (`InLoop` tells the two apart). `RoundTrip` needs to know that
`MapToJSON` makes one item of every key: ranks grow with the keys (`RankGrows`), so that
each place has one key (`KeysInOrder`), for any order of the keys. Assumptions:
`KeysAssumption` and `PrintAssumption` - an integer that was printed is read as the
same, and of a stream into which nothing was written no integer can be read.

`JsonDiffProofs` proves, for all names, texts and objects of any depth:

- `TypeCorrectness`: `TypeOK` always, also for objects with ambiguous names;
- `ComparedSafely`: `ComparableSurvives` always;
- `DiffIsDue`: a comparison that is over has given the entries that are due, and no
  other, which is `DiffSaysWhatIsDue` but for the count;
- `EqualSaysInfinite`: an unambiguous object compared with its equal gives no entry, but
  for numbers that are not `AreSame` as themselves, the infinite ones.

Which objects are comparable is a recursion over them; the module takes a relation
`Comparable` instead, of which `ComparableAssumption` says what one level of the
recursion says: unambiguous names, the same types, and comparable objects below. The
theorem holds for every such relation, also for the greatest, `Alike`, which the run
uses. Then `StackInv` is inductive: every call in progress compares two comparable
objects. The step is `Fetched`: where names are unambiguous, `cJSON_GetObjectItem`
without regard to case returns the item that `doesAttributeExist` saw. That the items
behind an array's element or another scalar are never asked is `Paired`: both items of a
call are objects. The entries of two arrays are put together by a recursive function,
whose type is proved by taking the least place where it fails (`FlattenType`), and so
are its elements.

What is due follows the rules of the code: `Close` is any relation between numbers, of
which nothing is assumed, not even that a number is close to itself. `DiffSaysWhatIsDue`
takes the pairs of objects that are compared by recursion. `DiffIsDue` takes the least
set of pairs that has the two objects and is closed under the objects of the same name
in a pair (`Reached`), which is the same set and needs no recursion. `SoundInv` says
that every call is about such a pair and that every entry is due for one. For the other
direction `CoverInv` says that of all pairs that were ever called (`W`) each attribute
has been covered or is ahead of a call in progress: at the end `W` is closed, and so has
all of `Reached`. The steps rest on `Counterpart`, one item or none of a name, and on
`BranchSays`: what a branch says is what is due for its item.

`RemoteCallProofs` proves, for any scripts of commands, any buffer of the client and
every division of the bytes into reads:

- `TypeCorrectness`: `TypeOK`; `CommandsDoArrive`: `CommandsArrive`;
  `HandledOnceInOrder`: `AtMostOnceInOrder`, all of them always.

`Cut` and `Parse` are recursive functions over the bytes. Their recursion has a solution
(`CutFromExists`, `ParseFromExists`, by taking the least place where one is missing),
and only its equations are used after that. `CutConcat` says that it does not matter
where the bytes are divided: cutting two pieces, the second behind what is left of the
first, cuts the lines of the whole. `ParseEncode` and `CommandLines` say what the server
makes of the bytes of a command and a newline: its `Pieces`. From these `ArriveInv` is
inductive: what has been taken, with what the bytes in the buffer and on the way hold,
is what the commands sent make due. `CommandsArrive` alone is not, as it does not speak
of those bytes. A zero byte cuts a read short and a missing line end glues commands
together, and then `ArriveInv` says nothing; `OrderInv` does. It takes bytes and methods
for one kind of symbol: the methods taken, those in the buffer and those on the way are
some of those sent, in their order (`Thins`). To read, to lose bytes, to cut and to
parse only thin a sequence (`CStringThins`, `CutThins`, `LineThins`), and thinning is
transitive and goes with concatenation. Assumptions: `SymbolAssumption`,
`BufferAssumption` and `ScriptAssumption`.

All these assumptions are evaluated by the runs.

Only model-checked:

- the count in `DiffSaysWhatIsDue` of `JsonDiff`, that nothing is said twice:
  differences are told apart by their path, and the set of paths is a recursion over
  trees of any depth;
- all liveness, which with its fairness and `ENABLED` is out of the prover's reach.

## Not modelled

cJSON (third party) beyond the list calls above, `Logger` (output), `Callback` (forwards
a call), the client's `main` (it ends at a null pointer before its first command),
reading and writing files, the hash, the integer-array getter and the accessors of
`CNT_JSON` that throw (they read one value and change nothing), partial sends (the
messages are far smaller than a socket buffer), and the line and until read modes of
`update_rx`, which nothing selects.
