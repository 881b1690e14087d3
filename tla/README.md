# A verification project for SPMMulti, the network memory accessor

SPMMulti is a mod of a Wii game.  It starts a *receiver thread* inside the game
that listens on TCP port 5555, reads one text command per connection, executes it
(`read`, `write`, `msgbox`) and sends the answer back.  The repository also carries
the libraries the mod links: an HTTP client (coreHTTP with the llhttp parser), a
JSON validator (coreJSON), Base64, `strtoul`.

This directory holds TLA+ modules translated from that source, the TLC
configurations that check them, and proofs that TLAPS checks.  Paths are relative
to `src/`; a comment above every definition names what it is about, and
`PROJECT.json` maps every definition to its lines.

    tlc -workers 2 -config MCReceiver.cfg MCReceiver     # any run of the table below
    tlapm ReceiverProofs.tla                             # any module of proofs

## 1. Inventory

### Components

| Component | Source | State it keeps | Operations | What is hard | What makes it correct |
|---|---|---|---|---|---|
| Receiver thread | `source/netmemoryaccess.cpp` | listening socket, connection, `recvBuff`, `totalReceived`, `sendBuff`, size | `receiverLoop`: set up, accept, read until Eof, frame, execute, write, close | requests cut anywhere by TCP; failing calls; clients that leave; buffers reused for every connection | the text executed is what this client sent; an answer goes to the client that asked; every descriptor is closed; nobody waits for ever |
| Network startup | `source/net/network_wii.cpp`, `source/mod.cpp` | `net_ip_top_fd`, IOS descriptors | `initializeNetwork`, `Mynet_init` and what it calls, `Mynet_gethostip`, the title screen's frame | two threads share `net_ip_top_fd` without a lock; six calls that may fail; retries | no descriptor leaks, success means that sockets can be used, startup ends, the address is shown |
| Message box command | `source/commands.cpp`, `include/evt_*` | the text on the heap, the script entry, its local words | `msgbox`, the scripts `fwd_msgbox_cmd` and `msgbox_cmd` | the text is handed from one thread to a script of another one | no use after delete, no lost text, `key_off` meets `key_on`, the text is displayed |
| Tokenizer | `source/util.cpp` | input, word, the words found | `split` | `npos + 1`, the loop's condition | the words of the text |
| Command manager | `source/commandmanager.cpp` | the registered commands; `attrs` | `addCommand`, `removeCommand`, `findCommand`, `parseAndExecute` | pointers into a vector that is released before they are used | the handler named is called with the words sent; every request ends |
| Memory commands | `source/commands.cpp` | MEM1, the decoded data | `read`, `write`, `msgbox` handlers | signed and unsigned words that wrap around; buffers of a given length | only MEM1 is read and written, and the data arrives |
| Base64, strtoul | `source/base64.c`, `source/strtoul.c` | none | coding, validity, lengths; `strtoul` | last groups, padding; overflow | decoding inverts encoding; the number denoted |
| HTTP request | `source/net/spmhttp.cpp` | socket, buffers | `HTTPSendRequest`, `HTTPGet`, `HTTPFree` | a dozen early returns | the socket is released |
| HTTP client | `source/corehttp/core_http_client.cpp` | request headers, response, parsing context | build headers, send, receive, callbacks | partial sends and receives, a clock, headers built in a fixed buffer | the request on the wire and the response handed out are whole; a failure has its reason |
| Response parser | `source/corehttp/llhttp.c`, `http.c` | `llhttp_t` | states of a response | responses cut anywhere, several messages, chunks | the callbacks see what was sent |
| JSON | `source/core_json.cpp` | none; `start`, `next` of an iteration | `JSON_Validate`, `JSON_SearchConst`, `JSON_Iterate` | nesting with a fixed stack; places beyond the text | exactly JSON is accepted; the members there are, are found |
| Socket wrappers | `source/net/network_wii.cpp` | none of their own | `Mynet_socket`, `_bind`, … | marshalled blocks | one IOS call each |
| strtod | `source/strtod.c` | none | | floating point | not modelled |
| Patching | `source/patch.cpp` | code words | `writeBranch`, hooks | bit arithmetic | not modelled |
| Utilities | `source/util.cpp` but `split` | none | save checksum, strings | | not modelled |
| Module loading | `source/rel.cpp`, `source/cxx.cpp` | heap | entry points, `new`, `delete` | | the heap is an allocator that hands out unused memory |
| User interface headers, vendored libraries | `include/`, EASTL, game declarations | | | | external |

### How they interact

- `mod.cpp` has `NetMemoryAccess::init` start the receiver thread
  (netmemoryaccess.cpp:26) and replaces the title screen's function in the *main
  thread*.  Both call `Mynet_gethostip`, which reads
  `net_ip_top_fd` while the receiver thread writes it: **NetInit**.
- The receiver thread hands a framed request to `CommandManager::parseAndExecute`,
  in the same thread; this runs `split`, finds the command, calls its handler with
  the words, and the handler fills the response: **Receiver** → **CommandManager**
  (with **Tokenizer**) → **MemoryCommands** (with **Strtoul** and **Base64**).
- The `msgbox` handler enters a script that the event manager runs in the main
  thread: **MsgboxEvt**.  The heap is shared by all threads of the game.
- The HTTP client and coreJSON are linked, and no code of the receiver calls them:
  **HttpClient** and **Json** have a program of their own as their environment.

## 2. Modules

Definitions have the names of the functions they translate.  One named `Wrong…` is
the code with a plausible mistake; no action uses it, the properties are tested
against it.

**RequestService** is the abstract specification of the accessor: connections
arrive, are served one at a time in that order, get at most one answer, which is
their own, and are closed.  **Receiver** (`receiverLoop`) has one action for every
call that blocks in IOS, `pc` naming the call it stands before: `InitializeNetwork`,
`OpenSocket`, `Bind`, `Listen`, then for every connection the clearing of the
buffer, accept, a read of at most `Chunk` characters, `Frame` (lines 106–115: the
loop's test, the terminator, the error exit), the execution, the write, the close.
The clients connect, deliver any number of characters at a time, hang up and leave
between any two of them.  A character is the Eof, the terminator or another one.
`Svc` maps it to RequestService (`queue` is the backlog, `serving` the connection
between accept and close).  What a store touches outside of `recvBuff` is part of
the state: `inFront` is the byte in front of it, which `Frame` clears when the
first read fails (line 107 comes before the test of line 108), and a read whose
characters do not all fall into the buffer (line 102 never compares
`totalReceived` with `BUFSIZE`) ends the behaviour with `pc = "overrun"`, since
what follows depends on the layout of the stack.  `Execute` has the three ends of
`parseAndExecute`: an answer, none (an unknown command), and no return at all (`Halt`),
for a request without a word (`Wordless`, commandmanager.cpp:98) or when an allocation
of the manager or a handler fails.  A search that finds neither Eof
nor terminator in the buffer goes on behind it and may end either way.

**NetInit** is the startup: `Attempt`, one action per IOS call of `Mynet_init` and
`MyNWC24iStartupSocket`, `GetHostIp(t)` for both threads, `Draw` for the title
screen, `Lease` for the console's address (external).  The rest of the game opens and
closes descriptors of its own (`GameOpens`, `GameCloses`, with `theirs` the open ones), so a
number that the startup has closed may be the game's a moment later, and opening fails
when none is free.  **NetError** is
`_net_convert_error` with its map of bytes.  A failing `OpenManage` is not retried:
the counter of `_open_manage_fd` is tested before it can change.

**MsgboxEvt**: `Allocate`, `EvtEntry`, `Store` are the command in the receiver
thread; `Forward`, `Display`, `Continue`, `Post` the two scripts; `GameEnters`,
`GameReturns` other scripts that compete for entries, and `ReInit` the game's
`evtmgrReInit` (evtmgr.h:149), which zeros all entries.  Neither `evtEntry` nor `RUN_EVT`
waits for a free entry: with none free, an assert of the game halts it (`Overflow`,
`pc = "halted"`; evtmgr.h:14-18 has the limits from those asserts).  Three history
variables tell the ways in which a text can be lost: `overtaken` (a script has run, or
was cleared, before its text was stored), `cut` (the texts of the scripts that were
cleared) and `stranded` (how many of these had switched the keys off).

**Tokenizer** is one turn of `split`'s loop, with the words a text has as the
reference; **CommandManager** runs it, then takes pointers to the words (`Parse`),
releases them, finds the command, reads one argument after another and answers.
`Reuse(p)` is any other thread that gets the memory of a released word.
`addCommand` and `removeCommand` come in between requests.  `OutOfMemory` is a failing
`new` of `split`, of the vectors or of a handler, after which the thread does not come
back.  The properties compare what a command gets with the words of the request's text
(`Tok!WordsOf(text)`), not with what `split` has made of it.

**Strtoul** and **Base64** are functions on sequences; **MemoryCommands** runs the
handlers over them in the order of their tests, allocations, copies and answers.
`Wraps` names the range whose end is beyond the address space.
`Strtoul` folds over the digits with the overflow test of the code; `Denoted` is
the number a numeral stands for.  Base64 is parameterised by the bits of a unit.

**RequestHeaders** is the header buffer: the request line, the headers of the
library, `HTTPClient_AddHeader` and `HTTPClient_AddRangeHeader` with the numbers
that `convertInt32ToAscii` writes, `Content-Length`.  An empty path is written as `/`
(`Path`); an empty method or host (`Started`) and an empty name or value (`AddCall`) give
`HTTPInvalidParameter`.  Every header is written over
the empty line of those before it, character by character (`Copied`), so a refused
character leaves what was copied so far.  The reference is in terms of lines: `Composed`
is what the calls put together, `RequestText` the request that has to arrive.

**Llhttp** is the response side of the parser on tokens (a piece of a name or a
value, a digit, a blank, the end of a line): the HTTP version, the status code, the
reason, headers with their folded lines, the words of `Connection`,
`Transfer-Encoding` and `Upgrade`, `Content-Length` up to its overflow, chunks with
parameters and trailers, bodies that the connection ends, a switched protocol,
messages that follow each other.  It reports to the callbacks of a response
(`OnStatus` … `OnMessageComplete`) or to those of a search (`FindField`,
`FindValue`, `HeadersComplete`).  `Feed` is one `llhttp_execute`: it hands over the
tokens of a receive one by one and flushes the open span.

**HttpClient** has the calls, the transport and the server.  The caller `"spm"` is
`HTTPSendRequest`, which opens its socket and has no clock; `"app"` uses the public
interface with a clock.  A request goes through `socket`, `resolve`, `connect`,
`initialize`, (`headers`), `send headers`, `send body`, `receive`, `close`; a
response that was handed out can be searched (`ReadHeader`).  The server is
external: it answers with a beginning of one of a few sequences of messages, which
is the `stream` of tokens that receives cut anywhere, and may close.  `calls` (the
headers that were added), `begun` (messages the parser has begun) and `seen`
(headers reported) are history variables.

**Json** has the skip functions as functions from places to places, the loop of
`skipCollection` turn by turn, searches and iterations.  A loop inside a function is a recursive function of the number of its turns
(`CharacterTurn`, `ArrayTurn`, `ObjectTurn`, `TurnOrEnd`, `MemberTurn`, `ItemTurn`,
`SearchTurn`); each turn takes a character, so as many as the text has are enough.
`pairs` is a history variable: what an iteration has handed out.  **JsonText** adds the
reference: a grammar of JSON over whole texts, trees with their rendering and
their subtrees at a path, and the properties in their terms.  The grammar is ECMA-404's,
without what the comments of core_json.cpp disallow in strings (`\u0000`, half of a
surrogate pair, bytes that are no UTF-8).  Its last parameter names deviations: with
`Unannounced` a collection may stand in another one without the comma or the key before
it, with `Escaping` a control character behind a backslash; `IsJson` has neither,
`IsNearJson` both.

**ReceiverProofs**, **MsgboxProofs**, **NetInitProofs**, **CommandProofs**,
**MemoryProofs** (with the lemmas about Strtoul and Base64), **HttpProofs** (with those
about Llhttp) and **JsonProofs** extend the modules they prove about.  **NumberInduction** has
induction over the natural numbers in a form that the provers can use, and what cutting
and joining does to a sequence.
`MC…` modules only define the small sets that the configurations name.

## 3. Runs

| Run | Checks | Bounds | Shows |
|---|---|---|---|
| `receiver` | `TypeOK RequestFramed StoresInBuffer NoneLeaked ReplyIsOwn Service ServedUnlessStalled` | two clients (reconnecting), requests of two to four characters, one without a word, a buffer of 3, reads of 2, two failing calls | the thread implements RequestService; it writes outside of its buffer in two cases only, a request that is too long and a first read that fails; only a client that leaves or stays silent without its Eof or does not take its answer, a request that is too long or one that halts the console makes others wait |
| `net_init` | `TypeOK HandlesBalanced UpIsUsable InitEnds AddressShown` | two attempts, two tries for the address, three descriptors, shared with the game, a transient and a permanent error, three failures | no failure leaks a descriptor, and none closes one that the game has under a reused number; the title screen recovers |
| `msgbox` | `TypeOK NoTextUsedAfterDelete KeysBalanced TextsOwned DeliveredUnlessCut` | two texts, three entries, two scripts of the game, one `evtmgrReInit` | however late the store, nothing is deleted twice; a text is lost only to the window between `evtEntry` and the store, to a cleared script or to a table without a free entry |
| `commands` | `TypeOK HandlerGetsItsArguments SplitResult AnswersUndisturbed RejectsOnlyMalformed RequestEnds` | texts of up to six characters of two letters and the space | while nobody reuses the words, a request is answered for the words of its text, and a well-formed one is not turned down, unless its last word repeats the one before; only a request without a word or a failing allocation ends the thread |
| `memory` | `TypeOK NumbersRead WritesWithinMem1 AnswersRight DecodesIntoItsBuffer WritesTheData` | words of 5 bits, MEM1 of 4 bytes, data of up to 3 bytes | no write outside of MEM1; a read answers with the bytes at its address, of MEM1, unless the range wraps around; the data arrives for every length of the last group; decoding stays in its buffer but for the terminator |
| `http` | `TypeOK RequestOnWire ParserInStep ResponseFaithful HeaderFound FailureJustified SocketReleased Returns` | buffers of 19 and 26 pieces, 14 requests, three of which lack a part, up to two of 13 headers added, 34 answers (to requests without added headers), lengths up to 63, sizes of 32, one idle poll | request and response are what was asked for and sent, however they are cut (but for the cases of section 5); the parser and the outcome are those of one parse of all that was received (`ParserInStep`); every failure has its reason; a search finds the header that is there |
| `json` | `StaysInText JudgesExactly FindsMembers` | a stack of 3, all texts of 5 units (4 with blanks), 6 brackets, numbers of 5 characters, strings of 3; trees of up to four levels; paths of two parts and what is not well formed behind them | no place leaves the text, all JSON and, but for the two deviations, nothing else is accepted, too deep is what nests too deep, and what is there is found |
| `receiver_abort` | `Served` (violated) | as `receiver`, no failing call | finding 1 |
| `msgbox_lost` | `Delivered` (violated) | as `msgbox` | finding 2 |
| `commands_stale` | `AnswersRequest` (violated) | as `commands`, five characters | finding 3 |
| `http_eof` | `EofEndsBody` (violated) | as `http` | finding 4 |
| `json_loose` | `AcceptsOnlyJson` (violated) | as `json` | finding 5 |

Why the bounds are enough to show the interesting cases:

- *receiver*: one request fills the buffer exactly, with its Eof padding; one has no word;
  one is longer, so that its last character falls behind the buffer and the search after
  the third one finds no Eof in it; reads of two make every cut possible, two clients let one
  wait while the other is served and let an old answer or an old request meet a new
  connection.  `MaxFaults` bounds the failures of a whole behaviour; two suffice
  for one in the startup or for two on one or on two connections.
- *net_init*: an attempt holds at most two descriptors, and the third is the game's, which
  may also take the number of one that was just closed, or leave none; two attempts let a
  half-done one be followed by another one.
- *msgbox*: three entries hold the two message boxes and a game script at once, and
  are full when a fourth script comes; with two texts one may be freed and handed out
  again; `evtmgrReInit` may come at any place once, and what follows it is as at the start.
- *commands*: six characters hold three words, doubled spaces, spaces at either end and
  repeated last words; command `b` takes two arguments.
- *memory*: `Word`, `Half`, `Lo` and `Hi` keep the order of the real constants
  (MEM1 in the upper half, where an address is negative as a signed word).
  Payloads whose bits all differ show every bit out of its place.
- *http*: at least one answer for each way in which a response ends, is cut, or is
  malformed, for each version, flag word and kind of body; one just fills the
  response buffer and one exceeds it; requests that fit, requests that overflow
  the header buffer at each of its parts, and requests without a method, a path or a
  host; headers that are taken, that do not fit, that lack their field or value and that
  are refused for either.  Requests with added
  headers get no answer (`MaxAnswered` is the most headers of one that does):
  receiving does not read the request.  `MaxLength` stands for 2^64 - 1 and `Sizes`
  for the 2^32 values of a `size_t`.
- *json*: all bracket texts of six characters with a stack of three reach every
  turn of the loop at depths 0 to 3 and the overflow; `MCQueries` has queries that end
  behind a separator or a bracket, empty parts, unclosed and too large indexes.

`CHECK_DEADLOCK FALSE` is set where the system may stop: the receiver thread
returns when its socket cannot be set up, and its model ends in an overrun or a crash; the
game halts when no entry is free, and clients and players owe nothing; a request
without a word reads address 0, `removeCommand` may crash, and an allocation may fail.

### Fairness

- *Receiver*: `WF(Unheld)` — a thread of the console that can run is scheduled, and
  IOS completes its calls.  Clients owe nothing: they need not connect, send what they
  have, hang up, leave or take their answer (`Unheld` leaves out a write that waits for
  its client).  So a client that stays silent for ever holds the thread up, and
  `ServedUnlessStalled` names it (`Stalled`).  `PromptSpec`, for `receiver_abort` only,
  has clients that do send all and take their answers: finding 1 needs no more than one
  that leaves.
- *NetInit*: `WF` of either thread; no lease is promised.
- *MsgboxEvt*: `WF(EvtEntry)`, `WF(Store)` — the command goes on once it has started; and
  `WF(Box(e))` for every entry — the event manager runs it in every frame, and the player
  closes a box.  Nothing waits for a free entry, and the scripts of the game owe nothing.
- *CommandManager*: `WF(Serve)`, the thread goes on with its request.
- *HttpClient*: weak fairness of `Call`, the thread goes on with its call; the server
  need not answer or close, so `Returns` is only claimed once it has closed or when
  the caller has a clock.  It is written out, `<>[]Ready => []<><<Call>>_vars`, with
  the state predicate `Ready` for `ENABLED <<Call>>_vars`: evaluating ENABLED of a
  step that parses a response costs TLC too much.  That the two are equivalent was
  checked as an invariant on an instance with short answers.

## 4. Proofs

The theorems hold for every value of the constants under the named assumptions of
the modules, which TLC evaluates in the runs:

- `ReceiverAssumption`, `MsgboxAssumption`, `NetInitAssumption`, `ErrnoAssumption`,
  `CommandAssumption`, `RequestAssumption`, `CallAssumption`, `ResponseAssumption`: sets
  and numbers are sets and numbers, null values are none of them, the word separator is a
  character and no name has it.
- `WordAssumption`, `UnitAssumption`, `MemoryAssumption`: a word has `2 * Half` values,
  MEM1 is shorter than half of the address space (0x1800000 of 2^32), the response
  buffer is too, and a request fits the receive buffer it came in.
- `AnswerAssumption`: the messages of a server are made of numbers, what comes behind one
  is any tokens (a piece of a header's name says which of the five kinds of llhttp it
  is of), and there is a message to answer with.
- `DepthAssumption`, `DocumentAssumption`: JSON_MAX_DEPTH is positive
  (it is the length of an array, 32 by default), and documents and queries are sequences of characters.
- `TextAssumption`: the parts of a request and of a header that is added are texts, empty
  ones too; a path does not end in a line break; ranges are of `int32_t`.

Four theorems of MemoryProofs and `DecodeInvertsEncode` also assume `U = 4`
(`Octets`): a character of Base64 has six bits and a byte eight.  The run `memory` takes
`U = 2`, so that all data can be enumerated.

**ReceiverProofs.**  Any number of clients, any buffer and chunk, any failures.

- `TypeCorrect`, `NothingLeaked`: the invariant is `Basic`, three parts that need
  each other: the types, `Arrived` (nothing arrives from a client that is not
  connected, and `total` counts what has arrived — without it a read is not within
  the stream), and `Descriptors` (`NoneLeaked` and the part of the startup in which
  no socket is open).
- `StoresContained`, for any streams: `Contained` adds that a byte in front of the
  buffer is only touched after a failed first read, and that nothing is executed
  after an overrun.
- `RequestsFramed`, assuming `WellBehaved` (the requests are shaped as
  `netmemoryaccess_client.py` shapes them and fit the buffer): `Framing` says that
  the buffer mirrors the received part of the stream, so that the first Eof of the
  buffer is that of the stream.
- `RepliesOwn`: `Answers` relates the response buffer, the place in the loop and
  the replies: only the connection being served may have its answer in `sendBuff`.
- `ImplementsService`: `Queued` says that the backlog holds the waiting connections,
  each once; with it every step maps to a step of RequestService or a stutter
  (`StepSimulation`, one case per action).

**MsgboxProofs.**  Any set of texts, any finite set of entries.

- `NoUseAfterDelete`: strengthened by `Pending`, that the text about to be
  handed over is allocated and no script has it.
- `KeysAreBalanced`: `keysOff` equals the cardinality of the set of open boxes; every
  action adds one entry to it, removes one or leaves it (`KeysNext`).
- `NoTextLost`: under `~overtaken` the entry that waits for its store is still the
  command's (`EntryWaits`).
- `TypeCorrect`: the bound of `keysOff` follows from the balance.

**NetInitProofs.**  Any number of attempts and tries, any descriptors, any failures.

- The invariant is `Shape` (the types, and where each thread can be), `Holding` (which
  device file is open at each place, and on which descriptor: neither balance nor
  usability is inductive without it) and `Result` (a failing attempt returns an error, a
  successful one has started the sockets; an address is only had under a lease).
  `TypeCorrect`, `NothingLeaks` and `SuccessIsUsable` follow.

**NumberInduction.**  The library's induction takes an operator as a parameter.  `Least`
(a set of numbers that is not empty has a least one) comes from the well-foundedness
of `<`; `Induction` is induction for sets, and `Recursion` says that a recursive function
on an interval satisfies its equations.  The proofs below turn a property of a loop
into the set of the turns that have it.  `SubSeqIs`, `JoinIs`, `JoinTwice` and `CutInTwo`
are what HttpProofs needs of the pieces of a request on their way to the wire.

**MemoryProofs, the algorithms.**  `StrtoulIsExact`: the overflow test of `strtoul.c` (`cutoff`, `cutlim`)
is exact for every word size and numeral, in the bases 0, 10 and 16: the result is the
number denoted if it fits, `ULONG_MAX` if not, negated after a minus.
`DecodeInvertsEncode`: decoding gives back any data, whatever the length of the last
group; the arithmetic of one group is done digit by digit, and the groups are put
together by their indices.

**MemoryProofs, the commands.**  Any requests, any place of MEM1.

- `ReadRight`, `WritesContained` from `Requested` (numbers are those of the request)
  and `Tested` (what the tests of the handlers passed holds until the access).
- `TypeCorrect`, `AnswersAreRight`, `DecodingFits`, `WritesRight` from three more
  parts: `Contents` (MEM1 and the decoded data are bytes), `Filled` (the buffer has the
  decoded text as far as it reaches) and `AnswersRight` (what has been read and shown).
  `WritesRight`, the data of a client that encodes it arrives, rests on
  `DecodeInvertsEncode`.

**CommandProofs.**  Any commands, texts and reuse of released words by other threads.

- The invariant has a register without doubles (`Register`), the types of the split text
  (`Splits`), `Released` (a released word is still the one that was sent or `Other`, for good)
  and `Called` (which argument each pointer is for, and what the handler has read).
  `HandlersGetArguments`: even a request whose words were overwritten calls a
  handler with as many arguments as it takes.  `OnlyReuseDisturbs` and
  `OnlyMalformedRejected`: unless the text ends with one word twice, only an overwritten word
  makes a command answer for other words than those of the text, or turns down a text that
  names a registered command with its number of words.  Both rest on `SplitFinds`
  (`SplitWhole`: such a text is split into exactly its words).
- `SplitFinds`, for texts of any length: `SplitInv` says of every turn of the loop that the
  rest of the input starts behind a separator, that the words found are those that
  start before it, and that `word` is what lies between the last two separators.  A
  word is found as the one after all that start before it (`Ranked`, by counting
  starts); the loop ends too early exactly when the rest is the word before it
  (`Repeated`, `OnlyRepeated`).  `TypeCorrect` follows, with `Shapes` for the pointers.

**HttpProofs.**  Any requests, answers, buffer sizes, cuts and delays.

- `SocketAlwaysReleased` from `SocketInv`: who has a socket, and who is where.
- `RequestDelivered`: `Holds(r, t)` relates the buffer, which is overwritten in place, to a
  text of lines: the beginning of the buffer is the lines, and an empty line follows
  exactly if `t.whole`.  `AddHeaderHolds` shows that `AddHeader` and `Entry` keep it in each
  of their outcomes (taken, refused without a trace, refused after a part was
  copied over the empty line); induction over the headers gives `Composed`.  `WireInv` says
  at each place of `HTTPClient_Send` which part of the request is on the wire, which in
  the transport's hands and which still in the buffer.

- `TypeCorrect`: the headers keep their type through every outcome of `AddHeader`, and
  the parser's counters and texts through every token.
- `PiecesMakeNoDifference`: whatever the server sends and however receives cut it, no assert
  of a callback fails, the body handed out lies in what was received, and every field
  of the parser but one, its error and the outcome of the call are those of a single parse of all that was
  received.  Three parts: `ParserInv` (the parser is `Sound` and stands where the next
  receive is stored); `MethodInv` (the first piece of the header buffer is the method,
  whatever is added or refused behind it, since `HTTPClient_Send` tells the parser of a HEAD
  request by looking there); `PiecesInv` (the parser is `Alike` to that of the single
  parse).
- `StatusFits`: the status fits what was received, in both directions: an alert if and only if the parser
  found an error, no response if no message has begun, a success if the last message is
  whole (and then the body is as long as the Content-Length of the only message said), and
  otherwise a full buffer or a missing part.

**HttpProofs, the parser.**  The three facts about the generated parser and its callbacks behind that,
for every token and every state that a response reaches.

- *It stays within its texts.*  `Sound(s, q)` says of a parser in front of place q which
  span can be open in which state, that the span, the header in the making and the body end
  at q or before it and in that order, and that no assert has failed: inductive over the
  tokens (`FeedSound`, one lemma for every state) and over the end of a receive
  (`RestSound`).  The order is what makes moving a chunked body up safe: it never reaches the
  data still to be read.
- *A cut changes nothing.*  `Same` relates two parsers whose buffers differ only behind a
  place: they go on doing the same (`SameFeed`), so what is in the buffer behind the data
  received is never looked at.  `Behind` relates a parser whose open span was reported at
  a cut to one that was not cut: reporting the rest later is the same as reporting
  it all at once (`TwoReports`: a text is extended twice, a body moved twice, and `FeedSettled`:
  no state but those of an open span can tell the two apart).  Induction over the tokens (`FedAlike`) and
  over the receives (`OnePieceMore`) gives the theorem.
- *Nothing is counted twice or forgotten.*  `Told(s, q)` says what the parser knows of the messages
  so far: in a head that no body has begun and what its length can come from, in a
  body of announced length that the bytes reported, those of the open span and those still to come
  are as many as `onHeadersComplete` announced, in the others that nothing was announced, and
  everywhere that the state of the application's parse is that of the last message.
  It is inductive over the tokens (`FeedTold`, one lemma for every state), and by
  `PiecesMakeNoDifference` it is enough to know it of one parse of all that was received.
  `StatusFits` follows for `StatusTells`, with `AnsweredInv`: no call succeeds before
  something was received.  This is the part of `FailureJustified` and `ResponseFaithful` that
  looks at the parser only: no run checks it apart from them, it was
  tried on the instance of `http` before it was proved.
- The one field that `ParserInStep` does not compare is `hdrLen` (`headersLen` of the
  response), which does depend on the cuts: see section 5.

**JsonProofs.**  Texts of any characters and any length, a stack of any depth, any queries.

- For each function that skips something a lemma says where it ends (`StringPlace`,
  `NumberPlace`, … `ScalarsPlace`): behind its beginning, in the text or just behind it, and
  for a string behind a quote.  The functions with a loop need `Loop` (the recursive
  function exists and satisfies its equations, from NumberInduction) and `LoopKeeps` or
  `LoopStays` (what a turn keeps, all turns keep).
- `Nests` is what a turn of `skipCollection` keeps: the brackets on the stack are brackets of
  the text in their order, the first of them where the collection began; so the last
  one closes that bracket, and a stack that is full and one more bracket are more
  brackets than `MaxDepth` (`FullIsTooDeep`, by cardinality).  `PushNests` and `PopNests` are
  the two ways in which the stack changes.
- Searches: `PairFound`, `ItemFound`, `KeyFound`, `IndexFound` say that a member is cut out of
  the text of its collection, `SearchTurnPath` that a part of a part is a part of the document,
  whose first place is the sum that line 1587 adds up.
- `TextContains`: the invariant `IInv` has these facts about the places, about what was accepted and
  found, and that an iteration which goes on has a collection under `start` (without
  it, `getType` would be asked for a character behind the text).  So the
  tests of line 1809 (`*start >= max`, `*next > max`), which the model leaves out, never apply
  to a program that iterates over what it has validated.
- `ValidateAdvances`: every turn goes on, so that as many as the text has characters end
  the loop (no bound of the model cuts it off).
- `IterationAdvances`: every call of JSON_Iterate that hands out a value goes on behind it and stays in
  the text (`IterateStep`, from what a turn of `iterate` finds), so that a program's loop
  ends and gets no value twice.
- `SearchFindsKey`: a query of one key hands out a value only if a member stands in the
  document with this key between its quotes, a colon and blanks behind it, and the value behind
  them (`PairFound`, `KeyFound`; `PlainFound` takes this through the loop of multiSearch).  What it
  leaves to `FindsMembers` is the other direction: that a member that is there is found, and
  paths of several parts.

**Only model-checked**: liveness (`ServedUnlessStalled`, `InitEnds`, `AddressShown`,
`DeliveredUnlessCut`, `RequestEnds`, `Returns`), since the prover knows
neither fairness nor ENABLED; what the parser makes of the grammar of a response
(`ResponseFaithful`, `HeaderFound`, `FailureJustified` of HttpClient): with
`PiecesMakeNoDifference` and `StatusFits` these are left as facts about which tokens one parse of a
whole message reports, which need an induction over its lines; that coreJSON accepts JSON up to the two deviations and finds exactly
the members of a tree (`JudgesExactly`, `FindsMembers`), since the reference in JsonText is
recursive over texts and trees, which is beyond the prover.

## 5. Findings

1. `receiver_abort` — `Mynet_read` returns 0 once a client has closed its end; the
   loop leaves on a negative result or an Eof only, so it reads nothing for ever.
2. `msgbox_lost` — between `evtEntry` (commands.cpp:76) and the store (77) the main
   thread may run the script, which then displays a null pointer; the store goes to
   an entry that may be another script's.
3. `commands_stale` — `attrs` points into the vector that `split` returned, which is
   gone when the pointers are used.
4. `http_eof` — the end of the connection never ends a body: `llhttp_finish` is not
   called, and the call returns `HTTPPartialResponse`.
5. `json_loose` — `{[]}`, `[1{}]` and `[[][]]` are accepted as valid JSON.

### Where the code and its documents disagree, and no run is violated

The run of a property passes although the code does not do what a text of the repository
says, because the property leaves the case out *by name*; it says nothing of what the code
does there, so it would still hold if the code were corrected.

| What the code does | What the repository says | Left out of |
|---|---|---|
| a `read` whose end wraps around the address space (commands.cpp:21) is answered, with bytes outside of MEM1 | commands.cpp:22, the error "Address (%x) or end of buffer (%x) outside of MEM1's range" | `AnswersRight` (`Wraps`) |
| `split` drops a last word that repeats the one before (util.cpp:163), so `read 8 8` is turned down for its number of arguments | README.md:14, `read address n` | `AnswersRequest`, `RejectsOnlyMalformed` (`Tok!EndsTwice`); `SplitResult` states it |
| an error of the address ioctl is taken for an address (network_wii.cpp:305, 350) | network_wii.cpp:351, "Unable to obtain IP address" | `UpIsUsable` |
| between `IOS_Close` and the reset of `net_ip_top_fd` (network_wii.cpp:361-362) the title screen may use a number that was closed | no text, but a lock would be needed | `HandlesBalanced` (`At("forget")`) |
| a status line without a reason phrase leaves `statusCode` 0, or that of the message before (llhttp.c:12687) | core_http_client.h:500, "The HTTP response Status-Code" | `ResponseFaithful` |
| a `Content-Length` of 2^32 or more is cut to a `size_t`, the greatest is taken for none (core_http_client.cpp:868) | core_http_client.h:507, "The value in the Content-Length header is returned here" | `ResponseFaithful` |
| the last header of a trailer is neither counted nor reported (core_http_client.cpp:747) | core_http_client.h:514, "Count of the headers sent by the server" | `ResponseFaithful` |
| a value on several lines is handed out with its line breaks and without its end (core_http_client.cpp:805); a search finds its first line | core_http_client.h:396-397, "Location of the header value", "Length in bytes of the value" | `ResponseFaithful`, `HeaderFound` (`GoesOn`) |
| a search for an absent header goes on into the body and ends in `HTTPInvalidResponse` (core_http_client.cpp:2402: the answer of the callback only says that there is no body) | core_http_client.h:850, core_http_client_private.h:176-182, core_http_client.cpp:2388-2401 and 2494-2495: `HTTPHeaderNotFound` | `HeaderFound` claims only that none is found |
| a control character behind a backslash is accepted in a string (core_json.cpp:482) | core_json.h:70, 73: `JSONSuccess` for valid JSON, `JSONIllegalDocument` for what is not | `JudgesExactly` (`Escaping`), `AcceptsOnlyJson` |
| a text cut within a scalar or behind a comma is illegal and not partial | core_json.h:75, `JSONPartial` if "potentially valid but incomplete" | `JudgesExactly` claims only that what is partial can be completed |
| a query that ends with a separator behind an index, `[0].`, is accepted (core_json.cpp:1589) | core_json.h:131, `JSONBadParameter` if "the portion after a separator is empty" | `FindsMembers` (`EndsBehindIndex`) |

Seen while modelling, and modelled as the code has it, where no text of the
repository says otherwise clearly enough: the error -61 passes the test of the error map
and reads the byte behind it; a header refused for a line break leaves the empty line
overwritten, and `HTTPSendRequest` overwrites the status of
`HTTPClient_InitializeRequestHeaders`, so that a request whose Host did not fit is
sent without it (`RequestOnWire` states both); the `Content-Length` of a first message
carries over to the next; `headersLen` is measured up to the place of the last callback or
the end of the last receive, so it includes a line break if a receive ends behind the last
header's line, which the comment at `core_http_client.cpp:842` says it never does (no
property is about `headersLen`); a 304 with a `Content-Length` waits for a body; an answer
that switches the protocol ends in `HTTPParserInternalError`, which `processLlhttpError`
keeps for errors that "cannot be triggered" (`FailureJustified` states it); `HTTPFree` uses
`delete` for `new[]`, and its `response = {0}` only clears the local pointer; coreJSON takes a
separator before an index and none behind it (`a.[0]`, `[0]a`).

## 6. Not modelled

- *llhttp*: the states that parse requests (methods and URLs), which this program
  never enters; its pause interface and `llhttp_finish`, which it never calls; the
  characters within a token, so the tables of legal characters.  This is most of
  the lines of the generated `llhttp.c`: the states of a method or a header name
  spell it letter by letter.  Lines 1 to 7588 are a second copy of the parser under
  `#if LLHTTP_STRICT_MODE`, which `llhttp.h` sets to 0: no build of the mod compiles
  them, so they are not mapped.
- *HTTP client*: the tests for NULL pointers (those for empty parameters are modelled), the texts of `HTTPClient_strerror`.
- *Json*: the bytes of a code point, hexadecimal digits and the letters of a literal
  are one character each; tests for NULL and for places outside of the text.
- *strtoul*: `endptr` and `errno`, which the mod ignores.
- *Socket wrappers, strtod, patching, utilities, module loading, headers, vendored
  code*: see the table; each has its reason in `PROJECT.json`.
- What a request that is longer than the receive buffer overwrites: that would be a
  model of the stack's layout.  That it is overwritten is modelled (`StoresInBuffer`).

## 7. Plan

Written in the order of importance to the system: Receiver and RequestService with
their proofs, NetInit, MsgboxEvt with its proofs, Tokenizer and CommandManager, the memory
commands with their algorithms, the HTTP client with its parser, JSON.

Next:

1. *Model*: a composition of Receiver and CommandManager (the answer of a request
   is that of its own text); the socket wrappers as a module that Receiver and
   HttpClient use; the UTF-8 bytes of coreJSON; the branch words of `patch.cpp` and
   the save checksum.
2. *Prove*: from `PiecesMakeNoDifference` and `FeedTold`, what one parse makes of a whole message, line by
   line, for `FailureJustified` and then `ResponseFaithful`.
