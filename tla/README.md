# A verification project for kjdmud

kjdmud is an LPC driver: a C++ program that loads objects written in LPC, runs
their code, and lets players reach them over the network. These TLA+ modules
model the parts of the driver that keep shared state and call LPC code in the
middle of changing it, and the parts that turn text into something else and
back: the compiler and the machine that runs its programs, saved objects, the
byte streams of a connection. TLC checks small instances; TLAPS proves the
central invariants for every value of the constants.

The driver is one thread. What makes it hard is re-entrancy: almost every
operation calls LPC code (an apply, a callback, a body), and that code can call
any efun again, on the very objects, tables and connections the driver is
working on. Each module with state therefore splits an operation of the driver
where it calls out, and lets every efun of its component happen there.

Some promises hold only for a mudlib that keeps to a rule the driver does not
enforce. Such a rule is a variable fixed at the start of a behaviour (`quiet` in
`Shadows`, `orderly` in `Connections`, `plain` in `Containment`): the promise is
stated under it, and one specification has the behaviours with the rule and
those without.

## 1. Inventory

Paths are relative to the repository: `src/` for the implementation,
`include/kjdmud/` for the headers.

| Component | State | Operations | What is hard | What must hold |
|---|---|---|---|---|
| call_outs (`scheduler/Scheduler`) | `callOuts_`, handle counter, the pulled vector of a sweep | call_out, remove_call_out, find_call_out, `tickCallOuts` | bodies make, cancel and destruct while a sweep works on a vector that has left the table | each call_out ends in exactly one way; no overtaking; no body on a dead owner |
| heart_beats (`scheduler/Scheduler`) | `heartbeats_`, `heartbeatInterval_` | set_heart_beat, `tickHeartbeats` | objects re-time, disable, destruct each other inside a cycle; 64-bit argument in an `int` | list and query agree; the cadence is kept; command giver popped on every path |
| resets and clean_up (`scheduler/Scheduler`, `object/LpcObject`) | reset time, reset state, time of last use, willingness | `tickResetsAndCleanup`, arming | the sweep's own calls look like uses | resets are earned, clean_up only after disuse, both go on |
| driver loop (`scheduler/Scheduler::run`, `main.cpp`) | shutdown flag, time of last beat | one iteration after the other | order of the parts, shutdown | every part comes round, a shutdown ends it |
| async tasks (`scheduler/Task.hpp`, `VM::runAsync`) | parked coroutines | park, resume | a task that dies parked | each is resumed once |
| shadows and destruct (`object/ObjectManager`, `vm/VM::callFunction`) | `shadowing_`, `shadowedBy_`, destructed flag | shadow, unshadow, destruct, reload_object | valid_shadow() and on_destruct() run in the middle | links mirror, chains end, a cascade is complete |
| object table (`object/ObjectManager`, `vm/VM`) | `loaded_`, `programCache_`, objects, the queue of `replace_program()` | boot, load, clone, virtual objects, create(), destruct, reload, replace | loads nest; an object is in the table before its create() runs; names are shared by blueprint and clones; files change under the cache | a name finds the live, complete object it belongs to; variables fit the program |
| containment and actions (`vm/VM::moveObject`, `dispatchCommand`) | `environment_`, `inventory_`, `actions_` | move_object, set_environment, add_action, commands | init() moves and destructs during a move | both links agree, everyone is introduced |
| connections and poll (`net/Server`, `net/Connection`, `net/InteractiveRegistry`) | connections, bound objects, registry, snoop links, pending input_to | accept, line dispatch, exec, destruct, snoop, close | raw pointers, code that closes and rebinds any connection | no dangling pointer, net_dead once, registry complete |
| telnet and out-of-band protocols (`Connection::pollLines`, `processTelnetBytes`, `proto/`) | byte automaton, options, subnegotiation, line buffer, websocket frames | receive, send | commands, frames and lines split over reads at any byte | the mudlib is told what was sent, each message once, whole and in order, whatever the reads |
| LPC sockets (`net/SocketRegistry`, `Server::pollSockets`) | `g_sockets`, pending writes, offers | the socket efuns, the poll | a poll over a snapshot, partial writes, release during a callback, owners that go away | a destruct() leaves no socket behind, streams in order, offers end |
| virtual machine (`vm/VM`) | frames, stacks, catch frames, evaluation cost, defers | one opcode after the other, calls, unwinding | an error, a cost limit or a return out of nested constructs | what runs is what the source means, and it ends |
| compiler (`compiler/`) | none between calls | lexer, parser, code generator | precedence, backtracking, jump patching, slots of inherited variables | same meaning as the source |
| preprocessor (`object/ObjectManager`, first part) | none between calls | staging a file for the external `cpp` | text substitution, a child process | the text compiled is the text meant |
| persistence (`persist/StateSerializer`, `vm/SaveVariable`, save efuns) | saved text | save_object, restore_object, save_variable, dump_state and back | round trips, nesting, a crash in the middle of a save | restore inverts save; a torn file loses its end only |
| JSON (`efun/EfunTable`) | none | json_serialize, json_parse | escapes, nesting | parse inverts serialize |
| privileges (`security/UidModel`, `dialect/`) | uid, euid | boot, assignment, seteuid, export_uid | the master is asked while others go on | nobody acts under an id that was not granted |
| parser package (`efun/ParserPackage`) | verbs, rules | parse_sentence | a search over rules | first best match |
| database handles (`efun/DbRegistry`) | handles | connect, exec, close | reuse of handles | a handle is one connection |
| remaining efuns (`efun/EfunTable`) | none | strings, arrays, mappings, files | numeric edges | pure |

How they meet: `Scheduler::run()` calls the server poll, the beats, the resets
and the call_outs in turn; all of them call LPC code through
`VM::callFunction()`, which walks shadow chains and refuses destructed objects;
`destruct()` is the operation every component has to survive, so every module
has it.

## 2. Modules

| Module | Models | State and actions |
|---|---|---|
| `CallOutContract` | what the scheduler promises of a call_out | a handle is made, cancelled or committed, then run or dropped, once, not before its time |
| `CallOuts` | `scheduleCallOut`, the removals, `tickCallOuts` | `callOuts` is the table, `due` the pulled vector; `PullDue`, `FireNext`, `BodyEnds`, `SweepEnds` are the sweep, efuns interleave while a body runs |
| `Heartbeats` | `setHeartbeatInterval`, `tickHeartbeats` | `ticks` is the list, `due` the cycle's vector; `CountDown`, `BeatStarts`, `BeatReturns`, `BeatThrows`, `CycleEnds`. Integers have a width (`IntHalf`) |
| `ResetCleanup` | `tickResetsAndCleanup`, arming | `TurnSkips`, `TurnNotDue`, `TurnVirtual`, `TurnNoReset` and `ResetStarts` are the branches of one object's turn; `used`, `quiet` and `asked` are histories. `dialect` is chosen at the start and never changes |
| `Shadows` | shadow efuns, `destructObject`, `reload_object`, the unlinking `replace_program()` does, `callFunction`'s walk | the driver's calls in progress are `frames`; a frame waits for valid_shadow(), for on_destruct(), or for the next step of a cascade; `quiet`: applies call no shadow efun and no destruct() |
| `Connections` | `Server::pollOnce`, `handleConnection`, `dispatchLine`, exec, snoop, destruct | `phase` is what the poll is doing; LPC code runs in the phases that call it; `orderly`: it binds no object that is destructed or bound elsewhere, and destructs none with a shadow that has a line |
| `Sockets` | `SocketRegistry`, `pollSockets` | the poll's snapshot is `todo`, releases in progress are a stack; bytes are numbered units; `destructed` code goes on running, `freed` objects have let go of nothing; `late` is a history: sockets a dead object got |
| `Containment` | `moveObject`, `dispatchCommand`, set_environment, add_action | moves and commands in progress are a stack of what is left to call; `plain`: objects are moved by move_object() only, init() does not fail, and commands stay enabled or disabled |
| `Programs` | `compile()` as the object table sees it, `programCache_`, `searchInheritedProgram` | pure operators: a program is the file and text it was made from, its parents, slots and offsets |
| `ObjectTable` | `ObjectManager`, `captureBootUids`, `assignObjectUid`, `replace_program()` with its queue, seteuid | `frames` are the driver's calls in progress: asking for an owner, a create(), a clone's create(), compile_object(), a reload, valid_seteuid(), the boot uids. Compiling and inheritance are constants, given by `Programs` |
| `LpcAst`, `Lexer`, `LpcParser`, `CodeGen`, `Compiler` | `compiler/` and the part of `compile()` that links parents | one operator per function of the C++ classes; the class members are a record that is handed on |
| `LpcPrinter` | nothing: a reference | writes a syntax tree as LPC with the parentheses the grammar of C needs |
| `LpcValues`, `LpcMachine` | `Value`, `VM::run()` and the calls | one step is one instruction or the end of one frame; frames hold locals, stack, catch frames, defers. Compiler and sscanf are constants, given by `Compiler` and `LpcValues` |
| `LpcMeaning` | nothing: a reference | evaluates the syntax tree with environments and results, without slots or jumps |
| `Telnet` | the sender of a byte stream (`sendGmcp` and its like, or a client), `pollLines`, `processTelnetBytes`, `decodeWsFrames`, the handshake, the applies of a round | the sender writes one byte or mark at a time (`Speak`) and puts bytes into frames (`Transmit`); `step` is the loop the poll is in, and an action is one turn of it: a read, a frame, a byte, a line; `sent`, `messages`, `frames` and `told` are histories |
| `Saving`, `JsonText` | `SaveVariable`, `StateSerializer`, save_object, restore_object, the legacy format, JSON | pure operators between values and texts |
| `MC...` | instances for TLC | model values, symmetry, the worlds and texts that are tried |
| `...Proofs` | theorems and proofs | see section 5 |

Data is abstracted to what the properties tell apart: verbs, texts, function
names and file names are left out or are model values; what the operating
system or LPC code decides is a choice. An operation that is refused changes
nothing and is no action. The mutants in the modules (`\* Mutant of ...`) are
plausible bugs, each found by the property it is listed with in
`PROJECT.json`; they are no part of the specifications.

## 3. Runs

| Run | Checks | Shows |
|---|---|---|
| `call_outs` | OneFate, NoOvertaking, ImplementsContract, EveryCallOutEnds | handles are neither lost nor doubled, whatever bodies of the same sweep do; CallOuts implements CallOutContract; a sweep works off a vector nothing joins, so rescheduling with delay 0 keeps none going, and every call_out ends |
| `heart_beats` | CadenceKept, GiverBalanced, KeepsBeating | an interval of n beats every n cycles through re-arming, and an error in one body costs nobody else a beat |
| `resets` | ResetsEarned, CleansOnlyUnused, EveryIdleAsked, UsedKeepsResetting | the sweep's own calls neither fake a use nor hide one |
| `shadows` | LinksMirror, ChainsEnd, DestructComplete, NoGhostCalls | links stay a doubly linked chain under nested destruct, unshadow, reload and free; where the applies leave shadows alone, a cascade is complete, tells each object once, and no call reaches a destructed object |
| `connections` | NoDangling, SessionsAnswer, SnoopPaired, SnoopEnds, NetDeadOnce, LostIsReleased | raw pointers stay valid under shared and destructed bindings, a lost line is told of once and released; orderly code always finds an object that has a line, and snoopers form no loop |
| `sockets` | NoOrphans, ToldOfCloseOnce, StreamInOrder, RestIsWatched, OffersEnd, HandedOver | callbacks that change the table under the poll, partial writes, nested handovers, owners destructed at any point and freed |
| `containment` | LinksAgree, EveryoneIntroduced | every operation of LPC code on the two links, failing bodies and freed containers included; init() bodies that move and destruct anything leave nobody without an introduction |
| `objects` | FoundIsAlive, FoundIsComplete, EuidsApproved, SlotsMatch | create() and the master's applies may load, clone, rename, destruct and replace anything: a name finds a complete object, and a live one unless compile_object() handed over a destructed one; ids are granted, variables fit the program |
| `machine` | CompiledMeansSource, Terminates | programs printed, lexed, parsed, compiled and executed end as the reference evaluation of their syntax tree does, and every dispatch ends, an endless loop by its evaluation cost |
| `text` | ParsesBack, SavedReadsBack, TornSaveIsLocal, DumpRoundTrip, ReceivedAsSent | what one half of the driver writes the other half reads back, a dump also into a world that has changed since; a save cut short spoils one variable at most, though it may raise an error; how a stream is cut into frames and reads changes nothing of what the mudlib is told |
| `shadow_ring` | ChainsEnd, violated | section 6 |
| `blueprint_lost` | BlueprintsKept, violated | section 6 |

### Bounds

Every bound is a constant with "bound" in its comment and stands in a guard.

- `call_outs`: three handles. One body runs, one entry waits in the same sweep
  and one is added meanwhile; times 0 to 2 let entries fall due in another
  order than they were made.
- `heart_beats`: no bound; the int has three bits, and arguments are -1 to 3.
- `resets`: delays of one unit and a limit of two. Checked once with delays of
  one or two and a limit of three (1.5 million states) with the same result.
- `shadows`: four objects, four frames: a chain whose middle has two members,
  and an apply inside a cascade inside an apply. Quiet behaviours have four
  objects; in the others three take part, and anything happens but a shadow()
  nested in valid_shadow().
- `connections`: two connections, one line a read. Orderly behaviours use
  one connection and three objects, since a loop of snoopers that is not direct
  needs three; the others two objects and both connections, with a destruct that
  takes a shadow along.
- `sockets`: two objects, two handles, three units and two releases: a partial
  write with a rest of two, and an offer inside an offer. `MCNext` keeps the
  combinations apart that have nothing to do with each other: releases nest,
  dead code gets sockets and one object is freed before anything is written.
  MUD mode does everything stream mode does and more.
- `containment`: two objects, two deep, all operations; or, in plain
  behaviours, three objects and three deep with moves and destructs, since
  introductions need a room, a newcomer and somebody present.
- `objects`: a mudlib of six files: one inherits two others, one of which is
  rewritten to inherit it in turn, one is rewritten into a broken text, one has
  no source. Four objects (three but while booting), two frames: a load inside
  a create() inside a load. A behaviour keeps to one habit: code that runs
  while the driver boots, user ids, names, or rewritten and replaced programs.
  `ASSUME InheritedInPlace` evaluates, on all programs `Programs` compiles from
  any texts of this mudlib, what SlotsTheorem takes as its hypothesis.
- `machine`: 93 worlds, among them every kind of loop left and continued
  directly and from a switch, catch and throw in every position, defers,
  spreads, closures, inheritance twice over, sscanf, destructed objects and
  endless dispatches. `MaxEvalCost` is 600 instructions, above what the
  programs that end need; slots are 8 bits wide.
- `text`: code and values nested two deep, in three dialects of LPC. A stream
  is a script of one or two units (a line, a command, a negotiation, a
  subnegotiation of every kind, finished or abandoned, with doubled IACs and
  marks inside), sent plainly, in short frames, masked with a ping and a pong
  between, cut off by a close, or in a frame long enough for a two-byte length;
  reads end at every byte (of a long frame, within its head). On a "bad" line
  the key is missing, the socket is full or the peer hangs up; on a "busy" one
  efuns write in between. `Telnet` itself has one bound, frames of less than
  2 GiB (`LongestFrame`), below which no arithmetic of `decodeWsFrames()`
  overflows. A dump holds four objects, and is restored into a world that has
  only the master, and into one where all of them have moved, changed and been
  joined by others. The variables of a saved object have different names.

In `machine` and `text` the large operators are constants bound in the .cfg to
definitions of the MC module; the meaning is the same as if the invariants
named them.

Symmetry is used for objects that are interchangeable, never in a run that
checks liveness, and not in `containment`, where only one object has commands.

### Fairness

Weak fairness on the steps of the driver itself (pull, fire, end of a sweep,
the poll, the next object's turn): `Scheduler::run()` is a loop that never
waits for anything but a bounded sleep, so each of these steps happens. Weak
fairness on the return of LPC code: the evaluation cost bounds every body
that leaves the limit alone. For
`resets`, strong fairness on the clock: it is stopped in the model while a
sweep runs, but time passes in every iteration. For `machine`, the interpreter
loop goes on as long as there is no outcome (weak fairness of its step, written
out, as a step is possible until there is one). Nothing is assumed of LPC code
that calls efuns, of players or of the network.

`CHECK_DEADLOCK FALSE` stands where the system may stop because the bounds are
used up or every object is destructed.

## 4. What is only model-checked

- Liveness: EveryCallOutEnds, KeepsBeating, EveryIdleAsked, UsedKeepsResetting,
  LostIsReleased and Terminates. Liveness under fairness and ENABLED are beyond
  the prover used here. What a liveness run of a few handles cannot show of
  EveryCallOutEnds, that no chain of rescheduling prolongs a sweep, is its safety
  half SweepRunsOut, and that is proved.
- CompiledMeansSource, ParsesBack, SavedReadsBack, TornSaveIsLocal and
  DumpRoundTrip: the compiler, the machine and the saved texts are RECURSIVE
  operators over trees, which the prover cannot unfold, and what they say of
  every tree would be an induction over data.

Every other property of a passing run is also a theorem.

## 5. Proofs

All theorems hold for every value of the constants under the `ASSUME`s of the
modules, which state types, that a "none" value is not an object, that every
file has a first text, and of the streams (`StreamAssumption`) that a mask undoes
itself and that an upgrade request ends with its first empty line. A further hypothesis stands in the theorem itself.

- **CallOutProofs**. The inductive invariant is TypeOK, OneFate and PulledFirst
  with the shape of a sweep (nothing pulled outside one, the running handle is
  pulled). OneFate alone is not inductive: that a handle in the table is not
  pulled, too, follows from the order of the pull. NoOvertaking and
  OnlyLiveOwnersRun are action properties on top of it. ContractTheorem maps a
  handle's place (table, pulled, ended) to its status in `CallOutContract`, and
  every action to a step of it or a stutter. SweepsEndTheorem counts what is left
  of a sweep, two for an entry that waits and one for the entry that runs: only
  the firing loop changes it, and each of its steps makes it less.
- **HeartbeatProofs**. Types with any width of int; the command giver stack is
  what it was before the beat; CadenceTheorem needs arguments that fit an int,
  and the invariant that cycles counted plus ticks left are the interval.
- **ResetProofs**. Both action properties need to know what the fields of an
  object stand for while the sweep itself calls, touches and skips objects. The
  invariant (SweepInv) says: a live object without the reset flag has been used,
  unless its own reset() or clean_up() is running and the sweep took the flag; a
  clean_up() that will not put the flag back runs on a used object; and the age
  the sweep computes is at most the time since the last call from outside. The
  first two give ResetsEarned, the last CleansOnlyUnused under LDMud's rules.
- **ShadowProofs**. If valid_shadow() makes no nested shadow(), links mirror
  and chains end. ChainsEnd is stated over sets: every non-empty set of objects
  has one whose link leaves the set. The invariant adds what a waiting
  shadow() has established about its two objects. DestructComplete and
  NoGhostCalls are about quiet behaviours, with chains of any length: QuietInv
  says which frames can lie on which (QuietStack), that a destructed object is
  linked to nothing (DeadUnlinked), and that everyone destructed has been told
  of once. A cascade works from the top down; that it has reached the base when
  it ends follows from what its frame still points to.
- **ConnectionProofs**. Types, NoDangling, SnoopPaired and WithinLimit. The
  invariant relates `phase`, the current connection and what is listed: a
  connection is erased only at the end of the poll, when none is current.
  SnoopEnds is stated over sets like ChainsEnd; snoop() walks the chain before
  it links, and the closure it walks is what the new link must not enter.
  SessionsAnswer needs, for orderly code, that no object is bound to two
  connections and that each binding has its own registry entry, so that closing
  one takes no other's entry away (OrderlyInv). NetDeadOnce is about all code: a
  lost line with an object has been told, or is the one being read (LostTold);
  nobody the round has still to come to has been told (ToldBefore), and nobody
  told has an open line (ToldClosed).
- **StreamProofs**, on `Sockets`. One invariant for each concern: what has been
  told (ToldOfCloseOnce), the stack of releases (OffersEnd, HandedOver), owners
  (NoOrphans, without any hypothesis: whoever gets a socket when it is destructed
  already is in `late`), and streams (StreamInOrder, RestIsWatched): what is on the wire are the first units, what
  waits are the next ones, and a handle never used has neither.
- **StreamProofs**, on `Telnet`. MudlibToldAsSent is ReceivedAsSent for lines and
  messages of any length, any masks and any cut into frames and reads. What
  relates the two sides is an ideal parser that sees all the bytes sent, one
  after the other: StateAfter, SbAfter, IsText and Gives say what one byte makes
  of it, with what it has parsed so far counted and not stored. StreamInv says
  that there is a run of it (a witness, so nothing recursive is needed) with
  three links. *The sender*: after all of `sent` the run is in the state the
  sender is in; the text bytes it counted are the lines of `messages` with their
  marks and then `typed`; the messages it counted are those of `messages`.
  *The transport*: what has arrived and not been decoded, decoded and not
  parsed, and not arrived at all are pieces of `sent` that lie one behind the
  other; for websockets through the frames, where each begins and how much the
  ones before carried. *The receiver*: `telnetState` and `sbBuffer` are what the
  run has after the bytes parsed; `inputBuffer` is the text behind the last line
  split off; `incoming` and `told` together are the first messages counted, or
  some of them in their order and the newest, for the kinds behind a flag.
  Each byte the sender writes makes the run longer by one state and leaves it
  as it was before (the sender lemmas, one for each form of a byte or mark);
  each turn of `processTelnetBytes()` takes the receiver one state on; reads and
  frames only move the boundaries. The lemmas behind it are about operators:
  `Fields()` and `MsdpPair()` give back what `sendZmp()` and `sendMsdp()` joined,
  a frame is taken when and only when all of it is there, its length is what
  `encodeWsFrame()` wrote in each of the three forms, and masking twice is
  nothing. When all is handled the boundaries are at the end of `sent`, and the
  links give equality.
- **ContainmentProofs**. LinksAgree is inductive with its types. StaysOut holds
  if no LPC code calls set_environment(). EveryoneIntroduced speaks of the end
  of the outermost move only; its invariant (MetInv) speaks of every moment:
  two objects that are together have been introduced, or the stack holds a move
  that has not looked around yet, or still has that call to make. That a nested
  move or destruct in an init() body takes one of the two away is the case where
  the waiting call need not happen any more.
- **ObjectProofs**. For every mudlib, as Compile, Inherited, Slots and Base are
  arbitrary. Types (frames speak of objects that have been made, and keep a
  file name or a user id according to what they wait for) carry the three
  theorems. EuidsApproved needs that the ids of the root are approved, too, as
  they pass to what the driver loads. FoundIsAlive, with its exception for what
  compile_object() hands over destructed (`late`), is inductive with the types.
  FoundIsComplete is not: its invariant adds that an object is found under its
  own name unless compile_object() handed it over (so that the error path of
  loadObject() forgets the right entry), that a waiting create() knows that
  name, and that a clone whose owner is being asked for is in no entry.
  SlotsMatch is proved for every compiler that keeps variables of what is
  inherited in place (`InPlace`; `Compiles` says that P holds all programs it
  makes): requests of replace_program() speak of the program their object still
  has, at most one each (Requested). That `processPendingReplacePrograms()`
  leaves every object with a fitting program is an induction over the queue,
  from the least natural number for which it fails (LeastNatural, SwappedOnce).

What is proved and not listed as a property of a run: the types of the modules
(TypeCorrect, HeartbeatTypes, TypeTheorem, ConnectionTypes, ContainmentTypes,
StreamTyped), StreamInvariant,
LiveOwnersTheorem, LiveBeatTheorem, PullTheorem, SweepTheorem,
WithinLimitTheorem, SweepsEndTheorem (half of EveryCallOutEnds) and
StaysOutTheorem.

## 6. Disagreements between code and text

Two are kept as runs:

- `shadow_ring`: shadow() checks, asks valid_shadow() in the master and then
  links without checking again. A nested shadow() closes a ring, on which
  `callFunction()`'s walk ("This terminates at the original, unshadowed obj")
  never ends.
- `blueprint_lost`: `destructObject()` erases the table entry with the file name
  of the object, for a clone the entry of its blueprint. The header says that
  "loaded_ below already keeps every blueprint alive for this same
  ObjectManager's own lifetime".

Others were met while modelling; the models have these behaviours:

- remove_call_out() of an entry that the current sweep has pulled answers -1,
  and the entry runs (`Scheduler.cpp:101`, `EfunTable.cpp:2882`).
- set_heart_beat() tests 64 bits and stores an int: a multiple of 2^32 lists an
  object with interval 0 (`Scheduler.cpp:160`). Outside `Arguments` of the run.
- An object disabled by another body of its cycle still beats once
  (`Scheduler.cpp:190`).
- valid_shadow() that destructs the target, and on_destruct() that unlinks or
  destructs members of the chain: a link to a destructed object, a base that
  survives, an object told twice (`EfunTable.cpp:6156`, `ObjectManager.cpp:1158`
  and `:1173`). The quiet behaviours of `shadows` have none of them.
- An object whose create() threw is never armed (`ObjectManager.cpp:1112`).
- An object bound to two connections loses both registry entries when one
  closes (`Connection.cpp:165`); an interactive shadow destructed by a cascade
  keeps an open, inert line (`EfunTable.cpp:5390`). The orderly behaviours of
  `connections` have neither.
- Lines read before a close are dispatched after it, to a pending input_to()
  too (`Server.cpp:300`); exec() leaves the snooper behind (`EfunTable.cpp:7054`).
- The poll reports the end of a socket that another callback closed with
  socket_close() (`Server.cpp:548`, `SocketRegistry.hpp:99`).
- Sockets nobody can close: an object that goes on running after
  destruct(this_object()) makes, accepts or takes over more of them
  (`SocketRegistry.cpp:146`, `:474`; `late` in `Sockets`), and the weak pointer to
  an owner that is freed without a destruct() expires with its sockets still in
  the table (`LpcSocket.hpp:112`; `Free`).
- set_environment() puts destructed objects back (`EfunTable.cpp:5584`); a move
  leaves the old room's actions in the table (`VM.cpp:1448`).

- `moveObject()` refuses only `item == dest`: two objects moved into each other
  make `set_light()` ("walking all the way to the root") loop (`VM.cpp:1387`).
- Objects and programs: `compile()` trusts its cache if the file's own text is
  unchanged, whatever became of the parents; the error path of `loadObject()`
  erases the name even if another object has taken it meanwhile; a virtual
  object's old name stays in the table; compile_object() may return an object
  whose create() destructed it, and it is then found under its own name
  (`ObjectManager.cpp:1021`; `late` in `ObjectTable`); the master stays the master after its
  destruct(); an ancestor inherited twice keeps its last offset only.
- Compiler: numbers of lambdas start again in every file, and an inherited
  lambda is looked up by that number in the heir first (`CodeGen.cpp:683`,
  `CodeGen.hpp:216`); functions inside initializers of object variables are
  emitted only if a function follows (`CodeGen.cpp:1669`); `a[f()] += 1` calls
  `f` twice (`CodeGen.cpp:907`); counts of locals and arguments are 8 bits
  (`CodeGen.cpp:1702`); `x[<1] = v` and `x[1..2] = v` lose the marks of the index
  (`Parser.cpp:1407`, `:2037`); backtracking binds a `$(e)` twice
  (`Parser.cpp:2035`); lookahead compares texts and not token types, so a string
  can pass for a bracket (`Parser.cpp:393`, `:525`, `:634`, `:659`); a local
  declared in a loop without a value keeps the last one.
- Machine: sscanf() into object variables of an inherited file ignores the base
  (`VM.cpp:3014`); a spread that an error interrupts leaves its count for the
  next call (`VM.cpp:2415`); leaving time_expression by break or return leaves
  stack entries (`VM.cpp:2244`); deferred calls after an exceeded evaluation
  cost die at once (`VM.cpp:195`); unmatched indexed outputs of sscanf() become
  0; a `defer` inside `(: :)` registers with the caller.
- Saving: a TAB in a string makes restore_object() take the line for the legacy
  format (`EfunTable.cpp:9352`); "\r" comes back as "\n"; malformed text makes
  `parseRealSaveValue` loop (`SaveVariable.cpp:92`); files are truncated in place;
  restore_object() raises an error on a file cut after the "-" of a number
  (`SaveVariable.cpp:72`) or after a "(" (`:136`), and leaves the variables after
  the cut alone; of variables with one name, an inherited one and the object's
  own, both lines of a saved file go to the slot that comes first
  (`EfunTable.cpp:9364`);
  a dump meets an error at a reference to a destructed object, and one cut short
  can be accepted (`StateSerializer.cpp:169`); floats keep six digits.
- restore_state() takes a blueprint that is loaded as it is
  (`StateSerializer.cpp:417`): one that was dumped without an environment stays
  where it is now (`:432`); one that gets another environment stays listed by its
  old one if the dump has no entry for that; and an object outside the dump keeps
  an environment that no longer lists it. environment() and inventory() may
  disagree afterwards.
- Streams: bytes that arrive with the websocket handshake bypass the telnet
  layer (`Connection.cpp:498`); `send()` drops the rest on EAGAIN
  (`Connection.cpp:253`); options are never turned off (`Connection.cpp:793`);
  out-of-band messages overtake the lines of the same read, and their applies go
  to the object that was bound before the first of them (`Server.cpp:609`).

The instances of `machine` and `text` keep clear of those that make the two
sides differ; the modules have them.

## 7. Not modelled, and what is left

- Driver loop: a fixed order of parts that are each modelled; what it adds is
  the poll timeout and the shutdown flag. A composition of the component modules
  under one loop is the next thing worth writing.
- Async tasks: the code generator never emits what would suspend one.
- Preprocessor: an external program does the work; ObjectTable and the compiler
  take its output.
- Dialects and boot configuration: tables and straight-line code; the order of
  the boot is in ObjectTable.
- Parser package: a search whose meaning is the English it accepts, with no
  reference to check it against. Database handles: numbers around library calls.
- The other 300 efuns: pure functions or I/O.
- restore_state() writes environments and inventories without a check
  (`StateSerializer.cpp:427`): it is in `Saving` and not among the operations of
  `Containment`, so LinksAgree speaks of a world nothing was restored into.
- set_eval_limit(), reset_eval_cost() and the efuns like them
  (`EfunTable.cpp:5277`): LPC code can take back what it has spent and raise the
  limit. Terminates is about programs that call none of them.
- In modelled components: floats, buffers and LDMud's lambdas in the machine,
  TLS and listeners, privs_file() and privilege_violation(), livings() and
  set_light().

Of `Telnet`: the order in which messages of different kinds of one poll are told
is left out (out of band before lines, `Server.cpp:579`), and so is a client that
sends frames before it has read the answer to its request: what it sends then is
among the disagreements of section 6.

Proof still open: that `Programs` satisfies `InPlace` for every mudlib (the run
evaluates it for one). It needs its operators rewritten as recursive functions
and an induction over the depth of inheritance.
