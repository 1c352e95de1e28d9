# A verification project for The Forgotten Server 7.4

The repository is a game server in C++: an MMORPG world in which a few hundred
clients walk, fight, trade and talk. This directory holds TLA+ models of the
parts of it where order, failure and shared state make the code hard to test,
the TLC instances that check them, and TLAPS proofs, for every value of the
constants, of the properties that matter most: of the threads everything else
stands on (with the abstract queue one of them implements), of connections and
sessions, of trades, parties, spawns, raids, houses, channels and walks, and of the
server process with its ports, bans and premium days.

Source paths are relative to the repository (`src/src/tasks.cpp` is
`src/tasks.cpp` of the server's own tree).

## 1. The system

### Threads

| thread | code | what runs on it |
| --- | --- | --- |
| dispatcher | `tasks.cpp` | all game logic, one task at a time |
| scheduler | `scheduler.cpp` | sleeps until a delayed task is due and hands it to the dispatcher |
| database | `databasetasks.cpp` | queries the game does not wait for |
| network | `connection.cpp`, `server.cpp` | completion handlers of boost::asio, timers, the first parse of a packet |
| main | `otserv.cpp` | starts the others, waits for the loader, runs the network, joins at the end |

Everything that looks like one world (map, creatures, items, parties, trades)
is touched by the dispatcher thread only, so a handler of the game is atomic.
What interleaves there is the *order of tasks*: packets of different clients,
delayed events that were decided on long before they run, and closings that come
from the network. Between the threads proper, locks and condition variables
decide.

### Components, their state and their operations

| component | state | operations | what is hard | module |
| --- | --- | --- | --- | --- |
| Dispatcher | task list, thread state | addTask at either end, take, run, expire, stop, shutdown | wake-ups, two-ended queue, end of the thread | `Dispatcher` |
| Scheduler | priority queue, set of live ids, id counter | addEvent, stopEvent, timed wait, stop, shutdown | stop against fire, wrap of the counter, use of a pointer after the unlock | `Scheduler` |
| Database tasks | queue of queries | addTask, run with retry, callback, flush, shutdown | lost replies, two runners at shutdown | `DatabaseTasks` |
| Connection | socket, two timers, message queue, protocol | accept, read header/body, write, timeouts, close graceful or forced | two threads, late handlers, several closers | `Connection` |
| Output pool | registered protocols, their buffers | register, getOutputBuffer, sendAll, lose the connection | self-arming task, buffers at their limit | `OutputMessagePool` |
| Game session | ProtocolGame and Player, pointing at each other; reference counts | first packet, login, replace, connect after a second, logout, kick, death, release | a delayed connect on objects that changed meanwhile | `GameSession` |
| Waiting list | two lists with timeouts | clientLogin, logout, time | fairness, two lists taken for each other | `WaitingList` |
| Trade | state, partner and item of each player, register of traded items | request, counter-offer, accept, close, notifications | every change of an offered item must end the trade | `Trade` |
| Party | party, members, invitations, shared experience | invite, join, pass, leave, disband, logout | raw pointers both ways | `Party` |
| Spawn | map from block to monsters, the next check | startup, check, stray, death, convince | an event that only runs while needed | `Spawn` |
| Raids | list of raids, the running one | start by chance or command, next event, reload | a chain of events over reloads, events nobody can stop | `Raids` |
| Items | cylinders: tiles, containers, inventory; cached weights | move, add, remove, exchange, stack | partial success, early returns, cached weight | `Items` |
| Creatures, monsters | position, attack, follow and master pointers, target and friend lists, idle state, reference counts, lists of creatures to check | appear, move, leave, attack, follow, summon, convince, think, die | every change is told to spectators one by one, each of whom changes further state | `Creatures` |
| Start, end, ports, bans, login and status protocol | main, loader, thread states; acceptors; connections per address, ban rows, premium days | load by stages, give up, open, accept, reopen, stop, join; ask, refuse, count | signals without a predicate, retries on another thread, statements queued behind a decision | `Server` |
| Persistence | the connection, its transaction and lock; things as rows | save in a transaction with retries, load, crash | the network thread's reads between BEGIN and the lock, lost connections, what is not written | `Persistence` |
| Houses, beds | owner, lists, bed, things, rent; rows | buy, sell, edit lists, walk, sleep, pay, save, stop | who is inside after a change, two stores saved at different times | `Houses` |
| Chat, guilds | channels, users, invitations, windows at the clients | open, close, invite, exclude, talk, log out, reload | raw pointers, keys that are addresses | `Chat` |
| Walking and requests | walk list, walk event, walk task, action task | click, key, request out of reach or too early, step, stop | ids of events that already ran, two chains | `Walking` |
| Paths and sight | nodes of the search, cache of tiles | search, ray, move | pruning, a full table, a shifted cache | `Paths` |
| Monsters' hunting | place, target, free tiles; ticks of the attacks | flee, keep distance, dance, turn, choose, strike | five hundred lines of cases; two clocks | `Hunting` |
| Combat | health, mana, shields, skulls, marks, damage lists | attack, hit, field, kill, move between zones, end | a check once, an effect later; several payers | `Combat` |
| Conditions | list of conditions, the creature they change | add, merge, tick, cure, put off, die, save, load | undoing exactly what was done | `Conditions` |
| Spells and weapons | mana, soul, charges, reagents, exhaustion | say, use, shoot | effect and payment in separate steps | `Spells` |
| Progress | experience, tries, mana spent, percentages, maxima | gain, die, relog | exact boundaries, a loss spread over levels | `Progress` |
| Equipment and decay | worn items, abilities, decay buckets | put on, take off, wear out, step | a change inside a change; visits by turns | `Equipment` |
| Money, tile flags, light, texts | coins, flags, hour, text windows | pay, add, remove, transform, write | change before payment; incremental flags; late answers | `Places` |
| Client's view | stacks, known creatures, the part of the map | add, change, remove, move, walk | positions by index, limits | `ClientView` |
| Scripts | environments, items they own, timers, event books, rounds | call, return, add, move, stop, reload | owners that change, reload in the middle | `Scripts` |
| XML and OTB loaders, configuration, ciphers, NPCs, Lua bindings | - | - | data and single calls | not modelled |

`PROJECT.json` lists every component with its files and why it is, or is not,
modelled.

### How they interact

* The network thread reads a packet, and for most of them posts a task with the
  player's id to the dispatcher (`addGameTask`). `GameSession` has this hand-over.
* The dispatcher adds scheduler events (walk, attack, connect, spawn checks, raids,
  decay, sendAll); the scheduler posts each back with `push_front`.
* `Protocol::release` is posted by the connection that closes, and gives the
  session's reference to its player back.
* Game handlers call the cylinders (`queryAdd`, `addThing`, ...), which notify
  players, who end their trades: `Items` has the moves, `Trade` the offers. Each
  models the other's part as far as it can disturb its own.
* A dead or removed creature tells its spawn, its party and its session.
* Shutdown: the game state task stops scheduler, database and dispatcher; each
  ends its own thread; main joins them.

### Properties that make the components correct

Section 3 names them by run. In short: accepted work is done, in the order
promised, and never twice; a stopped event stays stopped; threads end when told;
two objects that point at each other agree; reference counts count; what a player
was shown is what he gets; items are neither lost nor duplicated; things that must
eventually happen (a refilled spawn, a delivered message, a place in the queue) do.

## 2. Modules

Each module heads its definitions with the code they stand for; `PROJECT.json`
gives the lines ("map"). A helper whose lines lie within those of the definitions that use it
has no entry of its own there. An action is a whole handler, or, where a lock is
released and taken again, one critical section.

* `Dispatcher` -- `threadMain`'s program counter (test, wait, take, run), one step per
  critical section of `taskLock`; `notify_one` after the unlock is a step of its own.
  Condition variables may wake spuriously.
* `Scheduler` -- the same for `eventLock`, with `wait` and `wait_until`, time as a
  counter, and the tail of `addEvent`, which reads the id through the task pointer
  after the unlock.
* `DatabaseTasks` -- `threadMain`, `runTask` with the retry loop of
  `Database::executeQuery`, and `shutdown`, which executes what is left on the
  caller's thread. The database (external) may apply a query and lose its reply.
* `Connection` -- the connection, the operations pending on its socket and the
  timers. asio is external: an operation completes in one step, its handler runs in a
  later one, and a handler that is already queued survives a cancel.
* `OutputMessagePool` -- buffers with a length limit, the chains of `sendAll` events, and
  connections that are gone, which take nothing. Packets are numbered, so that what a
  client got and misses can be told.
* `GameSession` -- sessions, players, the dispatcher's queue and the delayed connect.
  Refusals (bans, full server, database) are free choices.
* `WaitingList` -- the two lists with relative times, including what libstdc++ does
  when an iterator of one list is erased through the other.
* `Trade` -- offers and the moves that may disturb them; positions on a line, room
  counted in places. What an item lies in, which the code finds by going from parent to
  parent, is the least set that has its parent and with each bag that bag's parent
  (`BagsAround`), so that it can be reasoned about without recursion.
* `Party` -- parties and players; levels, distance and fights are one set `fit`.
* `Spawn`, `Raids` -- as in the table.
* `Creatures` -- the state of all creatures is a record `game`, and each function of the
  code an operator from one such record to the next, so that an action is the whole call
  tree of one task: `Map::moveCreature` tells each spectator, one who loses sight stops
  attacking, a summon left behind is removed, which is told to its spectators in turn. The
  order in which spectators are told is a choice. The destructors run when a
  count reaches zero (`Sweep`). A ghost, `lulled`, marks monsters that `onThink` has sent home.
* `Items` -- cylinders as a record `world`; the queries are operators on it, the
  handlers compose them. A ghost, `faults`, marks two departures from the code's own
  rules that the model reaches (section 5).
* `JobQueue` -- what the dispatcher promises, without threads, locks or signals: one
  server, a queue with two ends, a last job. `Dispatcher` instantiates it with its own
  task list, states and running task (`JQ`), and `ImplementsJobQueue` says that it
  implements it, liveness included.
* `Server` -- `srv` is the process: main, the loader's stages, the dispatcher's tasks, two
  threads seen as loops that test, wait and leave, and the ports; `gate` one of the things a
  client meets before the game: the count of connections, a ban, the status request, premium days.
* `Persistence` -- `sess`: the game's connection, a save and the queries a login makes of it on the
  network thread, step by step (the database thread has a `Database` of its own), statements that fail, connections that are lost; `hold`: what a player has and
  the rows and attributes it is written as and read from.
* `Houses`, `Chat` -- a house with a tenant list, a door, a bed, things and rows; channels by key.
* `Walking` -- a line of cells, the scheduler's and the dispatcher's events of one player.
* `Paths`, `Hunting` -- algorithms, one turn of a loop at a time, and decisions over all small
  neighbourhoods, compared with reference definitions (a cheapest path over all paths, the
  line of sight by its geometry).
* `Combat`, `Conditions`, `Spells`, `Progress`, `Equipment` -- the rules of the game: each
  function of the code is an operator on a record; scripts and random rolls are choices. The
  direction and distance named by the searching spell are compared with the nearest
  compass point by an assumption TLC evaluates (`SearchSpellIsRight`).
* `Places`, `ClientView`, `Scripts` -- several small machines each; a field `kind`, or separate
  variables, keeps them apart.
* `MC...` -- instances.
* `DispatcherProofs`, `SchedulerProofs`, `SessionProofs`, `NetworkProofs` (connection, database
  thread, output pool, server process and gates), `WorldProofs` (spawn, raids, scripts, saving), `PartyProofs`,
  `TradeProofs`, `TownProofs` (house, channels, walking) -- theorems, section 4.

`MCDispatcher`, `MCLogin`, `MCWorld`, `MCParty`, `MCTown` and `MCRules` join components that
share no variable: a variable `part`, chosen in Init, says which one moves, and the others
stand still, or hold the value `Absent`. The reachable states are those of the components side
by side and not their product, and a property of one component holds in the joint run exactly
if it holds in the component's own specification. In `MCTown`, `MCRules` and `MCParty` a property
of a part whose variables may be absent is stated for that part (`PlacesSafe` is `PlacesAgree`
while places are explored; `WaysSafe` and `RestoredSafe` join two parts each). Fairness is stated for the part that moves. `MCTrade` and
`MCItems` choose among several initial scenes in the same way.

## 3. Runs

| run | instance | shows |
| --- | --- | --- |
| `dispatcher` | 2 threads, 3 tasks (1 timed), shutdown; 3 queries, 1 with callback, lost replies; 3 messages; 2 protocols, 4 packets of which 2 fill a buffer | `NoLostWakeup`; `TaskOrder`; `ImplementsJobQueue`; `ShutdownEnds`. `QueriesServed`: applied once (without a lost reply), in order, and each query that was taken is executed. `ConnectionSafe`: the peer sees a prefix of what was sent and the protocol is released once; `ClosesProperly`: a graceful close delivers, a closed connection goes away. `PoolFlows` (a sendAll is to come while a protocol is registered; what a client gets is in order, nothing twice, and it misses only whole full buffers). Deadlock of the dispatcher is checked |
| `scheduler` | 2 threads, 2 events, clock 0..2, ids 1..2 | `StoppedNeverRuns`; `NeverEarly`; `ReturnReadsLive`; `QueuedEventsFire` |
| `scheduler_timeout` | same, clock 0..1 | violation of `TimeoutHasEvent`, see findings |
| `trade` | 3 scenes with 2 or 3 players, bags, a thing, stacks; up to 3 moves | `OffersAgree` (partners agree, offers are apart, the offer is what was shown), `SafeTrade` |
| `trade_gift` | no spare room | violation of `SafeTrade` |
| `party` | 3 players, 2 parties; a 4x3 grid with one or three walls; one monster among up to three free tiles or all | `LinkInv`, `SharedWithFit`; `WaysSafe` (`PathsAgree`: the search finds a cheapest way within its limits, rays arrive, the cache tells the truth until a diagonal step skews it; `HuntAgrees`: steps keep away, dances keep the distance, blows are spaced) |
| `login` | 3 sessions, 1 character; 4 clients, 2 premium, 1 place | `SessionsAgree` (session and player agree, references count, one body, nobody forgotten), `PlayerForPackets`; `WaitingServed` (nobody overtakes, a premium client gets in). Deadlock is checked |
| `login_leak` | same | violation of `ReleasedHasNone` |
| `world` | 2 blocks, 3 monsters; 3 raids of 1 to 3 events, 2 reloads; 1 player, 2 monsters, 4 places, 3 events besides thinking and dying | `BlocksServed` (one monster per block, blocks are filled again); `OneAtATime` (one chain of raid events, and one more for each reload that could not stop the raid it came upon); `CreaturesAgree` (pointers live, references count, nobody with an opponent in sight is asleep) |
| `items` | 2 bags of 2 places, stacks of at most 2 in 3 objects, 3 things, 2 tiles | `ItemsAgree` (placed once, conserved, weights right, two-handed weapons alone) |
| `town` | ten parts, see below | `ServerAgrees`, `ScriptsAgree`, `ChatAgrees`, `HouseAgrees`, `SpellsSafe`, `ProgressSafe`, `ProgressAddsUp`, `WalkAgrees`, `PlacesSafe`, `SaveIsWhole`, `RestoredSafe`, `WornSafe` |
| `rules` | two tiles with seven things and two creatures, an eye over three floors; five fights; five groups of conditions | `ViewSafe`, `FightsSafe`, `EffectsSafe`, `RelogKeeps` |

What the properties of `town` and `rules` say, in the component's own names:

* `ServerAgrees` -- when nothing moves any more, the process has ended, or it is in one of the windows
  named in `EndsOrWindow`; services run only when the loader is through (`OnlineIsReady`); every
  port awaits one client or its opening is due once (`PortServes`); game ports are not shared and
  an orderly end leaves no task (`PortsApart`); `BurstsEnd`, `BansHold`, `PremiumCounts`.
* `ScriptsAgree` -- an item made by a script is released once and not while it lies somewhere
  (`ItemsOfScripts`), timers run once and not after a stop (`TimersRunOnce`).
* `ChatAgrees` -- who hears a channel is in the game, was let in and has its window open, unless a
  script refused to let him back in to leave it (section 5); a private
  channel is heard by its owner and the invited; guilds and members agree.
* `HouseAgrees` -- whoever is inside is welcome after every change of owner or list, bed and sleepers
  agree, and unless a stop lost the map, the house knows what was paid for it.
* `SpellsSafe` -- mana, soul, charges, reagents and missiles that are gone paid for effects that
  came about, for summoning and convincing the price the code takes, which counts the soul twice
  (section 5).
* `ProgressSafe`, `ProgressAddsUp` -- level, skill, magic level, percentages and maxima agree; the sum
  of all that was collected changes by exactly the gain, or by the share a death takes, and a
  relog keeps it.
* `WalkAgrees` -- steps keep their time, a request put off is carried out as asked, in reach and once,
  and a walk with cells left is driven on.
* `PlacesSafe` -- payments are exact (`MoneyExact`), flags are those of what lies on the tile
  (`FlagsTrue`, with the exceptions of section 5), light follows the hour, a text is written by
  the player who holds the window and to the item it was opened for (`TextHeld`).
* `SaveIsWhole` -- a save is whole or not there at all, whatever statements fail, and a login's reads on
  the network thread never find a part of one.
* `RestoredSafe` -- after a reload books hold what their files say and no dead object (`BooksAgree`)
  and think events come in their time (`GlobalsRun`); after a logout or a crash things come back
  in their places with their attributes (`ThingsComeBack`).
* `WornSafe` -- what worn items do is what is worn (`EffectsAreWorn`), decay is neither early nor
  forgotten (`DecayIsTimely`), a step calls the events of the items that are there (`StepsFire`).
* `ViewSafe` -- the client's stacks, known creatures and map are the server's; the coding of empty
  tiles is decoded to what was encoded.
* `FightsSafe` -- `HarmIsAllowed` (only those one may hurt are hurt, zones and worlds included),
  `RewardsFollowDamage`, `MarkedWhileFighting`, `AreasTurn` (against the rotation of a set of cells).
* `EffectsSafe`, `RelogKeeps` -- speed, skill, visibility, outfit and light differ from normal by the
  sum of what the listed conditions did; nothing comes back that was not saved, with
  the strength it had; of a haste and a paralysis the one saved first stays and never both; and a
  login adds no damage.

### Bounds, and why they are enough

* Dispatcher: the interleavings that matter are those of one waiter and two
  notifiers around one lock; a third task makes the order of two others visible
  beside one that jumps the queue. The theorems hold for any number.
* Scheduler: two events are needed for a sooner event to overtake the one slept for.
  `EventIdMax = 2` makes the counter wrap within two adds and the initial counter is
  any value, so both fresh ids and ids about to wrap occur.
* Database: three queries give one in hand, one waiting and one arriving at shutdown.
* Network: three messages give one being written and a queue behind it; a buffer
  that holds two of four packets can be full in mid-burst, be sent, and be full again.
* Trade: three players are the fewest for a trade to be taken over by a third; two
  bags for an offer inside an offer; stacks of two for a partial move. `MaxMoves`
  bounds disturbances between request and acceptance, each of which ends the trade or not.
* Party: with two parties a player can be invited to one while he is in the other;
  three players let a leader leave a party that goes on. Proved for any number.
* Login: three sessions let a third interfere with a replacement in progress.
* Waiting list: `MaxDrift` bounds how far the list sizes may be off; beyond it
  `getTime` cannot tell sizes apart, which the assumption of the module states.
* World: three monsters for two blocks: one stray whose block is filled again.
* Creatures: a player and two monsters are a master, a summon and a wild monster, or two
  wild ones of which one is convinced. Four places with a sight of one and a view of two
  tell apart who is told of a move and who sees it. `MaxDeeds = 3` events, with any
  number of thoughts, deaths and cleanings in between and from each of several
  beginnings, allow summon, move, removal and summon, death of the master, return.
* Items: with stacks of two, moving two units onto a stack of one leaves one over for
  a clone, and receiving two leaves one that finds no place; three objects are a source,
  a stack at the destination and the clone. Capacities of two make a bag full of an
  offered item and another. Numbers of units and items that arrive from outside are
  bounded by `supply`.

* Town and rules: each part has a bound on its steps or its clock, named in its module
  (`...Steps`, `...Ops`, `...MaxNow`). They are the smallest that let the sequences of the
  hazards happen with a step to spare: for a house, buying, letting in, sleeping,
  changing hands and a stop; for a walk, a request out of reach, a step, a stop, a second
  request and the event that was already handed over; for a save, two errors and two lost
  connections at any statement; for decay, more visits than there are buckets; for
  conditions, three additions of a group that displaces each other, a logout and a login in
  between; for scripts, three nested environments of which the last fails. `StackLimit` and
  `KnownLimit` stand for 10 and 150, `EnvMax` for 16.
* Paths and hunting: the inputs are enumerated, all sets of one or three walls on the grid and
  all sets of up to three free tiles (or all) around a monster and its target.

### Fairness

* Threads (`ThreadMain`, a caller between unlock and notify, shutdown): weak fairness,
  the operating system runs every runnable thread. Waits are not assumed to wake by
  themselves, and which thread calls addTask or when is never assumed.
* `Tick`: the clock goes on.
* Connection: asio calls the handlers of completed operations; armed timers expire. That
  the peer goes on reading (`WriteSucceeds`) is assumed only for
  `ClosesProperly` and named there. If it does not, the write timer closes an open connection;
  one that was closed gracefully before stays until the peer goes away (section 5).
* Waiting list: clients that were told a retry time come back at that time (the client
  does so by itself) and players leave eventually; no other client is assumed to act.
* Spawn: its check fires, and for each block it is again and again possible to place a
  monster (strong fairness), since players and obstacles that prevent it move on.

### Mutants

For each checked property `PROJECT.json` names a definition and a plausible mistake in
it (an operator before it, marked as its mutant or variant) under which TLC finds the property
violated: a notification without the task in the list, a forgotten rate limit, a
check of the wrong hand, a weight corrected on one level only, and so on.

## 4. Proofs

All proofs are checked by tlapm with the SMT, Zenon and PTL backends.

* `DispatcherProofs`, for any sets of threads and tasks, from `DispatcherAssumption`
  (timed tasks are tasks, the shutdown task and NoTask are not):
  `DispatcherTypeOK`; `DispatcherNoLostWakeup` -- directly inductive with the types;
  `DispatcherFreshCache` -- no task starts with spectators cached by another one, by the
  types, which tie the cache to the running task;
  `DispatcherTaskOrder` -- the list of tasks pushed back so far and the queue are two
  orders; `QueueInv` says that the queue holds each queued task once and that, restricted
  to the tasks pushed back, it runs in the order of acceptance. Without it a task
  taken could have an earlier one behind it.
  `DispatcherImplementsQueue` -- every step of the dispatcher is a step of `JobQueue` or
  leaves it alone, and the initial states are its initial states, under the mapping of `JQ`:
  open is the dispatcher's RUNNING, the queue its task list, active its running task. It
  needs the types and that a terminated dispatcher is at its loop test or gone
  (`TerminatedLeaves`), so that no task is taken after the terminating one. The liveness of `JobQueue` is checked by TLC (`ImplementsJobQueue`).
* `SchedulerProofs`, for any threads, events, id range and clock range, from
  `SchedulerAssumption`: `SchedulerTypeOK`; `SchedulerStoppedNeverRuns` -- by `EventInv`:
  until the counter has gone through all ids, live events have different ids and an id
  is live exactly while its event is queued and not stopped; `SchedulerNeverEarly` -- by
  `ClockInv`: the thread's deadline belongs to an event in the list or the list was cleared,
  and a timeout means the deadline is past; `SchedulerNeverOversleeps`;
  `SchedulerReturnReadsLive` -- by `LiveInv`: an event whose adder has yet to read its id
  can be freed only by a later step of the dispatcher thread, which is the adder.
* `SessionProofs`, for any sessions and characters, from `SessionAssumption`: `SessionsAlwaysAgree`
  and the action property `SessionPlayerForPackets`, from `SessionInvariant`. `SessionInv` adds to
  the pointers and counts what is still under way: a login or a connect is posted once for a
  session (`PostedOnce`), a session whose login has not run has no player and nobody knows it
  (`NotYet`), one that waits for a player has none and connect is posted for that player
  (`WaitingHasNone`), release is posted for closed connections only (`ReleaseAfterClose`). Without
  them a second login could replace a player that the first is about to get, or a late release could
  take the reference of a client that is still there.
* `NetworkProofs`, for any messages, queries, protocols and packets, from the assumptions of the three
  modules. Connection: `ConnectionAlwaysSafe` from `ConnectionInvariant`; `InTransit` ties what the
  peer has, what was written but not yet confirmed and the queue to what `send` accepted,
  `ReleasedAtClose` the release to the state, `KeepsReading` says that an open connection has a read
  pending, so that only a closed one is destroyed. Database thread: `QueriesInOrder` (the invariants
  in `QueriesServed`) from `DbInvariant`; `ListIsRest` and `ExecutedSoFar` split what was accepted into
  executed, in a hand and listed, `ThreadHolds`, `FlushHolds` and `HeldNotYet` say which runner has
  which query and how far it is, `ShutdownFlushes` that nothing comes after shutdown. Output pool:
  `PoolAlwaysFlows` by `PoolInv`: `InOrder` says that the buffer is the end of what was written and that
  the connection got numbers that grow, all smaller; `WholeBefore`, that what is missing before the
  buffer are whole buffers, which only a lost connection can break. Server, from `ServerAssumption` (premium days are a
  uint16_t, a day has a length), for any configured ports and number of network errors:
  `ServerAlwaysAgrees` from `ServerInvariant`. For the process, `LoadGood` ties the state of the game,
  the listed ports and the tasks that may be there to the stage of the loader; `EndGood` says who has
  ended which thread and that an end that is on its way was asked for; `LastGood` that `Game::shutdown`
  runs once and that in an orderly run the end of the dispatcher is the last of its tasks; `ServeGood`
  that, while the scheduler runs, a port accepts, or its opening is due, queued or running, exactly one
  of these. For the gates, `ConnectGood` bounds the burst by the count, `BanGood` says that statements
  wait for the database only while the ban they are about has expired, and `PremiumGood` that the
  day in use began a whole number of days after the first, which makes the division exact.
* `WorldProofs`, for any blocks, monsters and raids, from `SpawnAssumption` and `RaidsAssumption`:
  `RaidsOneAtATime` by `RaidsInv`: beside the running raid's chain of events there are at most as many
  as reloads came upon a raid they could not stop (`left`), which needs that a new event never takes the
  id of one still to come (`IdIsFresh`); `SpawnOnePerBlock` (the invariant in `BlocksServed`) by `SpawnInv`, in which a monster
  that points at its spawn lives and has an entry, so that a dead one is found by the next check.
  Scripts, from `ScriptConstants` (there is an environment), for any items, timers, environments and
  event files: `TimersAlwaysRunOnce` and `ItemsAlwaysReleased` from `ScriptInvariant`. `TimersRunOnce`
  is inductive by itself. For the items, `EnvsInUse` says that the environments in use are those up to
  the index and that the others keep nothing, `KeptOnce` that what an environment keeps was made, is not
  released and is kept by no other, and that what lies nowhere is kept until it is released, so that the
  end of the script that has it releases it once. All this needs calls that nest no deeper than
  there are environments (`~DeepCalls`), which `getScriptEnv` asserts: after one call too deep the
  index is off for good, as section 5 says. The timers need no such thing.
  Saving, from `PersistConstants`, for any number of failing statements and lost connections:
  `SaveIsAlwaysWhole` from `SaveInvariant`, that is `SaveGood`. `WorkAt` ties what the open transaction has done to the
  statement that is next; with it `Unbroken` says that, as long as no transaction was cut off, the tables
  are those of before or those of the save and every statement after BEGIN finds its transaction
  open, also when the save before was left open by a COMMIT that failed; `EndedWell` that the lock is held
  from the statement after BEGIN on, so that a read of the network thread, which waits for it, falls
  where the tables it sees are whole (`SeenWhole`), in the window between BEGIN and the lock as well.
* `PartyProofs`, for any players and parties: `LinksConsistent`. `LinkInv` is inductive as it
  stands, as a conjunction of membership, invitations, presence and non-emptiness;
  no conjunct is inductive alone (leaving a party disbands it only because empty
  parties do not exist, and so on). One lemma per operation. `SharingNeedsFitness` on top of it: with
  the types, and that a deleted party does not share (`DeletedSharesNot`).
* `TradeProofs`, for any players, bags, things, stacks and tiles, from `TradeAssumption` (kinds of
  things are apart, there are finitely many): `OffersAlwaysAgree` from `TradeInvariant`. `TradeInv`
  adds to `OffersAgree` that who has to answer has offered nothing yet (`Acknowledged`), that the table
  of traded items has exactly what is on offer, each with one reference (`Books`), and
  that what is on offer is in its owner's hands or beside him (`OfferAtHand`).
  `Holders` is a least set, and the lemmas about it are an induction in terms of sets
  (`HoldersInduct`): bags above an item form a line (`HoldersLinear`), nothing lies in itself. The
  heart of the proof is that whatever changes the contents of an offer tells its owner
  (`TouchedSeen`, `TakenSeen`, `UntoldKeeps`): a move that tells an owner
  ends his trade (`EndTradesInv`), and one that does not leaves his offer as it was shown
  (`MoveKeeps`, `UndisturbedKeeps`), the two moves of the exchange included.
* `TownProofs`, for any tenants, belongings, rent, period and warnings, from `HouseAssumption`:
  `HouseAlwaysAgrees` from `HouseInvariant`, which adds that the lists are there, that each player
  in the game has a copy and that the rows have a date (`WellFormed`, `GoodDb`). Each operation is
  a function of the house, so there is one lemma per function (`PutOutGood`,
  `SetAccessListGood`, `VacateGood`, `SetOwnerGood`, `PayHousesGood`, `LoadHouseGood`), and the
  actions compose them. From `ChatAssumption` (public and private channels have ids of their own,
  apart from the two of guild and party), for any players, guilds, parties and channels:
  `ChatAlwaysAgrees` from `ChatInvariant`. A window is known to the client by an id and a channel to
  the server by a key, so the proof turns on three facts: different public or private channels have
  different ids (`IdsApart`), a user of one finds it by its id (`FoundByUsers`) unless a script refuses him,
  which `ChannelGood` has to name, and what is found
  under the party's id is no public or private channel (`DisbandGood`). What takes users, guests,
  windows or channels away is covered by `FewerGood`, what adds them by `ChannelPutGood`; the guilds
  need that no guild object is filed under "no guild" (`GuildsGood`), or a player who joins his
  first guild would leave an old one.
  From `WalkConstants` (durations are positive, what is asked is a request), for any tiles, things
  and requests: `WalkAlwaysAgrees` from `WalkInvariant`. A request travels from the dispatcher's queue
  to the walk task, from there to the scheduler, back to the queue and to its end; `RequestsGood` says
  that it is in one of these places only and there once, `EventsGood` that the ids of the scheduler's
  events are different and those the player has noted are of the right kind, so that a late or
  stopped event can never be taken for another. For the walk, `Driven` and `Linked` say that a list
  with cells left has an event id and that the id stands for an event or a task that is there;
  neither is inductive without the other.

Each inductive invariant was checked by TLC before its proof: `SessionInv` with three sessions
(509 595 states), `ConnectionInv`, `DbInv` and `PoolInv` on the instance of the run `dispatcher`
(398 494), `RaidsInv` and `SpawnInv` on that of `world` (89 877, most of them of the creatures), the parties'
on that of `party` (304 836), `TradeInv` on those of `trade` (100 263) and `trade_gift` (3 044),
`HouseInv` on that of `town` with one step more (184 830), `ChatInv` on that of `town` (14 830),
`WalkInv` and `ServerInv` on theirs (361 097 for the server), `ScriptInv` and `SaveGood` on theirs
(132 858).

Only model-checked, and why:

* liveness (`QueuedEventsFire`, `ShutdownEnds`, `ClosesProperly`, the second halves of `BlocksServed`,
  `WaitingServed`, `QueriesServed` and `ImplementsJobQueue`): the prover has no rule for fairness;
* `SafeTrade`: it holds only where there is room, which is a matter of the instance (finding
  `trade_gift`);
* `NobodyOvertakes` of the waiting list is about positions in filtered sequences
  (`SelectSeq`), and `CreaturesAgree`, `PlacesSafe`, `WornSafe`, `RestoredSafe`, `EffectsSafe`,
  `ViewSafe` about what a fold over a sequence of spectators, events, coins, items or
  conditions computes: both need induction over data;
* `ItemsAgree`: `internalAddItem` calls itself, and `Items` declares it RECURSIVE;
* `WaysSafe`, `FightsSafe`, `ProgressSafe`, `SpellsSafe` compare algorithms and rules with
  reference definitions on enumerated inputs; what there is to say is in the inputs.

## 5. Findings

Disagreements between the code and what it says of itself, each reproduced by a run:

* `scheduler_timeout`: `scheduler.cpp` says that after a timeout "there has to be an event
  we have to execute"; shutdown may have cleared the queue, and `top()` of an empty queue
  is taken.
* `trade_gift`: the "safe-trade functions": the second of the two moves of an accepted
  trade can fail after the room test, because the test stacks and the move does not;
  its result is ignored.
* `login_leak`: `connect` says that `release` has been called if the connection is gone,
  and relies on the converse; release may have run while the connection still exists.

Seen while modelling `Items`, kept visible in the model by the ghost `faults`:

* `overfull`: `Player::queryDestination` passes over the offered item without counting it.
  A full backpack that holds it takes one stack too many. From
  then on the unsigned difference of capacity and size wraps, and a received item can be put
  beyond the end, where `Container::addThing` drops it.
* `remainder`: `queryMaxCount` counts the room inside the offered bag, `queryDestination`
  never goes there. `internalAddItem` fills a stack, fails with the rest, and notifies
  nobody: the carried weight is stale until the next notification. If this
  happens in the nested call, the units are lost, although the comment in
  `internalAddItem` says that the whole amount has been checked.

Seen while modelling `Creatures`: a monster too far from its spawn is moved home, where it
looks around and may find a player, and is put to sleep after that with its target list
cleared; it stays so until somebody moves (`lulled`). And a summon that is removed loses its
master before the spectators after it in the list are told; they no longer take it for
an opponent and keep it, counted, in their target lists until they are cleared.

Seen in the other modules, where each property names the case it has to except:

* Threads and start: a thread of the scheduler or of the database that is between its loop
  test and its wait when shutdown notifies is never woken; the loader's signal is lost if
  main does not wait yet, and a game that stops before main runs the services is not
  heard; a spurious wake-up of main may end the database thread before the loader starts
  it; a game closed while main gives up writes CLOSING over TERMINATED. A loader that fails at
  "Cannot resolve" leaves its services listed: the server runs without its game.
* Bans: an expired ban met twice before the database thread has moved it can delete a new
  ban and write the history twice. `getCharacterList` uses `getConnection()` unchecked.
* Persistence: things that come by mail or from a house to a depot not opened since the
  login are not saved (so what house.cpp:72 sends "to depot" is lost for an owner who is
  away); a connection lost inside a transaction leaves the rest of the save to be
  committed statement by statement; after a failed BEGIN
  `DBTransaction` rolls back without the lock and unlocks it (glibc refuses the unlock of a recursive
  mutex by a thread that has not got it; that the network thread may use the handle meanwhile is left
  out); a failed COMMIT leaves the transaction open, and after three the next BEGIN of anybody
  commits it; charges used up come back in full, and
  charges of a kind that has none become its count; town ids from 100 on collide with
  the numbers of the rows.
* Scripts: results are shared by nested scripts; a login event missing after a reload keeps
  a null interface; a partly merged item of `addItemEx` is never released; a hook named twice
  is unset; a reload while a round of think events is queued leaves two rows of rounds; and
  a seventeenth nested script leaves the index of the environments beyond the array,
  against the assertion at luascript.h:218.
* Connection: one that was closed gracefully with messages left waits for the peer. If the peer does not
  read, the write timer's forced close returns at connection.cpp:70, since the state is CLOSED already.
* Output pool: a buffer that is full is replaced and never sent; the message of `disconnectClient` goes
  before what waits in the buffer; and when the last protocol goes and another comes before
  the pending sendAll runs, two chains of them go on.
* Raids: `forceRaid` drops the id of the event it adds, so a reload deletes the raid and leaves the event,
  which then runs on freed memory (in the model, on the memory as it was).
* Chat: closing a window asks the channel's script again (`getChannel`). Whom it now refuses stays
  among the users, hears a channel whose window he has closed, and cannot open it again later, as
  `addUser` refuses a second entry.
* Spells: summoning and convincing take the soul of the spell in the function (spells.cpp:1457, 1780) and
  once more after it (1030, 1845), and the mana of the spell on top of the creature's. The spells of the shipped
  spells.xml that do so cost neither; the instance has books in which they do.
* Conditions: they are saved in one order and loaded in the other, so that of a haste and a paralysis
  (which a player in a step has for a moment) a login keeps the one that was about to go.
* Equipment: what a worn item adds in per cent of a value is taken off in per cent of the value at that
  time, so after a lost or gained level it leaves a difference, and what he may no longer wear stays on
  (`grown`).
* Houses: the rent is taken from the player and saved at once, that it was paid with the map. A stop in
  between charges it again (`unsaved`).
* Houses and chat: `disband` forgets the party before it closes its channel, whose key is the
  address the next party may get.
* Paths: a diagonal step to the south shifts the wrong rows of the cache of walkable tiles,
  which stays wrong until it is rebuilt.
* Places: the flag IMMOVABLEBLOCKPATH is never set; removing one of two teleports, fields or
  mailboxes of a tile clears the flag of the other; change may fall to the ground because the
  broken stack still fills its place; teleports that lead to each other recurse.
* A convinced monster's block is not refilled until another monster of its spawn dies; a raid
  that is not repeated survives a reload and then runs beside another; the waiting list
  erases from the wrong list.

## 6. Not modelled, and the plan

Not modelled: the thousand Lua bindings and the scripts in `server/data` (free choices where the
code calls them), XML/OTB/OTBM loaders, RSA/XTEA/Adler, formatting of descriptions and texts of
windows, configuration and other tables read once, NPCs (their dialogue is in Lua),
administrators' commands but /raid, `Game.startRaid` of the Lua interface, the quad tree of the map, the free list of message objects. They
are data, pure functions over bytes, or single calls of what is modelled.

Left out of modelled parts, each said in `PROJECT.json`: damage formulas (small amounts instead),
invisibility and floors in `Creatures`, monsters' spells and loot, wildcards in access
lists, timers of the day, scripts' vetoes on outfits and on leaving a party.

The modules were built in the order: threads; network and sessions; trade, party, items; spawns,
raids, creatures; conditions, spells, combat, progress; chat, houses, view; walking, paths,
hunting, equipment; scripts, persistence, server, places; the abstract queue.

Theorems worth proving next: a scheduler as a set of timers, implemented by `Scheduler`; the
single machines of `Places` that use no fold.
