------------------------------ MODULE Scripts ------------------------------
(***************************************************************************)
(* The machinery around the Lua scripts: the stack of script environments, *)
(* the items a script creates, timer events (luascript.cpp), the loading   *)
(* and reloading of events from their files (baseevents.cpp, actions.cpp,  *)
(* talkaction.cpp, creatureevent.cpp, events.cpp) and the global events    *)
(* (globalevent.cpp).  What a script does is a choice of the calls below.  *)
(*                                                                         *)
(* `scr`: running scripts, their items and timers; `book`: the event       *)
(* objects of the managers; `glob`: the think events and their clock.      *)
(***************************************************************************)
EXTENDS Integers, Sequences, FiniteSets, SequencesExt

CONSTANTS EnvMax,        \* the script environments, 16
          DeepCalls,     \* whether calls nest deeper than that
          Created,       \* items scripts create
          TimerIds,      \* timer events
          ScriptSteps,   \* calls considered
          EventFiles,    \* event files, as sequences of entries
          ThinkEvents,   \* global think events: name -> interval
          GlobMaxNow,    \* the clock of the global events stops here
          GlobReloads    \* reloads of the global events

VARIABLES scr, book, glob

scriptVars == <<scr, book, glob>>

ASSUME ScriptConstants == EnvMax \in Nat \ {0} /\ DeepCalls \in BOOLEAN

-----------------------------------------------------------------------------
(* Environments, items and timers.                                         *)

Depth == Len(scr.running)
InRange == scr.idx \in 0 .. EnvMax - 1

Counted(s) == /\ scr.steps < ScriptSteps
              /\ scr' = [s EXCEPT !.steps = @ + 1]
              /\ UNCHANGED <<book, glob>>

\* LuaScriptInterface::reserveScriptEnv and the head of every execute...:
\* without an environment the call fails, and the index stays where it is.
\* getScriptEnv notes an index the array does not have.
Reserve(s, kind) ==
    IF s.idx + 1 < EnvMax
    THEN [s EXCEPT !.idx = @ + 1, !.running = Append(@, kind)]
    ELSE [s EXCEPT !.idx = @ + 1]

\* What is taken for the answer of a script of that kind.  A "verdict" is the
\* boolean of an event or of a hook that permits, an "amount" what a hook makes
\* of experience, tries or damage, "told" a hook nobody waits for.
Answer(kind, said) ==
    CASE kind = "verdict" -> IF said = "yes" THEN "granted" ELSE "refused"
      [] kind = "amount" -> IF said = "failed" THEN "as it was" ELSE "as the script says"
      [] OTHER -> "nothing"

\* An event runs a script: from the server, or from within another script.
Ask(kind) == /\ DeepCalls \/ Depth < EnvMax
             /\ Counted([Reserve(scr, kind) EXCEPT
                          !.answer = IF scr.idx + 1 < EnvMax THEN "none" ELSE Answer(kind, "failed")])

\* CreatureEvent::execute..., with what it is asked about.
ExecuteEvent == Ask("verdict")
ExecuteTold == Ask("told")
ExecuteChange == Ask("amount")

\* The hooks of Events; one that is not set leaves the matter as it is.
EventUnset(kind) == Counted([scr EXCEPT !.said = "unset",
                                        !.answer = CASE kind = "verdict" -> "granted"
                                                     [] kind = "amount" -> "as it was"
                                                     [] OTHER -> "nothing"])
EventCreature == Ask("verdict") \/ EventUnset("verdict")
EventPermits == Ask("verdict") \/ EventUnset("verdict")
EventLook == Ask("told") \/ EventUnset("told")
EventAmount == Ask("amount") \/ EventUnset("amount")

\* ScriptEnvironment::resetEnv: what is still in nobody's hands is released.
ResetEnv(s) ==
    LET mine == IF s.idx \in DOMAIN s.temp THEN s.temp[s.idx] ELSE {}
    IN  [s EXCEPT !.item = [t \in Created |->
                      IF t \in mine /\ s.item[t].place = "virtual"
                      THEN [s.item[t] EXCEPT !.released = @ + 1] ELSE s.item[t]],
                  !.temp = [e \in DOMAIN s.temp |-> IF e = s.idx THEN {} ELSE s.temp[e]],
                  !.results = {},
                  !.idx = @ - 1,
                  !.running = Front(@)]

\* LuaScriptInterface::callFunction, when the script is through or failed.
ReturnScript(said) ==
    /\ Depth > 0
    /\ scr' = [ResetEnv(scr) EXCEPT !.asserted = @ \/ ~InRange,
                                    !.answer = Answer(Last(scr.running), said), !.said = said]
    /\ UNCHANGED <<book, glob>>

\* db.storeQuery and result.free.  The results belong to all scripts: the end
\* of any script drops them.
AddResult(r) == /\ Depth > 0
                /\ r \notin scr.results
                /\ Counted([scr EXCEPT !.results = @ \cup {r}])
RemoveResult(r) == /\ Depth > 0
                   /\ r \in scr.results
                   /\ Counted([scr EXCEPT !.results = @ \ {r}])

\* Game.createItem without a position, item:clone, item:split.
AddTempItem(t) ==
    /\ Depth > 0
    /\ scr.item[t].place = "none"
    /\ Counted([scr EXCEPT !.item[t].place = "virtual",
                           !.temp = [e \in DOMAIN @ |-> IF e = scr.idx THEN @[e] \cup {t} ELSE @[e]],
                           !.asserted = @ \/ ~InRange])

RemoveTempItem(s, t) == [s EXCEPT !.temp = [e \in DOMAIN s.temp |-> s.temp[e] \ {t}]]

\* Game::internalAddItem of such an item: it lies there, a pile takes it whole
\* (it is forgotten and released; scripts do not touch it any more), or in
\* part, when a copy is added for the rest.
Added(s, t, outcome) ==
    CASE outcome = "lies" -> [s EXCEPT !.item[t].place = "placed"]
      [] outcome = "merged" -> [RemoveTempItem(s, t) EXCEPT !.item[t].released = @ + 1]
      [] OTHER -> s

\* container:addItemEx, player:addItemEx
AddItemEx(t, outcome) ==
    /\ Depth > 0
    /\ scr.item[t].place = "virtual"
    /\ scr.item[t].released = 0
    /\ Counted(IF outcome = "refused" THEN scr
               ELSE [RemoveTempItem(Added(scr, t, outcome), t) EXCEPT !.item[t].cut = @ \/ outcome = "part"])

\* item:moveTo, doTileAddItemEx: the environment keeps the item.
MoveTo(t, outcome) ==
    /\ Depth > 0
    /\ scr.item[t].place = "virtual"
    /\ scr.item[t].released = 0
    /\ Counted(Added(scr, t, outcome))

\* luaAddEvent: the description is kept under a number of its own, the
\* scheduler knows that number.
LuaAddEvent(n) ==
    /\ Depth > 0
    /\ scr.timer[n] = "new"
    /\ Counted([scr EXCEPT !.timer[n] = "planned", !.sched = @ \cup {n}, !.refs = @ \cup {n},
                           !.asserted = @ \/ ~InRange])

\* luaStopEvent; Scheduler::stopEvent does not reach a task already handed
\* to the dispatcher.
LuaStopEvent(n) ==
    /\ Depth > 0
    /\ Counted(IF scr.timer[n] = "planned"
               THEN [scr EXCEPT !.timer[n] = "stopped", !.sched = @ \ {n}, !.refs = @ \ {n}]
               ELSE scr)

HandedOver(n) == /\ n \in scr.sched
                 /\ Counted([scr EXCEPT !.sched = @ \ {n}, !.queue = @ \cup {n}])

\* LuaEnvironment::executeTimerEvent
ExecuteTimerEventBlind(n) ==
    /\ n \in scr.queue
    /\ Depth = 0
    /\ Counted([Reserve(scr, "told") EXCEPT !.queue = @ \ {n}, !.refs = @ \ {n},
                    !.timer[n] = IF @ = "stopped" THEN "run stopped" ELSE "run"])
ExecuteTimerEvent(n) ==
    /\ n \in scr.queue
    /\ Depth = 0
    /\ Counted(IF scr.timer[n] # "planned" THEN [scr EXCEPT !.queue = @ \ {n}]
               ELSE [Reserve(scr, "told") EXCEPT !.queue = @ \ {n}, !.refs = @ \ {n}, !.timer[n] = "run"])

-----------------------------------------------------------------------------
(* Event files.  An entry: [name, type, keys, ok]; ok, whether its script  *)
(* loads.  An event object is a number; `map` leads from keys to objects.  *)

NoBook == [kind |-> "none", map |-> <<>>, live |-> {}, freed |-> {}, twice |-> FALSE, loaded |-> {},
           what |-> <<>>, held |-> {}, file |-> <<>>, next |-> 1, steps |-> 0]

Free(b, obj) == [b EXCEPT !.live = @ \ {obj}, !.freed = @ \cup {obj}, !.twice = @ \/ obj \in b.freed]
Put(m, k, v) == [x \in DOMAIN m \cup {k} |-> IF x = k THEN v ELSE m[x]]

\* Actions::registerEvent: the first entry of a key stays; an entry none of
\* whose keys was free is refused.
RegisterAction(b, obj, e) ==
    LET open == e.keys \ DOMAIN b.map IN
    IF open = {} THEN Free(b, obj)
    ELSE [b EXCEPT !.map = [k \in DOMAIN @ \cup open |-> IF k \in open THEN obj ELSE @[k]]]

\* TalkActions::registerEvent: every entry, the last one first.
RegisterTalk(b, obj, e) == [b EXCEPT !.map = Put(@, <<b.next>>, obj)]

\* CreatureEvents::registerEvent: an object of that name that is not loaded
\* takes over the new one's script, if the type is the same.
RegisterCreature(b, obj, e) ==
    IF <<e.name>> \notin DOMAIN b.map
    THEN [b EXCEPT !.map = Put(@, <<e.name>>, obj), !.loaded = @ \cup {obj}]
    ELSE LET old == b.map[<<e.name>>]
             taken == IF old \notin b.loaded /\ b.what[old] = e.type
                      THEN [b EXCEPT !.loaded = @ \cup {old}] ELSE b
         IN  Free(taken, obj)

\* GlobalEvents::registerEvent: by name within its kind.
RegisterGlobal(b, obj, e) ==
    IF <<e.type, e.name>> \in DOMAIN b.map THEN Free(b, obj)
    ELSE [b EXCEPT !.map = Put(@, <<e.type, e.name>>, obj)]

\* A node of Events::load: a method the script has not defined, or that an
\* earlier node has taken from it already, leaves its hook unset.
RegisterHook(b, e) ==
    LET key == <<e.type, e.name>> IN
    [b EXCEPT !.loaded = @ \cup {key}, !.next = @ + 1,
              !.map = IF e.ok /\ key \notin b.loaded THEN Put(@, key, b.next)
                      ELSE [k \in DOMAIN @ \ {key} |-> @[k]]]

\* One node of BaseEvents::loadFromXml.
LoadEntry(b, e) ==
    LET obj == b.next
        made == [b EXCEPT !.live = @ \cup {obj}, !.next = @ + 1, !.what = Put(@, obj, e.type)]
    IN  IF b.kind = "events" THEN RegisterHook(b, e)
        ELSE IF ~e.ok THEN Free(made, obj)
        ELSE CASE b.kind = "actions" -> RegisterAction(made, obj, e)
               [] b.kind = "talkactions" -> RegisterTalk(made, obj, e)
               [] b.kind = "creaturescripts" -> RegisterCreature(made, obj, e)
               [] b.kind = "globalevents" -> RegisterGlobal(made, obj, e)

LoadFromXml(b, file) == FoldLeft(LoadEntry, [b EXCEPT !.file = file], file)

\* ...::clear: creature events are kept, for creatures point to them; the
\* others are deleted, each once although it may have several keys.
ClearBook(b) ==
    IF b.kind = "creaturescripts" THEN [b EXCEPT !.loaded = {}]
    ELSE IF b.kind = "events" THEN [b EXCEPT !.loaded = {}, !.map = <<>>]
    ELSE FoldLeft(Free, [b EXCEPT !.map = <<>>], SetToSeq({b.map[k] : k \in DOMAIN b.map}))

\* BaseEvents::reload, with the file as it is then.
ReloadEvents(file) ==
    /\ book.kind # "none"
    /\ book.steps < ScriptSteps
    /\ book' = [LoadFromXml(ClearBook(book), file) EXCEPT !.steps = @ + 1]
    /\ UNCHANGED <<scr, glob>>

\* Creature::registerCreatureEvent, by name, of a loaded event.
RegisterCreatureEvent(name) ==
    /\ book.kind = "creaturescripts"
    /\ <<name>> \in DOMAIN book.map
    /\ book.map[<<name>>] \in book.loaded \ book.held
    /\ book' = [book EXCEPT !.held = @ \cup {book.map[<<name>>]}]
    /\ UNCHANGED <<scr, glob>>

\* Creature::unregisterCreatureEvent
UnregisterCreatureEvent(name) ==
    /\ book.kind = "creaturescripts"
    /\ <<name>> \in DOMAIN book.map
    /\ book.map[<<name>>] \in book.loaded \cap book.held
    /\ book' = [book EXCEPT !.held = @ \ {book.map[<<name>>]}]
    /\ UNCHANGED <<scr, glob>>

\* GlobalEvents::timer: an event whose script says false is forgotten.
DropTimer(k) ==
    /\ book.kind = "globalevents"
    /\ k \in DOMAIN book.map
    /\ book.what[book.map[k]] = "timer"
    /\ book' = [book EXCEPT !.map = [x \in DOMAIN @ \ {k} |-> @[x]]]
    /\ UNCHANGED <<scr, glob>>

-----------------------------------------------------------------------------
(* Global events.                                                          *)

NoGlob == [kind |-> "none", now |-> 0, next |-> <<>>, rounds |-> <<>>, ran |-> <<>>, loads |-> 0]

\* A round of think, waiting in the scheduler or handed to the dispatcher;
\* `known`: thinkEventId is its number.
Round(at) == [at |-> at, queued |-> FALSE, known |-> TRUE]
Unknown(rounds) == [n \in DOMAIN rounds |-> [rounds[n] EXCEPT !.known = FALSE]]

\* GlobalEvent::configureEvent and GlobalEvents::registerEvent: due an interval
\* later, the first round at once.
StartGlob(g) == [g EXCEPT !.kind = "think",
                          !.next = [n \in DOMAIN ThinkEvents |-> g.now + ThinkEvents[n]],
                          !.ran = [n \in DOMAIN ThinkEvents |-> -1],
                          !.rounds = Append(Unknown(g.rounds), Round(g.now + 1))]

\* GlobalEvents::think: every due event once, its next turn an interval after
\* the one it had; the next round when the first may be due.
ThinkNext(g) ==
    LET due == {n \in DOMAIN g.next : g.next[n] <= g.now}
        wait == {IF n \in due THEN ThinkEvents[n] ELSE g.next[n] - g.now : n \in DOMAIN g.next}
    IN  [g EXCEPT !.next = [n \in DOMAIN g.next |-> IF n \in due THEN @[n] + ThinkEvents[n] ELSE @[n]],
                  !.rounds = Append(Unknown(@), Round(g.now + Min(wait))),
                  !.ran = [n \in DOMAIN g.ran |-> IF n \in due THEN g.now ELSE @[n]]]

\* Rounds already handed over run in their order.
ThinkRound == /\ \E r \in ToSet(glob.rounds) : r.queued
              /\ LET n == Min({m \in DOMAIN glob.rounds : glob.rounds[m].queued})
                 IN  glob' = ThinkNext([glob EXCEPT !.rounds = RemoveAt(@, n)])
              /\ UNCHANGED <<scr, book>>

RoundHandedOver(n) == /\ ~glob.rounds[n].queued
                      /\ glob.rounds[n].at <= glob.now
                      /\ glob' = [glob EXCEPT !.rounds[n].queued = TRUE]
                      /\ UNCHANGED <<scr, book>>

\* GlobalEvents::clear and the loading after it: the round that is known is
\* stopped, unless the dispatcher has it.
ReloadGlobals == /\ glob.kind = "think"
                 /\ glob.loads < GlobReloads
                 /\ glob' = StartGlob([glob EXCEPT !.loads = @ + 1,
                                !.rounds = SelectSeq(@, LAMBDA r : r.queued \/ ~r.known)])
                 /\ UNCHANGED <<scr, book>>

\* The dispatcher may be late with a round.
GlobTick == /\ glob.kind = "think"
            /\ glob.now < GlobMaxNow
            /\ glob' = [glob EXCEPT !.now = @ + 1]
            /\ UNCHANGED <<scr, book>>

-----------------------------------------------------------------------------

NoScripts == [idx |-> -1, running |-> <<>>, temp |-> [e \in 0 .. EnvMax - 1 |-> {}],
              item |-> [t \in Created |-> [place |-> "none", released |-> 0, cut |-> FALSE]],
              timer |-> [n \in TimerIds |-> "new"], sched |-> {}, queue |-> {}, refs |-> {},
              results |-> {}, answer |-> "none", said |-> "yes", asserted |-> FALSE, steps |-> 0]

ScriptInit ==
    \/ /\ scr = NoScripts
       /\ book = NoBook
       /\ glob = NoGlob
    \/ /\ scr = [NoScripts EXCEPT !.steps = ScriptSteps]
       /\ book \in {LoadFromXml([NoBook EXCEPT !.kind = k], f) :
                      k \in {"actions", "talkactions", "creaturescripts", "globalevents", "events"}, f \in EventFiles}
       /\ glob = NoGlob
    \/ /\ scr = [NoScripts EXCEPT !.steps = ScriptSteps]
       /\ book = NoBook
       /\ glob = StartGlob(NoGlob)

ScriptNext ==
    \/ ExecuteEvent \/ ExecuteTold \/ ExecuteChange
    \/ EventCreature \/ EventPermits \/ EventLook \/ EventAmount
    \/ \E said \in {"yes", "no", "failed"} : ReturnScript(said)
    \/ \E r \in Created : AddResult(r)
    \/ \E r \in Created : RemoveResult(r)
    \/ \E t \in Created : AddTempItem(t)
    \/ \E t \in Created, o \in {"lies", "merged", "part", "refused"} : AddItemEx(t, o)
    \/ \E t \in Created, o \in {"lies", "merged", "part", "refused"} : MoveTo(t, o)
    \/ \E n \in TimerIds : LuaAddEvent(n)
    \/ \E n \in TimerIds : LuaStopEvent(n)
    \/ \E n \in TimerIds : HandedOver(n)
    \/ \E n \in TimerIds : ExecuteTimerEvent(n)
    \/ \E f \in EventFiles : ReloadEvents(f)
    \/ \E e \in UNION {ToSet(f) : f \in EventFiles} : RegisterCreatureEvent(e.name)
    \/ \E e \in UNION {ToSet(f) : f \in EventFiles} : UnregisterCreatureEvent(e.name)
    \/ \E k \in DOMAIN book.map : DropTimer(k)
    \/ ThinkRound
    \/ \E n \in DOMAIN glob.rounds : RoundHandedOver(n)
    \/ ReloadGlobals
    \/ GlobTick

ScriptSpec == ScriptInit /\ [][ScriptNext]_scriptVars

-----------------------------------------------------------------------------
(* Properties.                                                             *)

\* Every environment that was taken is given back, so that with no script
\* running none is taken, and no query result is kept; a script that fails
\* permits nothing and changes no amount; an item made by a script ends up somewhere or is
\* released, once; the known exception is an item whose pile took only a part
\* of it through addItemEx, which is forgotten and never released.
ItemsOfScripts ==
    /\ scr.idx = Depth - 1
    /\ Depth = 0 => scr.results = {}
    /\ scr.said = "failed" => scr.answer \notin {"granted", "as the script says"}
    /\ \A t \in Created : LET x == scr.item[t] IN
           /\ x.released <= 1
           /\ x.place = "placed" => x.released = 0
           /\ Depth = 0 /\ x.place = "virtual" => x.released >= 1 \/ x.cut
           /\ x.place = "virtual" /\ x.released = 0 /\ ~x.cut =>
                  \E e \in 0 .. scr.idx : t \in scr.temp[e]

\* A timer event runs once at most, not once it was stopped, and its function
\* and parameters are held exactly as long as it may still run.
TimersRunOnce ==
    \A n \in TimerIds :
        /\ scr.timer[n] # "run stopped"
        /\ n \in scr.refs <=> scr.timer[n] = "planned"
        /\ scr.timer[n] = "planned" => n \in scr.sched \cup scr.queue

\* Loading and reloading neither lose an event object nor delete one twice
\* or one that is still found; what creatures hold is never deleted, and after
\* a reload it has a script again exactly when the new file has an entry of
\* its name and type whose script loads.  A hook is set exactly when the file
\* names it once, and the script defines it.
BooksAgree ==
    LET found == {book.map[k] : k \in DOMAIN book.map}
        Entry(name) == SelectSeq(book.file, LAMBDA e : e.name = name /\ e.ok)
    IN  /\ ~book.twice
        /\ book.kind # "events" => found \cup book.held \subseteq book.live
        /\ book.kind \notin {"events", "globalevents"} => book.live = found
        /\ book.kind = "events" => \A e \in ToSet(book.file) :
               <<e.type, e.name>> \in DOMAIN book.map <=>
                   e.ok /\ Cardinality({n \in DOMAIN book.file : <<book.file[n].type, book.file[n].name>>
                                                                  = <<e.type, e.name>>}) = 1
        /\ book.kind = "creaturescripts" => \A k \in DOMAIN book.map :
               book.map[k] \in book.loaded <=>
                   \E n \in DOMAIN Entry(k[1]) : Entry(k[1])[n].type = book.what[book.map[k]]
        /\ book.kind = "actions" => \A k \in DOMAIN book.map :
               \E n \in DOMAIN book.file : /\ book.file[n].ok /\ k \in book.file[n].keys
                                           /\ \A m \in 1 .. n - 1 : k \notin book.file[m].keys \/ ~book.file[m].ok

\* One round of the global events is planned that a reload would stop, no
\* further away than any event's interval, and no event waits longer than its
\* interval for its next turn.  A reload that comes while a round waits in the
\* dispatcher adds a second row of rounds for good.
GlobalsRun ==
    glob.kind = "think" =>
        /\ Len(SelectSeq(glob.rounds, LAMBDA r : r.known)) = 1
        /\ Len(glob.rounds) <= 1 + glob.loads
        /\ \A n \in DOMAIN glob.next, r \in ToSet(glob.rounds) : r.at - glob.now <= ThinkEvents[n]
        /\ \A n \in DOMAIN glob.next : glob.next[n] <= glob.now + ThinkEvents[n]

\* Items and timers of scripts; with DeepCalls the first half fails.
ScriptsAgree == ItemsOfScripts /\ TimersRunOnce

\* What survives reloads: the books of events and the rounds of global events
EventsAgree == BooksAgree /\ GlobalsRun
=============================================================================
