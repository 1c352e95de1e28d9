-------------------------------- MODULE Server --------------------------------
(***************************************************************************)
(* The server process: start, service ports, shutdown, and the gates a      *)
(* client passes before it reaches the game (src/src/otserv.cpp, server.cpp,*)
(* server.h, ban.cpp, protocollogin.cpp, protocolstatus.cpp, game.cpp).     *)
(*                                                                          *)
(* srv is the process: the main thread, the loader task and the tasks after *)
(* it on the dispatcher, the scheduler and database threads seen only as    *)
(* loops that test their state, wait and leave, and the ports.  gate is one *)
(* of the gates, each by itself: gate.kind says which.                      *)
(***************************************************************************)
EXTENDS Integers, Sequences, FiniteSets

CONSTANTS
    PortPlans,   \* the configured port of each protocol, 0 for none
    NetErrors,   \* bound: errors of the network (accept, bind) in a behaviour
    BanChecks,   \* bound: logins of the banned account that are checked
    StatusTimeout, \* STATUSQUERY_TIMEOUT, in quarters of a second
    DayLength,   \* units of time in the 86400 seconds of updatePremium
    PremiumDays, \* premium days the account has at its first login
    PremiumLogins, \* bound: logins of that account
    BlockMax     \* bound: the longest block of an address, in quarters of a second

ASSUME ServerAssumption ==
    /\ NetErrors \in Nat /\ BanChecks \in Nat /\ StatusTimeout \in Nat
    /\ DayLength \in Nat \ {0} /\ PremiumLogins \in Nat
    /\ PremiumDays \in Nat /\ PremiumDays <= 65535   \* Account::premiumDays is a uint16_t
    /\ BlockMax \in Nat

VARIABLES srv, gate

serverVars == <<srv, gate>>

NoJob == [t |-> "none", p |-> 0]
Job(t) == [t |-> t, p |-> 0]

\* The parts of mainLoader, in order.  "data" is everything from the vocations to
\* the map; "game", "login" and "status" are the three calls of services->add.
Stages == <<"config", "connect", "setup", "start", "data", "init",
            "game", "login", "status", "resolve", "online">>

\* The parts of mainLoader that may end in startupErrorMessage.
Fallible == {"config", "connect", "setup", "data", "resolve"}

AtResolve == CHOOSE i \in DOMAIN Stages : Stages[i] = "resolve"

Protocols3 == {"game", "login", "status"}

\* ServicePort::is_single_socket: ProtocolGame::server_sends_first.
SendsFirst(q) == q = "game"

SrvStart(plan) ==
    [main |-> "wait", early |-> FALSE, stage |-> 1, plan |-> plan,
     game |-> "STARTUP", manager |-> FALSE, running |-> FALSE, stopped |-> "no",
     ports |-> <<>>, acceptors |-> {}, stopping |-> {}, death |-> FALSE,
     due |-> {}, errors |-> NetErrors, asked |-> FALSE,
     tasks |-> <<Job("load")>>, current |-> NoJob, dispatcher |-> "RUNNING",
     scheduler |-> [state |-> "RUNNING", at |-> "loop"],
     database |-> [state |-> "TERMINATED", at |-> "none"]]

\* The process that has ended, for the other parts of a composition.
SrvGone == [SrvStart([q \in Protocols3 |-> 0]) EXCEPT !.main = "ended"]
-------------------------------------------------------------------------------
(* The threads.  A loop tests the state outside its lock ("loop" to "tested"),*)
(* then locks and waits; a notification reaches a thread that waits.          *)

NotifiedThread(h) == IF h.at = "waiting" THEN [h EXCEPT !.at = "loop"] ELSE h

\* Scheduler::shutdown and DatabaseTasks::shutdown: TERMINATED, then notify_one.
Terminated(h) == NotifiedThread([h EXCEPT !.state = "TERMINATED"])

LoopStep(h) ==
    CASE h.at = "loop" ->
            [h EXCEPT !.at = IF h.state = "TERMINATED" THEN "exited" ELSE "tested"]
      [] h.at = "tested" -> [h EXCEPT !.at = "waiting"]

ThreadStep ==
    \/ /\ srv.scheduler.at \in {"loop", "tested"}
       /\ srv' = [srv EXCEPT !.scheduler = LoopStep(@)]
    \/ /\ srv.database.at \in {"loop", "tested"}
       /\ srv' = [srv EXCEPT !.database = LoopStep(@)]

\* An event falls due, or a query is handed over: the thread does it and loops.
ThreadWorks ==
    \/ /\ srv.scheduler.at = "waiting" /\ srv.scheduler.state # "TERMINATED"
       /\ srv' = [srv EXCEPT !.scheduler.at = "loop"]
    \/ /\ srv.database.at = "waiting" /\ srv.database.state = "RUNNING"
       /\ srv' = [srv EXCEPT !.database.at = "loop"]

\* Dispatcher::addTask: accepted only in state RUNNING.
AddJob(s, j, push_front) ==
    IF s.dispatcher # "RUNNING" THEN s
    ELSE [s EXCEPT !.tasks = IF push_front THEN <<j>> \o @ ELSE Append(@, j)]

\* Dispatcher::shutdown: the ending task is pushed whatever the state.
PushEnd(s) == [s EXCEPT !.tasks = Append(@, Job("end"))]

\* The three calls shared by Game::shutdown and by a start without services.
ShutThreads(s) ==
    PushEnd([s EXCEPT !.scheduler = Terminated(@), !.due = {},
                      !.database = Terminated(@)])

\* The dispatcher takes its next task; its own wake-up is proved elsewhere.
TakeJob ==
    /\ srv.current = NoJob
    /\ srv.tasks # <<>>
    /\ srv.dispatcher # "TERMINATED"
    /\ srv' = [srv EXCEPT !.current = Head(srv.tasks),
                          !.tasks = Tail(@)]

Running(t) == srv.current.t = t
Done(s) == [s EXCEPT !.current = NoJob]
-------------------------------------------------------------------------------
(* Ports.                                                                     *)

NewPort == [services |-> <<>>, accept |-> "none", open |-> FALSE, pending |-> FALSE]

\* Scheduler::addEvent of the attempt to open the port again in 15 seconds.
OpenLater(s, p) ==
    IF s.scheduler.state = "RUNNING" THEN [s EXCEPT !.due = @ \cup {p}] ELSE s

\* ServicePort::close: an outstanding accept ends with operation_aborted.
ClosePort(s, p) ==
    [s EXCEPT !.ports[p].open = FALSE,
              !.ports[p].accept = IF @ = "wait" THEN "aborted" ELSE @]

\* ServicePort::accept on an acceptor that may be closed again: the operation
\* then fails with an error that is not operation_aborted.
AcceptNext(s, p) ==
    [s EXCEPT !.ports[p].accept = IF s.ports[p].open THEN "wait" ELSE "error"]

\* ServicePort::open: bind works, or fails and is tried again later.
OpenPort(s, p, ok) ==
    LET t == [ClosePort(s, p) EXCEPT !.ports[p].pending = FALSE]
    IN  IF ok THEN AcceptNext([t EXCEPT !.ports[p].open = TRUE], p)
        ELSE OpenLater([t EXCEPT !.ports[p].pending = TRUE, !.errors = @ - 1], p)

\* ServicePort::add_service: a port of a single-socket service takes no other.
AddService(s, p, q) ==
    IF \E i \in DOMAIN s.ports[p].services : SendsFirst(s.ports[p].services[i])
    THEN s
    ELSE [s EXCEPT !.ports[p].services = Append(@, q)]

\* ServicePort::is_single_socket: only the first service is asked.
SingleSocket1(s, p) ==
    s.ports[p].services # <<>> /\ SendsFirst(Head(s.ports[p].services))

\* ServiceManager::add
AddProtocol(s, q, ok) ==
    LET p == s.plan[q]
        new == [s EXCEPT !.ports = [n \in DOMAIN @ \cup {p} |->
                                       IF n = p THEN NewPort ELSE s.ports[n]]]
    IN  CASE p = 0 -> s
          [] p # 0 /\ p \notin s.acceptors ->
                AddService([OpenPort(new, p, ok) EXCEPT !.acceptors = @ \cup {p}], p, q)
          [] p \in s.acceptors ->
                IF SingleSocket1(s, p) \/ SendsFirst(q) THEN s ELSE AddService(s, p, q)

\* A port lives while the manager lists it, a handler holds it or it accepts.
Alive1(s, p) ==
    p \in DOMAIN s.ports /\ \/ p \in s.acceptors \cup s.stopping
                            \/ s.ports[p].accept # "none"

\* Mutant of OnAccept: a refused client ends the accepting.
OnAcceptOnce(s, p, welcome) ==
    LET a == s.ports[p].accept
        t == [s EXCEPT !.ports[p].accept = "none"]
    IN  CASE a = "ok" -> IF welcome /\ s.ports[p].services # <<>>
                         THEN AcceptNext(t, p) ELSE t
          [] a = "error" /\ ~ s.ports[p].pending ->
                OpenLater([ClosePort(t, p) EXCEPT !.ports[p].pending = TRUE], p)
          [] OTHER -> t

\* ServicePort::onAccept.  Whether the client is welcome (its address is known
\* and Ban::acceptConnection agrees) decides about the client only: the next
\* one is awaited in either case, unless the port has no service yet.
OnAccept(s, p, welcome) ==
    LET a == s.ports[p].accept
        t == [s EXCEPT !.ports[p].accept = "none"]
    IN  CASE a = "ok" -> IF s.ports[p].services = <<>> THEN t ELSE AcceptNext(t, p)
          [] a = "error" /\ ~ s.ports[p].pending ->
                OpenLater([ClosePort(t, p) EXCEPT !.ports[p].pending = TRUE], p)
          [] OTHER -> t
-------------------------------------------------------------------------------
(* Start: main, and the loader on the dispatcher.                             *)

\* g_loaderSignal.wait(g_loaderUniqueLock): no predicate.
MainWaits ==
    /\ srv.main = "wait"
    /\ srv' = [srv EXCEPT !.main = "waiting"]

\* The wait may also return by itself.
SpuriousWakeup ==
    /\ srv.main = "waiting"
    /\ srv.stage \in DOMAIN Stages
    /\ srv' = [srv EXCEPT !.main = "woken", !.early = TRUE]

\* g_loaderSignal.notify_all(): lost when main has yet to wait.
LoaderSignal(s) == IF s.main = "waiting" THEN [s EXCEPT !.main = "woken"] ELSE s

\* main after the wait: ServiceManager::run, or the end of everything.
MainGoesOn ==
    /\ srv.main = "woken"
    /\ srv' = IF srv.acceptors # {}
              THEN [srv EXCEPT !.main = "running", !.running = TRUE]
              ELSE [ShutThreads(srv) EXCEPT !.main = "join"]

\* g_scheduler.join(), g_databaseTasks.join(), g_dispatcher.join(): a thread that
\* was never started is not joinable.
MainJoins ==
    /\ srv.main = "join"
    /\ srv.scheduler.at = "exited"
    /\ srv.database.at \in {"none", "exited"}
    /\ srv.dispatcher = "TERMINATED"
    /\ srv' = [srv EXCEPT !.main = "ended"]

\* Game::setGameState.  Shutting down saves and kicks (modelled elsewhere), hands
\* over Game::shutdown and closes the three threads; there is no way back.
SetGameState(s, new) ==
    CASE s.game \in {"SHUTDOWN", new} -> s
      [] s.game \notin {"SHUTDOWN", new} /\ new # "SHUTDOWN" -> [s EXCEPT !.game = new]
      [] s.game # "SHUTDOWN" /\ new = "SHUTDOWN" ->
            [AddJob([s EXCEPT !.game = new], Job("shutdown"), FALSE) EXCEPT
                !.scheduler.state = "CLOSING", !.database.state = "CLOSING",
                !.dispatcher = "CLOSING"]

\* One part of mainLoader succeeds.  The scripts of "init" (GLOBALEVENT_STARTUP)
\* may already call for the shutdown.
LoadStage ==
    /\ Running("load")
    /\ LET stage == Stages[srv.stage]
           next == [srv EXCEPT !.stage = @ + 1]
       IN  \/ /\ stage \in {"config", "connect", "setup", "data", "resolve"}
              /\ srv' = next
           \/ /\ stage = "start"
              /\ srv' = [next EXCEPT !.database = [state |-> "RUNNING", at |-> "loop"]]
           \/ /\ stage = "init"
              /\ \/ srv' = SetGameState(next, "INIT")
                 \/ /\ ~ srv.asked
                    /\ srv' = SetGameState(SetGameState([next EXCEPT !.asked = TRUE],
                                                        "INIT"), "SHUTDOWN")
           \/ /\ stage \in Protocols3
              /\ \E ok \in BOOLEAN :
                    /\ ok \/ srv.errors > 0
                    /\ srv' = AddProtocol(next, stage, ok)
           \/ /\ stage = "online"
              /\ srv' = Done(LoaderSignal(SetGameState([next EXCEPT !.manager = TRUE],
                                                       "NORMAL")))

\* startupErrorMessage ends the loader.
LoadFails ==
    /\ Running("load")
    /\ Stages[srv.stage] \in Fallible
    /\ srv' = Done(LoaderSignal([srv EXCEPT !.stage = - @]))
-------------------------------------------------------------------------------
(* Shutdown.                                                                  *)

\* A script, a command or a timer event asks for the end in a task of its own:
\* there is none before the loader has come as far as the game's state INIT.
AskShutdown ==
    /\ ~ srv.asked
    /\ srv.current = NoJob
    /\ srv.stage > Len(Stages) \/ srv.stage = - AtResolve
    /\ srv.dispatcher = "RUNNING"
    /\ srv' = [AddJob(srv, Job("close"), FALSE) EXCEPT !.asked = TRUE]

CloseGame ==
    /\ Running("close")
    /\ srv' = Done(SetGameState(srv, "SHUTDOWN"))

\* ServiceManager::stop returns at once when run has not been called.
StopServices(s) ==
    IF ~ s.manager \/ ~ s.running THEN [s EXCEPT !.stopped = "ignored"]
    ELSE [s EXCEPT !.running = FALSE, !.stopping = s.acceptors, !.acceptors = {},
                   !.death = TRUE, !.stopped = "done"]

\* Game::shutdown
GameShutdown ==
    /\ Running("shutdown")
    /\ srv' = Done(StopServices(ShutThreads(srv)))

\* The task of Dispatcher::shutdown.
EndDispatcher ==
    /\ Running("end")
    /\ srv' = Done([srv EXCEPT !.dispatcher = "TERMINATED"])

\* ServiceManager::die, three seconds later: io_service.run returns.
ServicesDie ==
    /\ srv.main = "running"
    /\ srv.death
    /\ srv' = [srv EXCEPT !.death = FALSE, !.main = "join"]

\* The posted ServicePort::onStopServer.
OnStopServer(p) ==
    /\ srv.main = "running"
    /\ p \in srv.stopping
    /\ srv' = ClosePort([srv EXCEPT !.stopping = @ \ {p}], p)

\* A client arrives, or the operating system reports an error.
AcceptEnds(p) ==
    /\ p \in DOMAIN srv.ports
    /\ srv.ports[p].accept = "wait"
    /\ \/ srv' = [srv EXCEPT !.ports[p].accept = "ok"]
       \/ /\ srv.errors > 0
          /\ srv' = [srv EXCEPT !.ports[p].accept = "error", !.errors = @ - 1]

HandleAccept(p) ==
    /\ srv.main = "running"
    /\ p \in DOMAIN srv.ports
    /\ srv.ports[p].accept \in {"ok", "error", "aborted"}
    /\ \E welcome \in BOOLEAN : srv' = OnAccept(srv, p, welcome)

\* The scheduler's time-out: the task goes to the front of the dispatcher's list.
OpenDue(p) ==
    /\ p \in srv.due
    /\ srv.scheduler.at = "waiting"
    /\ srv' = AddJob([srv EXCEPT !.due = @ \ {p}, !.scheduler.at = "loop"],
                     [t |-> "open", p |-> p], TRUE)

\* ServicePort::openAcceptor: the weak pointer may have nothing left to lock.
OpenAcceptor ==
    /\ Running("open")
    /\ LET p == srv.current.p
       IN  \E ok \in BOOLEAN :
              /\ ok \/ srv.errors > 0
              /\ srv' = Done(IF Alive1(srv, p) THEN OpenPort(srv, p, ok) ELSE srv)

ProcessNext ==
    /\ srv.main # "ended"
    /\ \/ ThreadStep \/ ThreadWorks \/ TakeJob
       \/ MainWaits \/ SpuriousWakeup \/ MainGoesOn \/ MainJoins
       \/ LoadStage \/ LoadFails
       \/ AskShutdown \/ CloseGame \/ GameShutdown \/ EndDispatcher \/ ServicesDie
       \/ \E p \in DOMAIN srv.ports :
             OnStopServer(p) \/ AcceptEnds(p) \/ HandleAccept(p) \/ OpenDue(p)
       \/ OpenAcceptor
    /\ UNCHANGED gate
-------------------------------------------------------------------------------
(* Ban::acceptConnection, for one address; time in quarters of a second.      *)

Gaps == {0, 1, 2, 3, 12, 20, 21}

\* The attempt of an address seen gap after its previous one: count is raised
\* within five seconds, and the sixth blocks for three when it comes at once.
AcceptConnection(g, gap) ==
    LET since == IF g.since + gap > 21 THEN 21 ELSE g.since + gap
        left == IF gap > g.left THEN 0 ELSE g.left - gap
        burst == IF since <= 2 THEN g.burst + 1 ELSE 1
    IN  CASE ~ g.known ->
                [g EXCEPT !.known = TRUE, !.since = 0, !.count = 1, !.burst = 1]
          [] g.known /\ left > 0 ->
                [g EXCEPT !.since = since, !.left = left + 1, !.burst = 0]
          [] g.known /\ left = 0 /\ since > 20 ->
                [g EXCEPT !.since = 0, !.left = 0, !.count = 1, !.burst = burst]
          [] g.known /\ left = 0 /\ since <= 20 /\ g.count < 5 ->
                [g EXCEPT !.since = 0, !.left = 0, !.count = @ + 1, !.burst = burst]
          [] g.known /\ left = 0 /\ since <= 20 /\ g.count >= 5 ->
                IF since <= 2
                THEN [g EXCEPT !.since = 0, !.left = 12, !.count = 0, !.burst = 0]
                ELSE [g EXCEPT !.since = 0, !.left = 0, !.count = 0, !.burst = burst]

Connect(gap) ==
    /\ gate.kind = "connect"
    /\ gate.left < BlockMax
    /\ gate' = AcceptConnection(gate, gap)
-------------------------------------------------------------------------------
(* Bans of an account or of an address, and the login protocol that asks.     *)

\* IOBan::isAccountBanned and isIpBanned: a ban that has expired is not in force;
\* its move to the history and its removal are left to the database thread.
IsBanned(g) == g.row = "current"
CheckBan(g) ==
    IF g.row # "expired" THEN g
    ELSE [g EXCEPT !.queue = @ \o IF g.table = "account" THEN <<"insert", "delete">>
                                  ELSE <<"delete">>,
                   !.twice = @ \/ g.queue # <<>>]

\* ProtocolLogin::onRecvFirstMessage: what the first message meets, in the order
\* of the tests.  Only a message that passes hands getCharacterList over.
FirstMessages == {"shutdown", "old version", "bad key", "starting", "maintained",
                  "closed", "no name", "fine"}
FirstMessage(g, m) ==
    CASE m \in {"shutdown", "old version", "bad key", "starting", "maintained",
                "closed"} -> g
      [] m = "no name" -> CheckBan(g)
      [] m = "fine" /\ IsBanned(g) -> g
      [] m = "fine" /\ ~ IsBanned(g) -> [CheckBan(g) EXCEPT !.lists = @ + 1]

\* The check of an account at the game's login, or of an address at the login
\* protocol.
AskToEnter(m) ==
    /\ gate.kind = "bans"
    /\ gate.checks > 0
    /\ gate.table = "account" => m \in {"no name", "fine"}
    /\ gate' = [FirstMessage(gate, m) EXCEPT !.checks = @ - 1,
                   !.wrong = @ \/ (m = "fine" /\ gate.row = "current"
                                   /\ FirstMessage(gate, m).lists > gate.lists)]

\* ProtocolLogin::getCharacterList in its task: the list, or a refusal.
GetCharacterList ==
    /\ gate.kind = "bans"
    /\ gate.lists > 0
    /\ gate' = [gate EXCEPT !.lists = @ - 1]

\* The database thread runs the oldest statement.
RunStatement ==
    /\ gate.kind = "bans"
    /\ gate.queue # <<>>
    /\ LET g == [gate EXCEPT !.queue = Tail(@)]
       IN  IF Head(gate.queue) = "insert" THEN gate' = [g EXCEPT !.history = @ + 1]
           ELSE gate' = [g EXCEPT !.row = "none", !.lost = @ \/ gate.row = "current"]

\* A game master bans; the tables hold one ban of an account or an address.
BanAgain ==
    /\ gate.kind = "bans"
    /\ gate.row = "none"
    /\ gate' = [gate EXCEPT !.row = "current"]

BanExpires ==
    /\ gate.kind = "bans"
    /\ gate.row = "current"
    /\ gate.expiries > 0
    /\ gate' = [gate EXCEPT !.row = "expired", !.expiries = @ - 1]
-------------------------------------------------------------------------------
(* Status requests.                                                           *)

\* The parts of ProtocolStatus::sendInfo, in the order they are written.
InfoParts == <<"basic", "owner", "misc", "players", "map", "list", "player", "software">>
SendInfo(asked) == SelectSeq(InfoParts, LAMBDA q : q \in asked)

\* sendStatusString writes everything it knows, asked or not.
SendStatusString == {InfoParts[i] : i \in DOMAIN InfoParts} \ {"list", "player"}

Asks == {SendStatusString, {"players", "basic"}, {"player", "software"}, {}}

\* ProtocolStatus::onRecvFirstMessage: an address that is not the server's own is
\* served once in STATUSQUERY_TIMEOUT; what is not understood is disconnected,
\* and counts.
StatusMessage(asked, known) ==
    /\ gate.kind = "status"
    /\ Len(gate.tasks) < 2
    /\ LET soon == ~ gate.own /\ gate.since < StatusTimeout
       IN  IF soon THEN UNCHANGED gate
           ELSE gate' = [gate EXCEPT !.since = 0,
                            !.tasks = IF known THEN Append(@, asked) ELSE @]

AnswerStatus ==
    /\ gate.kind = "status"
    /\ gate.tasks # <<>>
    /\ gate' = [gate EXCEPT !.tasks = Tail(@), !.sent = SendInfo(Head(gate.tasks))]

StatusTime ==
    /\ gate.kind = "status"
    /\ gate.since < StatusTimeout
    /\ gate' = [gate EXCEPT !.since = @ + 1]
-------------------------------------------------------------------------------
(* Premium days.                                                              *)

Unlimited == 65535

\* Game::updatePremium with the save of the account.
UpdatePremium(g) ==
    LET days == (g.now - g.lastDay) \div DayLength
    IN  IF g.days \in {0, Unlimited} THEN [g EXCEPT !.lastDay = 0]
        ELSE CASE g.lastDay = 0 -> [g EXCEPT !.lastDay = g.now]
               [] g.lastDay # 0 /\ days = 0 -> g
               [] g.lastDay # 0 /\ days > 0 /\ days >= g.days ->
                     [g EXCEPT !.days = 0, !.lastDay = 0]
               [] g.lastDay # 0 /\ days > 0 /\ days < g.days ->
                     [g EXCEPT !.days = @ - days,
                               !.lastDay = g.now - ((g.now - g.lastDay) % DayLength)]

PremiumLogin(wait) ==
    /\ gate.kind = "premium"
    /\ gate.logins > 0
    /\ LET g == [gate EXCEPT !.now = @ + wait, !.logins = @ - 1]
       IN  gate' = [UpdatePremium(g) EXCEPT !.first = IF @ = 0 THEN g.now ELSE @]
-------------------------------------------------------------------------------
GateGone == [kind |-> "none"]

Gates ==
    {[kind |-> "connect", known |-> FALSE, since |-> 0, left |-> 0, count |-> 0,
      burst |-> 0]}
    \cup [kind : {"bans"}, table : {"account", "address"}, row : {"none", "expired"},
          queue : {<<>>}, twice : {FALSE}, lost : {FALSE}, wrong : {FALSE},
          history : {0}, lists : {0}, checks : {BanChecks}, expiries : {1}]
    \cup [kind : {"status"}, own : BOOLEAN, since : {StatusTimeout}, tasks : {<<>>},
          sent : {<<>>}]
    \cup {[kind |-> "premium", begun |-> d, days |-> d, lastDay |-> 0,
           now |-> 1, first |-> 0, logins |-> PremiumLogins] : d \in {0, PremiumDays, Unlimited}}

GateNext ==
    /\ \/ \E gap \in Gaps : Connect(gap)
       \/ \E m \in FirstMessages : AskToEnter(m)
       \/ GetCharacterList \/ RunStatement \/ BanAgain \/ BanExpires
       \/ \E asked \in Asks, known \in BOOLEAN : StatusMessage(asked, known)
       \/ AnswerStatus \/ StatusTime
       \/ \E wait \in 0..(2 * DayLength - 1) : PremiumLogin(wait)
    /\ UNCHANGED srv

ServerInit ==
    \/ srv \in {SrvStart(plan) : plan \in PortPlans} /\ gate = GateGone
    \/ srv = SrvGone /\ gate \in Gates

ServerNext == ProcessNext \/ GateNext

ServerSpec == ServerInit /\ [][ServerNext]_serverVars
-------------------------------------------------------------------------------
(* Properties.                                                                *)

\* Nothing of the process moves any more but clients that knock at open ports.
Over ==
    /\ srv.dispatcher = "TERMINATED"
    /\ srv.scheduler.at \in {"exited", "waiting"}
    /\ srv.scheduler.state = "TERMINATED"
    /\ srv.database.at \in {"none", "exited", "waiting"}
    /\ srv.database.state = "TERMINATED"
    /\ ~ srv.death
    /\ srv.main \notin {"wait", "woken", "ended"}

\* Once its threads have been told to end, the process ends, but for the windows
\* of the code: the loader's signal came before the wait (otserv.cpp:92); stop was
\* ignored because main had not called run yet or the loader failed before
\* Game::start; the scheduler or the database thread fell asleep between the
\* test of its state and its wait.  (Not Over: a wait of main that returned by
\* itself may end the database thread before the loader starts it, and a game
\* closed while main gives up writes CLOSING over TERMINATED.)
EndsOrWindow ==
    Over => \/ srv.main = "waiting" /\ srv.stage \notin DOMAIN Stages
            \/ srv.main = "running" /\ srv.stopped = "ignored"
            \/ srv.main = "join" /\ (\/ srv.scheduler.at = "waiting"
                                     \/ srv.database.at = "waiting")
            \/ srv.main = "join" /\ srv.scheduler.at = "exited"
                                 /\ srv.database.at \in {"none", "exited"}

\* Services run only when the loader is through and the game is open, or when
\* it gave up at the very last thing that can fail, the server's own address.
OnlineIsReady ==
    srv.main = "running" /\ ~ srv.early =>
        \/ srv.stage > Len(Stages) /\ srv.game \in {"NORMAL", "SHUTDOWN"} /\ srv.manager
        \/ srv.stage = - AtResolve /\ srv.game \in {"INIT", "SHUTDOWN"} /\ ~ srv.manager

\* While the server runs, every port awaits one client, or its opening is due
\* exactly once: no port goes deaf.
PortServes ==
    srv.main = "running" /\ ~ srv.early /\ srv.scheduler.state = "RUNNING" =>
        \A p \in srv.acceptors :
            LET jobs == {i \in DOMAIN srv.tasks : srv.tasks[i] = [t |-> "open", p |-> p]}
            IN  1 = (IF srv.ports[p].accept # "none" THEN 1 ELSE 0)
                  + (IF p \in srv.due THEN 1 ELSE 0)
                  + (IF srv.current = [t |-> "open", p |-> p] THEN 1 ELSE 0)
                  + Cardinality(jobs)

\* No game port is shared, and no task is left behind by an orderly end.
PortsApart ==
    /\ \A p \in DOMAIN srv.ports :
          (\E i \in DOMAIN srv.ports[p].services : SendsFirst(srv.ports[p].services[i]))
              => Len(srv.ports[p].services) = 1
    /\ srv.dispatcher = "TERMINATED" /\ srv.game = "SHUTDOWN" /\ ~ srv.early
       /\ DOMAIN srv.ports # {}
          => srv.tasks = <<>>

\* An address is let in at most six times at once.
BurstsEnd == gate.kind = "connect" => gate.burst <= 6

\* Nobody passes a ban in force; an expired ban is moved to the history once, and
\* a new one is never removed with it, unless the expired one was met again
\* before the database thread had moved it.
BansHold ==
    gate.kind = "bans" =>
        /\ ~ gate.wrong
        /\ gate.lost => gate.twice
        /\ ~ gate.twice => \A i, j \in DOMAIN gate.queue :
                               gate.queue[i] = "delete" /\ gate.queue[j] = "delete" => i = j

\* However often and whenever the account logs in, it has paid for the whole days
\* since its first login and for nothing else.
PremiumCounts ==
    gate.kind = "premium" /\ gate.first # 0 =>
        LET gone == (gate.now - gate.first) \div DayLength
        IN  gate.days = IF gate.begun \in {0, Unlimited} THEN gate.begun
                        ELSE IF gone >= gate.begun THEN 0 ELSE gate.begun - gone

\* The process starts, serves and ends, and the gates hold.
ServerAgrees ==
    /\ EndsOrWindow
    /\ OnlineIsReady
    /\ PortServes
    /\ PortsApart
    /\ BurstsEnd
    /\ BansHold
    /\ PremiumCounts
===============================================================================
