------------------------------ MODULE Walking ------------------------------
(***************************************************************************)
(* A player who walks, and what he asked to do when he gets there.         *)
(*                                                                         *)
(* Walking is a chain of scheduler events: Creature::onWalk takes one      *)
(* direction of listWalkDir, moves, and plans itself again (eventWalk).    *)
(* A request that is out of reach plans a walk and keeps itself as         *)
(* walkTask, which the end of the walk hands to the scheduler; one that    *)
(* comes too early is put off as actionTaskEvent.  A stopped event that    *)
(* had already left the scheduler still runs: it waits in the              *)
(* dispatcher's queue, and nothing takes it from there.                    *)
(*                                                                         *)
(* Places are the cells of a line; the player, one creature he may push,   *)
(* and at most one item per cell stand there.  The cell Bag is his own.    *)
(* Time is counted in units of SCHEDULER_MINTICKS.  Moves of items         *)
(* between cylinders and the search for a path are modules of their own    *)
(* (Items, Paths).                                                         *)
(***************************************************************************)
EXTENDS Integers, Sequences, FiniteSets

CONSTANTS Width,        \* cells 1..Width
          Places,       \* where things are at first: the player, the creature,
                        \* a teleport (0 for none), the items
          Steep,        \* cells whose step to the next costs as a diagonal
          StepTime,     \* Creature::getStepDuration
          UseTime,      \* ACTIONS_DELAY_INTERVAL
          PlanTime,     \* 400 ms, the delay of a walk task
          PushTime,     \* 1000 ms, the delay of a push
          Sprites,      \* what items look like
          Asked,        \* the requests a client may send
          WalkMaxNow,   \* bound on the clock
          WalkMaxOps    \* bound on what the client and others do

VARIABLES wk, wkOps

wkVars == <<wk, wkOps>>

Bag == 0
Never == -1000
NoItem == "none"
NoRequest == 0
Cell == 1 .. Width

\* A request: what is to be done, where, to what, and where to.
Requests == [kind : {"use", "useEx", "move", "push", "rotate"}, at : {Bag} \cup Cell,
             sprite : Sprites, to : {Bag} \cup Cell]

ASSUME WalkConstants ==
    /\ {StepTime, UseTime, PlanTime, PushTime} \subseteq Nat \ {0}
    /\ Asked \subseteq Requests

WalkDistance(a, b) == IF a > b THEN a - b ELSE b - a

\* areInRange<1, 1, 0>; what lies in the bag is always in reach.
InReach(w, at) == at = Bag \/ WalkDistance(w.pos, at) <= 1

-----------------------------------------------------------------------------
(* The scheduler and the dispatcher, as the player uses them.              *)

AddEventIn(w, delay, what, req) ==
    [w EXCEPT !.ids = @ + 1,
              !.sched = @ \cup {[id |-> w.ids + 1, due |-> w.now + delay,
                                 what |-> what, req |-> req]}]

StopEventOf(w, id) == [w EXCEPT !.sched = {e \in @ : e.id # id}]

Post(w, task) == [w EXCEPT !.queue = Append(@, task)]
\* The scheduler's tasks go before those that wait.
PostFirst(w, task) == [w EXCEPT !.queue = <<task>> \o @]

-----------------------------------------------------------------------------
(* The two things a player may have put off.                               *)

\* Forget what was planned; while its event is in the scheduler it will not
\* run any more.
Forget(w, id) ==
    [StopEventOf(w, id) EXCEPT
        !.dropped = @ \cup {e.req : e \in {x \in w.sched : x.id = id}}]

\* Player::setNextWalkActionTask
SetNextWalkActionTaskKeeping(w, req) ==
    [w EXCEPT !.walkTask = req,
              !.dropped = @ \cup ({w.walkTask} \ {NoRequest})
                            \cup {e.req : e \in {x \in w.sched : x.id = w.walkTaskEvent}}]
SetNextWalkActionTask(w, req) ==
    LET stopped == [Forget(w, w.walkTaskEvent) EXCEPT !.walkTaskEvent = 0] IN
    [stopped EXCEPT !.walkTask = req,
                    !.dropped = @ \cup ({w.walkTask} \ {NoRequest})]

\* Player::setNextActionTask; NoRequest only forgets.
SetNextActionTask(w, delay, req) ==
    LET stopped == [Forget(w, w.actionTaskEvent) EXCEPT !.actionTaskEvent = 0] IN
    IF req = NoRequest THEN stopped
    ELSE LET added == AddEventIn(stopped, delay, "request", req) IN
         [added EXCEPT !.actionTaskEvent = added.ids]

CanDoAction(w) == w.now >= w.nextAction
NextActionTime(w) == IF w.nextAction - w.now > 1 THEN w.nextAction - w.now ELSE 1

-----------------------------------------------------------------------------
(* The walk.                                                               *)

\* Creature::getWalkDelay
WalkDelay(w) ==
    IF w.lastStep = Never THEN 0
    ELSE StepTime * w.lastStepCost - (w.now - w.lastStep)

StopEventWalk(w) ==
    IF w.eventWalk = 0 THEN w ELSE [StopEventOf(w, w.eventWalk) EXCEPT !.eventWalk = 0]

\* A step of one cell; the dearer ones stand for diagonals.
StepCost(a, b) == IF (IF a < b THEN a ELSE b) \in Steep THEN 3 ELSE 1

\* The end of a teleport: the first cell.
Exit == 1

\* Game::internalMoveCreature and Creature::onCreatureMove of the walker:
\* onto a free cell, and from a teleport on to its exit, where the event of
\* the walk is dropped and the rest of the list stays behind.
MoveCreature(w, dir) ==
    LET to == w.pos + dir
        moved == [w EXCEPT !.pos = to, !.lastStep = w.now,
                           !.lastStepCost = StepCost(w.pos, to),
                           !.gap = IF w.lastStep = Never THEN 0
                                   ELSE StepTime * w.lastStepCost - (w.now - w.lastStep)]
    IN  IF to \notin Cell \/ to = w.beast THEN w
        ELSE IF to = w.portal
             THEN [StopEventWalk(moved) EXCEPT !.pos = Exit, !.lastStepCost = 1,
                                               !.halted = TRUE]
             ELSE moved

\* Creature::onWalk up to the cancelling of the walk.  A step that fails
\* leaves the rest of the list in place; an empty list ends the walk, and
\* Player::onWalkComplete hands the walk task to the scheduler.
WalkComplete(w) ==
    IF w.walkTask = NoRequest THEN w
    ELSE LET added == AddEventIn(w, IF w.reqs[w.walkTask].kind = "push"
                                    THEN PushTime + PlanTime ELSE PlanTime,
                                 "request", w.walkTask)
         IN  [added EXCEPT !.walkTaskEvent = added.ids, !.walkTask = NoRequest]

\* Player::onWalk(dir): a put-off action is forgotten and the next one waits
\* for the step.
TakeDirection(w) ==
    LET dir == Head(w.list)
        told == SetNextActionTask([w EXCEPT !.list = Tail(@)], 0, NoRequest)
    IN  MoveCreature([told EXCEPT !.nextAction =
                         w.now + StepTime * StepCost(w.pos, w.pos + dir)], dir)

AbortWalk(w) == SetNextWalkActionTask([w EXCEPT !.list = <<>>], NoRequest)

WalkOnce(w) ==
    LET stepped ==
            IF WalkDelay(w) > 0 THEN w
            ELSE IF w.list # <<>> THEN TakeDirection(w)
            ELSE StopEventWalk(WalkComplete(w))
    IN  IF stepped.cancelNextWalk
        THEN [AbortWalk(stepped) EXCEPT !.cancelNextWalk = FALSE]
        ELSE stepped

\* Creature::addEventWalk: with firstStep and no delay the step is taken at
\* once, while no event is noted, and only then is the next one planned.
\* The speed it asks for is getStepSpeed, which for a player is never below
\* PLAYER_MIN_SPEED: a rooted player may start walking again.
AddEventWalk(w, firstStep) ==
    LET free == [w EXCEPT !.cancelNextWalk = FALSE]
        delay == WalkDelay(w)
        atOnce == firstStep /\ delay <= 0
        ticks == IF atOnce THEN 1
                 ELSE IF delay > 0 THEN delay ELSE StepTime * w.lastStepCost
        added == AddEventIn(IF atOnce THEN WalkOnce(free) ELSE free, ticks, "walk", NoRequest)
    IN  IF w.eventWalk # 0 THEN free
        ELSE [added EXCEPT !.eventWalk = added.ids]

\* Creature::onWalk
OnWalk(w) ==
    LET walked == WalkOnce(w) IN
    IF walked.eventWalk = 0 THEN walked
    ELSE AddEventWalk([walked EXCEPT !.eventWalk = 0], FALSE)

\* Creature::startAutoWalk
StartAutoWalk(w, list) ==
    AddEventWalk([w EXCEPT !.list = list, !.halted = FALSE], Len(list) = 1)

-----------------------------------------------------------------------------
(* The handlers of the client's messages.                                  *)

\* Creature::getPathTo with a target distance of at most one: on a line the
\* cells towards the target, unless the creature or a portal bars them.
NoPath == <<0>>
PathTo(w, target) ==
    LET dir == IF target > w.pos THEN 1 ELSE -1
        n == WalkDistance(w.pos, target) - 1
    IN  IF n <= 0 THEN <<>>
        ELSE IF \E k \in 1 .. n : w.pos + dir * k \in {w.beast, w.portal} THEN NoPath
        ELSE SubSeq([k \in 1 .. n |-> dir], 1, n)

\* The request waits as walk task and the walk to it is posted.
WalkAndAct(w, req, target) ==
    LET path == PathTo(w, target) IN
    IF path = NoPath THEN w
    ELSE SetNextWalkActionTask(Post(w, [what |-> "autowalk", list |-> path]), req)

\* What is done is noted with the circumstances it was done in.
Noted(w, req, at) ==
    [w EXCEPT !.acts = Append(@, [req |-> req, near |-> InReach(w, at),
                                  sprite |-> IF w.reqs[req].kind = "push"
                                             THEN w.reqs[req].sprite ELSE w.things[at],
                                  ready |-> CanDoAction(w),
                                  dropped |-> req \in w.dropped])]

\* Actions::useItem and useItemEx: the next action waits, the walk ends.
UseThing(w, req, at) ==
    [Noted(w, req, at) EXCEPT !.nextAction = w.now + UseTime, !.cancelNextWalk = TRUE]

\* Game::playerUseItem
PlayerUseItem(w, req) ==
    LET r == w.reqs[req] IN
    IF w.things[r.at] # r.sprite THEN w
    ELSE IF ~InReach(w, r.at) THEN WalkAndAct(w, req, r.at)
    ELSE IF ~CanDoAction(w) THEN SetNextActionTask(w, NextActionTime(w), req)
    ELSE UseThing(SetNextActionTask(w, 0, NoRequest), req, r.at)

\* Game::playerUseItemEx and playerUseWithCreature: an item in reach whose
\* target is not is first taken along, and the request remembers that.
TakeAlong(w, req) ==
    LET r == w.reqs[req] IN
    [w EXCEPT !.things = [@ EXCEPT ![r.at] = NoItem, ![Bag] = r.sprite],
              !.reqs[req].at = Bag]

PlayerUseItemEx(w, req) ==
    LET r == w.reqs[req]
        inReach == InReach(w, r.at)
        carry == r.at # Bag /\ inReach /\ WalkDistance(r.at, r.to) > 1
    IN  IF w.things[r.at] # r.sprite THEN w
        ELSE IF ~inReach THEN WalkAndAct(w, req, r.at)
        ELSE IF ~InReach(w, r.to)
             THEN IF carry
                  THEN IF w.things[Bag] # NoItem THEN w
                       ELSE WalkAndAct(TakeAlong(w, req), req, r.to)
                  ELSE WalkAndAct(w, req, r.to)
        ELSE IF ~CanDoAction(w) THEN SetNextActionTask(w, NextActionTime(w), req)
        ELSE UseThing(SetNextActionTask(w, 0, NoRequest), req, r.at)

\* Game::playerMoveItem: the time is asked before the item.
WalkMoveItem(w, req) ==
    LET r == w.reqs[req]
        free == SetNextActionTask(w, 0, NoRequest)
    IN  IF ~CanDoAction(w) THEN SetNextActionTask(w, NextActionTime(w), req)
        ELSE IF w.things[r.at] # r.sprite THEN free
        ELSE IF ~InReach(w, r.at) THEN WalkAndAct(free, req, r.at)
        ELSE IF w.things[Bag] # NoItem THEN free
        ELSE [Noted(free, req, r.at) EXCEPT !.things[r.at] = NoItem, !.things[Bag] = r.sprite]

\* Game::playerMoveCreature: what must be near is the cell where the creature
\* stood when it was asked for; it is moved from where it stands now.
PlayerMoveCreature(w, req) ==
    LET r == w.reqs[req]
        free == SetNextActionTask(w, 0, NoRequest)
    IN  IF ~CanDoAction(w) THEN SetNextActionTask(w, NextActionTime(w), req)
        ELSE IF ~InReach(w, r.at) THEN WalkAndAct(free, req, r.at)
        ELSE IF WalkDistance(w.beast, r.to) > 1 \/ r.to \in {w.beast, w.pos} THEN free
        ELSE [Noted(free, req, r.at) EXCEPT !.beast = r.to]

\* Game::playerMoveThing: a creature in reach is pushed after a second.
PlayerMoveThing(w, req) ==
    LET r == w.reqs[req] IN
    IF r.kind = "move" THEN IF w.things[r.at] # NoItem THEN WalkMoveItem(w, req) ELSE w
    ELSE IF w.beast # r.at THEN w
    ELSE IF InReach(w, r.at) THEN SetNextActionTask(w, PushTime, req)
    ELSE PlayerMoveCreature(w, req)

\* Game::playerRotateItem neither waits nor is put off.
PlayerRotateItem(w, req) ==
    LET r == w.reqs[req] IN
    IF w.things[r.at] # r.sprite THEN w
    ELSE IF ~InReach(w, r.at) THEN WalkAndAct(w, req, r.at)
    ELSE Noted(w, req, r.at)

\* A request as it runs, first or put off.
RunRequest(w, req, first) ==
    CASE w.reqs[req].kind = "use" -> PlayerUseItem(w, req)
      [] w.reqs[req].kind = "useEx" -> PlayerUseItemEx(w, req)
      [] w.reqs[req].kind = "move" -> IF first THEN PlayerMoveThing(w, req) ELSE WalkMoveItem(w, req)
      [] w.reqs[req].kind = "push" -> IF first THEN PlayerMoveThing(w, req) ELSE PlayerMoveCreature(w, req)
      [] w.reqs[req].kind = "rotate" -> PlayerRotateItem(w, req)

\* Game::playerMove: an arrow key.
PlayerMove(w, dir) == StartAutoWalk(SetNextWalkActionTask(w, NoRequest), <<dir>>)

\* Creature::setSpeed: the walk stops with the speed and goes on with it.
SetSpeed(w, mobile) ==
    LET set == [w EXCEPT !.mobile = mobile] IN
    IF ~mobile THEN [StopEventWalk(set) EXCEPT !.cancelNextWalk = TRUE]
    ELSE IF ~w.mobile /\ w.list # <<>> THEN [AddEventWalk(set, FALSE) EXCEPT !.halted = FALSE]
    ELSE set

\* Creature::setFollowCreature: a walk that is on is given up; without one a
\* plan stays.
SetFollowCreature(w) ==
    [(IF w.list = <<>> THEN w ELSE AbortWalk(w)) EXCEPT !.follows = TRUE]

\* Player::goToFollowCreature: not while a walk task waits.  The pause of two
\* seconds after a search that failed is left to Think, which may not come.
GoToFollowCreature(w) ==
    LET path == PathTo(w, w.beast) IN
    IF w.walkTask # NoRequest THEN w
    ELSE IF path = NoPath THEN [w EXCEPT !.list = <<>>]
    ELSE StartAutoWalk(w, path)

-----------------------------------------------------------------------------
WalkInit ==
    /\ wkOps = 0
    /\ \E p \in Places :
          wk = [now |-> 0, pos |-> p.pos, beast |-> p.beast, portal |-> p.portal,
                   follows |-> FALSE,
                   mobile |-> TRUE, lastStep |-> Never, lastStepCost |-> 1,
                   list |-> <<>>, eventWalk |-> 0, cancelNextWalk |-> FALSE,
                   walkTask |-> NoRequest, walkTaskEvent |-> 0,
                   actionTaskEvent |-> 0, nextAction |-> 0,
                   ids |-> 0, sched |-> {}, queue |-> <<>>, reqs |-> <<>>,
                   things |-> p.things,
                   halted |-> FALSE, gap |-> 0, dropped |-> {}, acts |-> <<>>]

\* The client sends a message; it takes its turn in the dispatcher's queue.
ClientAsks ==
    /\ wkOps < WalkMaxOps
    /\ wkOps' = wkOps + 1
    /\ \/ \E a \in Asked :
            wk' = [Post(wk, [what |-> "first", req |-> Len(wk.reqs) + 1])
                     EXCEPT !.reqs = Append(@, a)]
       \/ \E dir \in {-1, 1} : wk' = Post(wk, [what |-> "arrow", dir |-> dir])
       \/ \E dir \in {-1, 1} : wk' = Post(wk, [what |-> "autowalk", list |-> <<dir, dir>>])
       \/ wk' = Post(wk, [what |-> "stop"])
       \/ wk' = Post(wk, [what |-> "follow"])

\* Others act: the creature walks, an item is taken or changed, a spell
\* roots the player or lets him go, a script sends him away.
OthersAct ==
    /\ wkOps < WalkMaxOps
    /\ wkOps' = wkOps + 1
    /\ \/ \E c \in Cell \ {wk.pos, wk.beast, wk.portal} :
             WalkDistance(c, wk.beast) = 1 /\ wk' = [wk EXCEPT !.beast = c]
       \/ \E c \in Cell, s \in Sprites \cup {NoItem} :
             wk.things[c] # NoItem /\ s # wk.things[c] /\ wk' = [wk EXCEPT !.things[c] = s]
       \/ wk' = SetSpeed(wk, ~wk.mobile)

\* The dispatcher runs the task at the head of its queue.
Dispatch ==
    /\ wk.queue # <<>>
    /\ LET t == Head(wk.queue)
           w == [wk EXCEPT !.queue = Tail(@)]
       IN  wk' = CASE t.what = "first" -> RunRequest(w, t.req, TRUE)
                   [] t.what = "request" -> RunRequest(w, t.req, FALSE)
                   [] t.what = "arrow" -> PlayerMove(w, t.dir)
                   [] t.what = "autowalk" -> StartAutoWalk(w, t.list)
                   [] t.what = "walk" -> OnWalk(w)
                   [] t.what = "stop" -> [w EXCEPT !.cancelNextWalk = TRUE]
                   [] t.what = "follow" -> SetFollowCreature(w)
                   [] t.what = "think" -> GoToFollowCreature(w)
    /\ UNCHANGED wkOps

\* The scheduler hands an event that is due to the dispatcher.
Fire ==
    /\ \E e \in wk.sched :
          /\ e.due <= wk.now
          /\ \A f \in wk.sched : f.due > e.due \/ (f.due = e.due /\ f.id >= e.id)
          /\ wk' = PostFirst([wk EXCEPT !.sched = @ \ {e}], [what |-> e.what, req |-> e.req])
    /\ UNCHANGED wkOps

\* Creature::onThink of a follower comes round.
Think ==
    /\ wk.follows /\ wkOps < WalkMaxOps
    /\ \A k \in DOMAIN wk.queue : wk.queue[k].what # "think"
    /\ wk' = PostFirst(wk, [what |-> "think"])
    /\ wkOps' = wkOps + 1

\* Time passes; what is due is not left behind for long.
Tick ==
    /\ wk.now < WalkMaxNow /\ wk.sched # {}
    /\ \A e \in wk.sched : e.due > wk.now
    /\ wk' = [wk EXCEPT !.now = @ + 1]
    /\ UNCHANGED wkOps

WalkNext == ClientAsks \/ OthersAct \/ Dispatch \/ Fire \/ Think \/ Tick

WalkSpec == WalkInit /\ [][WalkNext]_wkVars

-----------------------------------------------------------------------------
(* What must hold of a walk and of what was asked.                         *)

\* Two steps are never closer than the first one lasts, whatever chain of
\* events, arrow key or first step at once asked for the second
\* (Creature::getWalkDelay).
StepsKeepTheirTime == wk.gap <= 0

\* A request is carried out at most once, within reach, on a thing that still
\* looks as the client saw it, never before the last action or step is over
\* unless it is one that does not wait, and never after it was forgotten
\* while its event was still the scheduler's.
CarriedOutAsAsked ==
    \A k \in DOMAIN wk.acts :
        LET a == wk.acts[k] IN
        /\ a.near /\ a.sprite = wk.reqs[a.req].sprite /\ ~a.dropped
        /\ a.ready \/ wk.reqs[a.req].kind = "rotate"
        /\ \A m \in DOMAIN wk.acts : m # k => wk.acts[m].req # a.req

\* A walk that has cells left is being driven: an event of it is planned or
\* already queued, unless the player cannot move or a teleport ended it.
WalkIsDriven ==
    wk.list # <<>> /\ wk.mobile /\ ~wk.halted =>
        \/ \E e \in wk.sched : e.what = "walk"
        \/ \E k \in DOMAIN wk.queue : wk.queue[k].what = "walk"

\* Something put off is put off once: it waits as walk task, or in the
\* scheduler, or in the queue, never in two of them.
PutOffOnce ==
    \A r \in DOMAIN wk.reqs :
        Cardinality({e \in wk.sched : e.req = r})
          + Cardinality({k \in DOMAIN wk.queue :
                wk.queue[k].what \in {"first", "request"} /\ wk.queue[k].req = r})
          + (IF wk.walkTask = r THEN 1 ELSE 0) <= 1

\* The clocks of a player's steps and actions, the chain of events that
\* drives his walk and the requests he put off agree, in any order of keys,
\* clicks, events that fire and events that are stopped.
WalkAgrees == StepsKeepTheirTime /\ CarriedOutAsAsked /\ WalkIsDriven /\ PutOffOnce
=============================================================================
