---------------------------- MODULE Persistence ----------------------------
(***************************************************************************)
(* What outlives a session (iologindata.cpp, item.cpp, database.cpp).      *)
(*                                                                         *)
(* `sess`: the connection of Database::getInstance, which the dispatcher   *)
(* thread uses to save a player in a transaction while the network thread  *)
(* reads accounts and bans through it; statements fail and the connection  *)
(* is lost.  (The database thread has a connection of its own: module      *)
(* DatabaseTasks.)                                                         *)
(* `hold`: a player's things, written as rows and attributes by a save and *)
(* read back at the next login; the server may crash in between.           *)
(***************************************************************************)
EXTENDS Integers, Sequences, FiniteSets, SequencesExt

CONSTANTS SqlErrors,     \* statements that fail
          LostLinks,     \* times the connection is lost
          LoginReads,    \* reads of the network thread
          SavedThings,        \* a player's things
          ThingKind,     \* their item types
          ThingAttrs,    \* attributes they may start with
          Layouts,       \* how they may be arranged at first
          HoldOps        \* changes, saves and logins considered

VARIABLES sess, hold

persistVars == <<sess, hold>>

ASSUME PersistConstants == {SqlErrors, LostLinks, LoginReads, HoldOps} \subseteq Nat

-----------------------------------------------------------------------------
(* The connection.  The tables of the player are "old", "new" or "none".   *)
(* Of the save that is tried, `cut` says that its transaction went with a  *)
(* lost connection, and `torn` that this ever happened; `saw` is what the  *)
(* network thread's last read found.                                       *)

SaveScript == <<"begin", "hold", "stat", "delItems", "insItems", "delStore", "insStore", "commit">>

Statement == SaveScript[sess.pc]

\* What the server makes of a statement.  A row that is still there makes the
\* insertion fail.
Refuses(t, st) == \/ st = "insItems" /\ t.items # "none"
                  \/ st = "insStore" /\ t.store # "none"
Apply(t, st) ==
    CASE st = "stat" -> [t EXCEPT !.stat = "new"]
      [] st = "delItems" -> [t EXCEPT !.items = "none"]
      [] st = "insItems" -> [t EXCEPT !.items = "new"]
      [] st = "delStore" -> [t EXCEPT !.store = "none"]
      [] st = "insStore" -> [t EXCEPT !.store = "new"]

Sight(s) == IF s.open THEN s.work ELSE s.tables

\* BEGIN commits what is still open.
AtServer(s, st) ==
    IF st = "begin" THEN [s EXCEPT !.tables = Sight(s), !.work = Sight(s), !.open = TRUE, !.cut = FALSE]
    ELSE IF s.open THEN [s EXCEPT !.work = Apply(@, st)]
    ELSE [s EXCEPT !.tables = Apply(@, st)]

\* With the connection goes the transaction; the next attempt reconnects.
LinkLost(s) == LET cuts == s.open /\ s.pc > 1 IN
               [s EXCEPT !.open = FALSE, !.cut = @ \/ cuts, !.torn = @ \/ cuts, !.lost = @ - 1]

\* Player::onRemoveCreature tries to save three times.
Again(s) == IF s.tries < 2 THEN [s EXCEPT !.tries = @ + 1, !.pc = 1]
            ELSE [s EXCEPT !.pc = 0, !.result = "failed"]

\* The destructor of DBTransaction.
SaveFailedOpen(s) == Again([s EXCEPT !.lock = "none"])
SaveFailed(s) == Again([s EXCEPT !.open = FALSE, !.lock = "none"])

\* Database::executeQuery on the dispatcher's thread, within savePlayer.
SaveQuery ==
    /\ sess.pc > 0
    /\ Statement \notin {"hold", "commit"}
    /\ sess.busy # "net"
    /\ LET s == [sess EXCEPT !.busy = "none"] IN
       \/ ~Refuses(Sight(s), Statement) /\ sess' = [AtServer(s, Statement) EXCEPT !.pc = @ + 1]
       \/ Refuses(Sight(s), Statement) /\ sess' = SaveFailed(s)
       \/ s.err > 0 /\ sess' = SaveFailed([s EXCEPT !.err = @ - 1])
    /\ UNCHANGED hold

\* It is repeated after a lost connection, without giving the lock back,
\* whether or not the server had carried it out.
SaveQueryLost(done) ==
    /\ sess.pc > 0
    /\ Statement \notin {"hold", "commit"}
    /\ sess.busy # "net"
    /\ sess.lost > 0
    /\ done => ~Refuses(Sight(sess), Statement)
    /\ sess' = [LinkLost(IF done THEN AtServer(sess, Statement) ELSE sess) EXCEPT !.busy = "game"]
    /\ UNCHANGED hold

\* Database::beginTransaction takes the lock after BEGIN was carried out.
HoldLock == /\ sess.pc > 0
            /\ Statement = "hold"
            /\ sess.lock = "none"
            /\ sess.busy = "none"
            /\ sess' = [sess EXCEPT !.lock = "game", !.pc = @ + 1]
            /\ UNCHANGED hold

\* Database::commit: after a failure nothing is rolled back any more.
CommitSave ==
    /\ sess.pc > 0
    /\ Statement = "commit"
    /\ LET s == [sess EXCEPT !.lock = "none"]
           committed == [s EXCEPT !.tables = Sight(s), !.open = FALSE]
       IN  \/ sess' = [committed EXCEPT !.pc = 0, !.result = "saved"]
           \/ s.err > 0 /\ sess' = Again([s EXCEPT !.err = @ - 1])
           \/ s.lost > 0 /\ sess' = Again(LinkLost(s))
           \/ s.lost > 0 /\ sess' = Again(LinkLost(committed))
    /\ UNCHANGED hold

\* Database::storeQuery on the network thread, for IOBan::isIpBanned and
\* IOLoginData::gameworldAuthentication: it waits for the lock, sees what the
\* connection sees, and after a lost connection repeats itself without giving
\* the lock back.
Parts(t) == {t.stat, t.items, t.store}
LoginRead ==
    /\ sess.reads > 0
    /\ sess.lock = "none"
    /\ sess.busy # "game"
    /\ LET s == [sess EXCEPT !.busy = "none", !.reads = @ - 1] IN
       \/ sess' = [s EXCEPT !.saw = Parts(Sight(s))]
       \/ s.err > 0 /\ sess' = [s EXCEPT !.err = @ - 1]
    /\ UNCHANGED hold

LoginReadLost ==
    /\ sess.reads > 0
    /\ sess.lock = "none"
    /\ sess.busy # "game"
    /\ sess.lost > 0
    /\ sess' = [LinkLost(sess) EXCEPT !.busy = "net"]
    /\ UNCHANGED hold

-----------------------------------------------------------------------------
(* Items and their attributes.                                             *)

\* Item::getSubType and setSubType
SubType(k, a) == IF k.fluid THEN a.fluid
                 ELSE IF ~k.stack /\ k.charges # 0 THEN a.charges
                 ELSE a.count
SetSubType(k, a, n) == IF k.fluid THEN [a EXCEPT !.fluid = n]
                       ELSE IF ~k.stack /\ k.charges # 0 THEN [a EXCEPT !.charges = n]
                       ELSE [a EXCEPT !.count = n % 256]

\* Item::CreateItem and the constructor
NewItem(k, n) ==
    LET bare == [count |-> 1, fluid |-> 0, charges |-> 0, action |-> 0, unique |-> 0,
                 duration |-> k.decay, state |-> "no", hit |-> 0, range |-> 0]
        first == IF n # 0 THEN n ELSE IF k.charges # 0 THEN k.charges ELSE 1
    IN  IF k.fluid THEN [bare EXCEPT !.fluid = n]
        ELSE IF k.stack THEN [bare EXCEPT !.count = (IF n = 0 THEN 1 ELSE n) % 256]
        ELSE IF k.charges # 0 THEN [bare EXCEPT !.charges = first]
        ELSE bare

\* Item::serializeAttr; names, texts and the other numbers go the same way as
\* these.
SerializeAttr(k, a) ==
    LET Tag(when, tag, v) == IF when THEN << <<tag, v>> >> ELSE <<>>
    IN  Tag(k.stack \/ k.fluid, "count", SubType(k, a) % 256)
        \o Tag(a.charges # 0, "charges", a.charges % 65536)
        \o Tag(k.moveable /\ a.action # 0, "action", a.action)
        \o Tag(a.duration >= 0, "duration", a.duration)
        \o Tag(a.state # "no", "state", a.state)
        \o Tag(a.hit # 0, "hit", a.hit % 256)
        \o Tag(a.range # 0, "range", a.range % 256)

\* Item::readAttr
ReadNumber(a, tag, v) ==
    CASE tag = "hit" -> [a EXCEPT !.hit = IF v > 127 THEN v - 256 ELSE v]
      [] tag = "range" -> [a EXCEPT !.range = v]
ReadAttr(k, a, tagged) ==
    LET v == tagged[2] IN
    CASE tagged[1] \in {"count", "charges"} -> SetSubType(k, a, v)
      [] tagged[1] = "action" -> [a EXCEPT !.action = v]
      [] tagged[1] = "duration" -> [a EXCEPT !.duration = IF v < 0 THEN 0 ELSE v]
      [] tagged[1] = "state" -> [a EXCEPT !.state = "pending"]
      [] OTHER -> ReadNumber(a, tagged[1], v)

UnserializeAttr(k, a, tags) == FoldLeft(LAMBDA x, t : ReadAttr(k, x, t), a, tags)

-----------------------------------------------------------------------------
(* Rows.  A row: [pid, sid, thing, count, tags].                           *)

Row(h, pid, sid, x) == [pid |-> pid, sid |-> sid, thing |-> x,
                        count |-> SubType(ThingKind[x], h.attr[x]),
                        tags |-> SerializeAttr(ThingKind[x], h.attr[x])]

\* IOLoginData::saveItems: the items of the list, then what is in them, level
\* by level, numbered from 101.
BoxesFirst(rows) == SelectSeq(rows, LAMBDA r : ThingKind[r.thing].box)
SaveItems(h, list) ==
    LET top == [n \in 1 .. Len(list) |-> Row(h, list[n][1], 100 + n, list[n][2])]
        Level(s, i) ==
            IF s.queue = <<>> THEN s
            ELSE LET box == Head(s.queue)
                     kids == [n \in 1 .. Len(h.cont[box.thing]) |->
                                Row(h, box.sid, 100 + Len(s.rows) + n, h.cont[box.thing][n])]
                 IN  [rows |-> s.rows \o kids, queue |-> Tail(s.queue) \o BoxesFirst(kids)]
    IN  FoldLeft(Level, [rows |-> SubSeq(top, 1, Len(top)), queue |-> BoxesFirst(top)],
                 [i \in 1 .. Cardinality(SavedThings) |-> i]).rows

SaveSlots == 1 .. 10
SlotList(h) == LET used == SelectSeq([n \in SaveSlots |-> n], LAMBDA n : h.worn[n] # "none")
               IN  [n \in DOMAIN used |-> <<used[n], h.worn[used[n]]>>]
ListOf(items) == [n \in DOMAIN items |-> <<0, items[n]>>]

\* The item part of IOLoginData::savePlayer; the depot's rows are written only
\* by a player who opened it since the login.
SavePlayerEmpties(h) ==
    [h EXCEPT !.rows = [items |-> SaveItems(h, SlotList(h)),
                        depot |-> IF h.opened THEN SaveItems(h, ListOf(h.chest)) ELSE <<>>,
                        inbox |-> IF h.opened THEN SaveItems(h, ListOf(h.locker)) ELSE <<>>],
              !.snap = [worn |-> h.worn, cont |-> h.cont, attr |-> h.attr,
                        chest |-> IF h.opened THEN h.chest ELSE @.chest,
                        locker |-> IF h.opened THEN h.locker ELSE @.locker]]
SavePlayer(h) ==
    [h EXCEPT !.rows = [items |-> SaveItems(h, SlotList(h)),
                        depot |-> IF h.opened THEN SaveItems(h, ListOf(h.chest)) ELSE @.depot,
                        inbox |-> IF h.opened THEN SaveItems(h, ListOf(h.locker)) ELSE @.inbox],
              !.snap = [worn |-> h.worn, cont |-> h.cont, attr |-> h.attr,
                        chest |-> IF h.opened THEN h.chest ELSE @.chest,
                        locker |-> IF h.opened THEN h.locker ELSE @.locker]]

\* IOLoginData::loadItems: an item for every row, by its number.
LoadItems(h, rows) ==
    [h EXCEPT !.attr = [x \in SavedThings |->
        LET mine == SelectSeq(rows, LAMBDA r : r.thing = x) IN
        IF mine = <<>> THEN h.attr[x]
        ELSE UnserializeAttr(ThingKind[x], NewItem(ThingKind[x], mine[1].count), mine[1].tags)]]

\* The loops of IOLoginData::loadPlayer: from the last row to the first, each
\* to the front of its place.
Under(rows, pid) == {r.thing : r \in {x \in ToSet(rows) : x.sid = pid}}
LoadInto(h, rows, place) ==
    LET Put(s, r) ==
            LET box == Under(rows, r.pid) IN
            IF r.pid < 100
            THEN CASE place = "worn" -> IF s.worn[r.pid] = "none" THEN [s EXCEPT !.worn[r.pid] = r.thing] ELSE s
                   [] place = "chest" -> [s EXCEPT !.chest = <<r.thing>> \o @]
                   [] place = "locker" -> [s EXCEPT !.locker = <<r.thing>> \o @]
            ELSE [s EXCEPT !.cont = [y \in SavedThings |-> IF y \in box /\ ThingKind[y].box
                                                      THEN <<r.thing>> \o @[y] ELSE @[y]]]
    IN  FoldLeft(Put, LoadItems(h, rows), Reverse(rows))

LoadPlayer(h) ==
    LET bare == [h EXCEPT !.worn = [n \in SaveSlots |-> "none"], !.chest = <<>>, !.locker = <<>>,
                          !.cont = [x \in SavedThings |-> <<>>], !.opened = FALSE]
    IN  LoadInto(LoadInto(LoadInto(bare, h.rows.items, "worn"), h.rows.depot, "chest"),
                 h.rows.inbox, "locker")

-----------------------------------------------------------------------------
(* What happens to a player's things.                                      *)

Change(h, fresh) == hold' = [h EXCEPT !.ops = @ + 1, !.fresh = fresh] /\ UNCHANGED sess

\* The behaviour goes on, and the player is in the game.
MayChange == hold.ops < HoldOps
Playing == MayChange /\ hold.in

Gone(s, x) == SelectSeq(s, LAMBDA y : y # x)
TakeOut(h, x) == [h EXCEPT !.worn = [n \in SaveSlots |-> IF @[n] = x THEN "none" ELSE @[n]],
                           !.chest = Gone(@, x), !.locker = Gone(@, x),
                           !.cont = [y \in SavedThings |-> Gone(@[y], x)]]

HeldContents(h, y) == ToSet(h.cont[y])
Within(h, y) == LET a == {y} \cup HeldContents(h, y) IN a \cup UNION {HeldContents(h, z) : z \in a}
Carried(h) == UNION {Within(h, x) : x \in {h.worn[n] : n \in {m \in SaveSlots : h.worn[m] # "none"}}}
Stored(h) == UNION {Within(h, x) : x \in ToSet(h.chest) \cup ToSet(h.locker)}
Reach(h) == Carried(h) \cup (IF h.opened THEN Stored(h) ELSE {})

\* Moving things about; who may move what where is the matter of Items.
IntoBox(x, y) == /\ Playing
                 /\ ThingKind[y].box
                 /\ x \in Reach(hold)
                 /\ y \in Reach(hold) \ Within(hold, x)
                 /\ Change([TakeOut(hold, x) EXCEPT !.cont[y] = <<x>> \o @], FALSE)
IntoChest(x) == /\ Playing
                /\ hold.opened
                /\ x \in Reach(hold)
                /\ Change([TakeOut(hold, x) EXCEPT !.chest = <<x>> \o @], FALSE)
PutToSlot(x, n) == /\ Playing
                   /\ x \in Reach(hold)
                   /\ hold.worn[n] = "none"
                   /\ Change([TakeOut(hold, x) EXCEPT !.worn[n] = x], FALSE)

\* Actions::internalUseItem on a depot: setLastDepotId.
OpenDepotChest == /\ Playing
                  /\ ~hold.opened
                  /\ Change([hold EXCEPT !.opened = TRUE], FALSE)

\* Mailbox::sendItem to a player in the game, of a parcel with its contents.
SendItem(x) == /\ Playing
               /\ x \in SavedThings \ (Carried(hold) \cup Stored(hold))
               /\ Change([hold EXCEPT !.locker = <<x>> \o @], FALSE)

\* Game::saveGameState
SaveGameState == /\ Playing
                 /\ Change(SavePlayer(hold), FALSE)

\* Leaving and coming back; a crash saves nothing.
LogoutPlayer == /\ Playing
                /\ Change([SavePlayer(hold) EXCEPT !.in = FALSE], FALSE)
LoginPlayer == /\ MayChange /\ ~hold.in
               /\ Change([LoadPlayer(hold) EXCEPT !.in = TRUE], TRUE)
Crash == /\ Playing
         /\ Change([hold EXCEPT !.in = FALSE], FALSE)

-----------------------------------------------------------------------------

Tables == [stat |-> "old", items |-> "old", store |-> "old"]

NoSess == [pc |-> 0, tables |-> Tables, work |-> Tables, open |-> FALSE, lock |-> "none", busy |-> "none",
           tries |-> 0, result |-> "none", cut |-> FALSE, torn |-> FALSE, saw |-> {}, reads |-> LoginReads,
           err |-> SqlErrors, lost |-> LostLinks]

NoHold == [in |-> FALSE, opened |-> FALSE, fresh |-> FALSE, ops |-> HoldOps, attr |-> [x \in SavedThings |-> "none"],
           worn |-> [n \in SaveSlots |-> "none"], cont |-> [x \in SavedThings |-> <<>>], chest |-> <<>>, locker |-> <<>>,
           rows |-> [items |-> <<>>, depot |-> <<>>, inbox |-> <<>>], snap |-> "none"]

\* A player who just opened the depot, as if all had been saved before.
Begun(layout, attrs) ==
    LET h == [NoHold EXCEPT !.in = TRUE, !.opened = TRUE, !.ops = 0, !.worn = layout.worn,
                            !.cont = layout.cont, !.chest = layout.chest, !.attr = attrs,
                            !.snap = [chest |-> <<>>]]
    IN  SavePlayer(h)

PersistInit ==
    \/ sess = [NoSess EXCEPT !.pc = 1] /\ hold = NoHold
    \/ sess = [NoSess EXCEPT !.reads = 0] /\ hold \in {Begun(l, a) : l \in Layouts, a \in ThingAttrs}

PersistNext ==
    \/ SaveQuery
    \/ \E done \in BOOLEAN : SaveQueryLost(done)
    \/ HoldLock
    \/ CommitSave
    \/ LoginRead
    \/ LoginReadLost
    \/ \E x, y \in SavedThings : IntoBox(x, y)
    \/ \E x \in SavedThings : IntoChest(x)
    \/ \E x \in SavedThings, n \in {1, 2} : PutToSlot(x, n)
    \/ OpenDepotChest
    \/ \E x \in SavedThings : SendItem(x)
    \/ SaveGameState
    \/ LogoutPlayer
    \/ LoginPlayer
    \/ Crash

PersistSpec == PersistInit /\ [][PersistNext]_persistVars

-----------------------------------------------------------------------------
(* Properties.                                                             *)

\* Unless a transaction ever went with a lost connection (its other statements
\* are then carried out one by one), the player in the database is the one of
\* before or the one of the save, never a mixture, and no other thread's read
\* falls between the statements and finds one; and a save that is reported is
\* there, all of it, whatever became of the tries before it, unless its own
\* transaction went.  The lock is free when nobody saves.
SaveIsWhole ==
    /\ ~sess.torn => /\ Parts(sess.tables) \in {{"old"}, {"new"}}
                     /\ sess.saw \in {{}, {"old"}, {"new"}}
    /\ ~sess.cut /\ sess.result = "saved" => Parts(sess.tables) = {"new"}
    /\ sess.pc = 0 => sess.lock = "none"

\* The attributes a thing comes back with: not its unique id, nor an action id
\* if it cannot be moved; a decaying thing is about to decay, charges of a
\* kind that has none have become its count, and a thing that has used up its
\* charges has all of them again.
ComesBack(k, a) ==
    LET kept == [a EXCEPT !.unique = 0, !.action = IF k.moveable THEN @ ELSE 0,
                          !.state = IF @ = "no" THEN "no" ELSE "pending",
                          !.duration = IF @ < 0 THEN k.decay ELSE @,
                          !.range = @ % 256]
    IN  IF k.charges # 0 /\ ~k.stack /\ ~k.fluid
        THEN [kept EXCEPT !.charges = IF @ = 0 THEN k.charges ELSE @]
        ELSE IF a.charges = 0 THEN kept
        ELSE IF k.fluid THEN [kept EXCEPT !.fluid = a.charges, !.charges = 0]
        ELSE [kept EXCEPT !.count = a.charges, !.charges = 0]

\* After a login every thing is in its place, in its order, with its
\* attributes, as when the player was last saved, whether the player left, the
\* server saved or crashed; the depot as when it was last saved open, so that
\* mail that came to a depot not opened since is not kept.
ThingsComeBack ==
    LET s == hold.snap
        kept == Carried([hold EXCEPT !.worn = s.worn, !.cont = s.cont])
    IN  hold.fresh =>
            /\ hold.worn = s.worn
            /\ hold.chest = s.chest
            /\ hold.locker = s.locker
            /\ \A x \in kept : hold.cont[x] = s.cont[x] /\ hold.attr[x] = ComesBack(ThingKind[x], s.attr[x])
            /\ \A x \in Stored(hold) : x \notin kept
=============================================================================
