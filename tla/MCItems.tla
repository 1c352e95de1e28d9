------------------------------- MODULE MCItems -------------------------------
\* Three beginnings: a player with a backpack, a bag in it and coins; one with a
\* bag in his hand, under the classic rules; and one who arms himself from his
\* backpack and the ground.
EXTENDS Items

CONSTANTS backpack, bag, coins1, coins2, coins3, shield, axe, halberd, ground, hole

MCBelow == (ground :> ground) @@ (hole :> ground)
MCCapacity == (backpack :> 2) @@ (bag :> 2)
MCWeight == [i \in Items |-> IF i \in {axe, halberd} THEN 2 ELSE 1]
MCSlotPosition ==
    [i \in Items |-> IF i = backpack THEN {BackpackSlot} ELSE {RightSlot, LeftSlot}]
MCWeaponType ==
    [i \in Items |-> IF i = shield THEN "shield"
                     ELSE IF i \in {axe, halberd} THEN "weapon" ELSE "none"]

Worn(f) == f @@ [s \in SlotSet |-> None]
Lists(inBackpack, onGround) ==
    (backpack :> inBackpack) @@ (bag :> <<>>) @@ (ground :> onGround) @@ (hole :> <<>>)
Counts(coins, here) == [i \in Items |-> IF i \in coins THEN 2 ELSE IF i \in here THEN 1 ELSE 0]

MCStarts ==
    {[inventory |-> Worn(BackpackSlot :> backpack), count |-> Counts({coins1}, {backpack, bag}),
      list |-> Lists(<<bag>>, <<coins1>>), classic |-> {FALSE},
      supply |-> [units |-> 2, items |-> {}]],
     [inventory |-> Worn((RightSlot :> bag) @@ (LeftSlot :> coins1) @@ (AmmoSlot :> coins2)),
      count |-> (coins2 :> MaxStack) @@ Counts({}, {bag, coins1}),
      list |-> Lists(<<>>, <<>>), classic |-> {TRUE},
      supply |-> [units |-> 2, items |-> {}]],
     [inventory |-> Worn(BackpackSlot :> backpack),
      count |-> Counts({}, {backpack, shield, halberd}),
      list |-> Lists(<<shield>>, <<halberd>>), classic |-> BOOLEAN,
      supply |-> [units |-> 0, items |-> {axe}]]}

MCSymmetry == Permutations(Stacks)
===============================================================================
