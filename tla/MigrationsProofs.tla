-------------------------- MODULE MigrationsProofs --------------------------
(* However many operators migrate the database: why two runs of Alembic that *)
(* overlap cannot both succeed, why the schema is the one of its revision,   *)
(* at the head the one of the ORM models, and why a script always fits what  *)
(* the scripts before it have made.                                          *)
EXTENDS Migrations, TLAPS

\* The run has created the table "crops", with the first script, or dropped it, with the last.
HasMadeCrops(r) == r.from = 0 /\ (r.rev > 0 \/ r.done >= 2)
HasDroppedCrops(r) == r.to = 0 /\ (r.rev = 0 \/ (r.rev = 1 /\ r.done >= 6))

\* A run goes from its start to its goal and never turns.
IsRun(r) ==
    /\ r \in [from: 0 .. 7, to: 0 .. 7, rev: 0 .. 7, done: Nat]
    /\ r.from < r.to => r.from <= r.rev /\ r.rev <= r.to
    /\ r.to < r.from => r.to <= r.rev /\ r.rev <= r.from
    /\ r.from # r.to
    /\ r.rev # r.to => r.done <= Len(Script(r))
    /\ r.rev = r.to => r.done = 0

\* What a transaction has made of "crops" is locked, and so is the revision it has written;
\* both are then what the run found.
CropsInv(m) ==
    /\ "crops" \in DOMAIN draft[m] <=> HasMadeCrops(run[m]) \/ HasDroppedCrops(run[m])
    /\ HasMadeCrops(run[m]) =>
        draft[m]["crops"] # Gone /\ "crops" \in held[m] /\ "crops" \notin DOMAIN catalog
    /\ HasDroppedCrops(run[m]) => draft[m]["crops"] = Gone /\ "crops" \in held[m]

WrittenInv(m) ==
    run[m].rev # run[m].from =>
        "alembic_version" \in held[m] /\ versions = HeadOf(run[m].from)

RunInv(m) == IF run[m] = NoRun
             THEN draft[m] = <<>> /\ held[m] = {}
             ELSE IsRun(run[m]) /\ CropsInv(m) /\ WrittenInv(m)

LocksInv == \A m, o \in Migrators : m # o => held[m] \intersect held[o] = {}

\* The table "crops" is there if and only if some revision is.
HeadInv ==
    /\ \E r \in 0 .. 7 : versions = HeadOf(r) /\ ("crops" \in DOMAIN catalog <=> r # 0)
    /\ "crops" \in DOMAIN catalog => catalog["crops"] # Gone

FunctionsInv ==
    /\ DOMAIN run = Migrators /\ DOMAIN draft = Migrators
    /\ DOMAIN held = Migrators /\ DOMAIN out = Migrators

Inv == FunctionsInv /\ HeadInv /\ LocksInv /\ (\A m \in Migrators : RunInv(m))

-----------------------------------------------------------------------------
(* The statements about "crops"                                            *)

\* The n-th statement of the script, and no other, is about "crops".
OnlyCrops(script, n) == \A i \in 1 .. Len(script) : script[i].on = "crops" <=> i = n

LEMMA UpFirst ==
    /\ Len(upgrade_0001) = 7 /\ OnlyCrops(upgrade_0001, 2)
    /\ upgrade_0001[2].op = "create" /\ upgrade_0001[2].on = "crops"
<1>1. Len(upgrade_0001) = 7
  BY DEF upgrade_0001
<1>2. /\ upgrade_0001[1] = CreateUserRole /\ upgrade_0001[2] = CreateCrops
      /\ upgrade_0001[3] = CreateCentres /\ upgrade_0001[4] = CreateFarmers
      /\ upgrade_0001[5] = CreateUsers /\ upgrade_0001[6] = CreateHoldings
      /\ upgrade_0001[7] = CreateCounters
  BY DEF upgrade_0001
<1>3. /\ CreateUserRole.on = "user_role" /\ CreateCentres.on = "procurement_centres"
      /\ CreateFarmers.on = "farmers" /\ CreateUsers.on = "users"
      /\ CreateHoldings.on = "farmer_land_holdings" /\ CreateCounters.on = "counters"
      /\ CreateCrops.on = "crops" /\ CreateCrops.op = "create"
  BY DEF CreateUserRole, CreateCentres, CreateFarmers, CreateUsers, CreateHoldings,
     CreateCounters, CreateCrops, Create, CreateType
<1> QED
  BY <1>1, <1>2, <1>3 DEF OnlyCrops

LEMMA DownFirst ==
    /\ Len(downgrade_0001) = 7 /\ OnlyCrops(downgrade_0001, 6)
    /\ downgrade_0001[6].op = "drop" /\ downgrade_0001[6].on = "crops"
<1>1. Len(downgrade_0001) = 7
  BY DEF downgrade_0001
<1>2. /\ downgrade_0001[1].on = "counters" /\ downgrade_0001[2].on = "farmer_land_holdings"
      /\ downgrade_0001[3].on = "users" /\ downgrade_0001[4].on = "farmers"
      /\ downgrade_0001[5].on = "procurement_centres" /\ downgrade_0001[6].on = "crops"
      /\ downgrade_0001[7].on = "user_role" /\ downgrade_0001[6].op = "drop"
  BY DEF downgrade_0001, Drop, DropType
<1> QED
  BY <1>1, <1>2 DEF OnlyCrops

LEMMA UpLater ==
    \A r \in 1 .. 6 : OnlyCrops(upgrade[r + 1], 0)
<1>1. OnlyCrops(upgrade_0002, 0)
  BY DEF OnlyCrops, upgrade_0002, CreateQueues, CreateQueueEntries, CreateTokens, Create
<1>2. OnlyCrops(upgrade_0003, 0)
  BY DEF OnlyCrops, upgrade_0003, Alter
<1>3. OnlyCrops(upgrade_0004, 0)
  <2>1. /\ CreateIntentStatus.on # "crops" /\ CreateTokenStatus.on # "crops"
        /\ CreateIntents.on # "crops" /\ CreateProcurementTokens.on # "crops"
        /\ CreateRecords.on # "crops" /\ CreateHistory.on # "crops"
    BY DEF CreateIntentStatus, CreateTokenStatus, CreateIntents, CreateProcurementTokens,
       CreateRecords, CreateHistory, Create, CreateType
  <2> QED BY <2>1 DEF OnlyCrops, upgrade_0004
<1>4. OnlyCrops(upgrade_0005, 0)
  BY DEF OnlyCrops, upgrade_0005, CreateCapacity, Create
<1>5. OnlyCrops(upgrade_0006, 0)
  BY DEF OnlyCrops, upgrade_0006, Alter
<1>6. OnlyCrops(upgrade_0007, 0)
  BY DEF OnlyCrops, upgrade_0007, CreateRuns, CreateDecisions, Create
<1> QED
  BY <1>1, <1>2, <1>3, <1>4, <1>5, <1>6 DEF upgrade

LEMMA DownLater ==
    \A r \in 2 .. 7 : OnlyCrops(downgrade[r], 0)
<1>1. OnlyCrops(downgrade_0002, 0)
  BY DEF OnlyCrops, downgrade_0002, Drop
<1>2. OnlyCrops(downgrade_0003, 0)
  BY DEF OnlyCrops, downgrade_0003, Alter
<1>3. OnlyCrops(downgrade_0004, 0)
  BY DEF OnlyCrops, downgrade_0004, Drop, DropType
<1>4. OnlyCrops(downgrade_0005, 0)
  BY DEF OnlyCrops, downgrade_0005, Drop
<1>5. OnlyCrops(downgrade_0006, 0)
  BY DEF OnlyCrops, downgrade_0006, Alter
<1>6. OnlyCrops(downgrade_0007, 0)
  BY DEF OnlyCrops, downgrade_0007, Drop
<1> QED
  BY <1>1, <1>2, <1>3, <1>4, <1>5, <1>6 DEF downgrade

IsList(script) == Len(script) \in Nat

LEMMA ScriptsAreLists == \A r \in 1 .. 7 : IsList(upgrade[r]) /\ IsList(downgrade[r])
<1>1. /\ IsList(upgrade_0001) /\ IsList(upgrade_0002) /\ IsList(upgrade_0003) /\ IsList(upgrade_0004)
      /\ IsList(upgrade_0005) /\ IsList(upgrade_0006) /\ IsList(upgrade_0007)
  BY DEF upgrade_0001, upgrade_0002, upgrade_0003, upgrade_0004, upgrade_0005, upgrade_0006,
     upgrade_0007, IsList
<1>2. /\ IsList(downgrade_0001) /\ IsList(downgrade_0002) /\ IsList(downgrade_0003)
      /\ IsList(downgrade_0004) /\ IsList(downgrade_0005) /\ IsList(downgrade_0006)
      /\ IsList(downgrade_0007)
  BY DEF downgrade_0001, downgrade_0002, downgrade_0003, downgrade_0004, downgrade_0005,
     downgrade_0006, downgrade_0007, IsList
<1>3. \A r \in 1 .. 7 : IsList(upgrade[r])
  BY <1>1 DEF upgrade
<1>4. \A r \in 1 .. 7 : IsList(downgrade[r])
  BY <1>2 DEF downgrade
<1> QED
  BY <1>3, <1>4

\* What a run executes next is about "crops" only where it makes or drops it.
MakesCrops(r) == r.rev = 0 /\ r.done = 1
DropsCrops(r) == r.rev = 1 /\ r.to = 0 /\ r.done = 5
IsStatement(r, s) ==
    /\ s.on = "crops" <=> MakesCrops(r) \/ DropsCrops(r)
    /\ MakesCrops(r) => s.op = "create" /\ s.as # Gone
    /\ DropsCrops(r) => s.op = "drop"

LEMMA Statements ==
    ASSUME NEW r, IsRun(r), r.rev # r.to, r.done < Len(Script(r))
    PROVE  IsStatement(r, Script(r)[r.done + 1]) /\ r.done + 1 <= Len(Script(r))
<1>1. r.rev \in 0 .. 7 /\ r.to \in 0 .. 7 /\ r.from \in 0 .. 7 /\ r.done \in Nat
  BY DEF IsRun
<1>2. CASE r.to > r.rev
  <2> r.rev \in 0 .. 6 /\ r.rev + 1 \in 1 .. 7
    BY <1>1, <1>2
  <2>1. Script(r) = upgrade[r.rev + 1] /\ Len(Script(r)) \in Nat
    BY <1>2, ScriptsAreLists DEF Script, IsList
  <2>2. r.done + 1 \in 1 .. Len(Script(r))
    BY <1>1, <2>1
  <2>3. CASE r.rev = 0
    <3>1. Script(r) = upgrade_0001
      BY <2>1, <2>3 DEF upgrade
    <3>2. upgrade[1] = upgrade_0001 /\ upgrade_0001[2].as # Gone
      <4>1. upgrade[1] = upgrade_0001
        BY DEF upgrade
      <4>2. 2 \in DOMAIN upgrade_0001
        BY DEF upgrade_0001
      <4> QED BY <4>1, <4>2, GoneAssumption
    <3> QED BY <1>1, <2>2, <2>3, <3>1, <3>2, UpFirst DEF OnlyCrops, IsStatement, MakesCrops, DropsCrops
  <2>4. CASE r.rev # 0
    <3>1. OnlyCrops(Script(r), 0)
      BY <2>1, <2>4, UpLater
    <3> QED BY <1>1, <1>2, <2>2, <2>4, <3>1 DEF OnlyCrops, IsStatement, MakesCrops, DropsCrops
  <2> QED BY <2>3, <2>4
<1>3. CASE r.to < r.rev
  <2> r.rev \in 1 .. 7 /\ ~ (r.to > r.rev)
    BY <1>1, <1>3
  <2>1. Script(r) = downgrade[r.rev] /\ Len(Script(r)) \in Nat
    BY ScriptsAreLists DEF Script, IsList
  <2>2. r.done + 1 \in 1 .. Len(Script(r))
    BY <1>1, <2>1
  <2>3. CASE r.rev = 1
    <3>1. Script(r) = downgrade_0001 /\ r.to = 0
      BY <1>1, <1>3, <2>1, <2>3 DEF downgrade
    <3> QED BY <1>1, <2>2, <2>3, <3>1, DownFirst DEF OnlyCrops, IsStatement, MakesCrops, DropsCrops
  <2>4. CASE r.rev # 1
    <3>1. OnlyCrops(Script(r), 0)
      BY <2>1, <2>4, DownLater
    <3> QED BY <1>1, <2>1, <2>2, <2>4, <3>1 DEF OnlyCrops, IsStatement, MakesCrops, DropsCrops
  <2> QED BY <2>3, <2>4
<1> QED BY <1>1, <1>2, <1>3

-----------------------------------------------------------------------------
(* The steps of a run                                                      *)

OthersKeep(m) ==
    \A o \in Migrators \ {m} : run'[o] = run[o] /\ draft'[o] = draft[o] /\ held'[o] = held[o]

\* A step that commits nothing leaves the other runs as they were.
LEMMA UncommittedStep ==
    ASSUME NEW m \in Migrators, Inv, catalog' = catalog, versions' = versions, OthersKeep(m),
           FunctionsInv', LocksInv', RunInv(m)'
    PROVE  Inv'
<1>1. ASSUME NEW o \in Migrators PROVE RunInv(o)'
  <2>1. CASE o = m
    BY <2>1
  <2>2. CASE o # m
    BY <2>2 DEF Inv, OthersKeep, RunInv, CropsInv, WrittenInv
  <2> QED BY <2>1, <2>2
<1>2. HeadInv'
  BY DEF Inv, HeadInv
<1> QED BY <1>1, <1>2 DEF Inv

\* A run that ends without a commit leaves nothing behind.
LEMMA EndStep ==
    ASSUME NEW m \in Migrators, NEW answer, Inv, End(m, answer),
           catalog' = catalog, versions' = versions
    PROVE  Inv'
<1>1. OthersKeep(m) /\ FunctionsInv' /\ RunInv(m)' /\ LocksInv'
  BY DEF End, Inv, FunctionsInv, OthersKeep, RunInv, LocksInv
<1> QED BY <1>1, UncommittedStep

LEMMA StartStep == ASSUME NEW m \in Migrators, Inv, Start(m) PROVE Inv'
<1>0. PICK from \in 0 .. 7 : \E to \in Goals \ {from} :
        /\ versions = HeadOf(from)
        /\ run' = [run EXCEPT ![m] = [from |-> from, to |-> to, rev |-> from, done |-> 0]]
  BY DEF Start
<1>1. PICK to \in Goals \ {from} :
        run' = [run EXCEPT ![m] = [from |-> from, to |-> to, rev |-> from, done |-> 0]]
  BY <1>0
<1>2. /\ run[m] = NoRun /\ catalog' = catalog /\ versions' = versions
      /\ draft' = draft /\ held' = held /\ DOMAIN out' = DOMAIN out
  BY DEF Start
<1>3. OthersKeep(m) /\ FunctionsInv' /\ LocksInv'
  BY <1>1, <1>2 DEF Inv, FunctionsInv, OthersKeep, LocksInv
<1>4. draft[m] = <<>> /\ held[m] = {}
  BY <1>2 DEF Inv, RunInv
<1>5. to \in 0 .. 7 /\ from # to
  BY RevisionsAssumption
<1> DEFINE new == [from |-> from, to |-> to, rev |-> from, done |-> 0]
<1>6. run'[m] = new /\ run'[m] # NoRun
  BY <1>1, <1>5, NoRunAssumption DEF Inv, FunctionsInv
<1>7. IsRun(new)
  <2>1. Script(new) \in {upgrade[k] : k \in 1 .. 7} \union {downgrade[k] : k \in 1 .. 7}
    BY <1>5 DEF Script
  <2>2. Len(Script(new)) \in Nat
    BY <2>1, ScriptsAreLists DEF IsList
  <2> QED BY <1>5, <2>2 DEF IsRun
<1>8. ~ HasMadeCrops(new) /\ ~ HasDroppedCrops(new)
  BY <1>5 DEF HasMadeCrops, HasDroppedCrops
<1>9. "crops" \notin DOMAIN draft'[m]
  BY <1>2, <1>4
<1>10. CropsInv(m)' /\ WrittenInv(m)'
  <2>1. new.rev = new.from
    OBVIOUS
  <2> HIDE DEF new
  <2> QED BY <1>6, <1>8, <1>9, <2>1 DEF CropsInv, WrittenInv
<1>11. RunInv(m)'
  <2> HIDE DEF new
  <2> QED BY <1>6, <1>7, <1>10 DEF RunInv
<1> QED BY <1>2, <1>3, <1>11, UncommittedStep

\* A transaction sees "crops" as it made it, or else as it is committed.
LEMMA ViewOfCrops ==
    ASSUME NEW m \in Migrators
    PROVE  "crops" \in DOMAIN View(m) <=>
             IF "crops" \in DOMAIN draft[m] THEN draft[m]["crops"] # Gone
             ELSE "crops" \in DOMAIN catalog /\ catalog["crops"] # Gone
BY DEF View, Above

\* Each statement takes a run on by one, and nowhere near "crops" but there.
LEMMA NextStatement ==
    ASSUME NEW r, IsRun(r), r.rev # r.to, r.done < Len(Script(r)),
           NEW n, n = [r EXCEPT !.done = r.done + 1]
    PROVE  /\ IsRun(n)
           /\ n.rev = r.rev /\ n.from = r.from
           /\ HasMadeCrops(n) <=> HasMadeCrops(r) \/ MakesCrops(r)
           /\ HasDroppedCrops(n) <=> HasDroppedCrops(r) \/ DropsCrops(r)
           /\ MakesCrops(r) => ~ HasMadeCrops(r) /\ ~ HasDroppedCrops(r)
           /\ ~ (HasMadeCrops(n) /\ HasDroppedCrops(n))
<1>1. /\ r.from \in 0 .. 7 /\ r.to \in 0 .. 7 /\ r.rev \in 0 .. 7 /\ r.done \in Nat
      /\ r \in [from: 0 .. 7, to: 0 .. 7, rev: 0 .. 7, done: Nat]
      /\ r.from < r.to => r.from <= r.rev /\ r.rev <= r.to
      /\ r.to < r.from => r.to <= r.rev /\ r.rev <= r.from
      /\ r.from # r.to
  BY DEF IsRun
<1>2. /\ n.from = r.from /\ n.to = r.to /\ n.rev = r.rev /\ n.done = r.done + 1
      /\ n \in [from: 0 .. 7, to: 0 .. 7, rev: 0 .. 7, done: Nat]
  BY <1>1
<1>3. Script(n) = Script(r) /\ r.done + 1 <= Len(Script(r))
  BY <1>2, Statements DEF Script
<1>4. IsRun(n)
  BY <1>1, <1>2, <1>3 DEF IsRun
<1>5. HasMadeCrops(n) <=> HasMadeCrops(r) \/ MakesCrops(r)
  BY <1>1, <1>2 DEF HasMadeCrops, MakesCrops
<1>6. HasDroppedCrops(n) <=> HasDroppedCrops(r) \/ DropsCrops(r)
  BY <1>1, <1>2 DEF HasDroppedCrops, DropsCrops
<1>7. MakesCrops(r) => ~ HasMadeCrops(r) /\ ~ HasDroppedCrops(r)
  BY <1>1 DEF HasMadeCrops, HasDroppedCrops, MakesCrops
<1>8. ~ (HasMadeCrops(n) /\ HasDroppedCrops(n))
  BY <1>1, <1>2 DEF HasMadeCrops, HasDroppedCrops
<1> QED BY <1>2, <1>4, <1>5, <1>6, <1>7, <1>8

LEMMA ExecuteStep == ASSUME NEW m \in Migrators, Inv, Execute(m) PROVE Inv'
<1> DEFINE r == run[m]
           s == Script(r)[r.done + 1]
           view == View(m)
           n == [r EXCEPT !.done = r.done + 1]
<1>1. /\ r # NoRun /\ r.rev # r.to /\ r.done < Len(Script(r))
      /\ Locks(view, s) \intersect HeldByOthers(m) = {}
      /\ catalog' = catalog /\ versions' = versions
  BY DEF Execute
<1>2. CASE Verdict(view, s) # "ok"
  <2>1. End(m, Verdict(view, s))
    BY <1>2 DEF Execute
  <2> QED BY <1>1, <2>1, EndStep
<1>3. CASE Verdict(view, s) = "ok"
  <2>1. /\ draft' = [draft EXCEPT ![m] = With(draft[m], s.on, NewObject(view, s))]
        /\ held' = [held EXCEPT ![m] = held[m] \union Locks(view, s)]
        /\ run' = [run EXCEPT ![m] = n]
        /\ out' = out
    BY <1>3 DEF Execute
  <2>2. IsRun(r) /\ CropsInv(m) /\ WrittenInv(m)
    BY <1>1 DEF Inv, RunInv
  <2>3. IsStatement(r, s)
    BY <1>1, <2>2, Statements
  <2>4. s.on \in Locks(view, s)
    BY DEF Locks
  <2>5. /\ DOMAIN draft'[m] = {s.on} \union DOMAIN draft[m]
        /\ "crops" \in DOMAIN draft'[m] =>
            draft'[m]["crops"] = IF s.on = "crops" THEN NewObject(view, s) ELSE draft[m]["crops"]
    <3> HIDE DEF s, view, n
    <3>1. draft'[m] = With(draft[m], s.on, NewObject(view, s))
      BY <2>1 DEF Inv, FunctionsInv
    <3> DEFINE new == With(draft[m], s.on, NewObject(view, s))
    <3>2. /\ DOMAIN new = {s.on} \union DOMAIN draft[m]
          /\ \A x \in {s.on} \union DOMAIN draft[m] :
                new[x] = IF x = s.on THEN NewObject(view, s) ELSE draft[m][x]
      BY DEF With, Above
    <3> HIDE DEF new
    <3>3. draft'[m] = new
      BY <3>1 DEF new
    <3> QED BY <3>2, <3>3
  <2>6. /\ held'[m] = held[m] \union Locks(view, s) /\ run'[m] = n
        /\ OthersKeep(m) /\ FunctionsInv'
    <3> HIDE DEF s, view, n
    <3> QED BY <2>1 DEF Inv, FunctionsInv, OthersKeep
  <2>7. LocksInv'
    <3>1. \A o \in Migrators \ {m} : held[o] \intersect Locks(view, s) = {}
      BY <1>1 DEF HeldByOthers
    <3> HIDE DEF s, view, n
    <3> QED BY <2>6, <3>1 DEF Inv, LocksInv, OthersKeep
  <2>8. /\ MakesCrops(r) => NewObject(view, s) # Gone /\ "crops" \notin DOMAIN catalog
        /\ DropsCrops(r) => NewObject(view, s) = Gone
    <3>1. ASSUME MakesCrops(r) PROVE NewObject(view, s) # Gone /\ "crops" \notin DOMAIN catalog
      <4>1. s.on = "crops" /\ s.op = "create" /\ s.as # Gone
        BY <2>3, <3>1 DEF IsStatement
      <4>2. "crops" \notin DOMAIN view
        <5> HIDE DEF view, s
        <5> QED BY <1>3, <4>1 DEF Verdict
      <4>3. "crops" \notin DOMAIN draft[m]
        BY <1>1, <2>2, <3>1, NextStatement DEF CropsInv
      <4>4. "crops" \notin DOMAIN catalog
        BY <4>2, <4>3, ViewOfCrops DEF Inv, HeadInv
      <4>5. NewObject(view, s) = s.as
        <5> HIDE DEF view, s
        <5> QED BY <4>1 DEF NewObject
      <4> QED BY <4>1, <4>4, <4>5
    <3>2. ASSUME DropsCrops(r) PROVE NewObject(view, s) = Gone
      <4>1. s.op = "drop"
        BY <2>3, <3>2 DEF IsStatement
      <4> HIDE DEF view, s
      <4> QED BY <4>1 DEF NewObject
    <3> QED BY <3>1, <3>2
  <2>9. /\ IsRun(n) /\ n.rev = r.rev /\ n.from = r.from
        /\ HasMadeCrops(n) <=> HasMadeCrops(r) \/ MakesCrops(r)
        /\ HasDroppedCrops(n) <=> HasDroppedCrops(r) \/ DropsCrops(r)
        /\ ~ (HasMadeCrops(n) /\ HasDroppedCrops(n))
    BY <1>1, <2>2, NextStatement
  <2> HIDE DEF n, s, view
  <2>10. CropsInv(m)'
    BY <1>1, <2>2, <2>3, <2>4, <2>5, <2>6, <2>8, <2>9 DEF CropsInv, IsStatement
  <2>11. WrittenInv(m)'
    BY <1>1, <2>2, <2>6, <2>9 DEF WrittenInv, HeadOf
  <2>12. n # NoRun
    BY <2>9, NoRunAssumption DEF IsRun
  <2>13. RunInv(m)'
    BY <2>6, <2>9, <2>10, <2>11, <2>12 DEF RunInv
  <2> QED BY <1>1, <2>6, <2>7, <2>13, UncommittedStep
<1> QED BY <1>2, <1>3

GoesOn(r, n) == n = [r EXCEPT !.rev = IF r.rev < r.to THEN r.rev + 1 ELSE r.rev - 1, !.done = 0]

\* A script is through: whoever began with an empty database has made "crops".
LEMMA ScriptEnds ==
    ASSUME NEW r, IsRun(r), r.rev # r.to, r.done = Len(Script(r)), NEW n, GoesOn(r, n)
    PROVE  /\ IsRun(n) /\ n.from = r.from
           /\ HasMadeCrops(n) <=> HasMadeCrops(r)
           /\ HasDroppedCrops(n) <=> HasDroppedCrops(r)
           /\ r.from = 0 => HasMadeCrops(r)
<1>1. /\ r.from \in 0 .. 7 /\ r.to \in 0 .. 7 /\ r.rev \in 0 .. 7 /\ r.done \in Nat
      /\ r \in [from: 0 .. 7, to: 0 .. 7, rev: 0 .. 7, done: Nat]
      /\ r.from < r.to => r.from <= r.rev /\ r.rev <= r.to
      /\ r.to < r.from => r.to <= r.rev /\ r.rev <= r.from
      /\ r.from # r.to
  BY DEF IsRun
<1>2. r.rev = 0 => r.done = 7
  BY <1>1, UpFirst DEF Script, upgrade
<1>3. r.rev = 1 /\ r.to = 0 => r.done = 7
  BY <1>1, DownFirst DEF Script, downgrade
<1> DEFINE next == IF r.rev < r.to THEN r.rev + 1 ELSE r.rev - 1
<1>0. next \in 0 .. 7
  BY <1>1
<1>4. /\ n.from = r.from /\ n.to = r.to /\ n.done = 0
      /\ n.rev = IF r.rev < r.to THEN r.rev + 1 ELSE r.rev - 1
      /\ n.rev \in 0 .. 7
      /\ n \in [from: 0 .. 7, to: 0 .. 7, rev: 0 .. 7, done: Nat]
  <2>1. n = [r EXCEPT !.rev = next, !.done = 0]
    BY DEF GoesOn
  <2>2. next = IF r.rev < r.to THEN r.rev + 1 ELSE r.rev - 1
    OBVIOUS
  <2> HIDE DEF next
  <2>3. n = [from |-> r.from, to |-> r.to, rev |-> next, done |-> 0]
    BY <1>1, <2>1
  <2> QED BY <1>0, <1>1, <2>2, <2>3
<1>5. IsRun(n)
  <2>1. n.rev # n.to => Len(Script(n)) \in Nat
    <3>1. n.rev # n.to => IF n.to > n.rev THEN n.rev + 1 \in 1 .. 7 ELSE n.rev \in 1 .. 7
      BY <1>1, <1>4
    <3> QED BY <3>1, ScriptsAreLists DEF Script, IsList
  <2> QED BY <1>1, <1>4, <2>1 DEF IsRun
<1>6. /\ HasMadeCrops(n) <=> HasMadeCrops(r)
      /\ r.from = 0 => HasMadeCrops(r)
  BY <1>1, <1>2, <1>4 DEF HasMadeCrops
<1>7. HasDroppedCrops(n) <=> HasDroppedCrops(r)
  BY <1>1, <1>3, <1>4 DEF HasDroppedCrops
<1> QED BY <1>4, <1>5, <1>6, <1>7

LEMMA WriteVersionStep == ASSUME NEW m \in Migrators, Inv, WriteVersion(m) PROVE Inv'
<1> DEFINE r == run[m]
           n == [r EXCEPT !.rev = IF r.rev < r.to THEN r.rev + 1 ELSE r.rev - 1, !.done = 0]
<1>1. /\ r # NoRun /\ r.rev # r.to /\ r.done = Len(Script(r)) /\ ~ RevisionIsTaken(m)
      /\ catalog' = catalog /\ versions' = versions
  BY DEF WriteVersion
<1>2. CASE ~ RowIsThere(m)
  <2>1. End(m, "CommandError")
    BY <1>2 DEF WriteVersion
  <2> QED BY <1>1, <2>1, EndStep
<1>3. CASE RowIsThere(m)
  <2>1. /\ run' = [run EXCEPT ![m] = n]
        /\ held' = [held EXCEPT ![m] = held[m] \union {"alembic_version"}]
        /\ draft' = draft /\ out' = out
    BY <1>3 DEF WriteVersion
  <2>2. IsRun(r) /\ CropsInv(m) /\ WrittenInv(m)
    BY <1>1 DEF Inv, RunInv
  <2>3. /\ IsRun(n) /\ n.from = r.from
        /\ HasMadeCrops(n) <=> HasMadeCrops(r)
        /\ HasDroppedCrops(n) <=> HasDroppedCrops(r)
        /\ r.from = 0 => HasMadeCrops(r)
    <3>1. GoesOn(r, n)
      BY DEF GoesOn
    <3> HIDE DEF r, n
    <3> QED BY <1>1, <2>2, <3>1, ScriptEnds
  <2> HIDE DEF n
  <2>4. /\ held'[m] = held[m] \union {"alembic_version"} /\ run'[m] = n /\ draft'[m] = draft[m]
        /\ OthersKeep(m) /\ FunctionsInv'
    BY <2>1 DEF Inv, FunctionsInv, OthersKeep
  <2>5. LocksInv'
    <3>1. \A o \in Migrators \ {m} : "alembic_version" \notin held[o]
      BY <1>1 DEF RevisionIsTaken, HeldByOthers
    <3> QED BY <2>4, <3>1 DEF Inv, LocksInv, OthersKeep
  <2>6. CropsInv(m)'
    BY <1>1, <2>2, <2>3, <2>4 DEF CropsInv
  \* The revision is still the one that the run began with: its row is there, or else, if there
  \* was none, the run has made "crops", which no revision but the empty one is without.
  <2>7. versions = HeadOf(r.from)
    <3>1. CASE r.rev # r.from
      BY <2>2, <3>1 DEF WrittenInv
    <3>2. CASE r.rev = r.from /\ r.from = 0
      <4>1. "crops" \notin DOMAIN catalog
        BY <2>2, <2>3, <3>2 DEF CropsInv
      <4> QED BY <3>2, <4>1 DEF Inv, HeadInv
    <3>3. CASE r.rev = r.from /\ r.from # 0
      <4>1. r.from \in versions
        BY <1>3, <3>3 DEF RowIsThere
      <4> QED BY <3>3, <4>1 DEF Inv, HeadInv, HeadOf
    <3> QED BY <3>1, <3>2, <3>3
  <2>8. WrittenInv(m)'
    BY <1>1, <2>3, <2>4, <2>7 DEF WrittenInv, HeadOf
  <2>9. n # NoRun
    BY <2>3, NoRunAssumption DEF IsRun
  <2>10. RunInv(m)'
    BY <2>3, <2>4, <2>6, <2>8, <2>9 DEF RunInv
  <2> QED BY <1>1, <2>4, <2>5, <2>10, UncommittedStep
<1> QED BY <1>2, <1>3

\* Only one run can have written the revision, and it has locked what it made of "crops".
LEMMA CommitStep == ASSUME NEW m \in Migrators, Inv, Commit(m) PROVE Inv'
<1> DEFINE r == run[m]
<1>1. /\ r # NoRun /\ r.rev = r.to
      /\ catalog' = View(m)
      /\ versions' = (versions \ HeadOf(r.from)) \union HeadOf(r.to)
      /\ End(m, "ok")
  BY DEF Commit, MayCommit
<1>2. IsRun(r) /\ CropsInv(m) /\ WrittenInv(m)
  BY <1>1 DEF Inv, RunInv
<1>3. /\ r.from \in 0 .. 7 /\ r.to \in 0 .. 7 /\ r.from # r.to /\ r.done = 0
      /\ versions = HeadOf(r.from) /\ "alembic_version" \in held[m]
  BY <1>1, <1>2 DEF IsRun, WrittenInv
<1>4. versions' = HeadOf(r.to)
  BY <1>1, <1>3 DEF HeadOf
<1>5. /\ OthersKeep(m) /\ FunctionsInv' /\ RunInv(m)' /\ LocksInv'
  BY <1>1 DEF End, Inv, FunctionsInv, OthersKeep, RunInv, LocksInv
<1>6. "crops" \in DOMAIN catalog <=> r.from # 0
  BY <1>3 DEF Inv, HeadInv, HeadOf
<1>7. /\ HasMadeCrops(r) <=> r.from = 0
      /\ HasDroppedCrops(r) <=> r.to = 0
  BY <1>1, <1>2, <1>3 DEF IsRun, HasMadeCrops, HasDroppedCrops
<1>8. "crops" \in DOMAIN View(m) <=> r.to # 0
  BY <1>2, <1>3, <1>6, <1>7, ViewOfCrops DEF CropsInv, Inv, HeadInv
<1>9. "crops" \in DOMAIN View(m) => View(m)["crops"] # Gone
  BY DEF View
<1>10. HeadInv'
  BY <1>1, <1>3, <1>4, <1>8, <1>9 DEF HeadInv, HeadOf
<1>11. ASSUME NEW o \in Migrators, o # m PROVE RunInv(o)'
  <2>1. run'[o] = run[o] /\ draft'[o] = draft[o] /\ held'[o] = held[o] /\ RunInv(o)
    BY <1>5, <1>11 DEF OthersKeep, Inv
  <2>2. held[o] \intersect held[m] = {}
    BY <1>11 DEF Inv, LocksInv
  <2>3. CASE run[o] = NoRun
    BY <2>1, <2>3 DEF RunInv
  <2>4. CASE run[o] # NoRun
    <3>1. IsRun(run[o]) /\ CropsInv(o) /\ WrittenInv(o)
      BY <2>1, <2>4 DEF RunInv
    <3>2. run[o].rev = run[o].from
      BY <1>3, <2>2, <3>1 DEF WrittenInv
    <3>3. HasMadeCrops(run[o]) => "crops" \notin DOMAIN catalog'
      <4> SUFFICES ASSUME HasMadeCrops(run[o]) PROVE "crops" \notin DOMAIN catalog'
        OBVIOUS
      <4>1. "crops" \in held[o] /\ "crops" \notin DOMAIN catalog
        BY <3>1 DEF CropsInv
      <4>2. "crops" \notin DOMAIN draft[m]
        BY <1>2, <2>2, <4>1 DEF CropsInv
      <4> QED BY <1>1, <4>1, <4>2, ViewOfCrops
    <3>4. CropsInv(o)'
      BY <2>1, <3>1, <3>3 DEF CropsInv
    <3>5. WrittenInv(o)'
      BY <2>1, <3>2 DEF WrittenInv
    <3> QED BY <2>1, <2>4, <3>1, <3>4, <3>5 DEF RunInv
  <2> QED BY <2>3, <2>4
<1> QED BY <1>5, <1>10, <1>11 DEF Inv

-----------------------------------------------------------------------------
(* Overlapping runs                                                        *)

LEMMA InitEstablishesInv == ASSUME Init PROVE Inv
<1>1. versions = HeadOf(0) /\ "crops" \notin DOMAIN catalog
  BY DEF Init, HeadOf
<1>2. HeadInv
  BY <1>1 DEF HeadInv
<1> QED BY <1>2 DEF Init, Inv, FunctionsInv, LocksInv, RunInv

LEMMA NextKeepsInv == ASSUME Inv, [Next]_vars PROVE Inv'
<1>1. CASE Book
  <2>1. UNCHANGED <<catalog, versions, run, draft, held, out>>
    BY <1>1 DEF Book
  <2> QED BY <2>1 DEF Inv, FunctionsInv, HeadInv, LocksInv, RunInv, CropsInv, WrittenInv
<1>2. ASSUME NEW m \in Migrators, Fail(m) PROVE Inv'
  BY <1>2, EndStep DEF Fail
<1>3. CASE UNCHANGED vars
  BY <1>3 DEF vars, Inv, FunctionsInv, HeadInv, LocksInv, RunInv, CropsInv, WrittenInv
<1> QED
  BY <1>1, <1>2, <1>3, StartStep, ExecuteStep, WriteVersionStep, CommitStep DEF Next

\* The strengthening of RunsAreSerial holds in every state.
THEOREM Invariance == Spec => []Inv
BY InitEstablishesInv, NextKeepsInv, PTL DEF Spec

\* Only the commit of a run changes the revision, from the one that the run read at its start
\* (alembic's check of the row it updates, and the locks of PostgreSQL) to its goal (the single
\* transaction of do_run_migrations).
THEOREM SerialRuns == Spec => RunsAreSerial
<1>1. ASSUME Inv, [Next]_vars, versions' # versions
      PROVE  \E m \in Migrators :
                /\ run[m] # NoRun
                /\ out'[m] = "ok"
                /\ versions = HeadOf(run[m].from)
                /\ versions' = HeadOf(run[m].to)
  <2>1. PICK m \in Migrators : Commit(m)
    BY <1>1 DEF Next, vars, Book, Start, Execute, WriteVersion, Fail
  <2>2. /\ run[m] # NoRun /\ run[m].rev = run[m].to /\ out'[m] = "ok"
        /\ versions' = (versions \ HeadOf(run[m].from)) \union HeadOf(run[m].to)
    BY <1>1, <2>1 DEF Commit, MayCommit, End, Inv, FunctionsInv
  <2>3. versions = HeadOf(run[m].from)
    <3>1. IsRun(run[m]) /\ WrittenInv(m)
      BY <1>1, <2>2 DEF Inv, RunInv
    <3> QED BY <2>2, <3>1 DEF IsRun, WrittenInv
  <2>4. versions' = HeadOf(run[m].to)
    BY <2>2, <2>3 DEF HeadOf
  <2> QED BY <2>2, <2>3, <2>4
<1>2. Inv /\ [Next]_vars =>
        [versions' # versions =>
          \E m \in Migrators :
                /\ run[m] # NoRun
                /\ out'[m] = "ok"
                /\ versions = HeadOf(run[m].from)
                /\ versions' = HeadOf(run[m].to)]_vars
  BY <1>1
<1> QED
  BY <1>2, Invariance, PTL DEF Spec, RunsAreSerial

-----------------------------------------------------------------------------
(* What the scripts make of an object                                      *)

Objects ==
    {"user_role", "crops", "procurement_centres", "farmers", "users", "farmer_land_holdings",
     "counters", "queues", "queue_entries", "tokens", "intent_status_enum", "token_status_enum",
     "procurement_intents", "procurement_tokens", "procurement_records",
     "procurement_status_history", "capacity_records", "allocation_runs", "allocation_decisions"}

\* The script that creates the object, or 8 if none does.
Born(name) ==
    CASE name \in {"user_role", "crops", "procurement_centres", "farmers", "users",
                   "farmer_land_holdings", "counters"} -> 1
      [] name \in {"queues", "queue_entries", "tokens"} -> 2
      [] name \in {"intent_status_enum", "token_status_enum", "procurement_intents",
                   "procurement_tokens", "procurement_records", "procurement_status_history"} -> 4
      [] name = "capacity_records" -> 5
      [] name \in {"allocation_runs", "allocation_decisions"} -> 7
      [] OTHER -> 8

Creation(name) ==
    CASE name = "user_role" -> CreateUserRole
      [] name = "crops" -> CreateCrops
      [] name = "procurement_centres" -> CreateCentres
      [] name = "farmers" -> CreateFarmers
      [] name = "users" -> CreateUsers
      [] name = "farmer_land_holdings" -> CreateHoldings
      [] name = "counters" -> CreateCounters
      [] name = "queues" -> CreateQueues
      [] name = "queue_entries" -> CreateQueueEntries
      [] name = "tokens" -> CreateTokens
      [] name = "intent_status_enum" -> CreateIntentStatus
      [] name = "token_status_enum" -> CreateTokenStatus
      [] name = "procurement_intents" -> CreateIntents
      [] name = "procurement_tokens" -> CreateProcurementTokens
      [] name = "procurement_records" -> CreateRecords
      [] name = "procurement_status_history" -> CreateHistory
      [] name = "capacity_records" -> CreateCapacity
      [] name = "allocation_runs" -> CreateRuns
      [] name = "allocation_decisions" -> CreateDecisions

Entries == CreateQueueEntries.as
EntriesUndefaulted == [Entries EXCEPT !.defaults = @ \ {"status"}]
EntriesWithoutStatus == [Entries EXCEPT !.columns = @ \ {"status"}, !.defaults = @ \ {"status"}]
IntentsWithoutSlot == [CreateIntents.as EXCEPT !.unique = @ \ {Slot}]

\* What the upgrades make of the object by revision r, and what any run may.
Standard(name, r) ==
    IF r < Born(name) THEN Gone
    ELSE IF name = "queue_entries" /\ r >= 3 THEN EntriesWithoutStatus
    ELSE IF name = "procurement_intents" /\ r >= 6 THEN IntentsWithoutSlot
    ELSE Creation(name).as
Due(name, r) ==
    {Standard(name, r)} \union
        IF name = "queue_entries" /\ r = 2 THEN {EntriesUndefaulted} ELSE {}

\* The objects that script r changes, and a statement of a script that leads to revision r.
Changes(name, r) ==
    \/ Born(name) = r
    \/ name = "queue_entries" /\ r = 3
    \/ name = "procurement_intents" /\ r = 6
Fits(s, r) ==
    /\ s.on \in Objects
    /\ \/ s.op \in {"create", "createType"} /\ Born(s.on) = r /\ s = Creation(s.on)
       \/ s.op \in {"drop", "dropType"} /\ Born(s.on) = r + 1
       \/ s = Alter("dropColumn", "queue_entries", "status") /\ r = 3
       \/ s = Alter("addColumn", "queue_entries", "status") /\ r = 2
       \/ s = Alter("dropDefault", "queue_entries", "status") /\ r = 2
       \/ s = Alter("dropUnique", "procurement_intents", Slot) /\ r = 6
       \/ s = Alter("addUnique", "procurement_intents", Slot) /\ r = 5

Leads(script, r) == \A i \in 1 .. Len(script) : Fits(script[i], r)
Reaches(script, r) ==
    \A name : Changes(name, r) => \E i \in 1 .. Len(script) : script[i].on = name

\* A creation is the statement that creates the object of its name.
LEMMA Creations ==
    /\ \A s \in {CreateUserRole, CreateCrops, CreateCentres, CreateFarmers, CreateUsers,
                 CreateHoldings, CreateCounters} :
          s.op \in {"create", "createType"} /\ Born(s.on) = 1 /\ s = Creation(s.on) /\ s.on \in Objects
    /\ \A s \in {CreateQueues, CreateQueueEntries, CreateTokens} :
          s.op \in {"create", "createType"} /\ Born(s.on) = 2 /\ s = Creation(s.on) /\ s.on \in Objects
    /\ \A s \in {CreateIntentStatus, CreateTokenStatus, CreateIntents, CreateProcurementTokens,
                 CreateRecords, CreateHistory} :
          s.op \in {"create", "createType"} /\ Born(s.on) = 4 /\ s = Creation(s.on) /\ s.on \in Objects
    /\ CreateCapacity.op = "create" /\ Born(CreateCapacity.on) = 5
    /\ CreateCapacity = Creation(CreateCapacity.on) /\ CreateCapacity.on \in Objects
    /\ \A s \in {CreateRuns, CreateDecisions} :
          s.op \in {"create", "createType"} /\ Born(s.on) = 7 /\ s = Creation(s.on) /\ s.on \in Objects
<1>1. /\ CreateUserRole.op = "createType" /\ CreateUserRole.on = "user_role"
      /\ CreateCrops.op = "create" /\ CreateCrops.on = "crops"
      /\ CreateCentres.op = "create" /\ CreateCentres.on = "procurement_centres"
      /\ CreateFarmers.op = "create" /\ CreateFarmers.on = "farmers"
      /\ CreateUsers.op = "create" /\ CreateUsers.on = "users"
      /\ CreateHoldings.op = "create" /\ CreateHoldings.on = "farmer_land_holdings"
      /\ CreateCounters.op = "create" /\ CreateCounters.on = "counters"
  BY DEF CreateUserRole, CreateCentres, CreateFarmers, CreateUsers, CreateHoldings,
     CreateCounters, CreateCrops, Create, CreateType
<1>2. /\ CreateQueues.op = "create" /\ CreateQueues.on = "queues"
      /\ CreateQueueEntries.op = "create" /\ CreateQueueEntries.on = "queue_entries"
      /\ CreateTokens.op = "create" /\ CreateTokens.on = "tokens"
  BY DEF CreateQueues, CreateQueueEntries, CreateTokens, Create
<1>3. /\ CreateIntentStatus.op = "createType" /\ CreateIntentStatus.on = "intent_status_enum"
      /\ CreateTokenStatus.op = "createType" /\ CreateTokenStatus.on = "token_status_enum"
      /\ CreateIntents.op = "create" /\ CreateIntents.on = "procurement_intents"
      /\ CreateProcurementTokens.op = "create" /\ CreateProcurementTokens.on = "procurement_tokens"
      /\ CreateRecords.op = "create" /\ CreateRecords.on = "procurement_records"
      /\ CreateHistory.op = "create" /\ CreateHistory.on = "procurement_status_history"
  BY DEF CreateIntentStatus, CreateTokenStatus, CreateIntents, CreateProcurementTokens,
     CreateRecords, CreateHistory, Create, CreateType
<1>4. /\ CreateCapacity.op = "create" /\ CreateCapacity.on = "capacity_records"
      /\ CreateRuns.op = "create" /\ CreateRuns.on = "allocation_runs"
      /\ CreateDecisions.op = "create" /\ CreateDecisions.on = "allocation_decisions"
  BY DEF CreateCapacity, CreateRuns, CreateDecisions, Create
<1>5. \A s \in {CreateUserRole, CreateCrops, CreateCentres, CreateFarmers, CreateUsers,
                CreateHoldings, CreateCounters} :
          s.op \in {"create", "createType"} /\ Born(s.on) = 1 /\ s = Creation(s.on) /\ s.on \in Objects
  BY <1>1 DEF Born, Creation, Objects
<1>6. \A s \in {CreateQueues, CreateQueueEntries, CreateTokens} :
          s.op \in {"create", "createType"} /\ Born(s.on) = 2 /\ s = Creation(s.on) /\ s.on \in Objects
  BY <1>2 DEF Born, Creation, Objects
<1>7. \A s \in {CreateIntentStatus, CreateTokenStatus, CreateIntents, CreateProcurementTokens,
                CreateRecords, CreateHistory} :
          s.op \in {"create", "createType"} /\ Born(s.on) = 4 /\ s = Creation(s.on) /\ s.on \in Objects
  BY <1>3 DEF Born, Creation, Objects
<1>8. /\ Born(CreateCapacity.on) = 5
      /\ CreateCapacity = Creation(CreateCapacity.on) /\ CreateCapacity.on \in Objects
  BY <1>4 DEF Born, Creation, Objects
<1>9. \A s \in {CreateRuns, CreateDecisions} :
          s.op \in {"create", "createType"} /\ Born(s.on) = 7 /\ s = Creation(s.on) /\ s.on \in Objects
  BY <1>4 DEF Born, Creation, Objects
<1> QED BY <1>4, <1>5, <1>6, <1>7, <1>8, <1>9

\* Each script upgrades by one revision ...
LEMMA UpgradesLead == \A r \in 1 .. 7 : Leads(upgrade[r], r)
<1>1. Leads(upgrade_0001, 1)
  BY Creations DEF Leads, Fits, upgrade_0001
<1>2. Leads(upgrade_0002, 2)
  BY Creations DEF Leads, Fits, upgrade_0002
<1>3. Leads(upgrade_0003, 3)
  <2>1. Alter("dropColumn", "queue_entries", "status").on \in Objects
    BY DEF Alter, Objects
  <2> QED BY <2>1 DEF Leads, Fits, upgrade_0003
<1>4. Leads(upgrade_0004, 4)
  BY Creations DEF Leads, Fits, upgrade_0004
<1>5. Leads(upgrade_0005, 5)
  BY Creations DEF Leads, Fits, upgrade_0005
<1>6. Leads(upgrade_0006, 6)
  <2>1. Alter("dropUnique", "procurement_intents", Slot).on \in Objects
    BY DEF Alter, Objects
  <2> QED BY <2>1 DEF Leads, Fits, upgrade_0006
<1>7. Leads(upgrade_0007, 7)
  BY Creations DEF Leads, Fits, upgrade_0007
<1> QED BY <1>1, <1>2, <1>3, <1>4, <1>5, <1>6, <1>7 DEF upgrade

\* ... and its downgrade leads back.
LEMMA DowngradesLead == \A r \in 1 .. 7 : Leads(downgrade[r], r - 1)
<1>0. \A name : /\ Drop(name).op = "drop" /\ Drop(name).on = name
                /\ DropType(name).op = "dropType" /\ DropType(name).on = name
  BY DEF Drop, DropType
<1>1. Leads(downgrade_0001, 0)
  <2>1. \A n \in {"user_role", "crops", "procurement_centres", "farmers", "users",
                  "farmer_land_holdings", "counters"} : Born(n) = 0 + 1 /\ n \in Objects
    BY DEF Born, Objects
  <2> QED BY <1>0, <2>1 DEF Leads, Fits, downgrade_0001
<1>2. Leads(downgrade_0002, 1)
  <2>1. \A n \in {"queues", "queue_entries", "tokens"} : Born(n) = 1 + 1 /\ n \in Objects
    BY DEF Born, Objects
  <2> QED BY <1>0, <2>1 DEF Leads, Fits, downgrade_0002
<1>3. Leads(downgrade_0003, 2)
  <2>1. /\ Alter("addColumn", "queue_entries", "status").on \in Objects
        /\ Alter("dropDefault", "queue_entries", "status").on \in Objects
    BY DEF Alter, Objects
  <2> QED BY <2>1 DEF Leads, Fits, downgrade_0003
<1>4. Leads(downgrade_0004, 3)
  <2>1. \A n \in {"intent_status_enum", "token_status_enum", "procurement_intents",
                  "procurement_tokens", "procurement_records", "procurement_status_history"} :
            Born(n) = 3 + 1 /\ n \in Objects
    BY DEF Born, Objects
  <2> QED BY <1>0, <2>1 DEF Leads, Fits, downgrade_0004
<1>5. Leads(downgrade_0005, 4)
  <2>1. Born("capacity_records") = 4 + 1 /\ "capacity_records" \in Objects
    BY DEF Born, Objects
  <2> QED BY <1>0, <2>1 DEF Leads, Fits, downgrade_0005
<1>6. Leads(downgrade_0006, 5)
  <2>1. Alter("addUnique", "procurement_intents", Slot).on \in Objects
    BY DEF Alter, Objects
  <2> QED BY <2>1 DEF Leads, Fits, downgrade_0006
<1>7. Leads(downgrade_0007, 6)
  <2>1. \A n \in {"allocation_runs", "allocation_decisions"} : Born(n) = 6 + 1 /\ n \in Objects
    BY DEF Born, Objects
  <2> QED BY <1>0, <2>1 DEF Leads, Fits, downgrade_0007
<1> QED BY <1>1, <1>2, <1>3, <1>4, <1>5, <1>6, <1>7 DEF downgrade

\* Both of them reach every object that changes between the two revisions.
LEMMA ScriptsReach == \A r \in 1 .. 7 : Reaches(upgrade[r], r) /\ Reaches(downgrade[r], r)
<1>1. \A name : /\ Born(name) = 1 => name \in {"user_role", "crops", "procurement_centres", "farmers",
                                               "users", "farmer_land_holdings", "counters"}
                /\ Born(name) = 2 => name \in {"queues", "queue_entries", "tokens"}
                /\ Born(name) = 4 => name \in {"intent_status_enum", "token_status_enum",
                                               "procurement_intents", "procurement_tokens",
                                               "procurement_records", "procurement_status_history"}
                /\ Born(name) = 5 => name = "capacity_records"
                /\ Born(name) = 7 => name \in {"allocation_runs", "allocation_decisions"}
                /\ Born(name) \in {1, 2, 4, 5, 7, 8}
  BY DEF Born
<1>2. \A name : /\ Drop(name).on = name /\ DropType(name).on = name
                /\ \A change, what : Alter(change, name, what).on = name
  BY DEF Drop, DropType, Alter
<1>3. /\ CreateUserRole.on = "user_role" /\ CreateCrops.on = "crops"
      /\ CreateCentres.on = "procurement_centres" /\ CreateFarmers.on = "farmers"
      /\ CreateUsers.on = "users" /\ CreateHoldings.on = "farmer_land_holdings"
      /\ CreateCounters.on = "counters"
  BY DEF CreateUserRole, CreateCentres, CreateFarmers, CreateUsers, CreateHoldings,
     CreateCounters, CreateCrops, Create, CreateType
<1>4. /\ CreateQueues.on = "queues" /\ CreateQueueEntries.on = "queue_entries"
      /\ CreateTokens.on = "tokens"
  BY DEF CreateQueues, CreateQueueEntries, CreateTokens, Create
<1>5. /\ CreateIntentStatus.on = "intent_status_enum" /\ CreateTokenStatus.on = "token_status_enum"
      /\ CreateIntents.on = "procurement_intents" /\ CreateProcurementTokens.on = "procurement_tokens"
      /\ CreateRecords.on = "procurement_records" /\ CreateHistory.on = "procurement_status_history"
  BY DEF CreateIntentStatus, CreateTokenStatus, CreateIntents, CreateProcurementTokens,
     CreateRecords, CreateHistory, Create, CreateType
<1>6. /\ CreateCapacity.on = "capacity_records" /\ CreateRuns.on = "allocation_runs"
      /\ CreateDecisions.on = "allocation_decisions"
  BY DEF CreateCapacity, CreateRuns, CreateDecisions, Create
<1> DEFINE Names1(script) == {script[i].on : i \in 1 .. Len(script)}
<1>7. ASSUME NEW script, NEW r \in 1 .. 7,
             \A name : Changes(name, r) => name \in Names1(script)
      PROVE  Reaches(script, r)
  BY <1>7 DEF Reaches
<1>8. Reaches(upgrade_0001, 1) /\ Reaches(downgrade_0001, 1)
  <2>1. \A name : Changes(name, 1) => name \in Names1(upgrade_0001)
    BY <1>1, <1>3 DEF Changes, upgrade_0001
  <2>2. \A name : Changes(name, 1) => name \in Names1(downgrade_0001)
    BY <1>1, <1>2 DEF Changes, downgrade_0001
  <2> QED BY <1>7, <2>1, <2>2
<1>9. Reaches(upgrade_0002, 2) /\ Reaches(downgrade_0002, 2)
  <2>1. \A name : Changes(name, 2) => name \in Names1(upgrade_0002)
    BY <1>1, <1>4 DEF Changes, upgrade_0002
  <2>2. \A name : Changes(name, 2) => name \in Names1(downgrade_0002)
    BY <1>1, <1>2 DEF Changes, downgrade_0002
  <2> QED BY <1>7, <2>1, <2>2
<1>10. Reaches(upgrade_0003, 3) /\ Reaches(downgrade_0003, 3)
  <2>1. \A name : Changes(name, 3) => name \in Names1(upgrade_0003)
    BY <1>1, <1>2 DEF Changes, upgrade_0003
  <2>2. \A name : Changes(name, 3) => name \in Names1(downgrade_0003)
    BY <1>1, <1>2 DEF Changes, downgrade_0003
  <2> QED BY <1>7, <2>1, <2>2
<1>11. Reaches(upgrade_0004, 4) /\ Reaches(downgrade_0004, 4)
  <2>1. \A name : Changes(name, 4) => name \in Names1(upgrade_0004)
    BY <1>1, <1>5 DEF Changes, upgrade_0004
  <2>2. \A name : Changes(name, 4) => name \in Names1(downgrade_0004)
    BY <1>1, <1>2 DEF Changes, downgrade_0004
  <2> QED BY <1>7, <2>1, <2>2
<1>12. Reaches(upgrade_0005, 5) /\ Reaches(downgrade_0005, 5)
  <2>1. \A name : Changes(name, 5) => name \in Names1(upgrade_0005)
    BY <1>1, <1>6 DEF Changes, upgrade_0005
  <2>2. \A name : Changes(name, 5) => name \in Names1(downgrade_0005)
    BY <1>1, <1>2 DEF Changes, downgrade_0005
  <2> QED BY <1>7, <2>1, <2>2
<1>13. Reaches(upgrade_0006, 6) /\ Reaches(downgrade_0006, 6)
  <2>1. \A name : Changes(name, 6) => name \in Names1(upgrade_0006)
    BY <1>1, <1>2 DEF Changes, upgrade_0006
  <2>2. \A name : Changes(name, 6) => name \in Names1(downgrade_0006)
    BY <1>1, <1>2 DEF Changes, downgrade_0006
  <2> QED BY <1>7, <2>1, <2>2
<1>14. Reaches(upgrade_0007, 7) /\ Reaches(downgrade_0007, 7)
  <2>1. \A name : Changes(name, 7) => name \in Names1(upgrade_0007)
    BY <1>1, <1>6 DEF Changes, upgrade_0007
  <2>2. \A name : Changes(name, 7) => name \in Names1(downgrade_0007)
    BY <1>1, <1>2 DEF Changes, downgrade_0007
  <2> QED BY <1>7, <2>1, <2>2
<1> QED BY <1>8, <1>9, <1>10, <1>11, <1>12, <1>13, <1>14 DEF upgrade, downgrade

\* No other object changes.
LEMMA OthersStay ==
    ASSUME NEW r \in 1 .. 7, NEW name, ~ Changes(name, r)
    PROVE  /\ Due(name, r - 1) = Due(name, r) /\ Standard(name, r - 1) = Standard(name, r)
           /\ Born(name) <= r <=> Born(name) <= r - 1
<1>1. Born(name) \in {1, 2, 4, 5, 7, 8} /\ Born("queue_entries") = 2 /\ Born("procurement_intents") = 4
  BY DEF Born
<1>2. Standard(name, r - 1) = Standard(name, r)
  BY <1>1 DEF Changes, Standard
<1>3. name = "queue_entries" => r # 3 /\ r # 2
  BY <1>1 DEF Changes
<1>4. Due(name, r - 1) = Due(name, r)
  BY <1>2, <1>3 DEF Due
<1>5. Born(name) <= r <=> Born(name) <= r - 1
  BY <1>1 DEF Changes
<1> QED BY <1>2, <1>4, <1>5

\* What the alterations do to the two tables that are altered.
WithColumns(table, columns, defaults) == [table EXCEPT !.columns = columns, !.defaults = defaults]
WithDefaults(table, defaults) == [table EXCEPT !.defaults = defaults]

LEMMA EntriesAltered ==
    ASSUME NEW view
    PROVE  /\ "status" \in Entries.columns /\ "status" \notin EntriesWithoutStatus.columns
           /\ EntriesUndefaulted.columns = Entries.columns
           /\ view["queue_entries"] \in {Entries, EntriesUndefaulted} =>
                /\ NewObject(view, Alter("dropColumn", "queue_entries", "status")) = EntriesWithoutStatus
                /\ NewObject(view, Alter("dropDefault", "queue_entries", "status")) = EntriesUndefaulted
           /\ view["queue_entries"] = EntriesWithoutStatus =>
                NewObject(view, Alter("addColumn", "queue_entries", "status")) = Entries
<1> DEFINE C == Entries.columns
           D == Entries.defaults
           table == view["queue_entries"]
           rest(c, d) == [columns |-> c, nullable |-> Entries.nullable, defaults |-> d,
                          refs |-> Entries.refs, unique |-> Entries.unique, index |-> Entries.index,
                          partial |-> Entries.partial, checks |-> Entries.checks]
           After(change) == NewObject(view, Alter(change, "queue_entries", "status"))
<1>1. Entries = rest(C, D) /\ "status" \in C /\ "status" \in D
  <2>1. Entries = Stamped({"queue_id", "farmer_id", "position", "status"}, {}, {"status"},
                          {<<"queue_id", "queues", "CASCADE">>, <<"farmer_id", "farmers", "RESTRICT">>},
                          {{"queue_id", "position"}}, {{"queue_id"}, {"farmer_id"}})
    BY DEF Entries, CreateQueueEntries, Create
  <2>2. \A c, n, d, f, u, i : LET t == Stamped(c, n, d, f, u, i)
            IN  /\ t = [columns |-> t.columns, nullable |-> t.nullable, defaults |-> t.defaults,
                        refs |-> t.refs, unique |-> t.unique, index |-> t.index,
                        partial |-> t.partial, checks |-> t.checks]
                /\ c \subseteq t.columns /\ d \subseteq t.defaults
    BY DEF Stamped, Table
  <2> QED BY <2>1, <2>2
<1>2. /\ EntriesUndefaulted = WithDefaults(Entries, D \ {"status"})
      /\ EntriesWithoutStatus = WithColumns(Entries, C \ {"status"}, D \ {"status"})
  BY DEF EntriesUndefaulted, EntriesWithoutStatus, WithColumns, WithDefaults
<1>3. /\ (C \ {"status"}) \union {"status"} = C
      /\ (D \ {"status"}) \union {"status"} = D
      /\ (D \ {"status"}) \ {"status"} = D \ {"status"}
  BY <1>1
<1>4. /\ After("dropColumn") =
            WithColumns(table, table.columns \ {"status"}, table.defaults \ {"status"})
      /\ After("dropDefault") = WithDefaults(table, table.defaults \ {"status"})
      /\ After("addColumn") =
            WithColumns(table, table.columns \union {"status"}, table.defaults \union {"status"})
  BY DEF NewObject, Alter, WithColumns, WithDefaults
<1>5. ASSUME NEW c, NEW d, NEW x, NEW y
      PROVE  /\ WithColumns(rest(c, d), x, y) = rest(x, y)
             /\ WithDefaults(rest(c, d), y) = rest(c, y)
  <2>1. [rest(c, d) EXCEPT !.columns = x] = rest(x, d)
    OBVIOUS
  <2>2. [rest(x, d) EXCEPT !.defaults = y] = rest(x, y) /\ [rest(c, d) EXCEPT !.defaults = y] = rest(c, y)
    OBVIOUS
  <2>3. ASSUME NEW f PROVE WithColumns(f, x, y) = [[f EXCEPT !.columns = x] EXCEPT !.defaults = y]
    BY DEF WithColumns
  <2> HIDE DEF rest
  <2>4. WithColumns(rest(c, d), x, y) = rest(x, y)
    BY <2>1, <2>2, <2>3
  <2> QED BY <2>2, <2>4 DEF WithDefaults
<1>6. \A c, d : rest(c, d).columns = c /\ rest(c, d).defaults = d
  OBVIOUS
<1> HIDE DEF rest, C, D, After, table
<1>7. /\ EntriesUndefaulted = rest(C, D \ {"status"})
      /\ EntriesWithoutStatus = rest(C \ {"status"}, D \ {"status"})
  BY <1>1, <1>2, <1>5
<1>8. /\ "status" \in Entries.columns /\ "status" \notin EntriesWithoutStatus.columns
      /\ EntriesUndefaulted.columns = Entries.columns
  BY <1>1, <1>6, <1>7
<1>9. ASSUME NEW c, NEW d, table = rest(c, d)
      PROVE  /\ After("dropColumn") = rest(c \ {"status"}, d \ {"status"})
             /\ After("dropDefault") = rest(c, d \ {"status"})
             /\ After("addColumn") = rest(c \union {"status"}, d \union {"status"})
  <2>1. table.columns = c /\ table.defaults = d
    BY <1>6, <1>9
  <2>2. After("dropColumn") = rest(c \ {"status"}, d \ {"status"})
    <3>1. After("dropColumn") = WithColumns(rest(c, d), c \ {"status"}, d \ {"status"})
      BY <1>4, <1>9, <2>1
    <3> QED BY <1>5, <3>1
  <2>3. After("dropDefault") = rest(c, d \ {"status"})
    <3>1. After("dropDefault") = WithDefaults(rest(c, d), d \ {"status"})
      BY <1>4, <1>9, <2>1
    <3> QED BY <1>5, <3>1
  <2>4. After("addColumn") = rest(c \union {"status"}, d \union {"status"})
    <3>1. After("addColumn") = WithColumns(rest(c, d), c \union {"status"}, d \union {"status"})
      BY <1>4, <1>9, <2>1
    <3> QED BY <1>5, <3>1
  <2> QED BY <2>2, <2>3, <2>4
<1>10. table \in {Entries, EntriesUndefaulted} =>
          After("dropColumn") = EntriesWithoutStatus /\ After("dropDefault") = EntriesUndefaulted
  BY <1>1, <1>3, <1>7, <1>9
<1>11. table = EntriesWithoutStatus => After("addColumn") = Entries
  BY <1>1, <1>3, <1>7, <1>9
<1> QED BY <1>8, <1>10, <1>11 DEF After, table

LEMMA IntentsAltered ==
    ASSUME NEW view
    PROVE  /\ Slot \in CreateIntents.as.unique /\ Slot \notin IntentsWithoutSlot.unique
           /\ view["procurement_intents"] = CreateIntents.as =>
                NewObject(view, Alter("dropUnique", "procurement_intents", Slot)) = IntentsWithoutSlot
           /\ view["procurement_intents"] = IntentsWithoutSlot =>
                NewObject(view, Alter("addUnique", "procurement_intents", Slot)) = CreateIntents.as
<1> DEFINE table == CreateIntents.as
           U == table.unique
           rest(u) == [columns |-> table.columns, nullable |-> table.nullable,
                       defaults |-> table.defaults, refs |-> table.refs, unique |-> u,
                       index |-> table.index, partial |-> table.partial, checks |-> table.checks]
<1>1. table = rest(U) /\ Slot \in U
  <2>1. PICK c, n, d, f, i, p :
            table = [Stamped(c, n, d, f, {Slot}, i) EXCEPT !.partial = p]
    BY DEF CreateIntents, Create
  <2>2. LET t == Stamped(c, n, d, f, {Slot}, i)
        IN  t = [columns |-> t.columns, nullable |-> t.nullable, defaults |-> t.defaults,
                 refs |-> t.refs, unique |-> {Slot}, index |-> t.index,
                 partial |-> t.partial, checks |-> t.checks]
    BY DEF Stamped, Table
  <2> HIDE DEF table
  <2>3. table = rest(U) /\ U = {Slot}
    BY <2>1, <2>2
  <2> QED BY <2>3
<1>2. IntentsWithoutSlot = [rest(U) EXCEPT !.unique = U \ {Slot}]
  BY <1>1 DEF IntentsWithoutSlot
<1>3. (U \ {Slot}) \union {Slot} = U
  BY <1>1
<1>4. /\ NewObject(view, Alter("dropUnique", "procurement_intents", Slot)) =
            [view["procurement_intents"] EXCEPT !.unique = @ \ {Slot}]
      /\ NewObject(view, Alter("addUnique", "procurement_intents", Slot)) =
            [view["procurement_intents"] EXCEPT !.unique = @ \union {Slot}]
  BY DEF NewObject, Alter
<1>5. \A u, x : [rest(u) EXCEPT !.unique = x] = rest(x) /\ rest(u).unique = u
  OBVIOUS
<1> HIDE DEF rest, U, table
<1>6. IntentsWithoutSlot = rest(U \ {Slot})
  BY <1>2, <1>5
<1>7. Slot \in table.unique /\ Slot \notin IntentsWithoutSlot.unique
  BY <1>1, <1>5, <1>6 DEF U
<1> DEFINE After(change) == NewObject(view, Alter(change, "procurement_intents", Slot))
<1> HIDE DEF After
<1>8. ASSUME NEW u, view["procurement_intents"] = rest(u)
      PROVE  After("dropUnique") = rest(u \ {Slot}) /\ After("addUnique") = rest(u \union {Slot})
  BY <1>4, <1>5, <1>8 DEF After
<1>9. /\ view["procurement_intents"] = table => After("dropUnique") = IntentsWithoutSlot
      /\ view["procurement_intents"] = IntentsWithoutSlot => After("addUnique") = table
  BY <1>1, <1>3, <1>6, <1>8
<1> QED BY <1>7, <1>9 DEF table, After

-----------------------------------------------------------------------------
(* What the upgrades make of an empty database                             *)

IsStandard(schema, r) ==
    /\ schema = [name \in DOMAIN schema |-> schema[name]]
    /\ DOMAIN schema = {name \in Objects : Born(name) <= r}
    /\ \A name \in DOMAIN schema : schema[name] = Standard(name, r)

LEMMA BornInRange == \A name : Born(name) \in 1 .. 8 /\ (name \in Objects => Born(name) <= 7)
BY DEF Born, Objects

LEMMA ObjectOfUpgrade ==
    ASSUME NEW r \in 1 .. 7, NEW schema, IsStandard(schema, r - 1), NEW s, Fits(s, r),
           s.op \in {"create", "createType", "dropColumn", "dropUnique"}
    PROVE  NewObject(schema, s) = Standard(s.on, r)
<1>1. Born("queue_entries") = 2 /\ Born("procurement_intents") = 4
  BY DEF Born
<1>2. CASE s.op \in {"create", "createType"}
  <2>1. Born(s.on) = r /\ s.as = Creation(s.on).as
    BY <1>2 DEF Fits, Alter
  <2>2. Standard(s.on, r) = s.as
    BY <1>1, <2>1 DEF Standard
  <2>3. s.on \notin DOMAIN schema
    BY <2>1 DEF IsStandard
  <2>4. NewObject(schema, s) = s.as
    BY <1>2, <2>3 DEF NewObject
  <2> QED BY <2>2, <2>4
<1>3. CASE s.op = "dropColumn"
  <2>1. s = Alter("dropColumn", "queue_entries", "status") /\ r = 3 /\ s.on = "queue_entries"
    BY <1>3 DEF Fits, Alter
  <2>2. "queue_entries" \in DOMAIN schema
    BY <1>1, <2>1 DEF IsStandard, Objects
  <2>3. schema["queue_entries"] = Entries
    BY <1>1, <2>1, <2>2 DEF IsStandard, Standard, Creation, Entries
  <2>4. Standard(s.on, r) = EntriesWithoutStatus
    BY <1>1, <2>1 DEF Standard
  <2> QED BY <2>1, <2>3, <2>4, EntriesAltered
<1>4. CASE s.op = "dropUnique"
  <2>1. s = Alter("dropUnique", "procurement_intents", Slot) /\ r = 6 /\ s.on = "procurement_intents"
    BY <1>4 DEF Fits, Alter
  <2>2. "procurement_intents" \in DOMAIN schema
    BY <1>1, <2>1 DEF IsStandard, Objects
  <2>3. schema["procurement_intents"] = CreateIntents.as
    BY <1>1, <2>1, <2>2 DEF IsStandard, Standard, Creation
  <2>4. Standard(s.on, r) = IntentsWithoutSlot
    BY <1>1, <2>1 DEF Standard
  <2> QED BY <2>1, <2>3, <2>4, IntentsAltered
<1> QED BY <1>2, <1>3, <1>4

\* The scripts of the upgrades create objects and drop a column and a constraint.
LEMMA UpgradesNeverDrop ==
    \A r \in 1 .. 7 : /\ \A i \in 1 .. Len(upgrade[r]) :
                            upgrade[r][i].op \in {"create", "createType", "dropColumn", "dropUnique"}
                      /\ DOMAIN upgrade[r] = 1 .. Len(upgrade[r])
<1> DEFINE Ok(script) ==
            /\ \A i \in 1 .. Len(script) :
                script[i].op \in {"create", "createType", "dropColumn", "dropUnique"}
            /\ DOMAIN script = 1 .. Len(script)
<1>1. Ok(upgrade_0001)
  BY Creations DEF upgrade_0001
<1>2. Ok(upgrade_0002)
  BY Creations DEF upgrade_0002
<1>3. Ok(upgrade_0003)
  BY DEF upgrade_0003, Alter
<1>4. Ok(upgrade_0004)
  BY Creations DEF upgrade_0004
<1>5. Ok(upgrade_0005)
  BY Creations DEF upgrade_0005
<1>6. Ok(upgrade_0006)
  BY DEF upgrade_0006, Alter
<1>7. Ok(upgrade_0007)
  BY Creations DEF upgrade_0007
<1> HIDE DEF Ok
<1>8. \A r \in 1 .. 7 : Ok(upgrade[r])
  BY <1>1, <1>2, <1>3, <1>4, <1>5, <1>6, <1>7 DEF upgrade
<1> QED BY <1>8 DEF Ok

LEMMA UpgradeIsStandard ==
    ASSUME NEW r \in 1 .. 7, NEW schema, IsStandard(schema, r - 1)
    PROVE  IsStandard(Upgraded(schema, upgrade[r]), r)
<1> DEFINE script == upgrade[r]
           ons == {s.on : s \in Range(script)}
           StatementOn(name) == CHOOSE s \in Range(script) : s.on = name
           new == Upgraded(schema, script)
<1>1. /\ DOMAIN new = ons \union DOMAIN schema
      /\ new = [name \in DOMAIN new |-> new[name]]
      /\ \A name \in ons : new[name] = NewObject(schema, StatementOn(name))
      /\ \A name \in DOMAIN schema \ ons : new[name] = schema[name]
  <2>1. \A f, g : /\ Above(f, g) = [n \in DOMAIN Above(f, g) |-> Above(f, g)[n]]
                  /\ DOMAIN Above(f, g) = DOMAIN f \union DOMAIN g
                  /\ \A n \in DOMAIN f : Above(f, g)[n] = f[n]
                  /\ \A n \in DOMAIN g \ DOMAIN f : Above(f, g)[n] = g[n]
    BY DEF Above
  <2> DEFINE made == [name \in ons |-> NewObject(schema, StatementOn(name))]
  <2>2. DOMAIN made = ons /\ \A name \in ons : made[name] = NewObject(schema, StatementOn(name))
    OBVIOUS
  <2>3. new = Above(made, schema)
    BY DEF Upgraded
  <2> HIDE DEF ons, made, StatementOn, new
  <2>4. DOMAIN new = ons \union DOMAIN schema /\ new = [name \in DOMAIN new |-> new[name]]
    BY <2>1, <2>2, <2>3
  <2>5. \A name \in ons : new[name] = made[name]
    BY <2>1, <2>2, <2>3
  <2>6. \A name \in DOMAIN schema \ ons : new[name] = schema[name]
    BY <2>1, <2>2, <2>3
  <2> QED BY <2>2, <2>4, <2>5, <2>6
<1>2. Range(script) = {script[i] : i \in 1 .. Len(script)}
  BY UpgradesNeverDrop DEF Range
<1>3. \A s \in Range(script) :
        Fits(s, r) /\ s.op \in {"create", "createType", "dropColumn", "dropUnique"}
  BY <1>2, UpgradesNeverDrop, UpgradesLead DEF Leads
<1>4. \A name \in ons : StatementOn(name) \in Range(script) /\ StatementOn(name).on = name
  <2> HIDE DEF script
  <2> QED OBVIOUS
<1>5. \A name : Changes(name, r) => name \in ons
  BY <1>2, ScriptsReach DEF Reaches
<1> HIDE DEF script, ons, StatementOn, new
<1>6. \A name \in ons : new[name] = Standard(name, r)
  BY <1>1, <1>3, <1>4, ObjectOfUpgrade
<1>7. \A name \in ons : name \in Objects /\ Born(name) <= r
  <2> SUFFICES ASSUME NEW name \in ons PROVE name \in Objects /\ Born(name) <= r
    OBVIOUS
  <2> DEFINE s == StatementOn(name)
  <2>1. Fits(s, r) /\ s.on = name /\ s.op \in {"create", "createType", "dropColumn", "dropUnique"}
    BY <1>3, <1>4
  <2> HIDE DEF s
  <2>2. Born("queue_entries") = 2 /\ Born("procurement_intents") = 4
    BY DEF Born
  <2> QED BY <2>1, <2>2 DEF Fits, Alter
<1>8. \A name \in DOMAIN schema \ ons : new[name] = Standard(name, r)
  BY <1>1, <1>5, OthersStay DEF IsStandard
<1>9. DOMAIN new = {name \in Objects : Born(name) <= r}
  <2>1. \A name \in Objects : name \notin ons => (Born(name) <= r <=> Born(name) <= r - 1)
    BY <1>5, OthersStay
  <2>2. \A name \in Objects : Born(name) <= r - 1 => Born(name) <= r
    BY BornInRange
  <2> QED BY <1>1, <1>7, <2>1, <2>2 DEF IsStandard
<1> QED BY <1>1, <1>6, <1>8, <1>9 DEF IsStandard, new, script

LEMMA SchemasAreStandard == \A r \in 0 .. 7 : IsStandard(SchemaAt[r], r)
<1> DEFINE S0 == <<>>
           S1 == Upgraded(S0, upgrade[1])
           S2 == Upgraded(S1, upgrade[2])
           S3 == Upgraded(S2, upgrade[3])
           S4 == Upgraded(S3, upgrade[4])
           S5 == Upgraded(S4, upgrade[5])
           S6 == Upgraded(S5, upgrade[6])
           S7 == Upgraded(S6, upgrade[7])
           Equation(f) == f = [r \in 0 .. 7 |-> IF r = 0 THEN <<>> ELSE Upgraded(f[r - 1], upgrade[r])]
           f == [r \in 0 .. 7 |-> IF r = 0 THEN S0 ELSE IF r = 1 THEN S1 ELSE IF r = 2 THEN S2
                                  ELSE IF r = 3 THEN S3 ELSE IF r = 4 THEN S4
                                  ELSE IF r = 5 THEN S5 ELSE IF r = 6 THEN S6 ELSE S7]
<1>1. Equation(f)
  <2>1. /\ S1 = Upgraded(S0, upgrade[1]) /\ S2 = Upgraded(S1, upgrade[2])
        /\ S3 = Upgraded(S2, upgrade[3]) /\ S4 = Upgraded(S3, upgrade[4])
        /\ S5 = Upgraded(S4, upgrade[5]) /\ S6 = Upgraded(S5, upgrade[6])
        /\ S7 = Upgraded(S6, upgrade[7])
    OBVIOUS
  <2> HIDE DEF S1, S2, S3, S4, S5, S6, S7
  <2> DEFINE g == [r \in 0 .. 7 |-> IF r = 0 THEN <<>> ELSE Upgraded(f[r - 1], upgrade[r])]
  <2>2. \A r \in 0 .. 7 : f[r] = g[r]
    BY <2>1
  <2>3. f = [r \in 0 .. 7 |-> f[r]] /\ g = [r \in 0 .. 7 |-> g[r]]
    OBVIOUS
  <2> HIDE DEF f, g
  <2>4. f = g
    BY <2>2, <2>3
  <2> QED BY <2>4 DEF g
<1>2. SchemaAt = CHOOSE h : Equation(h)
  BY DEF SchemaAt
<1> HIDE DEF f
<1>3. Equation(SchemaAt)
  <2> HIDE DEF Equation
  <2> QED BY <1>1, <1>2
<1>4. /\ SchemaAt[0] = <<>>
      /\ \A r \in 1 .. 7 : SchemaAt[r] = Upgraded(SchemaAt[r - 1], upgrade[r])
  <2>1. \A r \in 0 .. 7 : SchemaAt[r] = IF r = 0 THEN <<>> ELSE Upgraded(SchemaAt[r - 1], upgrade[r])
    <3> DEFINE h == SchemaAt
    <3>1. h = [r \in 0 .. 7 |-> IF r = 0 THEN <<>> ELSE Upgraded(h[r - 1], upgrade[r])]
      BY <1>3
    <3> HIDE DEF h
    <3>2. \A r \in 0 .. 7 : h[r] = IF r = 0 THEN <<>> ELSE Upgraded(h[r - 1], upgrade[r])
      BY <3>1
    <3> QED BY <3>2 DEF h
  <2> QED BY <2>1
<1>5. IsStandard(SchemaAt[0], 0)
  BY <1>4, BornInRange DEF IsStandard
<1>6. \A r \in 1 .. 7 : IsStandard(SchemaAt[r - 1], r - 1) => IsStandard(SchemaAt[r], r)
  BY <1>4, UpgradeIsStandard
<1>7. IsStandard(SchemaAt[1], 1)
  BY <1>5, <1>6
<1>8. IsStandard(SchemaAt[2], 2)
  BY <1>6, <1>7
<1>9. IsStandard(SchemaAt[3], 3)
  BY <1>6, <1>8
<1>10. IsStandard(SchemaAt[4], 4)
  BY <1>6, <1>9
<1>11. IsStandard(SchemaAt[5], 5)
  BY <1>6, <1>10
<1>12. IsStandard(SchemaAt[6], 6)
  BY <1>6, <1>11
<1>13. IsStandard(SchemaAt[7], 7)
  BY <1>6, <1>12
<1> QED BY <1>5, <1>7, <1>8, <1>9, <1>10, <1>11, <1>12, <1>13

-----------------------------------------------------------------------------
(* The schema at each revision                                             *)

LEMMA NotGone ==
    ASSUME NEW r \in 0 .. 7, NEW name \in Objects, NEW object \in Due(name, r)
    PROVE  object = Gone <=> r < Born(name)
<1>1. Born("queue_entries") = 2
  BY DEF Born
<1>2. CASE r < Born(name)
  <2>1. ~ (name = "queue_entries" /\ r = 2)
    BY <1>1, <1>2
  <2> QED BY <1>2, <2>1 DEF Due, Standard
<1>3. CASE ~ (r < Born(name))
  <2>1. r \in 1 .. 7 /\ Born(name) <= r
    BY <1>3, BornInRange
  <2>2. SchemaAt[r][name] = Standard(name, r) /\ name \in DOMAIN SchemaAt[r]
    BY <2>1, SchemasAreStandard DEF IsStandard
  <2>3. Standard(name, r) # Gone
    BY <2>1, <2>2, GoneAssumption
  <2>4. EntriesUndefaulted # Gone
    <3>1. SchemaAt[2]["queue_entries"] = Entries /\ "queue_entries" \in DOMAIN SchemaAt[2]
      BY <1>1, SchemasAreStandard DEF IsStandard, Standard, Creation, Entries, Objects
    <3>2. WithoutDefault["queue_entries"] = EntriesUndefaulted
      BY <3>1 DEF WithoutDefault, EntriesUndefaulted
    <3> QED BY <3>2, GoneAssumption
  <2> QED BY <1>3, <2>3, <2>4 DEF Due
<1> QED BY <1>2, <1>3

\* An object as some revision has it.
Known(name, object) == object # Gone /\ \E q \in 0 .. 7 : object \in Due(name, q)

\* A statement that PostgreSQL accepts makes of its object what is due at the revision that
\* its script leads to, whatever revision the object was taken from.
LEMMA StatementEffect ==
    ASSUME NEW r \in 0 .. 7, NEW view, NEW s, Fits(s, r), Verdict(view, s) = "ok",
           s.on \in DOMAIN view => Known(s.on, view[s.on])
    PROVE  NewObject(view, s) \in Due(s.on, r)
<1>1. Born("queue_entries") = 2 /\ Born("procurement_intents") = 4
  BY DEF Born
<1>2. /\ Standard("queue_entries", 2) = Entries /\ EntriesUndefaulted \in Due("queue_entries", 2)
      /\ Standard("queue_entries", 3) = EntriesWithoutStatus
      /\ Standard("procurement_intents", 5) = CreateIntents.as
      /\ Standard("procurement_intents", 6) = IntentsWithoutSlot
  BY <1>1 DEF Standard, Due, Creation, Entries
<1>3. \A name, q : Standard(name, q) \in Due(name, q)
  BY DEF Due
<1>4. ASSUME s.op \in {"create", "createType"} PROVE NewObject(view, s) \in Due(s.on, r)
  <2>1. Born(s.on) = r /\ s = Creation(s.on)
    BY <1>4 DEF Fits, Alter
  <2>2. Standard(s.on, r) = s.as
    BY <1>1, <2>1 DEF Standard
  <2>3. CASE s.op = "create"
    <3>1. NewObject(view, s) = s.as
      BY <2>3 DEF NewObject
    <3> QED BY <1>3, <2>2, <3>1
  <2>4. CASE s.op = "createType"
    <3>1. s.on # "queue_entries" /\ s.on # "procurement_intents"
      <4>1. CreateQueueEntries.op = "create" /\ CreateIntents.op = "create"
        BY DEF CreateQueueEntries, CreateIntents, Create
      <4> QED BY <2>1, <2>4, <4>1 DEF Creation
    <3>2. s.on \in DOMAIN view => view[s.on] = s.as
      BY <2>1, <3>1 DEF Known, Due, Standard
    <3>3. NewObject(view, s) = IF s.on \in DOMAIN view THEN view[s.on] ELSE s.as
      BY <2>4 DEF NewObject
    <3> QED BY <1>3, <2>2, <3>2, <3>3
  <2> QED BY <1>4, <2>3, <2>4
<1>5. ASSUME s.op \in {"drop", "dropType"} PROVE NewObject(view, s) \in Due(s.on, r)
  <2>1. Born(s.on) = r + 1
    <3>1. s.op \notin {"create", "createType"} /\ s.op \notin {"addColumn", "dropColumn",
                "dropDefault", "dropUnique", "addUnique"}
      BY <1>5
    <3> QED BY <3>1 DEF Fits, Alter
  <2>2. Standard(s.on, r) = Gone
    BY <2>1 DEF Standard
  <2>3. NewObject(view, s) = Gone
    BY <1>5 DEF NewObject
  <2> QED BY <1>3, <2>2, <2>3
<1>6. ASSUME s.op \in {"dropColumn", "addColumn", "dropDefault"}
      PROVE  NewObject(view, s) \in Due(s.on, r)
  <2>1. /\ s = Alter(s.op, "queue_entries", "status") /\ s.on = "queue_entries" /\ s.as = "status"
        /\ IF s.op = "dropColumn" THEN r = 3 ELSE r = 2
    BY <1>6 DEF Fits, Alter
  <2>2. /\ "queue_entries" \in DOMAIN view
        /\ s.op \in {"dropColumn", "dropDefault"} <=> "status" \in view["queue_entries"].columns
    BY <1>6, <2>1 DEF Verdict
  <2>3. view["queue_entries"] \in {Entries, EntriesUndefaulted, EntriesWithoutStatus}
    BY <2>1, <2>2 DEF Known, Due, Standard, Creation, Entries
  <2>4. CASE s.op \in {"dropColumn", "dropDefault"}
    <3>1. view["queue_entries"] \in {Entries, EntriesUndefaulted}
      BY <2>2, <2>3, <2>4, EntriesAltered
    <3>2. CASE s.op = "dropColumn"
      BY <1>2, <1>3, <2>1, <3>1, <3>2, EntriesAltered
    <3>3. CASE s.op = "dropDefault"
      BY <1>2, <2>1, <3>1, <3>3, EntriesAltered
    <3> QED BY <2>4, <3>2, <3>3
  <2>5. CASE s.op = "addColumn"
    <3>1. view["queue_entries"] = EntriesWithoutStatus
      BY <2>2, <2>3, <2>5, EntriesAltered
    <3> QED BY <1>2, <1>3, <2>1, <2>5, <3>1, EntriesAltered
  <2> QED BY <1>6, <2>4, <2>5
<1>7. ASSUME s.op \in {"dropUnique", "addUnique"} PROVE NewObject(view, s) \in Due(s.on, r)
  <2>1. /\ s = Alter(s.op, "procurement_intents", Slot)
        /\ s.on = "procurement_intents" /\ s.as = Slot
        /\ IF s.op = "dropUnique" THEN r = 6 ELSE r = 5
    BY <1>7 DEF Fits, Alter
  <2>2. /\ "procurement_intents" \in DOMAIN view
        /\ s.op = "dropUnique" <=> Slot \in view["procurement_intents"].unique
    BY <1>7, <2>1 DEF Verdict
  <2>3. view["procurement_intents"] \in {CreateIntents.as, IntentsWithoutSlot}
    BY <2>1, <2>2 DEF Known, Due, Standard, Creation
  <2>4. CASE s.op = "dropUnique"
    <3>1. view["procurement_intents"] = CreateIntents.as
      BY <2>2, <2>3, <2>4, IntentsAltered
    <3> QED BY <1>2, <1>3, <2>1, <2>4, <3>1, IntentsAltered
  <2>5. CASE s.op = "addUnique"
    <3>1. view["procurement_intents"] = IntentsWithoutSlot
      BY <2>2, <2>3, <2>5, IntentsAltered
    <3> QED BY <1>2, <1>3, <2>1, <2>5, <3>1, IntentsAltered
  <2> QED BY <1>7, <2>4, <2>5
<1> QED BY <1>4, <1>5, <1>6, <1>7 DEF Fits, Alter

\* The revision a script leads to, and what is due of an object in the middle of a run.
Toward(r) == IF r.to > r.rev THEN r.rev + 1 ELSE r.rev - 1
Midway(name, r) ==
    IF \E i \in 1 .. r.done : Script(r)[i].on = name THEN Due(name, Toward(r)) ELSE Due(name, r.rev)

CatalogAt(r) ==
    /\ catalog = [name \in DOMAIN catalog |-> catalog[name]]
    /\ DOMAIN catalog = {name \in Objects : Born(name) <= r}
    /\ \A name \in DOMAIN catalog : catalog[name] \in Due(name, r)

\* The schema is that of the revision, and a transaction has made of each object what is due;
\* the objects that it has not touched are still due as they were when it began.
SchemaInv == \E r \in 0 .. 7 : versions = HeadOf(r) /\ CatalogAt(r)
DraftInv(m) ==
    run[m] # NoRun =>
        /\ DOMAIN draft[m] \subseteq Objects
        /\ \A name \in Objects :
            IF name \in DOMAIN draft[m] THEN draft[m][name] \in Midway(name, run[m])
            ELSE Midway(name, run[m]) = Due(name, run[m].from)
FullInv == Inv /\ SchemaInv /\ (\A m \in Migrators : DraftInv(m))

LEMMA ScriptOfRun ==
    ASSUME NEW r, IsRun(r), r.rev # r.to
    PROVE  /\ Toward(r) \in 0 .. 7
           /\ \A i \in 1 .. Len(Script(r)) : Fits(Script(r)[i], Toward(r))
           /\ \A name : \/ \E i \in 1 .. Len(Script(r)) : Script(r)[i].on = name
                        \/ Due(name, r.rev) = Due(name, Toward(r))
<1>1. r.rev \in 0 .. 7 /\ r.to \in 0 .. 7
  BY DEF IsRun
<1>2. CASE r.to > r.rev
  <2> DEFINE k == r.rev + 1
  <2>1. k \in 1 .. 7 /\ r.rev = k - 1 /\ Toward(r) = k /\ Script(r) = upgrade[k]
    BY <1>1, <1>2 DEF Toward, Script
  <2> HIDE DEF k
  <2>2. \A i \in 1 .. Len(upgrade[k]) : Fits(upgrade[k][i], k)
    BY <2>1, UpgradesLead DEF Leads
  <2>3. \A name : \/ \E i \in 1 .. Len(upgrade[k]) : upgrade[k][i].on = name
                  \/ Due(name, k - 1) = Due(name, k)
    BY <2>1, ScriptsReach, OthersStay DEF Reaches
  <2> QED BY <2>1, <2>2, <2>3
<1>3. CASE ~ (r.to > r.rev)
  <2> DEFINE k == r.rev
  <2>1. k \in 1 .. 7 /\ Toward(r) = k - 1 /\ k - 1 \in 0 .. 7 /\ Script(r) = downgrade[k]
    BY <1>1, <1>3 DEF Toward, Script
  <2>2. r.rev = k
    OBVIOUS
  <2> HIDE DEF k
  <2>3. \A i \in 1 .. Len(downgrade[k]) : Fits(downgrade[k][i], k - 1)
    BY <2>1, DowngradesLead DEF Leads
  <2>4. \A name : \/ \E i \in 1 .. Len(downgrade[k]) : downgrade[k][i].on = name
                  \/ Due(name, k - 1) = Due(name, k)
    BY <2>1, ScriptsReach, OthersStay DEF Reaches
  <2> QED BY <2>1, <2>2, <2>3, <2>4
<1> QED BY <1>2, <1>3

\* A transaction sees objects as some revision has them.
LEMMA ViewIsKnown ==
    ASSUME FullInv, NEW m \in Migrators, run[m] # NoRun, NEW name \in DOMAIN View(m)
    PROVE  Known(name, View(m)[name])
<1> DEFINE v == View(m)[name]
<1>1. /\ v # Gone /\ name \in DOMAIN draft[m] \union DOMAIN catalog
      /\ v = IF name \in DOMAIN draft[m] THEN draft[m][name] ELSE catalog[name]
  BY DEF View, Above
<1>2. CASE name \in DOMAIN draft[m]
  <2>1. v \in Midway(name, run[m])
    BY <1>1, <1>2 DEF FullInv, DraftInv
  <2>2. run[m].rev \in 0 .. 7
    BY DEF FullInv, Inv, RunInv, IsRun
  <2>3. \E q \in 0 .. 7 : Midway(name, run[m]) = Due(name, q)
    <3>1. CASE run[m].rev # run[m].to
      <4>1. Toward(run[m]) \in 0 .. 7
        BY <3>1, ScriptOfRun DEF FullInv, Inv, RunInv
      <4> QED BY <2>2, <4>1 DEF Midway
    <3>2. CASE run[m].rev = run[m].to
      <4>1. run[m].done = 0
        BY <3>2 DEF FullInv, Inv, RunInv, IsRun
      <4> QED BY <2>2, <4>1 DEF Midway
    <3> QED BY <3>1, <3>2
  <2> QED BY <1>1, <2>1, <2>3 DEF Known
<1>3. CASE name \notin DOMAIN draft[m]
  BY <1>1, <1>3 DEF FullInv, SchemaInv, CatalogAt, Known
<1> QED BY <1>2, <1>3

-----------------------------------------------------------------------------
(* Every step keeps the schema                                             *)

\* A step that commits nothing keeps the schema and what the other transactions have made.
LEMMA UncommittedKeepsSchema ==
    ASSUME NEW m \in Migrators, FullInv, Inv', catalog' = catalog, versions' = versions,
           OthersKeep(m), DraftInv(m)'
    PROVE  FullInv'
<1>1. SchemaInv'
  BY DEF FullInv, SchemaInv, CatalogAt
<1>2. ASSUME NEW o \in Migrators, o # m PROVE DraftInv(o)'
  BY <1>2 DEF FullInv, OthersKeep, DraftInv
<1> QED BY <1>1, <1>2 DEF FullInv

LEMMA EndKeepsSchema ==
    ASSUME NEW m \in Migrators, NEW answer, FullInv, Inv', End(m, answer),
           catalog' = catalog, versions' = versions
    PROVE  FullInv'
<1>1. OthersKeep(m) /\ DraftInv(m)'
  BY DEF End, FullInv, Inv, FunctionsInv, OthersKeep, DraftInv
<1> QED BY <1>1, UncommittedKeepsSchema

LEMMA StartKeepsSchema == ASSUME NEW m \in Migrators, FullInv, Inv', Start(m) PROVE FullInv'
<1>0. PICK from \in 0 .. 7, to \in Goals :
        run' = [run EXCEPT ![m] = [from |-> from, to |-> to, rev |-> from, done |-> 0]]
  BY DEF Start
<1>1. /\ run[m] = NoRun /\ catalog' = catalog /\ versions' = versions
      /\ draft' = draft /\ held' = held
  BY DEF Start
<1>2. OthersKeep(m)
  BY <1>0, <1>1 DEF FullInv, Inv, FunctionsInv, OthersKeep
<1>3. run'[m].from = from /\ run'[m].rev = from /\ run'[m].done = 0
  BY <1>0 DEF FullInv, Inv, FunctionsInv
<1>4. \A name : Midway(name, run'[m]) = Due(name, run'[m].from)
  BY <1>3 DEF Midway
<1>5. draft'[m] = <<>>
  BY <1>1 DEF FullInv, Inv, RunInv
<1>6. DraftInv(m)'
  BY <1>4, <1>5 DEF DraftInv
<1> QED BY <1>1, <1>2, <1>6, UncommittedKeepsSchema

LEMMA ExecuteKeepsSchema == ASSUME NEW m \in Migrators, FullInv, Inv', Execute(m) PROVE FullInv'
<1> DEFINE r == run[m]
           s == Script(r)[r.done + 1]
           view == View(m)
           object == NewObject(view, s)
<1>1. /\ r # NoRun /\ r.rev # r.to /\ r.done < Len(Script(r))
      /\ catalog' = catalog /\ versions' = versions
  BY DEF Execute
<1>2. CASE Verdict(view, s) # "ok"
  <2>1. End(m, Verdict(view, s))
    BY <1>2 DEF Execute
  <2> QED BY <1>1, <2>1, EndKeepsSchema
<1>3. CASE Verdict(view, s) = "ok"
  <2> DEFINE n == [r EXCEPT !.done = r.done + 1]
  <2>1. /\ draft' = [draft EXCEPT ![m] = With(draft[m], s.on, object)]
        /\ run' = [run EXCEPT ![m] = n]
        /\ held' = [held EXCEPT ![m] = held[m] \union Locks(view, s)]
    BY <1>3 DEF Execute
  <2>2. IsRun(r) /\ DraftInv(m) /\ r.done \in Nat
    BY <1>1 DEF FullInv, Inv, RunInv, IsRun
  <2>3. n.from = r.from /\ n.to = r.to /\ n.rev = r.rev /\ n.done = r.done + 1
    BY <2>2 DEF IsRun
  <2>4. Fits(s, Toward(r)) /\ Toward(r) \in 0 .. 7 /\ s.on \in Objects
    <3>1. r.done + 1 \in 1 .. Len(Script(r))
      BY <1>1, <2>2, Statements
    <3>2. Fits(s, Toward(r)) /\ Toward(r) \in 0 .. 7
      BY <1>1, <2>2, <3>1, ScriptOfRun
    <3> HIDE DEF s
    <3> QED BY <3>2 DEF Fits
  <2>5. s.on \in DOMAIN view => Known(s.on, view[s.on])
    BY <1>1, ViewIsKnown
  <2>6. object \in Due(s.on, Toward(r))
    <3> HIDE DEF s, view
    <3> QED BY <1>3, <2>4, <2>5, StatementEffect
  <2> HIDE DEF n, object, view
  <2>7. OthersKeep(m) /\ run'[m] = n /\ draft'[m] = With(draft[m], s.on, object)
    <3> HIDE DEF s
    <3> QED BY <2>1 DEF FullInv, Inv, FunctionsInv, OthersKeep
  <2>8. /\ DOMAIN draft'[m] = {s.on} \union DOMAIN draft[m]
        /\ draft'[m][s.on] = object
        /\ \A x \in DOMAIN draft[m] \ {s.on} : draft'[m][x] = draft[m][x]
    <3> DEFINE new == With(draft[m], s.on, object)
    <3> HIDE DEF s
    <3>1. /\ DOMAIN new = {s.on} \union DOMAIN draft[m]
          /\ \A x \in {s.on} \union DOMAIN draft[m] : new[x] = IF x = s.on THEN object ELSE draft[m][x]
      BY DEF With, Above
    <3>2. draft'[m] = new
      BY <2>7
    <3> HIDE DEF new
    <3> QED BY <3>1, <3>2
  <2>9. Script(n) = Script(r) /\ Toward(n) = Toward(r)
    BY <2>3 DEF Script, Toward
  <2>10. /\ Midway(s.on, n) = Due(s.on, Toward(r))
         /\ \A x : x # s.on => Midway(x, n) = Midway(x, r)
    <3>1. r.done + 1 \in 1 .. n.done /\ \A i \in 1 .. n.done : i \in 1 .. r.done \/ i = r.done + 1
      BY <2>2, <2>3
    <3>2. \A i \in 1 .. r.done : i \in 1 .. n.done
      BY <2>2, <2>3
    <3> QED BY <2>3, <2>9, <3>1, <3>2 DEF Midway
  <2>11. DraftInv(m)'
    <3> HIDE DEF s, r
    <3>1. n.from = r.from /\ r # NoRun
      BY <1>1, <2>3
    <3>2. DOMAIN draft[m] \subseteq Objects
          /\ \A name \in Objects :
                IF name \in DOMAIN draft[m] THEN draft[m][name] \in Midway(name, r)
                ELSE Midway(name, r) = Due(name, r.from)
      BY <2>2, <3>1 DEF DraftInv, r
    <3>3. DOMAIN draft'[m] \subseteq Objects
      BY <2>4, <2>8, <3>2
    <3>4. ASSUME NEW name \in Objects
          PROVE  IF name \in DOMAIN draft'[m] THEN draft'[m][name] \in Midway(name, n)
                 ELSE Midway(name, n) = Due(name, n.from)
      <4>1. CASE name = s.on
        BY <2>6, <2>8, <2>10, <4>1
      <4>2. CASE name # s.on
        BY <2>8, <2>10, <3>1, <3>2, <4>2
      <4> QED BY <4>1, <4>2
    <3> QED BY <2>7, <3>3, <3>4 DEF DraftInv
  <2> QED BY <1>1, <2>7, <2>11, UncommittedKeepsSchema
<1> QED BY <1>2, <1>3

LEMMA WriteVersionKeepsSchema ==
    ASSUME NEW m \in Migrators, FullInv, Inv', WriteVersion(m)
    PROVE  FullInv'
<1> DEFINE r == run[m]
           n == [r EXCEPT !.rev = IF r.rev < r.to THEN r.rev + 1 ELSE r.rev - 1, !.done = 0]
<1>1. /\ r # NoRun /\ r.rev # r.to /\ r.done = Len(Script(r))
      /\ catalog' = catalog /\ versions' = versions
  BY DEF WriteVersion
<1>2. CASE ~ RowIsThere(m)
  <2>1. End(m, "CommandError")
    BY <1>2 DEF WriteVersion
  <2> QED BY <1>1, <2>1, EndKeepsSchema
<1>3. CASE RowIsThere(m)
  <2>1. /\ run' = [run EXCEPT ![m] = n] /\ draft' = draft
        /\ held' = [held EXCEPT ![m] = held[m] \union {"alembic_version"}]
    BY <1>3 DEF WriteVersion
  <2>2. IsRun(r) /\ DraftInv(m)
    BY <1>1 DEF FullInv, Inv, RunInv
  <2>3. n.from = r.from /\ n.to = r.to /\ n.rev = Toward(r) /\ n.done = 0
    <3>1. r \in [from: 0 .. 7, to: 0 .. 7, rev: 0 .. 7, done: Nat]
      BY <2>2 DEF IsRun
    <3>2. r.rev < r.to <=> r.to > r.rev
      BY <3>1
    <3> QED BY <3>1, <3>2 DEF Toward
  <2> HIDE DEF n
  <2>4. OthersKeep(m) /\ run'[m] = n /\ draft'[m] = draft[m]
    BY <2>1 DEF FullInv, Inv, FunctionsInv, OthersKeep
  <2>5. \A name : Midway(name, r) = Due(name, Toward(r))
    BY <1>1, <2>2, ScriptOfRun DEF Midway
  <2>6. \A name : Midway(name, n) = Midway(name, r)
    BY <2>3, <2>5 DEF Midway
  <2>7. DraftInv(m)'
    <3> HIDE DEF r
    <3>1. r = run[m] /\ r # NoRun /\ n.from = r.from
      BY <1>1, <2>3 DEF r
    <3> QED BY <2>2, <2>4, <2>6, <3>1 DEF DraftInv
  <2> QED BY <1>1, <2>4, <2>7, UncommittedKeepsSchema
<1> QED BY <1>2, <1>3

\* A run that commits found the schema of the revision that it began with, and publishes that
\* of its goal: what it has changed is as due there, and the rest is due alike.
LEMMA CommitKeepsSchema == ASSUME NEW m \in Migrators, FullInv, Inv', Commit(m) PROVE FullInv'
<1> DEFINE r == run[m]
<1>1. /\ r # NoRun /\ r.rev = r.to /\ catalog' = View(m)
      /\ versions' = (versions \ HeadOf(r.from)) \union HeadOf(r.to)
      /\ End(m, "ok")
  BY DEF Commit, MayCommit
<1>2. /\ r.from \in 0 .. 7 /\ r.to \in 0 .. 7 /\ r.from # r.to /\ r.done = 0
      /\ versions = HeadOf(r.from)
  BY <1>1 DEF FullInv, Inv, RunInv, IsRun, WrittenInv
<1>3. versions' = HeadOf(r.to)
  BY <1>1, <1>2 DEF HeadOf
<1>4. CatalogAt(r.from)
  BY <1>2 DEF FullInv, SchemaInv, HeadOf
<1>5. \A name : Midway(name, r) = Due(name, r.to)
  BY <1>1, <1>2 DEF Midway
<1>6. /\ DOMAIN draft[m] \subseteq Objects
      /\ \A name \in Objects :
            IF name \in DOMAIN draft[m] THEN draft[m][name] \in Due(name, r.to)
            ELSE Due(name, r.to) = Due(name, r.from)
  BY <1>1, <1>5 DEF FullInv, DraftInv
<1> DEFINE seen == Above(draft[m], catalog)
           view == View(m)
<1>7. /\ DOMAIN seen = DOMAIN draft[m] \union DOMAIN catalog
      /\ \A name \in DOMAIN seen :
            seen[name] = IF name \in DOMAIN draft[m] THEN draft[m][name] ELSE catalog[name]
      /\ view = [name \in {n \in DOMAIN seen : seen[n] # Gone} |-> seen[name]]
  BY DEF View, Above
<1> HIDE DEF seen, view, r
<1>8. DOMAIN catalog \subseteq Objects
  BY <1>4 DEF CatalogAt
<1>9. \A name \in Objects : Standard(name, r.from) \in Due(name, r.from)
  BY DEF Due
<1>10. ASSUME NEW name \in Objects
       PROVE  /\ name \in DOMAIN view <=> Born(name) <= r.to
              /\ name \in DOMAIN view => view[name] \in Due(name, r.to)
  <2>0. Born(name) \in 1 .. 8
    BY BornInRange
  <2>1. CASE name \in DOMAIN draft[m]
    <3>1. seen[name] \in Due(name, r.to) /\ name \in DOMAIN seen
      BY <1>6, <1>7, <2>1
    <3>2. seen[name] # Gone <=> Born(name) <= r.to
      BY <1>2, <2>0, <3>1, NotGone
    <3> QED BY <1>7, <3>1, <3>2
  <2>2. CASE name \notin DOMAIN draft[m]
    <3>1. Due(name, r.to) = Due(name, r.from)
      BY <1>6, <2>2
    <3>2. Born(name) <= r.to <=> Born(name) <= r.from
      <4>1. Standard(name, r.from) = Gone <=> r.from < Born(name)
        BY <1>2, <1>9, NotGone
      <4>2. Standard(name, r.from) = Gone <=> r.to < Born(name)
        BY <1>2, <1>9, <3>1, NotGone
      <4> QED BY <1>2, <2>0, <4>1, <4>2
    <3>3. name \in DOMAIN catalog <=> Born(name) <= r.from
      BY <1>4 DEF CatalogAt
    <3>4. ASSUME name \in DOMAIN catalog
          PROVE  /\ name \in DOMAIN seen /\ seen[name] = catalog[name]
                 /\ seen[name] \in Due(name, r.to) /\ seen[name] # Gone
      <4>1. name \in DOMAIN seen /\ seen[name] = catalog[name]
        BY <1>7, <2>2, <3>4
      <4>2. catalog[name] \in Due(name, r.from)
        BY <1>4, <3>4 DEF CatalogAt
      <4>3. catalog[name] # Gone
        BY <1>2, <2>0, <3>3, <3>4, <4>2, NotGone
      <4> QED BY <3>1, <4>1, <4>2, <4>3
    <3> QED BY <1>7, <2>2, <3>2, <3>3, <3>4
  <2> QED BY <2>1, <2>2
<1>11. DOMAIN view \subseteq Objects /\ view = [name \in DOMAIN view |-> view[name]]
  BY <1>6, <1>7, <1>8
<1>12. catalog' = view
  BY <1>1 DEF view
<1>13. SchemaInv'
  <2>1. PICK to \in 0 .. 7 : to = r.to
    BY <1>2
  <2>2. /\ catalog' = [name \in DOMAIN catalog' |-> catalog'[name]]
        /\ DOMAIN catalog' = {name \in Objects : Born(name) <= to}
        /\ \A name \in DOMAIN catalog' : catalog'[name] \in Due(name, to)
    BY <1>10, <1>11, <1>12, <2>1
  <2>3. CatalogAt(to)'
    BY <2>2 DEF CatalogAt
  <2>4. versions' = HeadOf(to)
    BY <1>3, <2>1
  <2> QED BY <2>3, <2>4 DEF SchemaInv
<1>14. ASSUME NEW o \in Migrators PROVE DraftInv(o)'
  <2>1. IF o = m THEN run'[o] = NoRun ELSE run'[o] = run[o] /\ draft'[o] = draft[o]
    BY <1>1 DEF End, FullInv, Inv, FunctionsInv
  <2> QED BY <2>1 DEF FullInv, DraftInv
<1> QED BY <1>13, <1>14 DEF FullInv

LEMMA InitEstablishesSchema == ASSUME Init PROVE FullInv
<1>1. versions = HeadOf(0) /\ catalog = <<>>
  BY DEF Init, HeadOf
<1>2. CatalogAt(0)
  BY <1>1, BornInRange DEF CatalogAt
<1>3. SchemaInv
  BY <1>1, <1>2 DEF SchemaInv
<1>4. \A m \in Migrators : DraftInv(m)
  BY DEF Init, DraftInv
<1> QED BY <1>3, <1>4, InitEstablishesInv DEF FullInv

LEMMA NextKeepsSchema == ASSUME FullInv, [Next]_vars PROVE FullInv'
<1>1. Inv'
  BY NextKeepsInv DEF FullInv
<1>2. CASE Book \/ UNCHANGED vars
  <2>1. UNCHANGED <<catalog, versions, run, draft>>
    BY <1>2 DEF Book, vars
  <2> QED BY <1>1, <2>1 DEF FullInv, SchemaInv, CatalogAt, DraftInv
<1>3. ASSUME NEW m \in Migrators, Fail(m) PROVE FullInv'
  BY <1>1, <1>3, EndKeepsSchema DEF Fail
<1> QED
  BY <1>1, <1>2, <1>3, StartKeepsSchema, ExecuteKeepsSchema, WriteVersionKeepsSchema, CommitKeepsSchema
  DEF Next

\* The strengthening of SchemaFollowsRevision holds in every state.
THEOREM SchemaInvariance == Spec => []FullInv
BY InitEstablishesSchema, NextKeepsSchema, PTL DEF Spec

\* The scripts of src/migrations/versions undo exactly what they did: whatever runs fail, race or
\* repeat, the schema is the one that the upgrades give at the revision of alembic_version (but
\* for the default of queue_entries.status), however many operators migrate the database.
THEOREM SchemaMatchesRevision == Spec => []SchemaFollowsRevision
<1>1. FullInv => SchemaFollowsRevision
  <2> SUFFICES ASSUME FullInv PROVE SchemaFollowsRevision
    OBVIOUS
  <2>1. PICK r \in 0 .. 7 : versions = HeadOf(r) /\ CatalogAt(r)
    BY DEF FullInv, SchemaInv
  <2> DEFINE schema == SchemaAt[r]
  <2>2. IsStandard(schema, r)
    BY SchemasAreStandard
  <2> HIDE DEF schema
  <2>3. /\ DOMAIN catalog = DOMAIN schema
        /\ catalog = [name \in DOMAIN catalog |-> catalog[name]]
        /\ schema = [name \in DOMAIN schema |-> schema[name]]
        /\ \A name \in DOMAIN catalog :
              \/ catalog[name] = schema[name]
              \/ name = "queue_entries" /\ r = 2 /\ catalog[name] = EntriesUndefaulted
    BY <2>1, <2>2 DEF CatalogAt, IsStandard, Due
  <2>4. CASE \A name \in DOMAIN catalog : catalog[name] = schema[name]
    <3>1. catalog = schema
      BY <2>3, <2>4
    <3> QED BY <2>1, <3>1 DEF SchemaFollowsRevision, schema
  <2>5. CASE ~ \A name \in DOMAIN catalog : catalog[name] = schema[name]
    <3>1. /\ r = 2 /\ "queue_entries" \in DOMAIN catalog
          /\ catalog["queue_entries"] = EntriesUndefaulted
          /\ \A name \in DOMAIN catalog \ {"queue_entries"} : catalog[name] = schema[name]
      BY <2>3, <2>5
    <3>2. schema["queue_entries"] = Entries /\ schema = SchemaAt[2]
      <4>1. Born("queue_entries") = 2
        BY DEF Born
      <4> QED BY <2>2, <2>3, <3>1, <4>1 DEF IsStandard, Standard, Creation, Entries, schema
    <3>3. WithoutDefault = [schema EXCEPT !["queue_entries"] = EntriesUndefaulted]
      BY <3>2 DEF WithoutDefault, EntriesUndefaulted
    <3>4. catalog = [schema EXCEPT !["queue_entries"] = EntriesUndefaulted]
      BY <2>3, <3>1
    <3>5. catalog = WithoutDefault
      BY <3>3, <3>4
    <3> QED BY <2>1, <3>1, <3>5 DEF SchemaFollowsRevision
  <2> QED BY <2>4, <2>5
<1> QED BY <1>1, SchemaInvariance, PTL

-----------------------------------------------------------------------------
(* The head and the ORM                                                    *)

\* The creations that no later script alters are the declarations of the ORM.
LEMMA CreatedAsDeclared ==
    \A name \in Objects \ {"queue_entries", "procurement_intents"} : Creation(name).as = Declared[name]
<1>1. CreateUserRole.as = Role /\ CreateCrops.as = Crop /\ CreateCentres.as = ProcurementCentre
  BY DEF CreateUserRole, CreateType, Role, CreateCrops, Create, Crop, CreateCentres, ProcurementCentre
<1>2. CreateFarmers.as = Farmer /\ CreateHoldings.as = FarmerLandHolding /\ CreateCounters.as = Counter
  BY DEF CreateFarmers, Create, Farmer, CreateHoldings, FarmerLandHolding, CreateCounters, Counter
<1>3. CreateUsers.as = User
  <2>1. {<<"role", "user_role", "TYPE">>, <<"centre_id", "procurement_centres", "RESTRICT">>,
         <<"farmer_id", "farmers", "RESTRICT">>} =
        {<<"centre_id", "procurement_centres", "RESTRICT">>, <<"farmer_id", "farmers", "RESTRICT">>,
         <<"role", "user_role", "TYPE">>}
    OBVIOUS
  <2> QED BY <2>1 DEF CreateUsers, Create, User
<1>4. CreateQueues.as = Queue /\ CreateTokens.as = Token
  BY DEF CreateQueues, Create, Queue, CreateTokens, Token
<1>5. CreateIntentStatus.as = IntentStatus /\ CreateTokenStatus.as = ProcurementTokenStatus
  BY DEF CreateIntentStatus, CreateTokenStatus, CreateType, IntentStatus, ProcurementTokenStatus
<1>6. CreateProcurementTokens.as = ProcurementToken /\ CreateRecords.as = ProcurementRecord
  BY DEF CreateProcurementTokens, Create, ProcurementToken, CreateRecords, ProcurementRecord
<1>7. CreateHistory.as = ProcurementStatusHistory
  <2>1. {"intent_id", "token_id", "from_status", "to_status", "changed_by", "changed_at", "remarks"} =
        {"intent_id", "from_status", "to_status", "changed_by", "changed_at", "token_id", "remarks"}
    OBVIOUS
  <2> QED BY <2>1 DEF CreateHistory, Create, ProcurementStatusHistory
<1>8. CreateCapacity.as = CapacityRecord
  BY DEF CreateCapacity, Create, CapacityRecord
<1>9. CreateRuns.as = AllocationRun /\ CreateDecisions.as = AllocationDecision
  BY DEF CreateRuns, Create, AllocationRun, CreateDecisions, AllocationDecision
<1>10. /\ Declared["user_role"] = Role /\ Declared["crops"] = Crop
       /\ Declared["procurement_centres"] = ProcurementCentre
       /\ Declared["farmers"] = Farmer /\ Declared["users"] = User
       /\ Declared["farmer_land_holdings"] = FarmerLandHolding /\ Declared["counters"] = Counter
       /\ Declared["queues"] = Queue /\ Declared["tokens"] = Token
       /\ Declared["intent_status_enum"] = IntentStatus
       /\ Declared["token_status_enum"] = ProcurementTokenStatus
       /\ Declared["procurement_tokens"] = ProcurementToken
       /\ Declared["procurement_records"] = ProcurementRecord
       /\ Declared["procurement_status_history"] = ProcurementStatusHistory
       /\ Declared["capacity_records"] = CapacityRecord
       /\ Declared["allocation_runs"] = AllocationRun
       /\ Declared["allocation_decisions"] = AllocationDecision
  BY DEF Declared
<1> SUFFICES ASSUME NEW name \in Objects \ {"queue_entries", "procurement_intents"}
             PROVE  Creation(name).as = Declared[name]
  OBVIOUS
<1>11. CASE Born(name) <= 1
  <2>1. name \in {"user_role", "crops", "procurement_centres", "farmers", "users",
                  "farmer_land_holdings", "counters"}
    BY <1>11 DEF Born, Objects
  <2> QED BY <1>1, <1>2, <1>3, <1>10, <2>1 DEF Creation
<1>12. CASE Born(name) > 1
  <2>1. name \in {"queues", "tokens", "intent_status_enum", "token_status_enum", "procurement_tokens",
                  "procurement_records", "procurement_status_history", "capacity_records",
                  "allocation_runs", "allocation_decisions"}
    BY <1>12 DEF Born, Objects
  <2> QED BY <1>4, <1>5, <1>6, <1>7, <1>8, <1>9, <1>10, <2>1 DEF Creation
<1> QED BY <1>11, <1>12, BornInRange

\* Script 3 drops the column, and script 6 the constraint, that the ORM does not have.
LEMMA AlteredAsDeclared ==
    /\ EntriesWithoutStatus = QueueEntry
    /\ IntentsWithoutSlot = ProcurementIntent
<1>1. EntriesWithoutStatus = QueueEntry
  <2> DEFINE refs == {<<"queue_id", "queues", "CASCADE">>, <<"farmer_id", "farmers", "RESTRICT">>}
             unique == {{"queue_id", "position"}}
             index == {{"queue_id"}, {"farmer_id"}}
             rest(c, d) == [columns |-> c, nullable |-> {}, defaults |-> d, refs |-> refs,
                            unique |-> unique, index |-> index, partial |-> {}, checks |-> {}]
             stamps == {"created_at", "updated_at"}
             C == ({"queue_id", "farmer_id", "position", "status"} \union {} \union stamps) \union {"id"}
             D == {"status"} \union stamps
  <2>1. Entries = rest(C, D)
    BY DEF Entries, CreateQueueEntries, Create, Stamped, Table
  <2>2. QueueEntry = rest(({"queue_id", "farmer_id", "position"} \union {} \union stamps) \union {"id"},
                          {} \union stamps)
    BY DEF QueueEntry, Stamped, Table
  <2>3. /\ C \ {"status"} = ({"queue_id", "farmer_id", "position"} \union {} \union stamps) \union {"id"}
        /\ D \ {"status"} = {} \union stamps
    OBVIOUS
  <2>4. ASSUME NEW c, NEW d, NEW x, NEW y PROVE WithColumns(rest(c, d), x, y) = rest(x, y)
    <3> HIDE DEF refs, unique, index
    <3>1. [rest(c, d) EXCEPT !.columns = x] = rest(x, d) /\ [rest(x, d) EXCEPT !.defaults = y] = rest(x, y)
      OBVIOUS
    <3>2. ASSUME NEW f PROVE WithColumns(f, x, y) = [[f EXCEPT !.columns = x] EXCEPT !.defaults = y]
      BY DEF WithColumns
    <3> HIDE DEF rest
    <3> QED BY <3>1, <3>2
  <2>5. \A c, d : rest(c, d).columns = c /\ rest(c, d).defaults = d
    OBVIOUS
  <2> HIDE DEF C, D, rest, stamps
  <2>6. EntriesWithoutStatus = WithColumns(Entries, Entries.columns \ {"status"}, Entries.defaults \ {"status"})
    BY DEF EntriesWithoutStatus, WithColumns
  <2>7. EntriesWithoutStatus = rest(C \ {"status"}, D \ {"status"})
    <3>1. Entries.columns = C /\ Entries.defaults = D
      BY <2>1, <2>5
    <3>2. EntriesWithoutStatus = WithColumns(rest(C, D), C \ {"status"}, D \ {"status"})
      BY <2>1, <2>6, <3>1
    <3> QED BY <2>4, <3>2
  <2> QED BY <2>2, <2>3, <2>7
<1>2. IntentsWithoutSlot = ProcurementIntent
  <2> DEFINE columns == {"farmer_id", "centre_id", "crop_id", "land_holding_id", "expected_quantity_kg",
                         "ready_date", "status", "created_by"}
             refs == {<<"farmer_id", "farmers", "RESTRICT">>, <<"centre_id", "procurement_centres", "RESTRICT">>,
                      <<"crop_id", "crops", "RESTRICT">>, <<"created_by", "users", "RESTRICT">>,
                      <<"land_holding_id", "farmer_land_holdings", "RESTRICT">>,
                      <<"status", "intent_status_enum", "TYPE">>}
             index == {{"farmer_id"}, {"centre_id"}, {"crop_id"}}
             partial == {[key |-> Slot, where |-> <<"NOT IN", {"CANCELLED", "REJECTED", "COMPLETED"}>>]}
             table(u) == Stamped(columns, {"cancellation_reason"}, {"id"}, refs, u, index)
  <2>1. Slot \union {"land_holding_id", "expected_quantity_kg", "status", "created_by"} = columns
    BY DEF Slot
  <2>2. CreateIntents.as = [table({Slot}) EXCEPT !.partial = partial]
    BY <2>1 DEF CreateIntents, Create
  <2>3. ProcurementIntent = [table({}) EXCEPT !.partial = partial]
    BY DEF ProcurementIntent, Slot
  <2>4. \A u : LET t == table(u)
               IN  t = [columns |-> t.columns, nullable |-> t.nullable, defaults |-> t.defaults,
                        refs |-> t.refs, unique |-> u, index |-> t.index,
                        partial |-> t.partial, checks |-> t.checks]
    BY DEF Stamped, Table
  <2>5. /\ table({}).columns = table({Slot}).columns /\ table({}).nullable = table({Slot}).nullable
        /\ table({}).defaults = table({Slot}).defaults /\ table({}).refs = table({Slot}).refs
        /\ table({}).index = table({Slot}).index /\ table({}).checks = table({Slot}).checks
    BY DEF Stamped, Table
  <2> HIDE DEF table, partial
  <2> DEFINE t == table({})
             made(u) == [columns |-> t.columns, nullable |-> t.nullable, defaults |-> t.defaults,
                         refs |-> t.refs, unique |-> u, index |-> t.index,
                         partial |-> partial, checks |-> t.checks]
  <2>6. CreateIntents.as = made({Slot})
    BY <2>2, <2>4, <2>5
  <2>7. ProcurementIntent = made({})
    BY <2>3, <2>4
  <2>8. [made({Slot}) EXCEPT !.unique = {}] = made({}) /\ made({Slot}).unique = {Slot}
    OBVIOUS
  <2> HIDE DEF made
  <2>9. IntentsWithoutSlot = [made({Slot}) EXCEPT !.unique = {}]
    <3>1. {Slot} \ {Slot} = {}
      OBVIOUS
    <3>2. IntentsWithoutSlot = [made({Slot}) EXCEPT !.unique = made({Slot}).unique \ {Slot}]
      BY <2>6 DEF IntentsWithoutSlot
    <3> QED BY <2>8, <3>1, <3>2
  <2> QED BY <2>7, <2>8, <2>9
<1> QED BY <1>1, <1>2

\* The classes of app/models declare what the scripts of src/migrations/versions make: a database
\* at the head has the ORM's schema, however often and by whom it was migrated up and down.
THEOREM HeadIsTheModels == Spec => []HeadMatchesModels
<1>1. FullInv => HeadMatchesModels
  <2> SUFFICES ASSUME FullInv, versions = {7} PROVE catalog = Declared
    BY DEF HeadMatchesModels
  <2>1. CatalogAt(7)
    BY DEF FullInv, SchemaInv, HeadOf
  <2>2. /\ DOMAIN catalog = Objects /\ catalog = [name \in Objects |-> catalog[name]]
        /\ \A name \in Objects : catalog[name] = Standard(name, 7)
    BY <2>1, BornInRange DEF CatalogAt, Due
  <2>3. Declared["queue_entries"] = QueueEntry /\ Declared["procurement_intents"] = ProcurementIntent
    BY DEF Declared
  <2>4. \A name \in Objects : Standard(name, 7) = Declared[name]
    BY <2>3, BornInRange, CreatedAsDeclared, AlteredAsDeclared DEF Standard
  <2>5. Declared = [name \in Objects |-> Declared[name]]
    BY DEF Declared, Objects
  <2>6. \A name \in Objects : catalog[name] = Declared[name]
    BY <2>2, <2>4
  <2> QED BY <2>2, <2>5, <2>6
<1> QED BY <1>1, SchemaInvariance, PTL

-----------------------------------------------------------------------------
(* The scripts in the order of the references                              *)

\* Where an object stands in the order of its creation.
Place(name) ==
    CASE name = "user_role" -> 1 [] name = "crops" -> 2 [] name = "procurement_centres" -> 3
      [] name = "farmers" -> 4 [] name = "users" -> 5 [] name = "farmer_land_holdings" -> 6
      [] name = "counters" -> 7 [] name = "queues" -> 8 [] name = "queue_entries" -> 9
      [] name = "tokens" -> 10 [] name = "intent_status_enum" -> 11 [] name = "token_status_enum" -> 12
      [] name = "procurement_intents" -> 13 [] name = "procurement_tokens" -> 14
      [] name = "procurement_records" -> 15 [] name = "procurement_status_history" -> 16
      [] name = "capacity_records" -> 17 [] name = "allocation_runs" -> 18
      [] name = "allocation_decisions" -> 19

LEMMA Places ==
    \A name \in Objects :
        /\ Place(name) \in 1 .. 19
        /\ Born(name) = IF Place(name) <= 7 THEN 1 ELSE IF Place(name) <= 10 THEN 2
                        ELSE IF Place(name) <= 16 THEN 4 ELSE IF Place(name) = 17 THEN 5 ELSE 7
BY DEF Objects, Place, Born

\* Scripts that create, or drop: one statement for an object, in this order or against it.
Ascends(script) ==
    \A i, j \in 1 .. Len(script) : i < j => Place(script[i].on) < Place(script[j].on)
Descends(script) ==
    \A i, j \in 1 .. Len(script) : i < j => Place(script[j].on) < Place(script[i].on)

LEMMA UpgradesAscend == \A r \in {1, 2, 4, 5, 7} : Ascends(upgrade[r])
<1>1. Ascends(upgrade_0001)
  <2>1. /\ CreateUserRole.on = "user_role" /\ CreateCrops.on = "crops"
        /\ CreateCentres.on = "procurement_centres" /\ CreateFarmers.on = "farmers"
        /\ CreateUsers.on = "users" /\ CreateHoldings.on = "farmer_land_holdings"
        /\ CreateCounters.on = "counters"
    BY DEF CreateUserRole, CreateCentres, CreateFarmers, CreateUsers, CreateHoldings,
       CreateCounters, CreateCrops, Create, CreateType
  <2>2. \A i \in 1 .. 7 : Place(upgrade_0001[i].on) = i
    BY <2>1 DEF upgrade_0001, Place
  <2>3. Len(upgrade_0001) = 7
    BY DEF upgrade_0001
  <2> QED BY <2>2, <2>3 DEF Ascends
<1>2. Ascends(upgrade_0002)
  <2>1. /\ CreateQueues.on = "queues" /\ CreateQueueEntries.on = "queue_entries"
        /\ CreateTokens.on = "tokens"
    BY DEF CreateQueues, CreateQueueEntries, CreateTokens, Create
  <2>2. \A i \in 1 .. 3 : Place(upgrade_0002[i].on) = i + 7
    BY <2>1 DEF upgrade_0002, Place
  <2>3. Len(upgrade_0002) = 3
    BY DEF upgrade_0002
  <2> QED BY <2>2, <2>3 DEF Ascends
<1>3. Ascends(upgrade_0004)
  <2>1. /\ CreateIntentStatus.on = "intent_status_enum" /\ CreateTokenStatus.on = "token_status_enum"
        /\ CreateIntents.on = "procurement_intents" /\ CreateProcurementTokens.on = "procurement_tokens"
        /\ CreateRecords.on = "procurement_records" /\ CreateHistory.on = "procurement_status_history"
    BY DEF CreateIntentStatus, CreateTokenStatus, CreateIntents, CreateProcurementTokens,
       CreateRecords, CreateHistory, Create, CreateType
  <2>2. \A i \in 1 .. 6 : Place(upgrade_0004[i].on) = i + 10
    BY <2>1 DEF upgrade_0004, Place
  <2>3. Len(upgrade_0004) = 6
    BY DEF upgrade_0004
  <2> QED BY <2>2, <2>3 DEF Ascends
<1>4. Ascends(upgrade_0005)
  BY DEF upgrade_0005, Ascends
<1>5. Ascends(upgrade_0007)
  <2>1. CreateRuns.on = "allocation_runs" /\ CreateDecisions.on = "allocation_decisions"
    BY DEF CreateRuns, CreateDecisions, Create
  <2>2. \A i \in 1 .. 2 : Place(upgrade_0007[i].on) = i + 17
    BY <2>1 DEF upgrade_0007, Place
  <2>3. Len(upgrade_0007) = 2
    BY DEF upgrade_0007
  <2> QED BY <2>2, <2>3 DEF Ascends
<1> QED BY <1>1, <1>2, <1>3, <1>4, <1>5 DEF upgrade

LEMMA DowngradesDescend == \A r \in {1, 2, 4, 5, 7} : Descends(downgrade[r])
<1>0. \A name : Drop(name).on = name /\ DropType(name).on = name
  BY DEF Drop, DropType
<1>1. Descends(downgrade_0001)
  <2>1. Len(downgrade_0001) = 7 /\ \A i \in 1 .. 7 : Place(downgrade_0001[i].on) = 8 - i
    BY <1>0 DEF downgrade_0001, Place
  <2> QED BY <2>1 DEF Descends
<1>2. Descends(downgrade_0002)
  <2>1. Len(downgrade_0002) = 3 /\ \A i \in 1 .. 3 : Place(downgrade_0002[i].on) = 11 - i
    BY <1>0 DEF downgrade_0002, Place
  <2> QED BY <2>1 DEF Descends
<1>3. Descends(downgrade_0004)
  <2>1. Len(downgrade_0004) = 6 /\ \A i \in 1 .. 6 : Place(downgrade_0004[i].on) = 17 - i
    BY <1>0 DEF downgrade_0004, Place
  <2> QED BY <2>1 DEF Descends
<1>4. Descends(downgrade_0005)
  BY DEF downgrade_0005, Descends
<1>5. Descends(downgrade_0007)
  <2>1. Len(downgrade_0007) = 2 /\ \A i \in 1 .. 2 : Place(downgrade_0007[i].on) = 20 - i
    BY <1>0 DEF downgrade_0007, Place
  <2> QED BY <2>1 DEF Descends
<1> QED BY <1>1, <1>2, <1>3, <1>4, <1>5 DEF downgrade

\* A table refers to what is created before it.
LEMMA ParentsFirst ==
    \A name \in Objects \ EnumTypes :
        \A parent \in Parents(Creation(name).as) : parent \in Objects /\ Place(parent) < Place(name)
<1>1. /\ CreateCrops.as.refs = {} /\ CreateCentres.as.refs = {} /\ CreateFarmers.as.refs = {}
  BY DEF CreateCrops, CreateCentres, CreateFarmers, Create, Stamped, Table
<1>2. CreateUsers.as.refs =
        {<<"role", "user_role", "TYPE">>, <<"centre_id", "procurement_centres", "RESTRICT">>,
         <<"farmer_id", "farmers", "RESTRICT">>}
  BY DEF CreateUsers, Create, Stamped, Table
<1>3. CreateHoldings.as.refs = {<<"farmer_id", "farmers", "RESTRICT">>}
  BY DEF CreateHoldings, Create, Stamped, Table
<1>4. CreateCounters.as.refs = {<<"centre_id", "procurement_centres", "RESTRICT">>}
  BY DEF CreateCounters, Create, Stamped, Table
<1>5. CreateQueues.as.refs = {<<"centre_id", "procurement_centres", "RESTRICT">>,
                              <<"crop_id", "crops", "RESTRICT">>}
  BY DEF CreateQueues, Create, Stamped, Table
<1>6. CreateQueueEntries.as.refs = {<<"queue_id", "queues", "CASCADE">>,
                                    <<"farmer_id", "farmers", "RESTRICT">>}
  BY DEF CreateQueueEntries, Create, Stamped, Table
<1>7. CreateTokens.as.refs = {<<"queue_id", "queues", "CASCADE">>,
                              <<"queue_entry_id", "queue_entries", "CASCADE">>,
                              <<"farmer_id", "farmers", "RESTRICT">>,
                              <<"counter_id", "counters", "RESTRICT">>}
  BY DEF CreateTokens, Create, Stamped, Table
<1>8. CreateIntents.as.refs =
        {<<"farmer_id", "farmers", "RESTRICT">>, <<"centre_id", "procurement_centres", "RESTRICT">>,
         <<"crop_id", "crops", "RESTRICT">>, <<"created_by", "users", "RESTRICT">>,
         <<"land_holding_id", "farmer_land_holdings", "RESTRICT">>,
         <<"status", "intent_status_enum", "TYPE">>}
  BY DEF CreateIntents, Create, Stamped, Table
<1>9. CreateProcurementTokens.as.refs =
        {<<"intent_id", "procurement_intents", "RESTRICT">>,
         <<"centre_id", "procurement_centres", "RESTRICT">>,
         <<"status", "token_status_enum", "TYPE">>}
  BY DEF CreateProcurementTokens, Create, Stamped, Table
<1>10. CreateRecords.as.refs =
        {<<"intent_id", "procurement_intents", "RESTRICT">>,
         <<"token_id", "procurement_tokens", "RESTRICT">>, <<"counter_id", "counters", "RESTRICT">>}
  BY DEF CreateRecords, Create, Stamped, Table
<1>11. CreateHistory.as.refs =
        {<<"intent_id", "procurement_intents", "RESTRICT">>,
         <<"token_id", "procurement_tokens", "RESTRICT">>, <<"changed_by", "users", "RESTRICT">>}
  BY DEF CreateHistory, Create, Table
<1>12. CreateCapacity.as.refs = {<<"centre_id", "procurement_centres", "RESTRICT">>,
                                 <<"crop_id", "crops", "RESTRICT">>}
  BY DEF CreateCapacity, Create, Stamped, Table
<1>13. CreateRuns.as.refs = {<<"centre_id", "procurement_centres", "CASCADE">>,
                             <<"crop_id", "crops", "CASCADE">>}
  BY DEF CreateRuns, Create, Table
<1>14. CreateDecisions.as.refs =
        {<<"allocation_run_id", "allocation_runs", "CASCADE">>,
         <<"intent_id", "procurement_intents", "CASCADE">>, <<"farmer_id", "farmers", "CASCADE">>}
  BY DEF CreateDecisions, Create, Table
<1>15. \A table : Parents(table) = {ref[2] : ref \in table.refs}
  BY DEF Parents
<1>16. \A name \in Objects : name \notin EnumTypes => Born(name) \in {1, 2, 4, 5, 7}
  BY DEF Objects, Born
<1> SUFFICES ASSUME NEW name \in Objects, name \notin EnumTypes,
                    NEW parent \in Parents(Creation(name).as)
             PROVE  parent \in Objects /\ Place(parent) < Place(name)
  OBVIOUS
<1>17. CASE Born(name) = 1
  <2>1. name \in {"crops", "procurement_centres", "farmers", "users", "farmer_land_holdings", "counters"}
    BY <1>17 DEF Born, Objects, EnumTypes
  <2>2. CASE name \in {"crops", "procurement_centres", "farmers"}
    BY <1>1, <1>15, <2>2 DEF Creation
  <2>3. CASE name = "users"
    BY <1>2, <1>15, <2>3 DEF Creation, Place, Objects
  <2>4. CASE name = "farmer_land_holdings"
    BY <1>3, <1>15, <2>4 DEF Creation, Place, Objects
  <2>5. CASE name = "counters"
    BY <1>4, <1>15, <2>5 DEF Creation, Place, Objects
  <2> QED BY <2>1, <2>2, <2>3, <2>4, <2>5
<1>18. CASE Born(name) = 2
  <2>1. name \in {"queues", "queue_entries", "tokens"}
    BY <1>18 DEF Born
  <2>2. CASE name = "queues"
    BY <1>5, <1>15, <2>2 DEF Creation, Place, Objects
  <2>3. CASE name = "queue_entries"
    BY <1>6, <1>15, <2>3 DEF Creation, Place, Objects
  <2>4. CASE name = "tokens"
    BY <1>7, <1>15, <2>4 DEF Creation, Place, Objects
  <2> QED BY <2>1, <2>2, <2>3, <2>4
<1>19. CASE Born(name) = 4
  <2>1. name \in {"procurement_intents", "procurement_tokens", "procurement_records",
                  "procurement_status_history"}
    BY <1>19 DEF Born, EnumTypes
  <2>2. CASE name = "procurement_intents"
    BY <1>8, <1>15, <2>2 DEF Creation, Place, Objects
  <2>3. CASE name = "procurement_tokens"
    BY <1>9, <1>15, <2>3 DEF Creation, Place, Objects
  <2>4. CASE name = "procurement_records"
    BY <1>10, <1>15, <2>4 DEF Creation, Place, Objects
  <2>5. CASE name = "procurement_status_history"
    BY <1>11, <1>15, <2>5 DEF Creation, Place, Objects
  <2> QED BY <2>1, <2>2, <2>3, <2>4, <2>5
<1>20. CASE Born(name) \in {5, 7}
  <2>1. name \in {"capacity_records", "allocation_runs", "allocation_decisions"}
    BY <1>20 DEF Born
  <2>2. CASE name = "capacity_records"
    BY <1>12, <1>15, <2>2 DEF Creation, Place, Objects
  <2>3. CASE name = "allocation_runs"
    BY <1>13, <1>15, <2>3 DEF Creation, Place, Objects
  <2>4. CASE name = "allocation_decisions"
    BY <1>14, <1>15, <2>4 DEF Creation, Place, Objects
  <2> QED BY <2>1, <2>2, <2>3, <2>4
<1> QED BY <1>16, <1>17, <1>18, <1>19, <1>20

-----------------------------------------------------------------------------
(* The scripts fit the schema they meet                                    *)

\* The alterations leave the references alone.
LEMMA SameReferences ==
    ASSUME NEW name \in Objects \ EnumTypes, NEW q \in 0 .. 7, NEW object \in Due(name, q), object # Gone
    PROVE  Parents(object) = Parents(Creation(name).as)
<1>1. EntriesUndefaulted.refs = Entries.refs /\ EntriesWithoutStatus.refs = Entries.refs
  <2>1. Entries = [columns |-> Entries.columns, nullable |-> Entries.nullable,
                   defaults |-> Entries.defaults, refs |-> Entries.refs, unique |-> Entries.unique,
                   index |-> Entries.index, partial |-> Entries.partial, checks |-> Entries.checks]
    BY DEF Entries, CreateQueueEntries, Create, Stamped, Table
  <2>2. ASSUME NEW f, NEW x, NEW y, "refs" \in DOMAIN f
        PROVE  /\ [f EXCEPT !.defaults = y].refs = f.refs
               /\ [f EXCEPT !.columns = x, !.defaults = y].refs = f.refs
    BY <2>2
  <2>3. "refs" \in DOMAIN Entries
    BY <2>1
  <2> QED BY <2>2, <2>3 DEF EntriesUndefaulted, EntriesWithoutStatus
<1>2. IntentsWithoutSlot.refs = CreateIntents.as.refs
  <2>1. "refs" \in DOMAIN CreateIntents.as
    BY DEF CreateIntents, Create, Stamped, Table
  <2>2. ASSUME NEW f, NEW x, "refs" \in DOMAIN f PROVE [f EXCEPT !.unique = x].refs = f.refs
    BY <2>2
  <2> QED BY <2>1, <2>2 DEF IntentsWithoutSlot
<1>3. \/ object = Creation(name).as
      \/ name = "queue_entries" /\ object \in {EntriesUndefaulted, EntriesWithoutStatus}
      \/ name = "procurement_intents" /\ object = IntentsWithoutSlot
  BY DEF Due, Standard
<1> QED BY <1>1, <1>2, <1>3 DEF Parents, Creation, Entries

\* Whether an object is there in the middle of a run.
Touched(name, r) == \E i \in 1 .. r.done : Script(r)[i].on = name
Present(name, r) == Born(name) <= IF Touched(name, r) THEN Toward(r) ELSE r.rev

Before(view, r) ==
    /\ DOMAIN view = {name \in Objects : Present(name, r)}
    /\ \A name \in DOMAIN view : view[name] # Gone /\ view[name] \in Midway(name, r)

\* If no other run has committed, a transaction sees what its own run has made so far.
LEMMA ViewOfRun ==
    ASSUME FullInv, NEW m \in Migrators, run[m] # NoRun, run[m].rev # run[m].to,
           versions = HeadOf(run[m].from)
    PROVE  Before(View(m), run[m])
<1> DEFINE r == run[m]
           seen == Above(draft[m], catalog)
           view == View(m)
<1>1. IsRun(r) /\ Toward(r) \in 0 .. 7 /\ r.rev \in 0 .. 7 /\ r.from \in 0 .. 7
  BY ScriptOfRun DEF FullInv, Inv, RunInv, IsRun
<1>2. CatalogAt(r.from)
  BY <1>1 DEF FullInv, SchemaInv, HeadOf
<1>3. /\ DOMAIN draft[m] \subseteq Objects
      /\ \A name \in Objects :
            IF name \in DOMAIN draft[m] THEN draft[m][name] \in Midway(name, r)
            ELSE Midway(name, r) = Due(name, r.from)
  BY DEF FullInv, DraftInv
<1>4. /\ DOMAIN seen = DOMAIN draft[m] \union DOMAIN catalog
      /\ \A name \in DOMAIN seen :
            seen[name] = IF name \in DOMAIN draft[m] THEN draft[m][name] ELSE catalog[name]
      /\ view = [name \in {n \in DOMAIN seen : seen[n] # Gone} |-> seen[name]]
  BY DEF View, Above
<1> HIDE DEF seen, view, r
<1>5. ASSUME NEW name \in Objects, NEW object \in Midway(name, r)
      PROVE  object # Gone <=> Present(name, r)
  <2>0. Born(name) \in 1 .. 8
    BY BornInRange
  <2>1. CASE Touched(name, r)
    <3>1. object \in Due(name, Toward(r))
      BY <1>5, <2>1 DEF Midway, Touched
    <3> QED BY <1>1, <2>0, <2>1, <3>1, NotGone DEF Present
  <2>2. CASE ~ Touched(name, r)
    <3>1. object \in Due(name, r.rev)
      BY <1>5, <2>2 DEF Midway, Touched
    <3> QED BY <1>1, <2>0, <2>2, <3>1, NotGone DEF Present
  <2> QED BY <2>1, <2>2
<1>6. ASSUME NEW name \in Objects
      PROVE  /\ name \in DOMAIN view <=> Present(name, r)
             /\ name \in DOMAIN view => view[name] # Gone /\ view[name] \in Midway(name, r)
  <2>1. CASE name \in DOMAIN draft[m]
    <3>1. seen[name] \in Midway(name, r) /\ name \in DOMAIN seen
      BY <1>3, <1>4, <2>1
    <3>2. seen[name] # Gone <=> Present(name, r)
      BY <1>5, <3>1
    <3> QED BY <1>4, <3>1, <3>2
  <2>2. CASE name \notin DOMAIN draft[m]
    <3>0. Born(name) \in 1 .. 8 /\ Standard(name, r.from) \in Due(name, r.from)
      BY BornInRange DEF Due
    <3>1. Midway(name, r) = Due(name, r.from)
      BY <1>3, <2>2
    <3>2. Present(name, r) <=> Born(name) <= r.from
      <4>1. Standard(name, r.from) # Gone <=> Present(name, r)
        BY <1>5, <3>0, <3>1
      <4>2. Standard(name, r.from) = Gone <=> r.from < Born(name)
        BY <1>1, <3>0, NotGone
      <4> QED BY <1>1, <3>0, <4>1, <4>2
    <3>3. name \in DOMAIN catalog <=> Present(name, r)
      BY <1>2, <3>2 DEF CatalogAt
    <3>4. ASSUME name \in DOMAIN catalog
          PROVE  /\ name \in DOMAIN seen /\ seen[name] = catalog[name]
                 /\ seen[name] \in Midway(name, r) /\ seen[name] # Gone
      <4>1. name \in DOMAIN seen /\ seen[name] = catalog[name]
        BY <1>4, <2>2, <3>4
      <4>2. catalog[name] \in Midway(name, r)
        BY <1>2, <3>1, <3>4 DEF CatalogAt
      <4>3. catalog[name] # Gone
        BY <1>5, <3>3, <3>4, <4>2
      <4> QED BY <4>1, <4>2, <4>3
    <3> QED BY <1>4, <2>2, <3>3, <3>4
  <2> QED BY <2>1, <2>2
<1>7. DOMAIN view \subseteq Objects
  BY <1>2, <1>3, <1>4 DEF CatalogAt
<1>8. Before(view, r)
  BY <1>6, <1>7 DEF Before
<1> QED BY <1>8 DEF view, r

\* The scripts of the downgrades drop objects and add a column and a constraint.
LEMMA DowngradesNeverCreate ==
    \A r \in 1 .. 7 : \A i \in 1 .. Len(downgrade[r]) :
        downgrade[r][i].op \notin {"create", "createType", "dropColumn", "dropUnique"}
<1> DEFINE Ok(script) == \A i \in 1 .. Len(script) :
                script[i].op \notin {"create", "createType", "dropColumn", "dropUnique"}
<1>1. \A name : Drop(name).op = "drop" /\ DropType(name).op = "dropType"
  BY DEF Drop, DropType
<1>2. Ok(downgrade_0001)
  BY <1>1 DEF downgrade_0001
<1>3. Ok(downgrade_0002) /\ Ok(downgrade_0005) /\ Ok(downgrade_0007)
  BY <1>1 DEF downgrade_0002, downgrade_0005, downgrade_0007
<1>4. Ok(downgrade_0003) /\ Ok(downgrade_0006)
  BY DEF downgrade_0003, downgrade_0006, Alter
<1>5. Ok(downgrade_0004)
  BY <1>1 DEF downgrade_0004
<1> HIDE DEF Ok
<1>6. \A r \in 1 .. 7 : Ok(downgrade[r])
  BY <1>2, <1>3, <1>4, <1>5 DEF downgrade
<1> QED BY <1>6 DEF Ok

\* In a list whose places ascend (or descend), the place of an entry says which comes first.
LEMMA FirstInOrder ==
    ASSUME NEW a \in Int, NEW b \in Int, NEW i \in Int, NEW k \in Int
    PROVE  /\ a < b /\ (k < i => b < a) /\ (i = k => a = b) => i < k
           /\ b < a /\ (k < i => a < b) /\ (i = k => a = b) => i < k
OBVIOUS

\* A statement that creates or drops comes once in its script, and in the order of the references.
LEMMA OrderOfScript ==
    ASSUME NEW r, IsRun(r), r.rev # r.to, r.done < Len(Script(r)),
           NEW s, s = Script(r)[r.done + 1], s.op \in {"create", "createType", "drop", "dropType"}
    PROVE  /\ s.on \in Objects /\ ~ Touched(s.on, r)
           /\ IF s.op \in {"create", "createType"}
              THEN /\ Born(s.on) = Toward(r) /\ Toward(r) = r.rev + 1 /\ s = Creation(s.on)
                   /\ \A name \in Objects : Place(name) < Place(s.on) =>
                        Born(name) <= r.rev \/ (Born(name) = Toward(r) /\ Touched(name, r))
              ELSE /\ Born(s.on) = r.rev /\ Toward(r) = r.rev - 1
                   /\ \A name \in Objects : Place(s.on) < Place(name) =>
                        Born(name) > r.rev \/ (Born(name) = r.rev /\ Touched(name, r))
<1> DEFINE script == Script(r)
           k == r.done + 1
           place(i) == Place(script[i].on)
<1>1. r.rev \in 0 .. 7 /\ r.to \in 0 .. 7 /\ r.done \in Nat
  BY DEF IsRun
<1>2. Fits(s, Toward(r)) /\ k \in 1 .. Len(script) /\ Len(script) \in Nat
  <2>1. Len(script) \in Nat
    <3>1. IF r.to > r.rev THEN r.rev + 1 \in 1 .. 7 ELSE r.rev \in 1 .. 7
      BY <1>1
    <3> QED BY <3>1, ScriptsAreLists DEF Script, IsList
  <2>2. k \in 1 .. Len(script)
    BY <1>1, <2>1
  <2> QED BY <2>1, <2>2, ScriptOfRun
<1>3. s.on \in Objects /\ \A name \in Objects : Place(name) \in 1 .. 19 /\ Born(name) \in 1 .. 8
  BY <1>2, Places, BornInRange DEF Fits
<1>4. place(k) = Place(s.on) /\ \A i \in 1 .. Len(script) : place(i) \in 1 .. 19
  BY <1>2, <1>3, ScriptOfRun DEF Fits
<1>7. \A i \in 1 .. Len(script) : i < k <=> i \in 1 .. r.done
  BY <1>1, <1>2
<1>5. CASE r.to > r.rev
  <2> DEFINE new == r.rev + 1
  <2>1. new \in 1 .. 7 /\ Toward(r) = new /\ script = upgrade[new] /\ new = r.rev + 1
    BY <1>1, <1>5 DEF Toward, Script
  <2> HIDE DEF new
  <2>2. s.op \in {"create", "createType"}
    <3>1. s.op \in {"create", "createType", "dropColumn", "dropUnique"}
      BY <1>2, <2>1, UpgradesNeverDrop
    <3> QED BY <3>1
  <2>3. Born(s.on) = new /\ s = Creation(s.on)
    BY <1>2, <2>1, <2>2 DEF Fits, Alter
  <2>4. Ascends(script)
    <3>1. new \in {1, 2, 4, 5, 7}
      BY <1>3, <2>1, <2>3, Places
    <3> QED BY <2>1, <3>1, UpgradesAscend
  <2> HIDE DEF script
  <2>5. \A i \in 1 .. Len(script) : i < k => place(i) < place(k)
    BY <1>2, <2>4 DEF Ascends
  <2>6. \A i \in 1 .. Len(script) : k < i => place(k) < place(i)
    BY <1>2, <2>4 DEF Ascends
  <2>7. ~ Touched(s.on, r)
    <3> SUFFICES ASSUME NEW i \in 1 .. r.done, script[i].on = s.on PROVE FALSE
      BY DEF Touched, script
    <3>1. i \in 1 .. Len(script) /\ i < k
      BY <1>1, <1>2
    <3>2. place(i) < place(k) /\ place(i) = place(k)
      BY <1>4, <2>5, <3>1
    <3>3. place(k) \in 1 .. 19
      BY <1>2, <1>4
    <3> HIDE DEF place
    <3> QED BY <3>2, <3>3
  <2>8. ASSUME NEW name \in Objects, Place(name) < Place(s.on)
        PROVE  Born(name) <= r.rev \/ (Born(name) = Toward(r) /\ Touched(name, r))
    <3>1. Born(name) <= Born(s.on)
      BY <1>3, <2>8, Places
    <3>2. CASE Born(name) = new
      <4>1. PICK i \in 1 .. Len(script) : script[i].on = name
        BY <2>1, <3>2, ScriptsReach DEF Reaches, Changes
      <4>2. i < k
        <5>1. place(i) < place(k) /\ place(i) \in Int /\ place(k) \in Int
          <6>1. place(i) < place(k) /\ place(i) \in 1 .. 19 /\ place(k) \in 1 .. 19
            BY <1>2, <1>4, <2>8, <4>1
          <6>2. \A x \in 1 .. 19 : x \in Int
            OBVIOUS
          <6> HIDE DEF place
          <6> QED BY <6>1, <6>2
        <5>2. k < i => place(k) < place(i)
          BY <2>6
        <5>3. i \in Int /\ k \in Int
          BY <1>1
        <5>4. i = k => place(i) = place(k)
          OBVIOUS
        <5> HIDE DEF place, k
        <5> QED BY <5>1, <5>2, <5>3, <5>4, FirstInOrder
      <4>3. i \in 1 .. r.done
        BY <1>2, <1>7, <4>2
      <4> QED BY <2>1, <3>2, <4>1, <4>3 DEF Touched, script
    <3>3. CASE Born(name) # new
      BY <1>1, <1>3, <2>1, <2>3, <3>1, <3>3
    <3> QED BY <3>2, <3>3
  <2> QED BY <1>3, <2>1, <2>2, <2>3, <2>7, <2>8
<1>6. CASE ~ (r.to > r.rev)
  <2> DEFINE old == r.rev
  <2>1. old \in 1 .. 7 /\ Toward(r) = old - 1 /\ script = downgrade[old] /\ old = r.rev
    BY <1>1, <1>6 DEF Toward, Script
  <2> HIDE DEF old
  <2>2. s.op \in {"drop", "dropType"} /\ Born(s.on) = old
    <3>1. s.op \notin {"create", "createType", "dropColumn", "dropUnique"}
      BY <1>2, <2>1, DowngradesNeverCreate
    <3>2. s.op \in {"drop", "dropType"}
      BY <3>1
    <3>3. Born(s.on) = (old - 1) + 1
      BY <1>2, <2>1, <3>2 DEF Fits, Alter
    <3> QED BY <2>1, <3>2, <3>3
  <2>3. Descends(script)
    <3>1. old \in {1, 2, 4, 5, 7}
      BY <1>3, <2>1, <2>2, Places
    <3> QED BY <2>1, <3>1, DowngradesDescend
  <2> HIDE DEF script
  <2>4. \A i \in 1 .. Len(script) : i < k => place(k) < place(i)
    BY <1>2, <2>3 DEF Descends
  <2>5. \A i \in 1 .. Len(script) : k < i => place(i) < place(k)
    BY <1>2, <2>3 DEF Descends
  <2>6. ~ Touched(s.on, r)
    <3> SUFFICES ASSUME NEW i \in 1 .. r.done, script[i].on = s.on PROVE FALSE
      BY DEF Touched, script
    <3>1. i \in 1 .. Len(script) /\ i < k
      BY <1>1, <1>2
    <3>2. place(k) < place(i) /\ place(i) = place(k)
      BY <1>4, <2>4, <3>1
    <3>3. place(k) \in 1 .. 19
      BY <1>2, <1>4
    <3> HIDE DEF place
    <3> QED BY <3>2, <3>3
  <2>7. ASSUME NEW name \in Objects, Place(s.on) < Place(name)
        PROVE  Born(name) > r.rev \/ (Born(name) = r.rev /\ Touched(name, r))
    <3>1. Born(s.on) <= Born(name)
      BY <1>3, <2>7, Places
    <3>2. CASE Born(name) = old
      <4>1. PICK i \in 1 .. Len(script) : script[i].on = name
        BY <2>1, <3>2, ScriptsReach DEF Reaches, Changes
      <4>2. i < k
        <5>1. place(k) < place(i) /\ place(i) \in Int /\ place(k) \in Int
          <6>1. place(k) < place(i) /\ place(i) \in 1 .. 19 /\ place(k) \in 1 .. 19
            BY <1>2, <1>4, <2>7, <4>1
          <6>2. \A x \in 1 .. 19 : x \in Int
            OBVIOUS
          <6> HIDE DEF place
          <6> QED BY <6>1, <6>2
        <5>2. k < i => place(i) < place(k)
          BY <2>5
        <5>3. i \in Int /\ k \in Int
          BY <1>1
        <5>4. i = k => place(i) = place(k)
          OBVIOUS
        <5> HIDE DEF place, k
        <5> QED BY <5>1, <5>2, <5>3, <5>4, FirstInOrder
      <4>3. i \in 1 .. r.done
        BY <1>2, <1>7, <4>2
      <4> QED BY <2>1, <3>2, <4>1, <4>3 DEF Touched, script
    <3>3. CASE Born(name) # old
      BY <1>1, <1>3, <2>1, <2>2, <3>1, <3>3
    <3> QED BY <3>2, <3>3
  <2> QED BY <1>3, <2>1, <2>2, <2>6, <2>7
<1> QED BY <1>5, <1>6

\* What a run meets of its own making is as its script expects.
LEMMA ScriptFitsView ==
    ASSUME NEW r, IsRun(r), r.rev # r.to, r.done < Len(Script(r)),
           NEW s, s = Script(r)[r.done + 1], NEW view, Before(view, r)
    PROVE  Verdict(view, s) # "ProgrammingError"
<1>1. Fits(s, Toward(r)) /\ r.rev \in 0 .. 7 /\ r.done \in Nat /\ Toward(r) \in 0 .. 7
      /\ r.done + 1 <= Len(Script(r)) /\ r.to \in 0 .. 7
  <2>1. r.rev \in 0 .. 7 /\ r.done \in Nat /\ r.done + 1 <= Len(Script(r)) /\ r.to \in 0 .. 7
    BY Statements DEF IsRun
  <2>2. Len(Script(r)) \in Nat
    <3>1. IF r.to > r.rev THEN r.rev + 1 \in 1 .. 7 ELSE r.rev \in 1 .. 7
      BY <2>1 DEF IsRun
    <3> QED BY <3>1, ScriptsAreLists DEF Script, IsList
  <2>3. r.done + 1 \in 1 .. Len(Script(r))
    BY <2>1, <2>2
  <2> QED BY <2>1, <2>3, ScriptOfRun
<1>2. \A name \in Objects : Born(name) \in 1 .. 8 /\ Place(name) \in 1 .. 19
  BY Places, BornInRange
<1>3. \A name : name \in DOMAIN view <=> name \in Objects /\ Present(name, r)
  BY DEF Before
<1>4. ASSUME s.op \in {"create", "createType"} PROVE Verdict(view, s) # "ProgrammingError"
  <2>1. /\ s.on \in Objects /\ ~ Touched(s.on, r) /\ Born(s.on) = r.rev + 1 /\ Toward(r) = r.rev + 1
        /\ s = Creation(s.on)
        /\ \A name \in Objects : Place(name) < Place(s.on) =>
                Born(name) <= r.rev \/ (Born(name) = Toward(r) /\ Touched(name, r))
    BY <1>4, OrderOfScript
  <2>2. s.on \notin DOMAIN view
    BY <1>1, <1>3, <2>1 DEF Present
  <2>3. CASE s.op = "create"
    <3>1. s.on \notin EnumTypes
      <4>1. CreateUserRole.op # "create" /\ CreateIntentStatus.op # "create" /\ CreateTokenStatus.op # "create"
        BY DEF CreateUserRole, CreateIntentStatus, CreateTokenStatus, CreateType
      <4> QED BY <2>1, <2>3, <4>1 DEF EnumTypes, Creation
    <3>2. \A parent \in Parents(s.as) : parent \in Objects /\ Place(parent) < Place(s.on)
      BY <2>1, <3>1, ParentsFirst
    <3>3. ASSUME NEW name \in Objects, Place(name) < Place(s.on) PROVE Present(name, r)
      <4>1. Born(name) <= r.rev \/ (Born(name) = Toward(r) /\ Touched(name, r))
        BY <2>1, <3>3
      <4>2. Born(name) \in 1 .. 8
        BY <1>2
      <4> QED BY <1>1, <2>1, <4>1, <4>2 DEF Present
    <3>4. Parents(s.as) \subseteq DOMAIN view
      BY <1>3, <3>2, <3>3
    <3> QED BY <2>2, <2>3, <3>4 DEF Verdict
  <2>4. CASE s.op = "createType"
    BY <2>4 DEF Verdict
  <2> QED BY <1>4, <2>3, <2>4
<1>5. ASSUME s.op \in {"drop", "dropType"} PROVE Verdict(view, s) # "ProgrammingError"
  <2>1. /\ s.on \in Objects /\ ~ Touched(s.on, r) /\ Born(s.on) = r.rev /\ Toward(r) = r.rev - 1
        /\ \A name \in Objects : Place(s.on) < Place(name) =>
                Born(name) > r.rev \/ (Born(name) = r.rev /\ Touched(name, r))
    BY <1>5, OrderOfScript
  <2>2. s.on \in DOMAIN view
    BY <1>1, <1>3, <2>1 DEF Present
  <2>3. ~ ReferredTo(view, s.on)
    <3> SUFFICES ASSUME NEW other \in DOMAIN view, other \notin EnumTypes, s.on \in Parents(view[other])
                 PROVE  FALSE
      BY DEF ReferredTo
    <3>1. other \in Objects /\ Present(other, r)
      BY <1>3
    <3>2. view[other] # Gone /\ \E q \in 0 .. 7 : view[other] \in Due(other, q)
      <4>1. view[other] # Gone /\ view[other] \in Midway(other, r)
        BY DEF Before
      <4> QED BY <1>1, <4>1 DEF Midway
    <3>3. s.on \in Parents(Creation(other).as)
      BY <3>1, <3>2, SameReferences
    <3>4. Place(s.on) < Place(other)
      BY <3>1, <3>3, ParentsFirst
    <3>5. Born(other) > r.rev \/ (Born(other) = r.rev /\ Touched(other, r))
      BY <2>1, <3>1, <3>4
    <3>6. Born(other) \in 1 .. 8
      BY <1>2, <3>1
    <3> QED BY <1>1, <2>1, <3>1, <3>5, <3>6 DEF Present
  <2> QED BY <1>5, <2>2, <2>3 DEF Verdict
<1>6. ASSUME s.op \notin {"create", "createType", "drop", "dropType"}
      PROVE  Verdict(view, s) # "ProgrammingError"
  <2>0. Born("queue_entries") = 2 /\ Born("procurement_intents") = 4
        /\ "queue_entries" \in Objects /\ "procurement_intents" \in Objects
    BY DEF Born, Objects
  <2>1. /\ Len(upgrade[3]) = 1 /\ upgrade[3][1] = Alter("dropColumn", "queue_entries", "status")
        /\ Len(upgrade[6]) = 1 /\ upgrade[6][1] = Alter("dropUnique", "procurement_intents", Slot)
        /\ Len(downgrade[3]) = 2 /\ downgrade[3][1] = Alter("addColumn", "queue_entries", "status")
        /\ downgrade[3][2] = Alter("dropDefault", "queue_entries", "status")
        /\ Len(downgrade[6]) = 1 /\ downgrade[6][1] = Alter("addUnique", "procurement_intents", Slot)
    BY DEF upgrade, downgrade, upgrade_0003, upgrade_0006, downgrade_0003, downgrade_0006
  <2>2. \/ /\ r.rev = Toward(r) - 1 /\ Script(r) = upgrade[Toward(r)]
           /\ s.op \in {"create", "createType", "dropColumn", "dropUnique"}
        \/ /\ r.rev = Toward(r) + 1 /\ Script(r) = downgrade[r.rev]
           /\ s.op \notin {"create", "createType", "dropColumn", "dropUnique"}
    <3>1. Len(Script(r)) \in Nat
      <4>1. IF r.to > r.rev THEN r.rev + 1 \in 1 .. 7 ELSE r.rev \in 1 .. 7
        BY <1>1 DEF IsRun
      <4> QED BY <4>1, ScriptsAreLists DEF Script, IsList
    <3>2. r.done + 1 \in 1 .. Len(Script(r))
      BY <1>1, <3>1
    <3>3. CASE r.to > r.rev
      <4>1. Toward(r) \in 1 .. 7 /\ r.rev = Toward(r) - 1 /\ Script(r) = upgrade[Toward(r)]
        BY <1>1, <3>3 DEF Script, Toward
      <4> QED BY <3>2, <4>1, UpgradesNeverDrop
    <3>4. CASE ~ (r.to > r.rev)
      <4>1. r.rev \in 1 .. 7 /\ r.rev = Toward(r) + 1 /\ Script(r) = downgrade[r.rev]
        BY <1>1, <3>4 DEF Script, Toward, IsRun
      <4> QED BY <3>2, <4>1, DowngradesNeverCreate
    <3> QED BY <3>3, <3>4
  <2>3. /\ Midway(s.on, r) = IF Touched(s.on, r) THEN Due(s.on, Toward(r)) ELSE Due(s.on, r.rev)
        /\ s.on \in DOMAIN view => view[s.on] \in Midway(s.on, r)
    BY DEF Midway, Touched, Before
  <2>4. ASSUME s.op = "dropColumn" PROVE Verdict(view, s) # "ProgrammingError"
    <3>1. Toward(r) = 3 /\ s.on = "queue_entries" /\ s.as = "status"
      BY <1>1, <2>4 DEF Fits, Alter
    <3>2. r.rev = 2 /\ r.done = 0
      BY <1>1, <2>1, <2>2, <2>4, <3>1
    <3>3. ~ Touched(s.on, r)
      BY <3>2 DEF Touched
    <3>4. s.on \in DOMAIN view
      BY <1>3, <2>0, <3>1, <3>2, <3>3 DEF Present
    <3>5. view["queue_entries"] \in {Entries, EntriesUndefaulted}
      BY <2>0, <2>3, <3>1, <3>2, <3>3, <3>4 DEF Due, Standard, Creation, Entries
    <3> QED BY <2>4, <3>1, <3>4, <3>5, EntriesAltered DEF Verdict
  <2>5. ASSUME s.op = "addColumn" PROVE Verdict(view, s) # "ProgrammingError"
    <3>1. Toward(r) = 2 /\ s.on = "queue_entries" /\ s.as = "status"
      BY <1>1, <2>5 DEF Fits, Alter
    <3>2. r.rev = 3 /\ Script(r) = downgrade[3]
      BY <1>1, <2>2, <2>5, <3>1
    <3>3. r.done = 0
      <4>1. downgrade[3][2].op = "dropDefault"
        BY <2>1 DEF Alter
      <4>2. r.done \in {0, 1}
        BY <1>1, <2>1, <3>2
      <4> QED BY <2>5, <3>2, <4>1, <4>2
    <3>4. ~ Touched(s.on, r)
      BY <3>3 DEF Touched
    <3>5. s.on \in DOMAIN view
      BY <1>3, <2>0, <3>1, <3>2, <3>4 DEF Present
    <3>6. view["queue_entries"] = EntriesWithoutStatus
      BY <2>0, <2>3, <3>1, <3>2, <3>4, <3>5 DEF Due, Standard
    <3> QED BY <2>5, <3>1, <3>5, <3>6, EntriesAltered DEF Verdict
  <2>6. ASSUME s.op = "dropDefault" PROVE Verdict(view, s) # "ProgrammingError"
    <3>1. Toward(r) = 2 /\ s.on = "queue_entries" /\ s.as = "status"
      BY <1>1, <2>6 DEF Fits, Alter
    <3>2. r.rev = 3 /\ Script(r) = downgrade[3]
      BY <1>1, <2>2, <2>6, <3>1
    <3>3. Touched(s.on, r)
      <4>1. downgrade[3][1].op = "addColumn" /\ downgrade[3][1].on = "queue_entries"
        BY <2>1 DEF Alter
      <4>2. r.done # 0
        BY <2>6, <3>2, <4>1
      <4>3. 1 \in 1 .. r.done
        BY <1>1, <4>2
      <4> QED BY <3>1, <3>2, <4>1, <4>3 DEF Touched
    <3>4. s.on \in DOMAIN view
      BY <1>3, <2>0, <3>1, <3>3 DEF Present
    <3>5. view["queue_entries"] \in {Entries, EntriesUndefaulted}
      BY <2>0, <2>3, <3>1, <3>3, <3>4 DEF Due, Standard, Creation, Entries
    <3> QED BY <2>6, <3>1, <3>4, <3>5, EntriesAltered DEF Verdict
  <2>7. ASSUME s.op = "dropUnique" PROVE Verdict(view, s) # "ProgrammingError"
    <3>1. Toward(r) = 6 /\ s.on = "procurement_intents" /\ s.as = Slot
      BY <1>1, <2>7 DEF Fits, Alter
    <3>2. r.rev = 5 /\ r.done = 0
      BY <1>1, <2>1, <2>2, <2>7, <3>1
    <3>3. ~ Touched(s.on, r)
      BY <3>2 DEF Touched
    <3>4. s.on \in DOMAIN view
      BY <1>3, <2>0, <3>1, <3>2, <3>3 DEF Present
    <3>5. view["procurement_intents"] = CreateIntents.as
      BY <2>0, <2>3, <3>1, <3>2, <3>3, <3>4 DEF Due, Standard, Creation
    <3> QED BY <2>7, <3>1, <3>4, <3>5, IntentsAltered DEF Verdict
  <2>8. ASSUME s.op = "addUnique" PROVE Verdict(view, s) # "ProgrammingError"
    <3>1. Toward(r) = 5 /\ s.on = "procurement_intents" /\ s.as = Slot
      BY <1>1, <2>8 DEF Fits, Alter
    <3>2. r.rev = 6 /\ r.done = 0
      BY <1>1, <2>1, <2>2, <2>8, <3>1
    <3>3. ~ Touched(s.on, r)
      BY <3>2 DEF Touched
    <3>4. s.on \in DOMAIN view
      BY <1>3, <2>0, <3>1, <3>2, <3>3 DEF Present
    <3>5. view["procurement_intents"] = IntentsWithoutSlot
      BY <2>0, <2>3, <3>1, <3>2, <3>3, <3>4 DEF Due, Standard
    <3> QED BY <2>8, <3>1, <3>4, <3>5, IntentsAltered DEF Verdict
  <2>9. s.op \in {"dropColumn", "addColumn", "dropDefault", "dropUnique", "addUnique"}
    BY <1>1, <1>6 DEF Fits, Alter
  <2> QED BY <2>4, <2>5, <2>6, <2>7, <2>8, <2>9
<1> QED BY <1>4, <1>5, <1>6

\* A statement of a script (create, drop or alter) that PostgreSQL refuses for what is there was
\* executed by a run that another has overtaken: the scripts of src/migrations/versions, in their
\* order, fit what the scripts before them have made.
THEOREM ScriptsFit == Spec => ScriptsFitTheSchema
<1>1. ASSUME FullInv, [Next]_vars, NEW m \in Migrators, run[m] # NoRun, run'[m] = NoRun,
             out'[m] = "ProgrammingError"
      PROVE  versions # HeadOf(run[m].from)
  <2>1. PICK o \in Migrators : Start(o) \/ Execute(o) \/ WriteVersion(o) \/ Commit(o) \/ Fail(o)
    BY <1>1 DEF Next, Book, vars
  <2>2. o = m
    <3>1. Inv
      BY <1>1 DEF FullInv
    <3>2. ASSUME o # m PROVE run'[m] = run[m]
      BY <2>1, <3>1, <3>2 DEF Inv, FunctionsInv, Start, Execute, WriteVersion, Commit, Fail, End
    <3> QED BY <1>1, <3>2
  <2>3. FunctionsInv
    BY <1>1 DEF FullInv, Inv
  <2>4. IsRun(run[m])
    BY <1>1 DEF FullInv, Inv, RunInv
  <2>5. Execute(m)
    <3>1. ~ Start(m)
      BY <1>1 DEF Start
    <3>2. ~ WriteVersion(m)
      <4> SUFFICES ASSUME WriteVersion(m) PROVE FALSE
        OBVIOUS
      <4>1. CASE RowIsThere(m)
        <5> DEFINE n == [run[m] EXCEPT !.rev = IF run[m].rev < run[m].to THEN run[m].rev + 1
                                              ELSE run[m].rev - 1, !.done = 0]
        <5>1. run'[m] = n
          BY <2>3, <4>1 DEF WriteVersion, FunctionsInv
        <5>2. GoesOn(run[m], n)
          BY DEF GoesOn
        <5>3. run[m].rev # run[m].to /\ run[m].done = Len(Script(run[m]))
          BY DEF WriteVersion
        <5> HIDE DEF n
        <5>4. IsRun(n)
          BY <2>4, <5>2, <5>3, ScriptEnds
        <5> QED BY <1>1, <5>1, <5>4, NoRunAssumption DEF IsRun
      <4>2. CASE ~ RowIsThere(m)
        BY <1>1, <2>3, <4>2 DEF WriteVersion, End, FunctionsInv
      <4> QED BY <4>1, <4>2
    <3>3. ~ Commit(m) /\ ~ Fail(m)
      BY <1>1, <2>3 DEF Commit, Fail, End, FunctionsInv
    <3> QED BY <2>1, <2>2, <3>1, <3>2, <3>3
  <2> DEFINE r == run[m]
             s == Script(r)[r.done + 1]
  <2>6. /\ r.rev # r.to /\ r.done < Len(Script(r)) /\ IsRun(r)
        /\ Verdict(View(m), s) = "ProgrammingError"
    <3>1. r.rev # r.to /\ r.done < Len(Script(r)) /\ IsRun(r)
      BY <1>1, <2>5 DEF Execute, FullInv, Inv, RunInv
    <3>2. Verdict(View(m), s) # "ok"
      <4> SUFFICES ASSUME Verdict(View(m), s) = "ok" PROVE FALSE
        OBVIOUS
      <4>1. run'[m] = [run[m] EXCEPT !.done = run[m].done + 1]
        BY <2>3, <2>5 DEF Execute, FunctionsInv
      <4>2. run'[m] \in [from: Int, to: Int, rev: Int, done: Int]
        BY <2>4, <4>1 DEF IsRun
      <4> QED BY <1>1, <4>2, NoRunAssumption
    <3>3. out'[m] = Verdict(View(m), s)
      BY <2>3, <2>5, <3>2 DEF Execute, End, FunctionsInv
    <3> QED BY <1>1, <3>1, <3>3
  <2>7. ASSUME versions = HeadOf(r.from) PROVE FALSE
    <3>1. Before(View(m), r)
      BY <1>1, <2>6, <2>7, ViewOfRun
    <3> QED BY <2>6, <3>1, ScriptFitsView
  <2> QED BY <2>7
<1>2. FullInv /\ [Next]_vars =>
        [\A m \in Migrators :
            run[m] # NoRun /\ run'[m] = NoRun /\ out'[m] = "ProgrammingError"
                => versions # HeadOf(run[m].from)]_vars
  BY <1>1
<1> QED BY <1>2, SchemaInvariance, PTL DEF Spec, ScriptsFitTheSchema
=============================================================================
