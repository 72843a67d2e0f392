--------------------------- MODULE Databases_proofs ---------------------------
(***************************************************************************)
(* Theorems about the two databases: the event stores and the switch       *)
(* between them (Backends), and the operators' tables, their copies and    *)
(* backups (Replicas).                                                     *)
(***************************************************************************)
EXTENDS Backends, Replicas, SequenceTheorems, FiniteSetTheorems, WellFoundedInduction,
        TLAPS

Waits(e) == \E i \in DOMAIN waiting : waiting[i] = EventOp(e)

\* An event of an earlier tick, or of this one when it has come.
Past(e) == e <= clock /\ (fresh => e < clock)

\* Events wait in order of time.
InTurn ==
  \A i, j \in DOMAIN waiting :
    i < j /\ waiting[i].op = "event" /\ waiting[j].op = "event"
      => waiting[i].arg < waiting[j].arg

\* A cutoff is a window old, and a migration's older than what has waited since.
Cutoffs ==
  /\ marker # None => marker.cutoff <= clock - Window
  /\ migration # None =>
       /\ migration.cutoff <= clock - Window
       /\ \A e \in Events : Waits(e) => e >= migration.cutoff

\* What is known of the order of events.
Timed ==
  /\ \A e \in Events : Waits(e) => Past(e)
  /\ \A e \in InLite \cup InPg \cup doubled : Past(e)
  /\ InTurn /\ Cutoffs

\* Where an event may be while it waits or has yet to be copied.
Placed ==
  /\ \A e \in Events : Waits(e) /\ e \notin doubled => e \notin InLite \cup InPg
  /\ \A e \in Events : Waits(e) /\ e \in InLite => e \in InPg
  /\ \A e \in Events : liteTable[e] > 1 => e \in InPg
  /\ migration.target = "postgres" =>
       \A e \in migration.todo :
         e \in InLite /\ e \notin InPg /\ e < migration.cutoff
  /\ migration.target = "sqlite" => migration.todo \subseteq InPg

\* A cutoff above an event that no row of Postgres between them hides.
Behind(e, cutoff) == e < cutoff /\ \A x \in InPg : x < cutoff => x < e

Missing == InLite \ (InPg \cup straddled)

\* The window of a switch to Postgres was copied, its marker not yet written.
Copying == switch.target = "postgres" /\ switch.copied

Reachable(e) ==
  \/ writer = "sqlite" /\ Newer(e, InPg)
  \/ marker.target = "postgres" /\ Behind(e, marker.cutoff)
  \/ writer = "sqlite" /\ Copying /\ Behind(e, switch.ts - Window)

\* Events wait to be written to SQLite behind all that is stored.
LiteLast ==
  writer = "sqlite" =>
    \A e \in Events : Waits(e) => \A x \in InLite \cup InPg : x < e

\* The migration to Postgres in progress is the one the marker asks for.
MarkerStays ==
  migration.target = "postgres" =>
    marker = [target |-> "postgres", cutoff |-> migration.cutoff]

\* Where the migration in progress leaves an event that Postgres lacks.
Covered(e) ==
  /\ migration.target = "postgres" =>
       e \in migration.todo \/ e >= migration.cutoff
  /\ writer = "postgres" =>
       migration.target = "postgres" /\ e \in migration.todo

Closing ==
  LiteLast /\ MarkerStays /\ \A e \in Missing : Reachable(e) /\ Covered(e)

ReadersAgree == EventReadsFollow /\ (disabled => writer = "postgres")

\* A switch copies nothing before it has begun.
CopyPhase ==
  switch # None => switch.ts <= clock /\ (switch.copied => switch.phase = "copied")

EventsInv ==
  /\ BackendsTypeOK /\ CopyPhase /\ ReadersAgree
  /\ Timed /\ Placed /\ CopiedOnce
  /\ ~spoiled => Closing

-----------------------------------------------------------------------------

Table == [Events -> 0 .. 2]

LEMMA BackendsConstants ==
  /\ Window \in Nat /\ MaxWaiting \in Nat /\ MaxRequests \in Nat
  /\ MaxFaults \in Nat /\ MaxClock \in Nat /\ MaxClock >= 1
  BY ConstantsAssumption

LEMMA OnlyIs ==
  ASSUME NEW t \in Table, NEW S
  PROVE  /\ Only(t, S) \in Table
         /\ Held(Only(t, S)) = Held(t) \cap S
         /\ \A e \in Events : Only(t, S)[e] = IF e \in S THEN t[e] ELSE 0
  BY DEF Table, Only, Held

LEMMA RowIs ==
  ASSUME NEW e \in Events
  PROVE  /\ RowOf(e) \in Table
         /\ Held(RowOf(e)) = {e}
         /\ \A x \in Events : RowOf(e)[x] = IF x = e THEN 1 ELSE 0
  BY DEF Table, RowOf, Held

LEMMA AddedIs ==
  ASSUME NEW t \in Table, NEW more \in Table
  PROVE  /\ Added(t, more) \in Table
         /\ Held(Added(t, more)) = Held(t) \cup Held(more)
         /\ \A e \in Events : Added(t, more)[e] =
              IF t[e] + more[e] > 2 THEN 2 ELSE t[e] + more[e]
<1> DEFINE n(e) == IF t[e] + more[e] > 2 THEN 2 ELSE t[e] + more[e]
<1>1. \A e \in Events : t[e] \in 0 .. 2 /\ more[e] \in 0 .. 2
  BY DEF Table
<1>2. \A e \in Events : n(e) \in 0 .. 2
  BY <1>1
<1>3. Added(t, more) = [e \in Events |-> n(e)]
  BY DEF Added
<1>4. \A e \in Events : n(e) > 0 <=> t[e] > 0 \/ more[e] > 0
  BY <1>1
<1> HIDE DEF n
<1>5. Added(t, more) \in Table /\ \A e \in Events : Added(t, more)[e] = n(e)
  BY <1>2, <1>3 DEF Table
<1>6. Held(Added(t, more)) = Held(t) \cup Held(more)
  BY <1>4, <1>5 DEF Held
<1> QED BY <1>5, <1>6 DEF n

\* What Restart and the others make of the tables are tables.
LEMMA HeldIs ==
  ASSUME NEW t \in Table PROVE Held(t) \subseteq Events
  BY DEF Held

LEMMA QueueGrows ==
  ASSUME waiting \in Seq(QueuedOps), Len(waiting) <= MaxWaiting,
         NEW op \in QueuedOps, Put(op)
  PROVE  /\ waiting' \in Seq(QueuedOps) /\ Len(waiting') <= MaxWaiting
         /\ \/ waiting' = waiting
            \/ /\ waiting' = Append(waiting, op)
               /\ Len(waiting') = Len(waiting) + 1
               /\ \A i \in 1 .. Len(waiting) : waiting'[i] = waiting[i]
               /\ waiting'[Len(waiting) + 1] = op
  BY BackendsConstants DEF Put, HasRoom

LEMMA QueueShrinks ==
  ASSUME waiting \in Seq(QueuedOps), waiting # <<>>, waiting' = Tail(waiting)
  PROVE  /\ waiting' \in Seq(QueuedOps) /\ Len(waiting') = Len(waiting) - 1
         /\ Len(waiting) >= 1 /\ Head(waiting) = waiting[1]
         /\ \A i \in 1 .. Len(waiting) - 1 : waiting'[i] = waiting[i + 1]
         /\ Head(waiting) \in QueuedOps
  OBVIOUS

LEMMA EventsStart == BackendsInit => EventsInv
<1> SUFFICES ASSUME BackendsInit PROVE EventsInv
  OBVIOUS
<1> USE BackendsConstants DEF BackendsInit
<1>1. InLite = {} /\ InPg = {}
  BY DEF InLite, InPg, Held
<1>2. \A e \in Events : ~Waits(e)
  BY DEF Waits
<1>3. BackendsTypeOK /\ CopyPhase
  <2>1. CountersOK
    BY DEF CountersOK
  <2>2. FlagsOK
    BY DEF FlagsOK, Stores, Opens
  <2>3. TablesOK
    BY DEF TablesOK
  <2>4. QueueOK
    BY DEF QueueOK
  <2>5. SwitchOK /\ MigrationOK /\ CopyPhase
    BY DEF SwitchOK, MigrationOK, CopyPhase
  <2> QED BY <2>1, <2>2, <2>3, <2>4, <2>5 DEF BackendsTypeOK
<1>4. ReadersAgree
  BY DEF ReadersAgree, EventReadsFollow, Reader, Opens
<1>5. Timed /\ Placed
  BY <1>1, <1>2 DEF Timed, InTurn, Cutoffs, Placed, None
<1>6. CopiedOnce
  BY DEF CopiedOnce
<1>7. Closing
  BY <1>1, <1>2 DEF Closing, LiteLast, MarkerStays, Missing, None
<1> QED BY <1>3, <1>4, <1>5, <1>6, <1>7 DEF EventsInv

-----------------------------------------------------------------------------

LEMMA FaultsAreCounted ==
  ASSUME CountersOK, Works \/ Fault PROVE faults' \in 0 .. MaxFaults
  BY BackendsConstants DEF CountersOK, Works, Fault

LEMMA RequestsAreCounted ==
  ASSUME CountersOK, Request
  PROVE  requests' \in 0 .. MaxRequests /\ requests' = requests + 1
  BY BackendsConstants DEF CountersOK, Request

\* What a switch copies, by which table it goes to.
LEMMA CopiedIs ==
  ASSUME BackendsTypeOK, CopyRecent
  PROVE  \E copied \in Table :
           /\ \A e \in Held(copied) : e >= clock - Window
           /\ switch' = [switch EXCEPT !.phase = "copied",
                                      !.copied = Held(copied) # {}]
           /\ switch.target = "postgres" =>
                /\ pgTable' = Added(pgTable, copied) /\ liteTable' = liteTable
                /\ again' = again \cup (Held(copied) \cap InPg)
                /\ straddled' = straddled \cup
                     {e \in InLite : switch.ts - Window <= e /\ e < clock - Window}
                /\ \A e \in Held(copied) : e \in InLite /\ copied[e] = liteTable[e]
                /\ Held(copied) # {} =>
                     \A e \in InLite : e >= clock - Window => e \in Held(copied)
           /\ switch.target # "postgres" =>
                /\ liteTable' = Added(liteTable, copied)
                /\ UNCHANGED <<pgTable, again, straddled>>
                /\ Held(copied) \subseteq InPg
<1> USE DEF CopyRecent
<1>0. liteTable \in Table /\ pgTable \in Table
  BY DEF BackendsTypeOK, TablesOK, Table
<1> DEFINE source == IF switch.target = "postgres" THEN liteTable ELSE pgTable
           copied(works) == IF ~dsn \/ ~works THEN Only(liteTable, {})
                            ELSE Recent(source)
<1>1. PICK works \in BOOLEAN :
        /\ switch' = [switch EXCEPT !.phase = "copied",
                                   !.copied = Held(copied(works)) # {}]
        /\ IF switch.target = "postgres"
           THEN /\ pgTable' = Added(pgTable, copied(works))
                /\ again' = again \cup (Held(copied(works)) \cap InPg)
                /\ straddled' = straddled \cup
                     {e \in InLite : switch.ts - Window <= e /\ e < clock - Window}
                /\ UNCHANGED liteTable
           ELSE /\ liteTable' = Added(liteTable, copied(works))
                /\ UNCHANGED <<pgTable, again, straddled>>
  OBVIOUS
<1>2. CASE ~dsn \/ ~works
  <2>1. copied(works) \in Table /\ Held(copied(works)) = {}
    BY <1>0, <1>2, OnlyIs
  <2> USE <2>1
  <2> HIDE DEF copied
  <2> WITNESS copied(works) \in Table
  <2> QED BY <1>1, <2>1
<1>3. CASE dsn /\ works
  <2> DEFINE recent == {e \in Events : e >= clock - Window}
  <2>1. copied(works) = Only(source, recent) /\ source \in Table
    BY <1>0, <1>3 DEF Recent
  <2>2. /\ copied(works) \in Table /\ Held(copied(works)) = Held(source) \cap recent
        /\ \A e \in Events : e \in recent => copied(works)[e] = source[e]
    BY <2>1, OnlyIs
  <2>3. \A e \in Held(copied(works)) : e \in recent /\ copied(works)[e] = source[e]
    BY <2>2 DEF Held
  <2>4. switch.target = "postgres" => source = liteTable /\ Held(source) = InLite
    BY DEF InLite
  <2>5. switch.target # "postgres" => Held(source) = InPg
    BY DEF InPg
  <2>6. InLite \subseteq Events
    BY DEF InLite, Held
  <2> USE <2>2
  <2> HIDE DEF copied, source
  <2> WITNESS copied(works) \in Table
  <2> QED BY <1>1, <2>2, <2>3, <2>4, <2>5, <2>6
<1> QED BY <1>2, <1>3

LEMMA BackendsTypes ==
  ASSUME BackendsTypeOK, CopyPhase, [BackendsNext]_backendsVars
  PROVE  BackendsTypeOK' /\ CopyPhase'
<1> USE BackendsConstants DEF keys, settings, view, rows, tables, process, history
<1> SUFFICES CountersOK' /\ FlagsOK' /\ TablesOK' /\ QueueOK' /\ SwitchOK'
               /\ MigrationOK' /\ CopyPhase'
  BY DEF BackendsTypeOK
<1>0. CountersOK /\ FlagsOK /\ TablesOK /\ QueueOK /\ SwitchOK /\ MigrationOK
        /\ CopyPhase
  BY DEF BackendsTypeOK
<1>1. CASE UNCHANGED backendsVars
  <2> USE <1>0, <1>1 DEF backendsVars
  <2>1. CountersOK' BY DEF CountersOK
  <2>2. FlagsOK' BY DEF FlagsOK
  <2>3. TablesOK' BY DEF TablesOK
  <2>4. QueueOK' BY DEF QueueOK
  <2>5. SwitchOK' /\ CopyPhase' BY DEF SwitchOK, CopyPhase
  <2>6. MigrationOK' BY DEF MigrationOK
  <2> QED BY <2>1, <2>2, <2>3, <2>4, <2>5, <2>6
<1>2. CASE TimePasses
  <2> USE <1>0, <1>2 DEF TimePasses
  <2>1. CountersOK' /\ clock < clock' BY DEF CountersOK
  <2>2. FlagsOK' BY DEF FlagsOK
  <2>3. TablesOK' BY DEF TablesOK
  <2>4. QueueOK' BY DEF QueueOK
  <2>5. SwitchOK' BY DEF SwitchOK
  <2>6. MigrationOK' BY DEF MigrationOK
  <2>7. CopyPhase' BY DEF CopyPhase, SwitchOK, CountersOK, None
  <2> QED BY <2>1, <2>2, <2>3, <2>4, <2>5, <2>6, <2>7
<1>3. CASE Record
  <2> USE <1>0, <1>3 DEF Record
  <2>0. EventOp(clock) \in QueuedOps /\ clock \in Events
    BY DEF EventOp, QueuedOps, CountersOK, Events
  <2>1. CountersOK'
    BY FaultsAreCounted DEF CountersOK, Inserted
  <2>2. FlagsOK' BY DEF FlagsOK
  <2>3. TablesOK'
    BY <2>0, RowIs, AddedIs DEF TablesOK, Inserted, Table
  <2>4. QueueOK'
    BY <2>0, QueueGrows DEF QueueOK, EventOp
  <2>5. SwitchOK' /\ CopyPhase' BY DEF SwitchOK, CopyPhase
  <2>6. MigrationOK' BY DEF MigrationOK
  <2> QED BY <2>1, <2>2, <2>3, <2>4, <2>5, <2>6
<1>4. CASE WriteFirst
  <2> USE <1>0, <1>4 DEF WriteFirst
  <2> DEFINE op == Head(waiting)
  <2>0. op \in QueuedOps /\ (op.op = "event" => op.arg \in Events)
        /\ (op.op = "set_config" => op.arg \in Stores)
        /\ (op.op = "secret" => op.arg \in {NoDsn} \cup 0 .. keyFile)
    BY QueueShrinks DEF QueueOK, QueuedOps, CountersOK, NoDsn
  <2>1. CountersOK'
    BY <2>0, FaultsAreCounted DEF CountersOK, Inserted, PgRowWritten
  <2>2. FlagsOK'
    BY <2>0 DEF FlagsOK, PgRowWritten
  <2>3. TablesOK'
    BY <2>0, RowIs, AddedIs DEF TablesOK, Inserted, Table
  <2>4. QueueOK'
    BY QueueShrinks DEF QueueOK
  <2>5. SwitchOK' /\ CopyPhase' BY DEF SwitchOK, CopyPhase
  <2>6. MigrationOK' BY DEF MigrationOK
  <2> QED BY <2>1, <2>2, <2>3, <2>4, <2>5, <2>6
<1>5. CASE SetKnob
  <2> USE <1>0, <1>5 DEF SetKnob
  <2>0. PICK b \in Stores : /\ backend' = b /\ shown' = b
                            /\ Put([op |-> "set_config", arg |-> b])
    OBVIOUS
  <2>1. CountersOK' BY RequestsAreCounted DEF CountersOK
  <2>2. FlagsOK' BY <2>0 DEF FlagsOK
  <2>3. TablesOK' BY DEF TablesOK
  <2>4. QueueOK'
    BY <2>0, QueueGrows DEF QueueOK, QueuedOps
  <2>5. SwitchOK' /\ CopyPhase' BY DEF SwitchOK, CopyPhase
  <2>6. MigrationOK' BY DEF MigrationOK
  <2> QED BY <2>1, <2>2, <2>3, <2>4, <2>5, <2>6
<1>6. CASE Rotate
  <2> USE <1>0, <1>6 DEF Rotate
  <2>1. CountersOK' BY RequestsAreCounted DEF CountersOK
  <2>2. FlagsOK' BY DEF FlagsOK
  <2>3. TablesOK' BY DEF TablesOK
  <2>4. QueueOK' BY DEF QueueOK, QueuedOps, CountersOK, NoDsn
  <2>5. SwitchOK' /\ CopyPhase' BY DEF SwitchOK, CopyPhase
  <2>6. MigrationOK' BY DEF MigrationOK
  <2> QED BY <2>1, <2>2, <2>3, <2>4, <2>5, <2>6
<1>7. CASE SetDsn
  <2> USE <1>0, <1>7 DEF SetDsn
  <2>0. PICK set \in BOOLEAN :
          /\ dsn' = (set \/ env)
          /\ Put([op |-> "secret", arg |-> IF set THEN Sealed ELSE NoDsn])
    OBVIOUS
  <2>1. CountersOK' BY RequestsAreCounted DEF CountersOK
  <2>2. FlagsOK' BY <2>0 DEF FlagsOK
  <2>3. TablesOK' BY DEF TablesOK
  <2>4. QueueOK'
    <3> DEFINE op == [op |-> "secret", arg |-> IF set THEN Sealed ELSE NoDsn]
    <3>2. op \in QueuedOps /\ op.arg <= keyFile
      BY DEF QueuedOps, Sealed, NoDsn, CountersOK
    <3> HIDE DEF op
    <3> QED BY <2>0, <3>2, QueueGrows DEF QueueOK, op
  <2>5. SwitchOK' /\ CopyPhase' BY DEF SwitchOK, CopyPhase
  <2>6. MigrationOK' BY DEF MigrationOK
  <2> QED BY <2>1, <2>2, <2>3, <2>4, <2>5, <2>6
<1>8. CASE BeginSwitch
  <2> USE <1>0, <1>8 DEF BeginSwitch
  <2>0. PICK target \in Stores, body, full, reached \in BOOLEAN :
          /\ IF reached THEN Works ELSE target = "postgres" /\ Fault
          /\ shown' = IF target = "postgres" THEN "postgres" ELSE shown
          /\ staged' = (staged \/ target = "postgres")
          /\ switch' = IF ~reached THEN None
                       ELSE [target |-> target, body |-> body, full |-> full,
                             ts |-> clock, phase |-> "begun", copied |-> FALSE]
    OBVIOUS
  <2>1. CountersOK'
    BY <2>0, RequestsAreCounted, FaultsAreCounted DEF CountersOK
  <2>2. FlagsOK' BY <2>0 DEF FlagsOK, Stores
  <2>3. TablesOK' BY DEF TablesOK
  <2>4. QueueOK' BY DEF QueueOK
  <2>5. SwitchOK' /\ CopyPhase' BY <2>0 DEF SwitchOK, CopyPhase, CountersOK
  <2>6. MigrationOK' BY DEF MigrationOK
  <2> QED BY <2>1, <2>2, <2>3, <2>4, <2>5, <2>6
<1>9. CASE CopyRecent
  <2> USE <1>0, <1>9 DEF CopyRecent
  <2>0. PICK copied \in Table :
          /\ switch' = [switch EXCEPT !.phase = "copied",
                                     !.copied = Held(copied) # {}]
          /\ \/ /\ pgTable' = Added(pgTable, copied) /\ liteTable' = liteTable
                /\ again' = again \cup (Held(copied) \cap InPg)
                /\ straddled' = straddled \cup
                     {e \in InLite : switch.ts - Window <= e /\ e < clock - Window}
             \/ /\ liteTable' = Added(liteTable, copied)
                /\ UNCHANGED <<pgTable, again, straddled>>
    BY CopiedIs
  <2>1. CountersOK'
    BY FaultsAreCounted DEF CountersOK
  <2>2. FlagsOK' BY DEF FlagsOK
  <2>3. TablesOK'
    <3>1. InLite \subseteq Events /\ InPg \subseteq Events
      BY DEF InLite, InPg, Held
    <3> QED BY <2>0, <3>1, AddedIs DEF TablesOK, Table
  <2>4. QueueOK' BY DEF QueueOK
  <2>5. SwitchOK' /\ CopyPhase'
    <3>1. switch.ts' = switch.ts
      BY <2>0 DEF SwitchOK
    <3> QED BY <2>0, <3>1 DEF SwitchOK, CopyPhase
  <2>6. MigrationOK' BY DEF MigrationOK
  <2> QED BY <2>1, <2>2, <2>3, <2>4, <2>5, <2>6
<1>10. CASE Commit
  <2> USE <1>0, <1>10 DEF Commit
  <2>0. switch.target \in Stores /\ switch.ts \in (Window + 1) .. MaxClock
    BY DEF SwitchOK
  <2>1. CountersOK'
    BY FaultsAreCounted DEF CountersOK
  <2>2. FlagsOK' BY <2>0 DEF FlagsOK
  <2>3. TablesOK' BY DEF TablesOK
  <2>4. QueueOK'
    <3> DEFINE op == [op |-> "secret", arg |-> Sealed]
    <3>2. op \in QueuedOps /\ op.arg <= keyFile
      BY DEF QueuedOps, Sealed, NoDsn, CountersOK
    <3> HIDE DEF op
    <3>3. waiting' = waiting \/ Put(op)
      BY DEF op
    <3> QED BY <3>2, <3>3, QueueGrows DEF QueueOK
  <2>5. SwitchOK' /\ CopyPhase' BY DEF SwitchOK, CopyPhase
  <2>6. MigrationOK'
    <3>1. marker' = marker
          \/ marker' = [target |-> switch.target, cutoff |-> switch.ts - Window]
      OBVIOUS
    <3> QED BY <2>0, <3>1 DEF MigrationOK
  <2> QED BY <2>1, <2>2, <2>3, <2>4, <2>5, <2>6
<1>11. CASE Restart
  <2> USE <1>0, <1>11 DEF Restart
  <2>0. liteTable \in Table /\ pgTable \in Table
    BY DEF TablesOK, Table
  <2>1. CountersOK'
    BY RequestsAreCounted, FaultsAreCounted DEF CountersOK
  <2>2. FlagsOK'
    BY DEF FlagsOK, Stores, WriterOf
  <2>3. TablesOK' /\ pgTable' \in Table
    <3>1. pgTable' \in {pgTable, Added(pgTable, Only(liteTable, Backfill))}
      OBVIOUS
    <3> QED BY <2>0, <3>1, OnlyIs, AddedIs DEF TablesOK, Table
  <2>4. QueueOK' BY DEF QueueOK
  <2>5. SwitchOK' /\ CopyPhase' BY DEF SwitchOK, CopyPhase
  <2>6. MigrationOK'
    <3>1. PICK d \in BOOLEAN : migration' = Resumed(d, Held(pgTable'))
      OBVIOUS
    <3>2. Held(pgTable') \subseteq Events /\ InLite \subseteq Events
      BY DEF Held, InLite
    <3> QED BY <3>1, <3>2 DEF MigrationOK, Resumed
  <2> QED BY <2>1, <2>2, <2>3, <2>4, <2>5, <2>6
<1>12. CASE MigrateBatch
  <2> USE <1>0, <1>12 DEF MigrateBatch
  <2>0. liteTable \in Table /\ pgTable \in Table
    BY DEF TablesOK, Table
  <2>1. CountersOK' BY DEF CountersOK
  <2>2. FlagsOK' BY DEF FlagsOK
  <2>3. TablesOK'
    BY <2>0, OnlyIs, AddedIs DEF TablesOK, Table
  <2>4. QueueOK' BY DEF QueueOK
  <2>5. SwitchOK' /\ CopyPhase' BY DEF SwitchOK, CopyPhase
  <2>6. MigrationOK' BY DEF MigrationOK
  <2> QED BY <2>1, <2>2, <2>3, <2>4, <2>5, <2>6
<1>13. CASE MigrateEnd
  <2> USE <1>0, <1>13 DEF MigrateEnd
  <2>1. CountersOK'
    BY FaultsAreCounted DEF CountersOK, Returned
  <2>2. FlagsOK' BY DEF FlagsOK
  <2>3. TablesOK' BY DEF TablesOK
  <2>4. QueueOK' BY DEF QueueOK
  <2>5. SwitchOK' /\ CopyPhase' BY DEF SwitchOK, CopyPhase
  <2>6. MigrationOK' BY DEF MigrationOK
  <2> QED BY <2>1, <2>2, <2>3, <2>4, <2>5, <2>6
<1>14. CASE Recover
  <2> USE <1>0, <1>14 DEF Recover
  <2>1. CountersOK' BY DEF CountersOK
  <2>2. FlagsOK' BY DEF FlagsOK, Stores
  <2>3. TablesOK' BY DEF TablesOK
  <2>4. QueueOK' BY DEF QueueOK
  <2>5. SwitchOK' /\ CopyPhase' BY DEF SwitchOK, CopyPhase
  <2>6. MigrationOK' BY DEF MigrationOK
  <2> QED BY <2>1, <2>2, <2>3, <2>4, <2>5, <2>6
<1> QED BY <1>1, <1>2, <1>3, <1>4, <1>5, <1>6, <1>7, <1>8, <1>9, <1>10, <1>11,
           <1>12, <1>13, <1>14 DEF BackendsNext

-----------------------------------------------------------------------------

LEMMA ReadersStay ==
  ASSUME BackendsTypeOK, ReadersAgree, [BackendsNext]_backendsVars
  PROVE  ReadersAgree'
<1> USE DEF ReadersAgree, EventReadsFollow, Reader, view, settings, history
<1>0. FlagsOK
  BY DEF BackendsTypeOK
<1>1. CASE UNCHANGED <<view, staged>>
  BY <1>1
<1>2. CASE SetKnob
  BY <1>2 DEF SetKnob
<1>3. CASE BeginSwitch
  <2> USE <1>3 DEF BeginSwitch
  <2>1. PICK target \in Stores :
          /\ shown' = IF target = "postgres" THEN "postgres" ELSE shown
          /\ staged' = (staged \/ target = "postgres")
    OBVIOUS
  <2> QED BY <2>1
<1>4. CASE Restart
  <2> USE <1>4 DEF Restart
  <2>1. PICK deployed, late \in BOOLEAN :
          LET d == deployed \/ Opens(keyFile)
              row == IF ~d THEN liteRow ELSE IF pgRow THEN "postgres" ELSE "none"
          IN /\ late => deployed
             /\ backend' = IF row # "none" THEN row
                           ELSE IF deployed THEN "postgres" ELSE "sqlite"
             /\ shown' = IF row = "none" /\ late THEN "sqlite" ELSE backend'
             /\ available' = d /\ disabled' = late
             /\ writer' = WriterOf(backend', d)
    OBVIOUS
  <2>2. backend' \in Stores
    BY <1>0, <2>1 DEF FlagsOK, Stores
  <2> QED BY <2>1, <2>2 DEF WriterOf, Stores
<1>5. CASE Recover
  BY <1>5 DEF Recover
<1>6. CASE TimePasses \/ Record \/ WriteFirst \/ Rotate \/ SetDsn \/ CopyRecent
           \/ Commit \/ MigrateBatch \/ MigrateEnd
  <2>1. UNCHANGED <<view, staged>>
    BY <1>6 DEF TimePasses, Record, WriteFirst, Rotate, SetDsn, CopyRecent, Commit,
                MigrateBatch, MigrateEnd
  <2> QED BY <2>1, <1>1
<1> QED BY <1>1, <1>2, <1>3, <1>4, <1>5, <1>6 DEF BackendsNext, backendsVars

-----------------------------------------------------------------------------

\* What an action does to the tables and to the events that wait.

LEMMA EventOpsDiffer ==
  /\ \A e, x : EventOp(e) = EventOp(x) => e = x
  /\ \A e : EventOp(e).op = "event" /\ EventOp(e).arg = e
  BY DEF EventOp

LEMMA WaitersStay ==
  ASSUME UNCHANGED waiting PROVE \A e : Waits(e)' <=> Waits(e)
  BY DEF Waits

LEMMA OthersWait ==
  ASSUME QueueOK, NEW op \in QueuedOps, op.op # "event", Put(op)
  PROVE  /\ \A e : Waits(e)' => Waits(e)
         /\ Len(waiting) <= Len(waiting')
         /\ \A i \in DOMAIN waiting : waiting'[i] = waiting[i]
         /\ \A i \in DOMAIN waiting' :
              waiting'[i].op = "event" => i \in DOMAIN waiting
<1>1. /\ waiting \in Seq(QueuedOps) /\ waiting' \in Seq(QueuedOps)
      /\ \/ waiting' = waiting
         \/ /\ Len(waiting') = Len(waiting) + 1
            /\ \A i \in 1 .. Len(waiting) : waiting'[i] = waiting[i]
            /\ waiting'[Len(waiting) + 1] = op
  BY QueueGrows DEF QueueOK
<1>2. \A i \in DOMAIN waiting' :
        (i \in DOMAIN waiting /\ waiting'[i] = waiting[i]) \/ waiting'[i] = op
  BY <1>1
<1>3. \A e : op # EventOp(e)
  BY EventOpsDiffer
<1>4. \A e : Waits(e)' => Waits(e)
  BY <1>2, <1>3 DEF Waits
<1> QED BY <1>1, <1>2, <1>4

\* What operators queue is no event.
LEMMA RequestsQueueNoEvent ==
  ASSUME BackendsTypeOK, SetKnob \/ SetDsn \/ Commit
  PROVE  /\ \A e : Waits(e)' => Waits(e)
         /\ \A i \in DOMAIN waiting' : waiting'[i].op = "event" =>
              i \in DOMAIN waiting /\ waiting'[i] = waiting[i]
<1>1. QueueOK /\ CountersOK
  BY DEF BackendsTypeOK
<1>2. waiting' = waiting \/ \E op \in QueuedOps : op.op # "event" /\ Put(op)
  <2>1. CASE SetKnob
    <3>1. PICK b \in Stores : Put([op |-> "set_config", arg |-> b])
      BY <2>1 DEF SetKnob
    <3> DEFINE op == [op |-> "set_config", arg |-> b]
    <3>2. op \in QueuedOps /\ op.op # "event"
      BY DEF QueuedOps
    <3> HIDE DEF op
    <3> QED BY <3>1, <3>2 DEF op
  <2>2. CASE SetDsn \/ Commit
    <3>1. waiting' = waiting \/ \E arg \in {Sealed, NoDsn} :
            Put([op |-> "secret", arg |-> arg])
      BY <2>2 DEF SetDsn, Commit
    <3>2. \A arg \in {Sealed, NoDsn} : [op |-> "secret", arg |-> arg] \in QueuedOps
               /\ [op |-> "secret", arg |-> arg].op # "event"
      BY <1>1, BackendsConstants DEF QueuedOps, Sealed, NoDsn, CountersOK
    <3> QED BY <3>1, <3>2
  <2> QED BY <2>1, <2>2
<1> QED BY <1>1, <1>2, WaitersStay, OthersWait

LEMMA RecordMoves ==
  ASSUME BackendsTypeOK, Record
  PROVE  /\ clock \in Events /\ fresh /\ ~fresh' /\ clock' = clock
         /\ liteTable' = liteTable /\ InLite' = InLite
         /\ doubled \subseteq doubled' /\ doubled' \subseteq doubled \cup {clock}
         /\ \/ pgTable' = pgTable /\ InPg' = InPg
            \/ /\ clock \in doubled'
               /\ writer = "sqlite" => spoiled'
               /\ pgTable' = Added(pgTable, RowOf(clock))
               /\ InPg' = InPg \cup {clock}
         /\ \A e : Waits(e)' => Waits(e) \/ e = clock
         /\ \/ waiting' = waiting
            \/ /\ Len(waiting') = Len(waiting) + 1
               /\ \A i \in DOMAIN waiting : waiting'[i] = waiting[i]
               /\ waiting'[Len(waiting) + 1] = EventOp(clock)
<1> USE DEF Record
<1>1. clock \in Events /\ EventOp(clock) \in QueuedOps /\ pgTable \in Table
  BY BackendsConstants DEF BackendsTypeOK, CountersOK, TablesOK, Table, Events,
                           EventOp, QueuedOps
<1>2. InLite' = InLite
  BY DEF InLite, Held
<1>3. \/ pgTable' = pgTable /\ InPg' = InPg
      \/ /\ pgTable' = Added(pgTable, RowOf(clock)) /\ Direct
         /\ InPg' = InPg \cup {clock}
  BY <1>1, RowIs, AddedIs DEF Inserted, InPg
<1>4. /\ waiting \in Seq(QueuedOps) /\ waiting' \in Seq(QueuedOps)
      /\ \/ waiting' = waiting
         \/ /\ Len(waiting') = Len(waiting) + 1
            /\ \A i \in 1 .. Len(waiting) : waiting'[i] = waiting[i]
            /\ waiting'[Len(waiting) + 1] = EventOp(clock)
  BY <1>1, QueueGrows DEF BackendsTypeOK, QueueOK
<1>5. \A i \in DOMAIN waiting' :
        \/ i \in DOMAIN waiting /\ waiting'[i] = waiting[i]
        \/ waiting'[i] = EventOp(clock)
  BY <1>4
<1>6. \A e : Waits(e)' => Waits(e) \/ e = clock
  BY <1>5, EventOpsDiffer DEF Waits
<1>7. \/ pgTable' = pgTable /\ InPg' = InPg
      \/ /\ clock \in doubled'
         /\ writer = "sqlite" => spoiled'
         /\ pgTable' = Added(pgTable, RowOf(clock))
         /\ InPg' = InPg \cup {clock}
  BY <1>3
<1> QED BY <1>1, <1>2, <1>4, <1>6, <1>7

\* The writer takes the first operation; the others keep their order.
LEMMA WriteMoves ==
  ASSUME BackendsTypeOK, WriteFirst
  PROVE  /\ \A i \in DOMAIN waiting' :
              i + 1 \in DOMAIN waiting /\ waiting'[i] = waiting[i + 1]
         /\ \A e : Waits(e)' =>
              Waits(e) /\ \E i \in DOMAIN waiting : 1 < i /\ waiting[i] = EventOp(e)
         /\ \/ /\ liteTable' = liteTable /\ pgTable' = pgTable
               /\ InLite' = InLite /\ InPg' = InPg
            \/ \E e \in Events :
                 /\ 1 \in DOMAIN waiting /\ waiting[1] = EventOp(e) /\ Waits(e)
                 /\ \/ /\ writer = "postgres"
                       /\ liteTable' = liteTable /\ InLite' = InLite
                       /\ pgTable' = Added(pgTable, RowOf(e))
                       /\ InPg' = InPg \cup {e}
                    \/ /\ writer = "sqlite"
                       /\ pgTable' = pgTable /\ InPg' = InPg
                       /\ liteTable' = Added(liteTable, RowOf(e))
                       /\ InLite' = InLite \cup {e}
<1> USE DEF WriteFirst
<1>1. /\ waiting \in Seq(QueuedOps) /\ waiting' \in Seq(QueuedOps)
      /\ Len(waiting') = Len(waiting) - 1
      /\ Len(waiting) >= 1 /\ Head(waiting) = waiting[1]
      /\ \A i \in 1 .. Len(waiting) - 1 : waiting'[i] = waiting[i + 1]
      /\ Head(waiting) \in QueuedOps
  BY QueueShrinks DEF BackendsTypeOK, QueueOK
<1>2. liteTable \in Table /\ pgTable \in Table /\ writer \in {"sqlite", "postgres"}
  BY DEF BackendsTypeOK, TablesOK, Table, FlagsOK, Stores
<1>3. \A i \in DOMAIN waiting' :
        i + 1 \in DOMAIN waiting /\ 1 < i + 1 /\ waiting'[i] = waiting[i + 1]
  BY <1>1
<1>4. \A e : Waits(e)' =>
        Waits(e) /\ \E i \in DOMAIN waiting : 1 < i /\ waiting[i] = EventOp(e)
  BY <1>3 DEF Waits
<1>5. CASE Head(waiting).op = "event"
  <2>1. PICK e \in Events : Head(waiting) = EventOp(e)
    BY <1>1, <1>5 DEF QueuedOps, EventOp
  <2>2. 1 \in DOMAIN waiting /\ waiting[1] = EventOp(e) /\ Waits(e)
    BY <1>1, <2>1 DEF Waits
  <2>3. Head(waiting).arg = e
    BY <2>1, EventOpsDiffer
  <2>4. \/ /\ liteTable' = liteTable /\ pgTable' = pgTable
        \/ /\ writer = "postgres" /\ liteTable' = liteTable
           /\ pgTable' = Added(pgTable, RowOf(e))
        \/ /\ writer = "sqlite" /\ pgTable' = pgTable
           /\ liteTable' = Added(liteTable, RowOf(e))
    BY <1>2, <1>5, <2>3 DEF Inserted
  <2>5. Held(Added(pgTable, RowOf(e))) = Held(pgTable) \cup {e}
        /\ Held(Added(liteTable, RowOf(e))) = Held(liteTable) \cup {e}
    BY <1>2, RowIs, AddedIs
  <2> QED BY <1>3, <1>4, <2>2, <2>4, <2>5 DEF InLite, InPg
<1>6. CASE Head(waiting).op # "event"
  <2>1. liteTable' = liteTable /\ pgTable' = pgTable
    BY <1>6 DEF tables
  <2>2. InLite' = InLite /\ InPg' = InPg
    BY <2>1 DEF InLite, InPg
  <2> QED BY <1>3, <1>4, <2>1, <2>2
<1> QED BY <1>5, <1>6

LEMMA CopyMoves ==
  ASSUME BackendsTypeOK, CopyRecent
  PROVE  \E copied \in Table :
           /\ \A e \in Held(copied) : e >= clock - Window
           /\ switch' = [switch EXCEPT !.phase = "copied",
                                      !.copied = Held(copied) # {}]
           /\ switch.target = "postgres" =>
                /\ pgTable' = Added(pgTable, copied) /\ liteTable' = liteTable
                /\ InPg' = InPg \cup Held(copied) /\ InLite' = InLite
                /\ again' = again \cup (Held(copied) \cap InPg)
                /\ straddled' = straddled \cup
                     {e \in InLite : switch.ts - Window <= e /\ e < clock - Window}
                /\ \A e \in Held(copied) : e \in InLite /\ copied[e] = liteTable[e]
                /\ Held(copied) # {} =>
                     \A e \in InLite : e >= clock - Window => e \in Held(copied)
           /\ switch.target # "postgres" =>
                /\ liteTable' = Added(liteTable, copied)
                /\ UNCHANGED <<pgTable, again, straddled>>
                /\ InLite' = InLite \cup Held(copied) /\ InPg' = InPg
                /\ Held(copied) \subseteq InPg
<1>1. liteTable \in Table /\ pgTable \in Table
  BY DEF BackendsTypeOK, TablesOK, Table
<1>2. \A copied \in Table :
        /\ Held(Added(pgTable, copied)) = InPg \cup Held(copied)
        /\ Held(Added(liteTable, copied)) = InLite \cup Held(copied)
  BY <1>1, AddedIs DEF InLite, InPg
<1>3. InLite' = Held(liteTable') /\ InPg' = Held(pgTable')
      /\ InLite = Held(liteTable) /\ InPg = Held(pgTable)
  BY DEF InLite, InPg
<1> QED BY <1>2, <1>3, CopiedIs

LEMMA BatchMoves ==
  ASSUME BackendsTypeOK, MigrateBatch
  PROVE  /\ migration # None
         /\ \E e \in Events :
              /\ e \in migration.todo /\ \A x \in migration.todo : e <= x
              /\ migration' = [migration EXCEPT !.todo = @ \ {e}]
              /\ migration.target = "postgres" =>
                   /\ pgTable' = Added(pgTable, Only(liteTable, {e}))
                   /\ InPg' = InPg \cup (InLite \cap {e})
                   /\ liteTable' = liteTable /\ InLite' = InLite
              /\ migration.target # "postgres" =>
                   /\ liteTable' = Added(liteTable, Only(pgTable, {e}))
                   /\ InLite' = InLite \cup (InPg \cap {e})
                   /\ pgTable' = pgTable /\ InPg' = InPg
<1> USE DEF MigrateBatch
<1>1. liteTable \in Table /\ pgTable \in Table
  BY DEF BackendsTypeOK, TablesOK, Table
<1>2. migration.todo \subseteq Events
  BY DEF BackendsTypeOK, MigrationOK
<1>3. \A e : /\ Held(Added(pgTable, Only(liteTable, {e}))) = InPg \cup (InLite \cap {e})
             /\ Held(Added(liteTable, Only(pgTable, {e}))) = InLite \cup (InPg \cap {e})
  BY <1>1, AddedIs, OnlyIs DEF InLite, InPg
<1>4. InLite' = Held(liteTable') /\ InPg' = Held(pgTable')
      /\ InLite = Held(liteTable) /\ InPg = Held(pgTable)
  BY DEF InLite, InPg
<1>5. PICK e \in migration.todo :
        /\ \A x \in migration.todo : e <= x
        /\ migration' = [migration EXCEPT !.todo = @ \ {e}]
        /\ IF migration.target = "postgres"
           THEN /\ pgTable' = Added(pgTable, Only(liteTable, {e}))
                /\ UNCHANGED liteTable
           ELSE /\ liteTable' = Added(liteTable, Only(pgTable, {e}))
                /\ UNCHANGED pgTable
  OBVIOUS
<1> USE <1>2
<1>6. e \in Events /\ migration # None
  OBVIOUS
<1> HIDE DEF MigrateBatch
<1>7. migration.target = "postgres" =>
        /\ pgTable' = Added(pgTable, Only(liteTable, {e})) /\ liteTable' = liteTable
        /\ InPg' = InPg \cup (InLite \cap {e}) /\ InLite' = InLite
  BY <1>3, <1>4, <1>5
<1>8. migration.target # "postgres" =>
        /\ liteTable' = Added(liteTable, Only(pgTable, {e})) /\ pgTable' = pgTable
        /\ InLite' = InLite \cup (InPg \cap {e}) /\ InPg' = InPg
  BY <1>3, <1>4, <1>5
<1> QED BY <1>5, <1>6, <1>7, <1>8, Zenon

LEMMA RestartMoves ==
  ASSUME BackendsTypeOK, Restart
  PROVE  /\ \A e : ~Waits(e)'
         /\ liteTable' = liteTable /\ InLite' = InLite /\ switch' = None
         /\ UNCHANGED <<clock, fresh, marker, doubled, again, straddled>>
         /\ waiting' = <<>>
         /\ ~spoiled' => ~spoiled /\ ~Interrupted
         /\ \/ /\ migration' = Resumed(TRUE, InPg')
               /\ \/ /\ pgTable' = Added(pgTable, Only(liteTable, Backfill))
                     /\ InPg' = InPg \cup Backfill
                  \/ spoiled' /\ pgTable' = pgTable /\ InPg' = InPg
            \/ /\ migration' = Resumed(FALSE, InPg')
               /\ writer' = "sqlite" /\ pgTable' = pgTable /\ InPg' = InPg
               /\ ~spoiled' => marker.target # "postgres"
<1> USE DEF Restart
<1>1. liteTable \in Table /\ pgTable \in Table
  BY DEF BackendsTypeOK, TablesOK, Table
<1>2. InLite' = Held(liteTable') /\ InPg' = Held(pgTable')
      /\ InLite = Held(liteTable) /\ InPg = Held(pgTable)
  BY DEF InLite, InPg
<1>3. Held(Added(pgTable, Only(liteTable, Backfill))) = InPg \cup Backfill
  BY <1>1, <1>2, AddedIs, OnlyIs DEF Backfill
<1>4. \A e : ~Waits(e)'
  BY DEF Waits
<1>5. UNCHANGED marker
  BY DEF rows
<1>6. PICK deployed, filled \in BOOLEAN :
        LET d == deployed \/ Opens(keyFile)
            table == IF d /\ filled THEN Added(pgTable, Only(liteTable, Backfill))
                     ELSE pgTable
        IN /\ writer' = WriterOf(backend', d)
           /\ pgTable' = table
           /\ migration' = Resumed(d, Held(table))
           /\ spoiled' = \/ spoiled \/ Interrupted \/ ~filled
                         \/ ~d /\ marker.target = "postgres"
  OBVIOUS
<1>7. CASE deployed \/ Opens(keyFile)
  <2>1. /\ pgTable' = IF filled THEN Added(pgTable, Only(liteTable, Backfill))
                      ELSE pgTable
        /\ migration' = Resumed(TRUE, Held(pgTable'))
        /\ spoiled' = (spoiled \/ Interrupted \/ ~filled)
    BY <1>6, <1>7
  <2> HIDE DEF Restart
  <2>2. \/ /\ pgTable' = Added(pgTable, Only(liteTable, Backfill))
           /\ InPg' = InPg \cup Backfill
        \/ spoiled' /\ pgTable' = pgTable /\ InPg' = InPg
    BY <1>2, <1>3, <2>1
  <2> USE DEF Restart
  <2> QED BY <1>2, <1>4, <1>5, <2>1, <2>2
<1>8. CASE ~(deployed \/ Opens(keyFile))
  <2>1. /\ writer' = "sqlite" /\ pgTable' = pgTable
        /\ migration' = Resumed(FALSE, Held(pgTable'))
        /\ ~spoiled' => ~spoiled /\ ~Interrupted /\ marker.target # "postgres"
    BY <1>6, <1>8 DEF WriterOf
  <2> QED BY <1>2, <1>4, <1>5, <2>1
<1> QED BY <1>7, <1>8

-----------------------------------------------------------------------------

LEMMA TimedStays ==
  ASSUME BackendsTypeOK, CopyPhase, Timed, [BackendsNext]_backendsVars
  PROVE  Timed'
<1> USE BackendsConstants
    DEF keys, settings, view, rows, tables, process, history
<1>0. /\ CountersOK /\ QueueOK /\ SwitchOK /\ MigrationOK /\ CopyPhase
      /\ \A e \in Events : Waits(e) => Past(e)
      /\ \A e \in InLite \cup InPg \cup doubled : Past(e)
      /\ InTurn /\ Cutoffs
      /\ InLite \subseteq Events /\ InPg \subseteq Events /\ doubled \subseteq Events
  BY DEF BackendsTypeOK, Timed, InLite, InPg, Held, TablesOK
<1>1. CASE UNCHANGED <<clock, fresh, tables, doubled, marker, migration, waiting>>
  <2> USE <1>0, <1>1
  <2>1. InLite' = InLite /\ InPg' = InPg
    BY DEF InLite, InPg
  <2>2. \A e : Waits(e)' <=> Waits(e)
    BY WaitersStay
  <2>3. InTurn' BY DEF InTurn
  <2>4. Cutoffs' BY <2>2 DEF Cutoffs
  <2>5. \A e : Past(e)' <=> Past(e) BY DEF Past
  <2> QED BY <2>1, <2>2, <2>3, <2>4, <2>5 DEF Timed
<1>2. CASE TimePasses
  <2> USE <1>0, <1>2 DEF TimePasses
  <2>1. InLite' = InLite /\ InPg' = InPg
    BY DEF InLite, InPg
  <2>2. \A e : Waits(e)' <=> Waits(e)
    BY WaitersStay
  <2>3. InTurn' BY DEF InTurn
  <2>4. Cutoffs' BY <2>2 DEF Cutoffs, CountersOK, MigrationOK, None
  <2>5. \A e \in Events : Past(e) => Past(e)' BY DEF Past, CountersOK, Events
  <2> QED BY <2>1, <2>2, <2>3, <2>4, <2>5 DEF Timed
<1>3. CASE Record
  <2> USE <1>0, <1>3
  <2>0. UNCHANGED <<marker, migration>>
    BY DEF Record
  <2>1. Past(clock)' /\ \A e : Past(e) => Past(e)'
    BY RecordMoves DEF Past, CountersOK
  <2>2. \A e \in Events : Waits(e)' => Past(e)'
    BY <2>1, RecordMoves
  <2>3. \A e \in (InLite \cup InPg \cup doubled)' : Past(e)'
    BY <2>1, RecordMoves
  <2>4. InTurn'
    <3>1. \A i \in DOMAIN waiting : waiting[i].op = "event" =>
            waiting[i].arg \in Events /\ waiting[i] = EventOp(waiting[i].arg)
      BY DEF QueueOK, QueuedOps, EventOp
    <3>2. \A i \in DOMAIN waiting : waiting[i].op = "event" => waiting[i].arg < clock
      BY <3>1, RecordMoves DEF Waits, Past
    <3>3. waiting \in Seq(QueuedOps) /\ EventOp(clock).arg = clock
      BY EventOpsDiffer DEF QueueOK
    <3>4. QueueOK'
      BY BackendsTypes DEF BackendsTypeOK, BackendsNext
    <3>5. CASE waiting' = waiting
      BY <3>5 DEF InTurn
    <3>6. CASE /\ Len(waiting') = Len(waiting) + 1
               /\ \A i \in DOMAIN waiting : waiting'[i] = waiting[i]
               /\ waiting'[Len(waiting) + 1] = EventOp(clock)
      <4>1. DOMAIN waiting = 1 .. Len(waiting)
            /\ DOMAIN waiting' = 1 .. Len(waiting) + 1 /\ Len(waiting) \in Nat
        BY <3>3, <3>4, <3>6 DEF QueueOK
      <4>2. SUFFICES ASSUME NEW i \in DOMAIN waiting', NEW j \in DOMAIN waiting',
                            i < j, waiting'[i].op = "event",
                            waiting'[j].op = "event"
                     PROVE  waiting'[i].arg < waiting'[j].arg
        BY DEF InTurn
      <4>3. i \in DOMAIN waiting /\ waiting'[i] = waiting[i]
        BY <3>6, <4>1, <4>2
      <4>4. CASE j \in DOMAIN waiting
        BY <3>6, <4>2, <4>3, <4>4 DEF InTurn
      <4>5. CASE j \notin DOMAIN waiting
        <5>1. waiting'[j].arg = clock
          BY <3>3, <3>6, <4>1, <4>5
        <5> QED BY <3>2, <4>2, <4>3, <5>1
      <4> QED BY <4>4, <4>5
    <3> QED BY <3>5, <3>6, RecordMoves
  <2>5. Cutoffs'
    BY <2>0, RecordMoves DEF Cutoffs, CountersOK, MigrationOK, Events
  <2> QED BY <2>2, <2>3, <2>4, <2>5 DEF Timed
<1>4. CASE WriteFirst
  <2> USE <1>0, <1>4
  <2>0. UNCHANGED <<clock, fresh, marker, migration, doubled>>
    BY DEF WriteFirst
  <2>1. \A e : Past(e)' <=> Past(e)
    BY <2>0 DEF Past
  <2>2. \A e \in (InLite \cup InPg \cup doubled)' : Past(e)'
    BY <2>0, <2>1, WriteMoves
  <2>3. InTurn'
    <3>1. \A i \in DOMAIN waiting' :
            i + 1 \in DOMAIN waiting /\ waiting'[i] = waiting[i + 1]
      BY WriteMoves
    <3>2. DOMAIN waiting' \subseteq Int
      BY BackendsTypes DEF BackendsTypeOK, BackendsNext, QueueOK
    <3>3. \A i, j \in DOMAIN waiting' : i < j => i + 1 < j + 1
      BY <3>2
    <3> QED BY <3>1, <3>3 DEF InTurn
  <2>4. Cutoffs'
    BY <2>0, WriteMoves DEF Cutoffs
  <2> QED BY <2>1, <2>2, <2>3, <2>4, WriteMoves DEF Timed
<1>5. CASE SetKnob \/ SetDsn \/ Commit
  <2> USE <1>0
  <2>0. UNCHANGED <<clock, fresh, tables, doubled, migration>>
    BY <1>5 DEF SetKnob, SetDsn, Commit
  <2>1. InLite' = InLite /\ InPg' = InPg /\ \A e : Past(e)' <=> Past(e)
    BY <2>0 DEF InLite, InPg, Past
  <2>3. /\ \A e : Waits(e)' => Waits(e)
        /\ \A i \in DOMAIN waiting' : waiting'[i].op = "event" =>
             i \in DOMAIN waiting /\ waiting'[i] = waiting[i]
    BY <1>5, RequestsQueueNoEvent
  <2>4. InTurn'
    BY <2>3 DEF InTurn
  <2>5. marker' = marker \/ marker'.cutoff <= clock - Window
    <3>1. CASE Commit
      BY <3>1 DEF Commit, CopyPhase, SwitchOK, CountersOK
    <3>2. CASE SetKnob \/ SetDsn
      BY <3>2 DEF SetKnob, SetDsn
    <3> QED BY <1>5, <3>1, <3>2
  <2>6. Cutoffs'
    BY <2>0, <2>3, <2>5 DEF Cutoffs
  <2> QED BY <2>0, <2>1, <2>3, <2>4, <2>6 DEF Timed
<1>6. CASE Rotate \/ BeginSwitch \/ Recover
  BY <1>1, <1>6 DEF Rotate, BeginSwitch, Recover
<1>7. CASE CopyRecent
  <2> USE <1>0, <1>7
  <2>0. UNCHANGED <<clock, fresh, marker, migration, doubled, waiting>>
    BY DEF CopyRecent
  <2>1. (\A e : Past(e)' <=> Past(e)) /\ (\A e : Waits(e)' <=> Waits(e))
    BY <2>0, WaitersStay DEF Past
  <2>2. InLite' \cup InPg' \subseteq InLite \cup InPg
    BY CopyMoves
  <2>3. InTurn' /\ Cutoffs'
    BY <2>0, <2>1 DEF InTurn, Cutoffs
  <2> QED BY <2>0, <2>1, <2>2, <2>3 DEF Timed
<1>8. CASE Restart
  <2> USE <1>0, <1>8
  <2>1. UNCHANGED <<clock, fresh, marker, doubled>> /\ waiting' = <<>>
        /\ \A e : ~Waits(e)'
    BY RestartMoves
  <2>2. \A e : Past(e)' <=> Past(e)
    BY <2>1 DEF Past
  <2>3. InLite' \cup InPg' \subseteq InLite \cup InPg
    BY RestartMoves DEF Backfill
  <2>4. InTurn'
    BY <2>1 DEF InTurn
  <2>5. migration' # None => marker # None /\ migration'.cutoff = marker.cutoff
    BY RestartMoves DEF Resumed
  <2>6. Cutoffs'
    BY <2>1, <2>5 DEF Cutoffs
  <2> QED BY <2>1, <2>2, <2>3, <2>4, <2>6 DEF Timed
<1>9. CASE MigrateBatch
  <2> USE <1>0, <1>9
  <2>0. UNCHANGED <<clock, fresh, marker, doubled, waiting>>
    BY DEF MigrateBatch
  <2>1. (\A e : Past(e)' <=> Past(e)) /\ (\A e : Waits(e)' <=> Waits(e))
    BY <2>0, WaitersStay DEF Past
  <2>2. InLite' \cup InPg' \subseteq InLite \cup InPg
    BY BatchMoves
  <2>3. migration # None /\ migration'.cutoff = migration.cutoff
    BY BatchMoves DEF MigrationOK
  <2>4. InTurn' /\ Cutoffs'
    BY <2>0, <2>1, <2>3 DEF InTurn, Cutoffs
  <2> QED BY <2>0, <2>1, <2>2, <2>4 DEF Timed
<1>10. CASE MigrateEnd
  <2> USE <1>0, <1>10 DEF MigrateEnd
  <2>1. InLite' = InLite /\ InPg' = InPg /\ \A e : Past(e)' <=> Past(e)
    BY DEF InLite, InPg, Past
  <2>2. \A e : Waits(e)' <=> Waits(e)
    BY WaitersStay
  <2>3. InTurn' /\ Cutoffs'
    BY DEF InTurn, Cutoffs
  <2> QED BY <2>1, <2>2, <2>3 DEF Timed
<1> QED BY <1>1, <1>2, <1>3, <1>4, <1>5, <1>6, <1>7, <1>8, <1>9, <1>10
        DEF BackendsNext, backendsVars

-----------------------------------------------------------------------------

\* The rows an event has, by where it is held.
LEMMA RowCounts ==
  ASSUME BackendsTypeOK
  PROVE  /\ liteTable \in Table /\ pgTable \in Table
         /\ InLite \subseteq Events /\ InPg \subseteq Events
         /\ \A e \in Events :
              /\ liteTable[e] \in 0 .. 2 /\ pgTable[e] \in 0 .. 2
              /\ e \in InLite <=> liteTable[e] > 0
              /\ e \in InPg <=> pgTable[e] > 0
  BY DEF BackendsTypeOK, TablesOK, Table, InLite, InPg, Held

LEMMA PlacedStays ==
  ASSUME BackendsTypeOK, Timed, Placed, CopiedOnce, [BackendsNext]_backendsVars,
         BackendsTypeOK'
  PROVE  Placed' /\ CopiedOnce'
<1> USE BackendsConstants
    DEF keys, settings, view, rows, tables, process, history
<1>0. /\ liteTable \in Table /\ pgTable \in Table
      /\ InLite \subseteq Events /\ InPg \subseteq Events /\ MigrationOK
      /\ \A e \in Events :
           /\ liteTable[e] \in 0 .. 2 /\ pgTable[e] \in 0 .. 2
           /\ e \in InLite <=> liteTable[e] > 0
           /\ e \in InPg <=> pgTable[e] > 0
  BY RowCounts DEF BackendsTypeOK
<1>1. CASE /\ UNCHANGED <<tables, doubled, again, migration>>
           /\ \A e : Waits(e)' => Waits(e)
  <2>1. InLite' = InLite /\ InPg' = InPg
    BY <1>1 DEF InLite, InPg
  <2> QED BY <1>1, <2>1 DEF Placed, CopiedOnce
<1>2. CASE UNCHANGED <<tables, doubled, again, migration, waiting>>
  BY <1>1, <1>2, WaitersStay
<1>3. CASE Record
  <2> USE <1>0, <1>3
  <2>0. UNCHANGED <<again, migration, liteTable>>
    BY DEF Record
  <2>1. clock \notin InLite \cup InPg \cup doubled
    BY RecordMoves DEF Timed, Past, BackendsTypeOK, CountersOK
  <2>2. /\ clock \in Events
        /\ InLite' = InLite /\ InPg \subseteq InPg' /\ InPg' \subseteq InPg \cup {clock}
        /\ doubled \subseteq doubled' /\ doubled' \subseteq doubled \cup {clock}
        /\ clock \in InPg' => clock \in doubled'
        /\ \A e : Waits(e)' => Waits(e) \/ e = clock
    <3>1. \/ pgTable' = pgTable /\ InPg' = InPg
          \/ clock \in doubled' /\ InPg' = InPg \cup {clock}
      BY RecordMoves
    <3>2. /\ clock \in Events /\ InLite' = InLite
          /\ doubled \subseteq doubled' /\ doubled' \subseteq doubled \cup {clock}
          /\ \A e : Waits(e)' => Waits(e) \/ e = clock
      BY RecordMoves
    <3> QED BY <2>1, <3>1, <3>2
  <2>3. migration.target = "postgres" => clock \notin migration.todo
    BY DEF Placed, Timed, Cutoffs, MigrationOK, None, BackendsTypeOK, CountersOK
  <2>4. Placed'
    <3>1. \A e \in Events : Waits(e)' /\ e \notin doubled' => e \notin InLite' \cup InPg'
      BY <2>1, <2>2 DEF Placed
    <3>2. \A e \in Events : Waits(e)' /\ e \in InLite' => e \in InPg'
      BY <2>1, <2>2 DEF Placed
    <3>3. \A e \in Events : liteTable'[e] > 1 => e \in InPg'
      BY <2>0, <2>2 DEF Placed
    <3>4. migration'.target = "postgres" =>
            \A e \in migration'.todo :
              e \in InLite' /\ e \notin InPg' /\ e < migration'.cutoff
      BY <2>0, <2>2, <2>3 DEF Placed
    <3>5. migration'.target = "sqlite" => migration'.todo \subseteq InPg'
      BY <2>0, <2>2 DEF Placed
    <3> QED BY <3>1, <3>2, <3>3, <3>4, <3>5 DEF Placed
  <2>5. \A e \in Events : e \notin doubled' => pgTable'[e] = pgTable[e]
    <3>0. \/ pgTable' = pgTable
          \/ clock \in doubled' /\ pgTable' = Added(pgTable, RowOf(clock))
      BY RecordMoves
    <3>1. CASE pgTable' = pgTable
      BY <3>1
    <3>2. CASE clock \in doubled' /\ pgTable' = Added(pgTable, RowOf(clock))
      <4>1. \A e \in Events : e # clock => pgTable'[e] = pgTable[e]
        BY <2>2, <3>2, RowIs, AddedIs
      <4> QED BY <3>2, <4>1
    <3> QED BY <3>0, <3>1, <3>2
  <2>6. CopiedOnce'
    BY <2>0, <2>2, <2>5 DEF CopiedOnce
  <2> QED BY <2>4, <2>6
<1>4. CASE WriteFirst
  <2> USE <1>0, <1>4
  <2>0. UNCHANGED <<again, doubled, migration>>
    BY DEF WriteFirst
  <2>1. \A e : Waits(e)' => Waits(e)
    BY WriteMoves
  <2>2. CASE UNCHANGED tables
    BY <1>1, <2>0, <2>1, <2>2
  <2>3. CASE ~UNCHANGED tables
    <3>1. PICK e \in Events :
            /\ 1 \in DOMAIN waiting /\ waiting[1] = EventOp(e) /\ Waits(e)
            /\ \/ /\ writer = "postgres"
                  /\ liteTable' = liteTable /\ InLite' = InLite
                  /\ pgTable' = Added(pgTable, RowOf(e))
                  /\ InPg' = InPg \cup {e}
               \/ /\ writer = "sqlite"
                  /\ pgTable' = pgTable /\ InPg' = InPg
                  /\ liteTable' = Added(liteTable, RowOf(e))
                  /\ InLite' = InLite \cup {e}
      BY <2>3, WriteMoves
    <3>2. ~Waits(e)'
      <4>1. SUFFICES ASSUME Waits(e)' PROVE FALSE
        OBVIOUS
      <4>2. PICK i \in DOMAIN waiting : 1 < i /\ waiting[i] = EventOp(e)
        BY <4>1, WriteMoves
      <4> QED BY <3>1, <4>2, EventOpsDiffer DEF Timed, InTurn, Events
    <3>3. e \notin doubled => e \notin InLite \cup InPg
      BY <3>1 DEF Placed
    <3>4. e \in InLite => e \in InPg
      BY <3>1 DEF Placed
    <3>5. migration.target = "postgres" => e \notin migration.todo
      BY <3>1 DEF Placed, Timed, Cutoffs, MigrationOK, None, Events
    <3>6. RowOf(e) \in Table /\ \A x \in Events : RowOf(e)[x] = IF x = e THEN 1 ELSE 0
      BY RowIs
    <3>7. CASE pgTable' = pgTable
      <4>1. \A x \in Events : liteTable'[x] =
              IF x # e THEN liteTable[x] ELSE IF liteTable[x] > 0 THEN 2 ELSE 1
        BY <3>1, <3>6, <3>7, <2>3, AddedIs
      <4>2. \A x \in Events : liteTable'[x] > 1 => x \in InPg'
        BY <3>1, <3>4, <3>7, <2>3, <4>1 DEF Placed
      <4> QED BY <2>0, <2>1, <2>3, <3>1, <3>2, <3>7, <4>2 DEF Placed, CopiedOnce
    <3>8. CASE liteTable' = liteTable
      <4>1. \A x \in Events : pgTable'[x] =
              IF x # e THEN pgTable[x] ELSE IF pgTable[x] > 0 THEN 2 ELSE 1
        BY <3>1, <3>6, <3>8, <2>3, AddedIs
      <4>2. CopiedOnce'
        BY <2>0, <3>3, <4>1 DEF CopiedOnce
      <4>3. InPg' = InPg \cup {e} /\ InLite' = InLite
        BY <3>1, <3>8, <2>3
      <4>4. \A x \in Events : Waits(x)' /\ x \notin doubled' => x \notin InLite' \cup InPg'
        BY <2>0, <2>1, <3>2, <4>3 DEF Placed
      <4> QED BY <2>0, <2>1, <3>5, <3>8, <4>2, <4>3, <4>4 DEF Placed
    <3> QED BY <3>1, <3>7, <3>8
  <2> QED BY <2>2, <2>3
<1>5. CASE SetKnob \/ SetDsn \/ Commit
  <2>1. \A e : Waits(e)' => Waits(e)
    BY <1>5, RequestsQueueNoEvent
  <2>2. UNCHANGED <<tables, doubled, again, migration>>
    BY <1>5 DEF SetKnob, SetDsn, Commit
  <2> QED BY <1>1, <2>1, <2>2
<1>6. CASE TimePasses \/ Rotate \/ BeginSwitch \/ Recover
  BY <1>2, <1>6 DEF TimePasses, Rotate, BeginSwitch, Recover
<1>7. CASE CopyRecent
  <2> USE <1>0, <1>7
  <2>0. UNCHANGED <<doubled, migration, waiting, clock>> /\ switch.target \in Stores
    BY DEF CopyRecent, BackendsTypeOK, SwitchOK
  <2>1. \A e : Waits(e)' <=> Waits(e)
    BY <2>0, WaitersStay
  <2>2. CASE switch.target = "postgres"
    <3>1. PICK copied \in Table :
            /\ \A e \in Held(copied) : /\ e >= clock - Window
                                      /\ e \in InLite /\ copied[e] = liteTable[e]
            /\ pgTable' = Added(pgTable, copied) /\ liteTable' = liteTable
            /\ InPg' = InPg \cup Held(copied) /\ InLite' = InLite
            /\ again' = again \cup (Held(copied) \cap InPg)
      BY <2>2, CopyMoves
    <3>2. \A e \in Events : /\ copied[e] \in 0 .. 2
                            /\ e \in Held(copied) <=> copied[e] > 0
      BY DEF Table, Held
    <3>3. \A e \in Events : pgTable'[e] =
            IF pgTable[e] + copied[e] > 2 THEN 2 ELSE pgTable[e] + copied[e]
      BY <3>1, AddedIs
    <3>4. \A e \in Events \ (doubled' \cup again') : pgTable'[e] <= 1
      <4> SUFFICES ASSUME NEW e \in Events, e \notin doubled', e \notin again'
                   PROVE  pgTable'[e] <= 1
        OBVIOUS
      <4>1. CASE e \in Held(copied)
        <5>1. e \notin InPg /\ liteTable[e] <= 1
          BY <3>1, <4>1 DEF Placed
        <5> QED BY <3>1, <3>2, <3>3, <4>1, <5>1
      <4>2. CASE e \notin Held(copied)
        BY <2>0, <3>1, <3>2, <3>3, <4>2 DEF CopiedOnce
      <4> QED BY <4>1, <4>2
    <3>5. migration.target = "postgres" => Held(copied) \cap migration.todo = {}
      <4>1. SUFFICES ASSUME migration.target = "postgres",
                            NEW e \in Held(copied), e \in migration.todo
                     PROVE  FALSE
        OBVIOUS
      <4>2. e < migration.cutoff /\ e \in Events
        BY <3>1, <4>1 DEF Placed
      <4>3. migration.cutoff <= clock - Window /\ migration.cutoff \in Int
        BY <4>1 DEF Timed, Cutoffs, MigrationOK, None
      <4>4. clock - Window \in Int
        BY DEF BackendsTypeOK, CountersOK
      <4> QED BY <3>1, <4>2, <4>3, <4>4 DEF Events
    <3>6. \A e \in Events : Waits(e) /\ e \notin doubled => e \notin Held(copied)
      BY <3>1 DEF Placed
    <3> HIDE DEF rows, tables, process, history, settings, view, keys
    <3>7. Placed'
      BY <2>0, <2>1, <3>1, <3>5, <3>6 DEF Placed
    <3> QED BY <3>4, <3>7 DEF CopiedOnce
  <2>3. CASE switch.target # "postgres"
    <3>1. PICK copied \in Table :
            /\ liteTable' = Added(liteTable, copied)
            /\ UNCHANGED <<pgTable, again>>
            /\ InLite' = InLite \cup Held(copied) /\ InPg' = InPg
            /\ Held(copied) \subseteq InPg
      BY <2>3, CopyMoves
    <3>2. \A e \in Events : /\ copied[e] \in 0 .. 2
                            /\ e \in Held(copied) <=> copied[e] > 0
      BY DEF Table, Held
    <3>3. \A e \in Events : liteTable'[e] > 1 => e \in InPg'
      BY <3>1, <3>2, AddedIs DEF Placed
    <3> QED BY <2>0, <2>1, <3>1, <3>3 DEF Placed, CopiedOnce
  <2> QED BY <2>2, <2>3
<1>8. CASE Restart
  <2> USE <1>0, <1>8
  <2>1. /\ \A e : ~Waits(e)'
        /\ liteTable' = liteTable /\ InLite' = InLite
        /\ UNCHANGED <<marker, doubled, again>>
        /\ \E d \in BOOLEAN : migration' = Resumed(d, InPg')
        /\ \/ /\ pgTable' = Added(pgTable, Only(liteTable, Backfill))
              /\ InPg' = InPg \cup Backfill
           \/ pgTable' = pgTable /\ InPg' = InPg
    BY RestartMoves
  <2>2. Backfill \cap InPg = {} /\ Backfill \subseteq InLite
    <3>1. \A e \in Events : ~(e > e)
      BY DEF Events
    <3> QED BY <3>1 DEF Backfill, Newer
  <2>3. \A e \in Events : liteTable'[e] > 1 => e \in InPg'
    BY <2>1, <2>2 DEF Placed
  <2>4. CopiedOnce'
    <3>1. CASE pgTable' = pgTable
      BY <2>1, <3>1 DEF CopiedOnce
    <3>2. CASE pgTable' = Added(pgTable, Only(liteTable, Backfill))
      <4>1. \A e \in Events : pgTable'[e] =
              IF e \in Backfill THEN IF pgTable[e] + liteTable[e] > 2 THEN 2
                                                   ELSE pgTable[e] + liteTable[e]
              ELSE pgTable[e]
        BY <3>2, OnlyIs, AddedIs
      <4>2. \A e \in Backfill : pgTable[e] = 0 /\ liteTable[e] <= 1
        BY <2>2 DEF Placed
      <4> QED BY <2>1, <4>1, <4>2 DEF CopiedOnce
    <3> QED BY <2>1, <3>1, <3>2
  <2>5. migration'.target = "postgres" =>
          \A e \in migration'.todo :
            e \in InLite' /\ e \notin InPg' /\ e < migration'.cutoff
    <3>1. \A e, c : Uncovered(e, InPg', c) => e < c /\ (e \in Events => e \notin InPg')
      BY DEF Uncovered, Events
    <3> QED BY <2>1, <3>1 DEF Resumed, None
  <2>6. migration'.target = "sqlite" => migration'.todo \subseteq InPg'
    BY <2>1 DEF Resumed, None
  <2> QED BY <2>1, <2>3, <2>4, <2>5, <2>6 DEF Placed
<1>9. CASE MigrateBatch
  <2> USE <1>0, <1>9
  <2>0. UNCHANGED <<doubled, again, waiting>> /\ \A e : Waits(e)' <=> Waits(e)
    BY WaitersStay DEF MigrateBatch
  <2>1. migration # None /\ migration.target \in Stores
    BY BatchMoves DEF MigrationOK
  <2>2. PICK e \in Events :
          /\ e \in migration.todo
          /\ migration' = [migration EXCEPT !.todo = @ \ {e}]
          /\ migration.target = "postgres" =>
               /\ pgTable' = Added(pgTable, Only(liteTable, {e}))
               /\ InPg' = InPg \cup (InLite \cap {e})
               /\ liteTable' = liteTable /\ InLite' = InLite
          /\ migration.target # "postgres" =>
               /\ liteTable' = Added(liteTable, Only(pgTable, {e}))
               /\ InLite' = InLite \cup (InPg \cap {e})
               /\ pgTable' = pgTable /\ InPg' = InPg
    BY BatchMoves
  <2>3. /\ migration'.target = migration.target /\ migration'.cutoff = migration.cutoff
        /\ migration'.todo = migration.todo \ {e}
    BY <2>1, <2>2 DEF MigrationOK
  <2>4. CASE migration.target = "postgres"
    <3>1. e \in InLite /\ e \notin InPg /\ e < migration.cutoff
      BY <2>2, <2>4 DEF Placed
    <3>2. ~Waits(e)
      BY <2>1, <3>1 DEF Timed, Cutoffs, MigrationOK, Events
    <3>3. \A x \in Events : pgTable'[x] = IF x = e THEN liteTable[x] ELSE pgTable[x]
      BY <2>2, <2>4, <3>1, OnlyIs, AddedIs
    <3>4. CopiedOnce'
      BY <2>0, <3>1, <3>3 DEF CopiedOnce, Placed
    <3> QED BY <2>0, <2>2, <2>3, <2>4, <3>1, <3>2, <3>4 DEF Placed
  <2>5. CASE migration.target # "postgres"
    <3>1. e \in InPg
      BY <2>1, <2>2, <2>5 DEF Placed, Stores
    <3>2. \A x \in Events : liteTable'[x] > 1 => x \in InPg'
      <4>1. \A x \in Events : x # e => liteTable'[x] = liteTable[x]
        BY <2>2, <2>5, OnlyIs, AddedIs
      <4> QED BY <2>2, <2>5, <3>1, <4>1 DEF Placed
    <3> QED BY <2>0, <2>1, <2>2, <2>3, <2>5, <3>1, <3>2
            DEF Placed, CopiedOnce, Stores
  <2> QED BY <2>4, <2>5
<1>10. CASE MigrateEnd
  <2> USE <1>0, <1>10 DEF MigrateEnd
  <2>1. InLite' = InLite /\ InPg' = InPg
    BY DEF InLite, InPg
  <2>2. \A e : Waits(e)' <=> Waits(e)
    BY WaitersStay
  <2> QED BY <2>1, <2>2 DEF Placed, CopiedOnce, None
<1> QED BY <1>1, <1>2, <1>3, <1>4, <1>5, <1>6, <1>7, <1>8, <1>9, <1>10
        DEF BackendsNext, backendsVars

-----------------------------------------------------------------------------

LEMMA SpoiledStays ==
  ASSUME BackendsTypeOK, [BackendsNext]_backendsVars, ~spoiled' PROVE ~spoiled
<1> USE DEF history
<1>1. CASE UNCHANGED spoiled
  BY <1>1
<1>2. CASE Record
  BY <1>2 DEF Record
<1>3. CASE Commit
  BY <1>3 DEF Commit
<1>4. CASE Restart
  BY <1>4, RestartMoves
<1>5. CASE MigrateEnd
  BY <1>5 DEF MigrateEnd
<1>6. CASE TimePasses \/ WriteFirst \/ SetKnob \/ Rotate \/ SetDsn \/ BeginSwitch
           \/ CopyRecent \/ MigrateBatch \/ Recover
  BY <1>1, <1>6 DEF TimePasses, WriteFirst, SetKnob, Rotate, SetDsn, BeginSwitch,
                    CopyRecent, MigrateBatch, Recover
<1> QED BY <1>1, <1>2, <1>3, <1>4, <1>5, <1>6 DEF BackendsNext, backendsVars

LEMMA ClosingStays ==
  ASSUME BackendsTypeOK, CopyPhase, Timed, Placed, ~spoiled => Closing,
         [BackendsNext]_backendsVars, BackendsTypeOK', ~spoiled'
  PROVE  Closing'
<1> USE BackendsConstants
    DEF keys, settings, view, rows, tables, process, history
<1>0. /\ InLite \subseteq Events /\ InPg \subseteq Events
      /\ MigrationOK /\ SwitchOK /\ CountersOK /\ writer \in Stores
      /\ LiteLast /\ MarkerStays /\ \A e \in Missing : Reachable(e) /\ Covered(e)
  BY RowCounts, SpoiledStays DEF BackendsTypeOK, FlagsOK, Closing
<1>1. CASE /\ UNCHANGED <<tables, writer, migration, marker, switch, straddled>>
           /\ \A e : Waits(e)' => Waits(e)
  <2>1. InLite' = InLite /\ InPg' = InPg
    BY <1>1 DEF InLite, InPg
  <2>2. LiteLast' /\ MarkerStays'
    BY <1>0, <1>1, <2>1 DEF LiteLast, MarkerStays
  <2>3. Missing' = Missing /\ \A e : /\ Reachable(e)' <=> Reachable(e)
                                   /\ Covered(e)' <=> Covered(e)
    BY <1>1, <2>1 DEF Missing, Reachable, Covered, Behind, Copying, Newer
  <2> QED BY <1>0, <2>2, <2>3 DEF Closing
<1>2. CASE UNCHANGED <<tables, writer, migration, marker, switch, straddled, waiting>>
  BY <1>1, <1>2, WaitersStay
<1>3. CASE Record
  <2> USE <1>0, <1>3
  <2>0. UNCHANGED <<writer, migration, marker, switch, straddled>>
    BY DEF Record
  <2>1. clock \in Events /\ InLite' = InLite
        /\ \A e : Waits(e)' => Waits(e) \/ e = clock
    BY RecordMoves
  <2>2. \/ InPg' = InPg
        \/ writer = "postgres" /\ InPg' = InPg \cup {clock}
    BY RecordMoves DEF Stores
  <2>3. \A x \in InLite \cup InPg : x < clock
    BY RecordMoves DEF Timed, Past
  <2>4. LiteLast' /\ MarkerStays'
    BY <2>0, <2>1, <2>2, <2>3 DEF LiteLast, MarkerStays
  <2>5. Missing' \subseteq Missing
    BY <2>0, <2>1, <2>2 DEF Missing
  <2>6. ASSUME NEW e \in Missing, e \in Missing'
        PROVE  Reachable(e)' /\ Covered(e)'
    <3>1. Covered(e)'
      BY <2>0 DEF Covered
    <3>2. CASE InPg' = InPg
      BY <2>0, <3>2, <3>1 DEF Reachable, Behind, Copying, Newer
    <3>3. CASE writer = "postgres" /\ InPg' = InPg \cup {clock}
      <4>1. marker.target = "postgres" /\ Behind(e, marker.cutoff)
            /\ marker.cutoff <= clock - Window /\ marker.cutoff \in Int
        BY <3>3 DEF Reachable, Timed, Cutoffs, MigrationOK, None
      <4>2. Behind(e, marker.cutoff)'
        BY <2>0, <2>1, <3>3, <4>1 DEF Behind, CountersOK
      <4> QED BY <2>0, <3>1, <4>1, <4>2 DEF Reachable
    <3> QED BY <2>2, <3>2, <3>3
  <2> QED BY <2>4, <2>5, <2>6 DEF Closing
<1>4. CASE WriteFirst
  <2> USE <1>0, <1>4
  <2>0. UNCHANGED <<writer, migration, marker, switch, straddled>>
    BY DEF WriteFirst
  <2>1. \A e : Waits(e)' =>
          Waits(e) /\ \E i \in DOMAIN waiting : 1 < i /\ waiting[i] = EventOp(e)
    BY WriteMoves
  <2>2. CASE UNCHANGED tables
    BY <1>1, <2>0, <2>1, <2>2
  <2>3. CASE ~UNCHANGED tables
    <3>1. PICK e \in Events :
            /\ 1 \in DOMAIN waiting /\ waiting[1] = EventOp(e) /\ Waits(e)
            /\ \/ /\ writer = "postgres" /\ InLite' = InLite
                  /\ InPg' = InPg \cup {e}
               \/ /\ writer = "sqlite" /\ InPg' = InPg
                  /\ InLite' = InLite \cup {e}
      BY <2>3, WriteMoves
    <3>2. \A x \in Events : Waits(x)' => e < x
      <4>1. SUFFICES ASSUME NEW x \in Events, Waits(x)' PROVE e < x
        OBVIOUS
      <4>2. PICK i \in DOMAIN waiting : 1 < i /\ waiting[i] = EventOp(x)
        BY <2>1, <4>1
      <4> QED BY <3>1, <4>2, EventOpsDiffer DEF Timed, InTurn
    <3>3. LiteLast' /\ MarkerStays'
      BY <2>0, <2>1, <3>1, <3>2 DEF LiteLast, MarkerStays
    <3>4. CASE writer = "sqlite"
      <4>1. InPg' = InPg /\ InLite' = InLite \cup {e} /\ Newer(e, InPg)
        BY <3>1, <3>4 DEF LiteLast, Newer, Events
      <4>2. migration.target = "postgres" => e >= migration.cutoff
        BY <3>1 DEF Timed, Cutoffs, None
      <4>3. Reachable(e) /\ Covered(e)
        BY <3>4, <4>1, <4>2 DEF Reachable, Covered
      <4>4. \A x : Reachable(x) /\ Covered(x) => Reachable(x)' /\ Covered(x)'
        BY <2>0, <4>1 DEF Reachable, Covered, Behind, Copying, Newer
      <4>5. Missing' \subseteq Missing \cup {e}
        BY <2>0, <4>1 DEF Missing
      <4> QED BY <3>3, <4>3, <4>4, <4>5 DEF Closing
    <3>5. CASE writer # "sqlite"
      <4>1. writer = "postgres" /\ InLite' = InLite /\ InPg' = InPg \cup {e}
        BY <3>1, <3>5
      <4>2. Missing' \subseteq Missing
        BY <2>0, <4>1 DEF Missing
      <4>3. ASSUME NEW x \in Missing PROVE Reachable(x)' /\ Covered(x)'
        <5>1. /\ migration.target = "postgres" /\ x \in migration.todo
              /\ marker.target = "postgres" /\ Behind(x, marker.cutoff)
              /\ marker.cutoff = migration.cutoff
          BY <4>1 DEF Reachable, Covered, MarkerStays
        <5>2. e >= migration.cutoff /\ migration.cutoff \in Int
          BY <3>1, <5>1 DEF Timed, Cutoffs, None, MigrationOK
        <5>3. Behind(x, marker.cutoff)'
          <6>1. PICK c \in Int : c = marker.cutoff /\ c = marker'.cutoff /\ c <= e
            BY <2>0, <5>1, <5>2
          <6>2. x < c /\ \A y \in InPg : y < c => y < x
            BY <5>1, <6>1 DEF Behind
          <6>3. e \in Int /\ ~ e < c
            BY <3>1, <6>1 DEF Events
          <6>4. \A y \in InPg' : y < c => y < x
            BY <4>1, <6>2, <6>3
          <6> QED BY <6>1, <6>2, <6>4 DEF Behind
        <5> QED BY <2>0, <5>1, <5>3 DEF Reachable, Covered
      <4> QED BY <3>3, <4>2, <4>3 DEF Closing
    <3> QED BY <3>4, <3>5
  <2> QED BY <2>2, <2>3
<1>5. CASE SetKnob \/ SetDsn
  <2>1. UNCHANGED <<tables, writer, migration, marker, switch, straddled>>
    BY <1>5 DEF SetKnob, SetDsn
  <2> QED BY <1>1, <1>5, <2>1, RequestsQueueNoEvent
<1>6. CASE TimePasses \/ Rotate \/ Recover
  BY <1>2, <1>6 DEF TimePasses, Rotate, Recover
<1>7. CASE BeginSwitch
  <2> USE <1>0, <1>7 DEF BeginSwitch
  <2>1. InLite' = InLite /\ InPg' = InPg /\ \A e : Waits(e)' <=> Waits(e)
    BY WaitersStay DEF InLite, InPg
  <2>2. ~Copying /\ ~Copying'
    BY DEF Copying, None
  <2>3. LiteLast' /\ MarkerStays'
    BY <2>1 DEF LiteLast, MarkerStays
  <2>4. Missing' = Missing
    BY <2>1 DEF Missing
  <2>5. \A e : Reachable(e) /\ Covered(e) => Reachable(e)' /\ Covered(e)'
    BY <2>1, <2>2 DEF Reachable, Covered, Behind, Newer
  <2> QED BY <2>3, <2>4, <2>5 DEF Closing
<1>8. CASE CopyRecent
  <2> USE <1>0, <1>8
  <2>0. UNCHANGED <<writer, migration, marker, waiting, clock>>
        /\ switch.target \in Stores /\ switch # None /\ switch.phase = "begun"
        /\ \A e : Waits(e)' <=> Waits(e)
    BY WaitersStay DEF CopyRecent, SwitchOK
  <2>1. switch.ts <= clock /\ ~switch.copied
    BY <2>0 DEF CopyPhase
  <2>2. CASE switch.target = "postgres"
    <3>1. PICK copied \in Table :
            /\ \A e \in Held(copied) : e >= clock - Window /\ e \in InLite
            /\ switch' = [switch EXCEPT !.phase = "copied",
                                       !.copied = Held(copied) # {}]
            /\ InPg' = InPg \cup Held(copied) /\ InLite' = InLite
            /\ straddled' = straddled \cup
                 {e \in InLite : switch.ts - Window <= e /\ e < clock - Window}
            /\ Held(copied) # {} =>
                 \A e \in InLite : e >= clock - Window => e \in Held(copied)
      BY <2>2, CopyMoves
    <3>2. /\ switch'.ts = switch.ts /\ switch'.target = "postgres"
          /\ switch'.copied <=> Held(copied) # {}
      BY <2>0, <2>2, <3>1 DEF SwitchOK
    <3>3. LiteLast' /\ MarkerStays'
      BY <2>0, <3>1 DEF LiteLast, MarkerStays
    <3>4. Missing' \subseteq Missing
      BY <3>1 DEF Missing
    <3>5. ASSUME NEW e \in Missing, e \in Missing' PROVE Reachable(e)' /\ Covered(e)'
      <4>1. Covered(e)'
        BY <2>0 DEF Covered
      <4>2. CASE Held(copied) = {}
        <5>1. InPg' = InPg
          BY <3>1, <4>2
        <5>2. ~Copying
          BY <2>1 DEF Copying
        <5> QED BY <2>0, <4>1, <5>1, <5>2 DEF Reachable, Behind, Newer
      <4>3. CASE Held(copied) # {}
        <5>1. e \in Events /\ e < clock - Window /\ e \in InLite
          BY <3>1, <3>5, <4>3 DEF Missing, CountersOK, Events
        <5>2. e < switch.ts - Window
          BY <2>0, <3>1, <3>5, <5>1 DEF Missing, SwitchOK, CountersOK, Events
        <5>3. CASE writer = "sqlite" /\ Newer(e, InPg)
          <6>1. Behind(e, switch.ts - Window)'
            <7>1. \A x \in InPg' : x < switch.ts - Window => x \in InPg
              BY <2>0, <2>1, <3>1 DEF SwitchOK, CountersOK, Events
            <7> QED BY <3>2, <5>2, <5>3, <7>1 DEF Behind, Newer, Events
          <6>2. Copying'
            BY <3>2, <4>3 DEF Copying
          <6> QED BY <2>0, <4>1, <5>3, <6>1, <6>2 DEF Reachable
        <5>4. CASE marker.target = "postgres" /\ Behind(e, marker.cutoff)
          <6>1. marker.cutoff <= clock - Window /\ marker.cutoff \in Int
            BY <5>4 DEF Timed, Cutoffs, MigrationOK, None
          <6>2. Behind(e, marker.cutoff)'
            BY <2>0, <3>1, <5>4, <6>1 DEF Behind, CountersOK, Events
          <6> QED BY <2>0, <4>1, <5>4, <6>2 DEF Reachable
        <5> QED BY <2>1, <5>3, <5>4 DEF Reachable, Copying
      <4> QED BY <4>2, <4>3
    <3> QED BY <3>3, <3>4, <3>5 DEF Closing
  <2>3. CASE switch.target # "postgres"
    <3>1. PICK copied \in Table :
            /\ switch' = [switch EXCEPT !.phase = "copied",
                                       !.copied = Held(copied) # {}]
            /\ UNCHANGED straddled
            /\ InLite' = InLite \cup Held(copied) /\ InPg' = InPg
            /\ Held(copied) \subseteq InPg
      BY <2>3, CopyMoves
    <3>2. switch'.target # "postgres"
      BY <2>0, <2>3, <3>1 DEF SwitchOK
    <3>3. LiteLast' /\ MarkerStays'
      BY <2>0, <3>1 DEF LiteLast, MarkerStays
    <3>4. Missing' = Missing
      BY <3>1 DEF Missing
    <3>5. \A e : Reachable(e) /\ Covered(e) => Reachable(e)' /\ Covered(e)'
      BY <2>0, <2>3, <3>1 DEF Reachable, Covered, Behind, Copying, Newer
    <3> QED BY <3>3, <3>4, <3>5 DEF Closing
  <2> QED BY <2>2, <2>3
<1>9. CASE Commit
  <2> USE <1>0, <1>9
  <2>0. UNCHANGED <<writer, migration, tables, straddled>>
        /\ \A e : Waits(e)' => Waits(e)
    BY RequestsQueueNoEvent DEF Commit
  <2>1. InLite' = InLite /\ InPg' = InPg /\ Missing' = Missing
    BY <2>0 DEF InLite, InPg, Missing
  <2>2. switch' = None /\ ~Copying'
    BY DEF Commit, Copying, None
  <2>3. PICK marked \in BOOLEAN :
          /\ marker' = IF marked THEN [target |-> switch.target,
                                       cutoff |-> switch.ts - Window] ELSE marker
          /\ ~(switch.target = "postgres" /\ switch.copied /\ ~marked)
          /\ ~(marker.target = "postgres" /\ marker' # marker)
    BY DEF Commit, SwitchOK
  <2>4. LiteLast' /\ MarkerStays'
    BY <2>0, <2>1, <2>3 DEF LiteLast, MarkerStays
  <2>5. ASSUME NEW e \in Missing PROVE Reachable(e)' /\ Covered(e)'
    <3>1. Covered(e)'
      BY <2>0 DEF Covered
    <3>2. CASE writer = "sqlite" /\ Newer(e, InPg)
      BY <2>0, <2>1, <3>1, <3>2 DEF Reachable, Newer
    <3>3. CASE marker.target = "postgres" /\ Behind(e, marker.cutoff)
      <4>1. marker' = marker
        BY <2>3, <3>3
      <4> QED BY <2>1, <3>1, <3>3, <4>1 DEF Reachable, Behind
    <3>4. CASE Copying /\ Behind(e, switch.ts - Window)
      <4>1. marker' = [target |-> "postgres", cutoff |-> switch.ts - Window]
        BY <2>3, <3>4 DEF Copying
      <4>2. marker'.target = "postgres" /\ marker'.cutoff = switch.ts - Window
        BY <4>1
      <4> QED BY <2>1, <3>1, <3>4, <4>2 DEF Reachable, Behind
    <3> QED BY <3>2, <3>3, <3>4 DEF Reachable
  <2> QED BY <2>1, <2>4, <2>5 DEF Closing
<1>10. CASE Restart
  <2> USE <1>0, <1>10
  <2>1. /\ \A e : ~Waits(e)'
        /\ InLite' = InLite /\ switch' = None /\ ~Interrupted
        /\ UNCHANGED <<marker, straddled>>
        /\ \/ migration' = Resumed(TRUE, InPg') /\ InPg' = InPg \cup Backfill
           \/ /\ migration' = Resumed(FALSE, InPg') /\ InPg' = InPg
              /\ writer' = "sqlite" /\ marker.target # "postgres"
    BY RestartMoves
  <2>2. LiteLast' /\ MarkerStays'
    BY <2>1 DEF LiteLast, MarkerStays, Resumed, None, MigrationOK
  <2>3. Missing' \subseteq Missing
    BY <2>1 DEF Missing
  <2>4. ASSUME NEW e \in Missing, e \in Missing' PROVE Reachable(e)' /\ Covered(e)'
    <3>1. ~Copying
      BY <2>1 DEF Copying, Interrupted, None
    <3>2. CASE migration' = Resumed(TRUE, InPg') /\ InPg' = InPg \cup Backfill
      <4>1. e \in InLite /\ e \notin InPg /\ e \notin Backfill /\ e \in Events
        BY <2>1, <2>4, <3>2 DEF Missing
      <4>2. ~Newer(e, InPg)
        BY <4>1 DEF Backfill
      <4>3. marker.target = "postgres" /\ Behind(e, marker.cutoff)
        BY <3>1, <4>2 DEF Reachable
      <4>4. marker.cutoff \in Int /\ marker # None
        BY <4>3 DEF MigrationOK, None
      <4>5. PICK p \in InPg : p >= e
        BY <4>1, <4>2 DEF Newer, Events
      <4>6. p >= marker.cutoff
        BY <4>1, <4>3, <4>4, <4>5 DEF Behind, Events
      <4>7. \A x \in Backfill : x >= marker.cutoff
        BY <4>4, <4>5, <4>6 DEF Backfill, Newer, Events
      <4>8. Behind(e, marker.cutoff)'
        BY <2>1, <3>2, <4>1, <4>3, <4>4, <4>7 DEF Behind, Backfill, Events
      <4>9. migration'.target = "postgres" /\ e \in migration'.todo
        <5>1. Uncovered(e, InPg', marker.cutoff)
          BY <2>1, <4>1, <4>4, <4>8 DEF Uncovered, Behind, Events
        <5> QED BY <3>2, <4>1, <4>3, <4>4, <5>1 DEF Resumed
      <4> QED BY <2>1, <4>3, <4>8, <4>9 DEF Reachable, Covered
    <3>3. CASE /\ migration' = Resumed(FALSE, InPg') /\ InPg' = InPg
               /\ writer' = "sqlite" /\ marker.target # "postgres"
      <4>1. migration'.target # "postgres"
        BY <3>3 DEF Resumed, None
      <4>2. Newer(e, InPg)
        BY <3>1, <3>3 DEF Reachable
      <4> QED BY <3>3, <4>1, <4>2 DEF Reachable, Covered, Newer
    <3> QED BY <2>1, <3>2, <3>3
  <2> QED BY <2>2, <2>3, <2>4 DEF Closing
<1>11. CASE MigrateBatch
  <2> USE <1>0, <1>11
  <2>0. UNCHANGED <<writer, marker, switch, straddled, waiting>>
        /\ \A e : Waits(e)' <=> Waits(e)
    BY WaitersStay DEF MigrateBatch
  <2>1. PICK h \in Events :
          /\ h \in migration.todo /\ \A x \in migration.todo : h <= x
          /\ migration' = [migration EXCEPT !.todo = @ \ {h}]
          /\ migration.target = "postgres" =>
               InPg' = InPg \cup (InLite \cap {h}) /\ InLite' = InLite
          /\ migration.target # "postgres" =>
               InLite' = InLite \cup (InPg \cap {h}) /\ InPg' = InPg
    BY BatchMoves
  <2>2. /\ migration'.target = migration.target /\ migration'.cutoff = migration.cutoff
        /\ migration'.todo = migration.todo \ {h} /\ migration # None
    BY <2>1, BatchMoves DEF MigrationOK
  <2>3. LiteLast' /\ MarkerStays'
    BY <2>0, <2>1, <2>2 DEF LiteLast, MarkerStays
  <2>4. CASE migration.target = "postgres"
    <3>1. h \in InLite /\ h < migration.cutoff /\ migration.cutoff \in Int
      BY <2>1, <2>2, <2>4 DEF Placed, MigrationOK
    <3>2. Missing' \subseteq Missing \ {h}
      BY <2>0, <2>1, <2>4, <3>1 DEF Missing
    <3>3. ASSUME NEW e \in Missing, e # h PROVE Reachable(e)' /\ Covered(e)'
      <4>1. h < e /\ e \in Events
        BY <2>1, <2>4, <3>1, <3>3 DEF Covered, Missing, Events
      <4>2. Covered(e)'
        BY <2>0, <2>2, <3>3 DEF Covered
      <4>3. InPg' = InPg \cup {h}
        BY <2>1, <2>4, <3>1
      <4>4. /\ Newer(e, InPg) => Newer(e, InPg)'
            /\ \A c : Behind(e, c) => Behind(e, c)'
        BY <4>1, <4>3 DEF Newer, Behind, Events
      <4> QED BY <2>0, <4>2, <4>4 DEF Reachable, Copying
    <3> QED BY <2>3, <3>2, <3>3 DEF Closing
  <2>5. CASE migration.target # "postgres"
    <3>1. Missing' = Missing /\ InPg' = InPg
      BY <2>0, <2>1, <2>5 DEF Missing
    <3>2. \A e : Reachable(e) /\ Covered(e) => Reachable(e)' /\ Covered(e)'
      BY <2>0, <2>2, <2>5, <3>1 DEF Reachable, Covered, Behind, Copying, Newer
    <3> QED BY <2>3, <3>1, <3>2 DEF Closing
  <2> QED BY <2>4, <2>5
<1>12. CASE MigrateEnd
  <2> USE <1>0, <1>12
  <2>0. UNCHANGED <<writer, switch, tables, straddled, waiting>> /\ marker' = None
        /\ migration' = None /\ migration # None
        /\ \A e : Waits(e)' <=> Waits(e)
    BY WaitersStay DEF MigrateEnd
  <2>1. InLite' = InLite /\ InPg' = InPg /\ Missing' = Missing
    BY <2>0 DEF InLite, InPg, Missing
  <2>2. LiteLast' /\ MarkerStays'
    BY <2>0, <2>1 DEF LiteLast, MarkerStays, None
  <2>3. /\ migration.target = "postgres" => migration.todo = {}
        /\ marker.target = "postgres" => /\ migration.target = "postgres"
                                       /\ migration.cutoff = marker.cutoff
    BY DEF MigrateEnd
  <2>4. ASSUME NEW e \in Missing PROVE Reachable(e)' /\ Covered(e)'
    <3>1. writer # "postgres"
      BY <2>3 DEF Covered
    <3>2. Covered(e)'
      BY <2>0, <3>1 DEF Covered, None
    <3>3. ~(marker.target = "postgres" /\ Behind(e, marker.cutoff))
      <4>1. SUFFICES ASSUME marker.target = "postgres", Behind(e, marker.cutoff)
                     PROVE  FALSE
        OBVIOUS
      <4>2. e >= migration.cutoff /\ migration.cutoff = marker.cutoff
        BY <2>3, <4>1 DEF Covered
      <4> QED BY <2>0, <4>1, <4>2 DEF Behind, MigrationOK, Missing, Events
    <3> QED BY <2>0, <2>1, <3>2, <3>3 DEF Reachable, Behind, Copying, Newer
  <2> QED BY <2>1, <2>2, <2>4 DEF Closing
<1> QED BY <1>1, <1>2, <1>3, <1>4, <1>5, <1>6, <1>7, <1>8, <1>9, <1>10, <1>11, <1>12
        DEF BackendsNext, backendsVars

-----------------------------------------------------------------------------

LEMMA EventsInvariance == BackendsSpec => []EventsInv
<1>1. BackendsInit => EventsInv
  BY EventsStart
<1>2. EventsInv /\ [BackendsNext]_backendsVars => EventsInv'
  <2> SUFFICES ASSUME EventsInv, [BackendsNext]_backendsVars PROVE EventsInv'
    OBVIOUS
  <2>1. BackendsTypeOK' /\ CopyPhase'
    BY BackendsTypes DEF EventsInv
  <2>2. ReadersAgree'
    BY ReadersStay DEF EventsInv
  <2>3. Timed'
    BY TimedStays DEF EventsInv
  <2>4. Placed' /\ CopiedOnce'
    BY <2>1, PlacedStays DEF EventsInv
  <2>5. ~spoiled' => Closing'
    BY <2>1, ClosingStays DEF EventsInv
  <2> QED BY <2>1, <2>2, <2>3, <2>4, <2>5 DEF EventsInv
<1> QED BY <1>1, <1>2, PTL DEF BackendsSpec

\* Every variable of the two event stores keeps its range, db_queue its bound
\* (put_nowait).
THEOREM BackendsTypeCorrect == BackendsSpec => []BackendsTypeOK
<1>1. EventsInv => BackendsTypeOK
  BY DEF EventsInv
<1> QED BY <1>1, EventsInvariance, PTL

\* Event reads come from the store the writer fills (db_read_events,
\* db_writer_loop, pg_maybe_recover).
THEOREM ReadsFollowWriter == BackendsSpec => []EventReadsFollow
<1>1. EventsInv => EventReadsFollow
  BY DEF EventsInv, ReadersAgree
<1> QED BY <1>1, EventsInvariance, PTL

\* Backfill, migration, switch and writer insert an event in Postgres once
\* between them (_backfill_events_gap_from_sqlite, _bg_sqlite_to_pg).
THEOREM EventsAreCopiedOnce == BackendsSpec => []CopiedOnce
<1>1. EventsInv => CopiedOnce
  BY DEF EventsInv
<1> QED BY <1>1, EventsInvariance, PTL

\* No copy hides events of SQLite from the backfill of the next boot
\* (_migrate_recent_events, _resume_pending_bg_migration).
THEOREM NoGapRemains == BackendsSpec => []NoGap
<1>1. EventsInv => NoGap
  <2> SUFFICES ASSUME EventsInv, migration = None, marker = None, switch = None,
                      ~spoiled, NEW e \in InLite \ (InPg \cup straddled)
               PROVE  Newer(e, InPg) /\ writer = "sqlite"
    BY DEF NoGap
  <2> QED BY DEF EventsInv, Closing, Missing, Reachable, Copying, None
<1> QED BY <1>1, EventsInvariance, PTL

-----------------------------------------------------------------------------
(*****************************************************************************)
(* Replicas: operations and databases                                        *)
(*****************************************************************************)

\* An operation has the columns its kind calls for.
LEMMA SettingOpIs ==
  ASSUME NEW op \in Operations, op.kind \in SettingOps
  PROVE  op.key \in Keys /\ (op.kind = "set_config" => op.value \in Values)
  BY DEF Operations, SettingRequests, BanRequests, SettingOps, SessionOps, JournalOps

LEMMA AccountOpIs ==
  ASSUME NEW op \in Operations, op.kind \in AccountOps
  PROVE  /\ op.key \in Users
         /\ op.kind = "user_create" => op.password \in Values
         /\ op.kind = "user_update" =>
              op.patch \in AccountPatch
  BY DEF Operations, SettingRequests, BanRequests, AccountOps, SessionOps, JournalOps

LEMMA SessionOpIs ==
  ASSUME NEW op \in Operations, op.kind \in SessionOps
  PROVE  op.key \in Sids
  BY DEF Operations, SettingRequests, BanRequests, SessionOps, JournalOps

LEMMA BanOpIs ==
  ASSUME NEW op \in Operations, op.kind \in BanOps
  PROVE  op.key \in Addresses /\ (op.kind = "ip_ban" => op.until \in Untils)
  BY DEF Operations, SettingRequests, BanRequests, BanOps, SessionOps, JournalOps

LEMMA MeshOpIs ==
  ASSUME NEW op \in Operations, op.kind \in MeshOps
  PROVE  /\ op.kind # "gw_distribution_replace" => op.key \in Gateways
         /\ op.kind = "gw_registry_add" => Registered(op) \in GatewayRow
         /\ op.kind = "gw_registry_update" =>
              op.patch \in GatewayPatch
         /\ op.kind = "gw_distribution_replace" => op.rules \subseteq Rules
  <1>1. CASE op.kind = "gw_registry_add"
    BY <1>1 DEF Operations, SettingRequests, BanRequests, SessionOps, JournalOps,
                Registered, GatewayRow
  <1>2. CASE op.kind = "gw_registry_update"
    BY <1>2 DEF Operations, SettingRequests, BanRequests, SessionOps, JournalOps
  <1>3. CASE op.kind = "gw_registry_delete"
    BY <1>3 DEF Operations, SettingRequests, BanRequests, SessionOps, JournalOps
  <1>4. CASE op.kind = "gw_distribution_replace"
    BY <1>4 DEF Operations, SettingRequests, BanRequests, SessionOps, JournalOps
  <1> QED BY <1>1, <1>2, <1>3, <1>4 DEF MeshOps

LEMMA KindIs ==
  ASSUME NEW op \in Operations
  PROVE  op.kind \in SettingOps \cup AccountOps \cup SessionOps \cup BanOps
                     \cup JournalOps \cup MeshOps
  BY DEF Operations, SettingRequests, BanRequests, SettingOps, AccountOps, SessionOps,
         BanOps, JournalOps, MeshOps

\* An update leaves a row of the same shape.
LEMMA PatchedAccount ==
  ASSUME NEW row \in AccountRow, NEW patch \in AccountPatch
  PROVE  Patched(row, patch) \in AccountRow
  <1>1. row # Nothing
    BY NothingAssumption
  <1>2. DOMAIN row = {"password", "totp"}
    BY DEF AccountRow
  <1> DEFINE new(c) == IF c \in DOMAIN patch THEN patch[c] ELSE row[c]
  <1>3. new("password") \in Values /\ new("totp") \in BOOLEAN
    BY DEF AccountRow, AccountPatch
  <1> HIDE DEF new
  <1>4. [c \in {"password", "totp"} |-> new(c)]
          = [password |-> new("password"), totp |-> new("totp")]
    OBVIOUS
  <1>5. Patched(row, patch) = [c \in {"password", "totp"} |-> new(c)]
    BY <1>1, <1>2 DEF Patched, new
  <1> QED BY <1>3, <1>4, <1>5 DEF AccountRow

LEMMA PatchedGateway ==
  ASSUME NEW row \in GatewayRow, NEW patch \in GatewayPatch
  PROVE  Patched(row, patch) \in GatewayRow
  <1> DEFINE columns == {"public", "private", "local", "status", "auto_apply"}
             new(c) == IF c \in DOMAIN patch THEN patch[c] ELSE row[c]
  <1>1. row # Nothing /\ DOMAIN row = columns
    BY NothingAssumption DEF GatewayRow
  <1>2. /\ new("public") \in KeyPairs /\ new("private") \in KeyPairs \cup {Nothing}
        /\ new("local") \in BOOLEAN /\ new("status") \in Statuses
        /\ new("auto_apply") \in BOOLEAN
    <2>1. CASE patch \in [status : Statuses]
      BY <2>1 DEF GatewayRow
    <2>2. CASE patch \in [auto_apply : BOOLEAN]
      BY <2>2 DEF GatewayRow
    <2>3. CASE patch \in [public : KeyPairs, private : KeyPairs \cup {Nothing}]
      BY <2>3 DEF GatewayRow
    <2> QED BY <2>1, <2>2, <2>3 DEF GatewayPatch
  <1> HIDE DEF new
  <1>3. [c \in columns |-> new(c)]
          = [public |-> new("public"), private |-> new("private"),
             local |-> new("local"), status |-> new("status"),
             auto_apply |-> new("auto_apply")]
    OBVIOUS
  <1>4. Patched(row, patch) = [c \in columns |-> new(c)]
    BY <1>1 DEF Patched, new
  <1> QED BY <1>2, <1>3, <1>4 DEF GatewayRow

Settings_ == [Keys -> Values \cup {Nothing}]
Accounts_ == [Users -> AccountRow \cup {Nothing}]
Sessions_ == [Sids -> SessionRow \cup {Nothing}]
Bans_ == [Addresses -> Untils]
Registry_ == [Gateways -> GatewayRow \cup {Nothing}]

LEMMA PatchedIs ==
  /\ \A row \in AccountRow \cup {Nothing}, patch \in AccountPatch :
       Patched(row, patch) \in AccountRow \cup {Nothing}
  /\ \A row \in GatewayRow \cup {Nothing}, patch \in GatewayPatch :
       Patched(row, patch) \in GatewayRow \cup {Nothing}
  BY PatchedAccount, PatchedGateway DEF Patched

\* The arms keep the types of the tables.
LEMMA SettingArms ==
  ASSUME NEW t \in Settings_, NEW op \in Operations, op.kind \in SettingOps
  PROVE  LiteSetting(t, op) \in Settings_ /\ PgSetting(t, op) \in Settings_
  BY SettingOpIs DEF LiteSetting, PgSetting, SettingOps, Settings_

LEMMA AccountArms ==
  ASSUME NEW t \in Accounts_, NEW op \in Operations, op.kind \in AccountOps
  PROVE  LiteAccount(t, op) \in Accounts_ /\ PgAccount(t, op) \in Accounts_
  <1>1. CASE op.kind = "user_create"
    BY <1>1, AccountOpIs DEF LiteAccount, PgAccount, AccountRow, Accounts_
  <1>2. CASE op.kind = "user_update"
    <2>1. Patched(t[op.key], op.patch) \in AccountRow \cup {Nothing}
      BY <1>2, AccountOpIs, PatchedIs DEF Accounts_
    <2> QED BY <1>2, <2>1, AccountOpIs DEF LiteAccount, PgAccount, Accounts_
  <1>3. CASE op.kind = "user_delete"
    BY <1>3, AccountOpIs DEF LiteAccount, PgAccount, Accounts_
  <1> QED BY <1>1, <1>2, <1>3 DEF AccountOps

LEMMA SessionArms ==
  ASSUME NEW t \in Sessions_, NEW op \in Operations, op.kind \in SessionOps
  PROVE  LiteSession(t, op) \in Sessions_ /\ PgSession(t, op) \in Sessions_
  BY SessionOpIs DEF LiteSession, PgSession, SessionRow, Sessions_

LEMMA BanArms ==
  ASSUME NEW t \in Bans_, NEW op \in Operations, op.kind \in BanOps
  PROVE  LiteBan(t, op) \in Bans_ /\ PgBan(t, op) \in Bans_
  BY BanOpIs, TablesAssumption DEF LiteBan, PgBan, Later, BanOps, Bans_

LEMMA RegistryArms ==
  ASSUME NEW t \in Registry_, NEW op \in Operations, op.kind \in MeshOps,
         op.kind # "gw_distribution_replace"
  PROVE  LiteGateway(t, op) \in Registry_ /\ PgGateway(t, op) \in Registry_
  <1>1. CASE op.kind = "gw_registry_add"
    <2>1. Registered(op) \in GatewayRow /\ op.key \in Gateways
      BY <1>1, MeshOpIs
    <2>2. LiteGateway(t, op) \in Registry_
      BY <1>1, <2>1 DEF LiteGateway, Registry_
    <2>3. CASE t[op.key] = Nothing
      BY <1>1, <2>1, <2>2, <2>3 DEF PgGateway, Registry_
    <2>4. CASE t[op.key] \in GatewayRow
      <3> DEFINE new == [Registered(op) EXCEPT
                           !.private = IF op.private = Nothing
                                       THEN t[op.key].private ELSE @,
                           !.auto_apply = t[op.key].auto_apply]
      <3>1. new \in GatewayRow
        BY <2>1, <2>4 DEF GatewayRow
      <3>2. PgGateway(t, op) = [t EXCEPT ![op.key] = new]
        BY <1>1, <2>1, <2>4, NothingAssumption DEF PgGateway, Registry_
      <3> HIDE DEF new
      <3> QED BY <2>1, <2>2, <3>1, <3>2 DEF Registry_
    <2> QED BY <2>1, <2>3, <2>4 DEF Registry_
  <1>2. CASE op.kind = "gw_registry_update"
    <2>1. Patched(t[op.key], op.patch) \in GatewayRow \cup {Nothing}
      BY <1>2, MeshOpIs, PatchedIs DEF Registry_
    <2> QED BY <1>2, <2>1, MeshOpIs DEF LiteGateway, PgGateway, Registry_
  <1>3. CASE op.kind = "gw_registry_delete"
    BY <1>3, MeshOpIs DEF LiteGateway, PgGateway, Registry_
  <1> QED BY <1>1, <1>2, <1>3 DEF MeshOps

LEMMA RulesArms ==
  ASSUME NEW r \in SUBSET Rules, NEW op \in Operations, op.kind \in MeshOps
  PROVE  LiteRules(r, op) \subseteq Rules /\ PgRules(r, op) \subseteq Rules
  BY MeshOpIs DEF LiteRules, PgRules, Without, MeshOps

\* Every operation, and every half of one, leaves a database.
LEMMA DatabaseIs ==
  ASSUME NEW db
  PROVE  db \in Database <=>
           /\ db = [settings |-> db.settings, accounts |-> db.accounts,
                    sessions |-> db.sessions, bans |-> db.bans,
                    journal |-> db.journal, gateways |-> db.gateways,
                    rules |-> db.rules, orders |-> db.orders]
           /\ db.settings \in Settings_ /\ db.accounts \in Accounts_
           /\ db.sessions \in Sessions_ /\ db.bans \in Bans_ /\ db.journal \in Nat
           /\ db.gateways \in Registry_ /\ db.rules \subseteq Rules
           /\ db.orders \in [Names \X Signals -> Orders \cup {Nothing}]
  BY DEF Database, Settings_, Accounts_, Sessions_, Bans_, Registry_

\* Every operation works on the table of its kind.
LEMMA ArmOf ==
  ASSUME NEW db, NEW op
  PROVE  /\ op.kind \in SettingOps =>
              /\ LiteApply(db, op) = [db EXCEPT !.settings = LiteSetting(@, op)]
              /\ PgDispatch(db, op) = [db EXCEPT !.settings = PgSetting(@, op)]
         /\ op.kind \in AccountOps =>
              /\ LiteApply(db, op) = [db EXCEPT !.accounts = LiteAccount(@, op)]
              /\ PgDispatch(db, op) = [db EXCEPT !.accounts = PgAccount(@, op)]
         /\ op.kind \in SessionOps =>
              /\ LiteApply(db, op) = [db EXCEPT !.sessions = LiteSession(@, op)]
              /\ PgDispatch(db, op) = [db EXCEPT !.sessions = PgSession(@, op)]
         /\ op.kind \in BanOps =>
              /\ LiteApply(db, op) = [db EXCEPT !.bans = LiteBan(@, op)]
              /\ PgDispatch(db, op) = [db EXCEPT !.bans = PgBan(@, op)]
         /\ op.kind \in JournalOps =>
              /\ LiteApply(db, op) = [db EXCEPT !.journal = @ + 1]
              /\ PgDispatch(db, op) = [db EXCEPT !.journal = @ + 1]
         /\ op.kind = "gw_distribution_replace" =>
              /\ LiteApply(db, op) = [db EXCEPT !.rules = LiteRules(@, op)]
              /\ PgDispatch(db, op) = [db EXCEPT !.rules = PgRules(@, op)]
         /\ op.kind \in MeshOps /\ op.kind # "gw_distribution_replace" =>
              /\ LiteApply(db, op) = [db EXCEPT !.gateways = LiteGateway(@, op),
                                                !.rules = LiteRules(@, op)]
              /\ PgDispatch(db, op) = [db EXCEPT !.gateways = PgGateway(@, op),
                                                 !.rules = PgRules(@, op)]
  <1> USE DEF LiteApply, PgDispatch
  <1>1. CASE op.kind \in SettingOps
    BY <1>1 DEF SettingOps, AccountOps, SessionOps, BanOps, JournalOps, MeshOps
  <1>2. CASE op.kind \in AccountOps
    BY <1>2 DEF SettingOps, AccountOps, SessionOps, BanOps, JournalOps, MeshOps
  <1>3. CASE op.kind \in SessionOps
    BY <1>3 DEF SettingOps, AccountOps, SessionOps, BanOps, JournalOps, MeshOps
  <1>4. CASE op.kind \in BanOps
    BY <1>4 DEF SettingOps, AccountOps, SessionOps, BanOps, JournalOps, MeshOps
  <1>5. CASE op.kind \in JournalOps
    BY <1>5 DEF SettingOps, AccountOps, SessionOps, BanOps, JournalOps, MeshOps
  <1>6. CASE op.kind \in MeshOps
    BY <1>6 DEF SettingOps, AccountOps, SessionOps, BanOps, JournalOps, MeshOps
  <1> QED BY <1>1, <1>2, <1>3, <1>4, <1>5, <1>6 DEF MeshOps

LEMMA ArmsKeepDatabases ==
  ASSUME NEW db \in Database, NEW op \in Operations
  PROVE  /\ LiteApply(db, op) \in Database /\ LiteApply(db, op).orders = db.orders
         /\ PgDispatch(db, op) \in Database /\ PgDispatch(db, op).orders = db.orders
  <1>a. /\ db.settings \in Settings_ /\ db.accounts \in Accounts_
        /\ db.sessions \in Sessions_ /\ db.bans \in Bans_ /\ db.journal \in Nat
        /\ db.gateways \in Registry_ /\ db.rules \in SUBSET Rules
    BY DatabaseIs
  <1>1. CASE op.kind \in SettingOps
    <2>1. PICK x, y \in Settings_ :
            /\ LiteApply(db, op) = [db EXCEPT !.settings = x]
            /\ PgDispatch(db, op) = [db EXCEPT !.settings = y]
      <3>1. /\ LiteSetting(db.settings, op) \in Settings_
            /\ PgSetting(db.settings, op) \in Settings_
        BY <1>1, <1>a, SettingArms
      <3> QED BY <1>1, <3>1, ArmOf
    <2> QED BY <2>1 DEF Database, Settings_
  <1>2. CASE op.kind \in AccountOps
    <2>1. PICK x, y \in Accounts_ :
            /\ LiteApply(db, op) = [db EXCEPT !.accounts = x]
            /\ PgDispatch(db, op) = [db EXCEPT !.accounts = y]
      <3>1. /\ LiteAccount(db.accounts, op) \in Accounts_
            /\ PgAccount(db.accounts, op) \in Accounts_
        BY <1>2, <1>a, AccountArms
      <3> QED BY <1>2, <3>1, ArmOf
    <2> QED BY <2>1 DEF Database, Accounts_
  <1>3. CASE op.kind \in SessionOps
    <2>1. PICK x, y \in Sessions_ :
            /\ LiteApply(db, op) = [db EXCEPT !.sessions = x]
            /\ PgDispatch(db, op) = [db EXCEPT !.sessions = y]
      <3>1. /\ LiteSession(db.sessions, op) \in Sessions_
            /\ PgSession(db.sessions, op) \in Sessions_
        BY <1>3, <1>a, SessionArms
      <3> QED BY <1>3, <3>1, ArmOf
    <2> QED BY <2>1 DEF Database, Sessions_
  <1>4. CASE op.kind \in BanOps
    <2>1. PICK x, y \in Bans_ :
            /\ LiteApply(db, op) = [db EXCEPT !.bans = x]
            /\ PgDispatch(db, op) = [db EXCEPT !.bans = y]
      <3>1. LiteBan(db.bans, op) \in Bans_ /\ PgBan(db.bans, op) \in Bans_
        BY <1>4, <1>a, BanArms
      <3> QED BY <1>4, <3>1, ArmOf
    <2> QED BY <2>1 DEF Database, Bans_
  <1>5. CASE op.kind \in JournalOps
    <2>1. PICK n \in Nat : /\ LiteApply(db, op) = [db EXCEPT !.journal = n]
                           /\ PgDispatch(db, op) = [db EXCEPT !.journal = n]
      <3>1. db.journal + 1 \in Nat
        BY <1>a
      <3>2. /\ LiteApply(db, op) = [db EXCEPT !.journal = @ + 1]
            /\ PgDispatch(db, op) = [db EXCEPT !.journal = @ + 1]
        BY <1>5, ArmOf
      <3> QED BY <3>1, <3>2
    <2> QED BY <2>1 DEF Database
  <1>6. CASE op.kind = "gw_distribution_replace"
    <2>1. PICK x, y \in SUBSET Rules :
            /\ LiteApply(db, op) = [db EXCEPT !.rules = x]
            /\ PgDispatch(db, op) = [db EXCEPT !.rules = y]
      <3>1. LiteRules(db.rules, op) \subseteq Rules /\ PgRules(db.rules, op) \subseteq Rules
        BY <1>6, <1>a, RulesArms DEF MeshOps
      <3>2. /\ LiteApply(db, op) = [db EXCEPT !.rules = LiteRules(@, op)]
            /\ PgDispatch(db, op) = [db EXCEPT !.rules = PgRules(@, op)]
        BY <1>6, ArmOf
      <3> QED BY <3>1, <3>2
    <2> QED BY <2>1 DEF Database
  <1>7. CASE op.kind \in MeshOps /\ op.kind # "gw_distribution_replace"
    <2>1. PICK x, y \in Registry_, r, q \in SUBSET Rules :
            /\ LiteApply(db, op) = [db EXCEPT !.gateways = x, !.rules = r]
            /\ PgDispatch(db, op) = [db EXCEPT !.gateways = y, !.rules = q]
      <3>1. LiteRules(db.rules, op) \subseteq Rules /\ PgRules(db.rules, op) \subseteq Rules
        BY <1>7, <1>a, RulesArms
      <3>2. /\ LiteGateway(db.gateways, op) \in Registry_
            /\ PgGateway(db.gateways, op) \in Registry_
        BY <1>7, <1>a, RegistryArms
      <3>3. /\ LiteApply(db, op) = [db EXCEPT !.gateways = LiteGateway(@, op),
                                              !.rules = LiteRules(@, op)]
            /\ PgDispatch(db, op) = [db EXCEPT !.gateways = PgGateway(@, op),
                                               !.rules = PgRules(@, op)]
        BY <1>7, ArmOf
      <3> QED BY <3>1, <3>2, <3>3
    <2> QED BY <2>1 DEF Database, Registry_
  <1> QED BY <1>1, <1>2, <1>3, <1>4, <1>5, <1>6, <1>7, KindIs

LEMMA HalfIs ==
  ASSUME NEW db \in Database, NEW op \in Operations, op.kind \in TwoStatements
  PROVE  /\ LiteApplyHalf(db, op) \in Database /\ LiteApplyHalf(db, op).orders = db.orders
         /\ PgBegun(db, op) \in Database /\ PgBegun(db, op).orders = db.orders
         /\ PgFinished(db, op) \in Database /\ PgFinished(db, op).orders = db.orders
  <1>1. CASE op.kind = "gw_registry_delete"
    <2>1. /\ LiteGateway(db.gateways, op) \in Registry_
          /\ PgGateway(db.gateways, op) \in Registry_
      BY <1>1, RegistryArms, DatabaseIs DEF MeshOps
    <2>2. Without(db.rules, op.key) \subseteq Rules
      BY DatabaseIs DEF Without
    <2>3. /\ LiteApplyHalf(db, op) = [db EXCEPT !.gateways = LiteGateway(@, op)]
          /\ PgBegun(db, op) = [db EXCEPT !.gateways = PgGateway(@, op)]
          /\ PgFinished(db, op) = [db EXCEPT !.rules = Without(@, op.key)]
      BY <1>1 DEF LiteApplyHalf, PgBegun, PgFinished
    <2> HIDE DEF LiteApplyHalf, PgBegun, PgFinished
    <2> QED BY <2>1, <2>2, <2>3 DEF Database, Registry_
  <1>2. CASE op.kind = "gw_distribution_replace"
    <2>1. op.rules \in SUBSET Rules
      BY <1>2, MeshOpIs DEF MeshOps
    <2>2. PgFinished(db, op) = [db EXCEPT !.rules = @ \cup op.rules]
      BY <1>2 DEF PgFinished
    <2>3. PgFinished(db, op) \in Database /\ PgFinished(db, op).orders = db.orders
      BY <2>1, <2>2 DEF Database
    <2> QED BY <1>2, <2>3 DEF LiteApplyHalf, PgBegun, Database
  <1> QED BY <1>1, <1>2 DEF TwoStatements

LEMMA OutcomeIs ==
  ASSUME NEW db \in Database, NEW e \in Queued, NEW how \in Outcomes(e)
  PROVE  Outcome(db, e.op, how) \in Database /\ Outcome(db, e.op, how).orders = db.orders
  BY ArmsKeepDatabases, HalfIs DEF Outcome, Outcomes, Queued, Done, Begun

LEMMA LeastNatural ==
  ASSUME NEW T \in SUBSET Nat, T # {}
  PROVE  \E x \in T : \A y \in T : x <= y
  <1> DEFINE R == OpToRel(<, Nat)
  <1>1. IsWellFoundedOn(R, Nat)
    BY NatLessThanWellFounded
  <1>2. \A x, y \in Nat : <<y, x>> \in R <=> y < x
    BY DEF OpToRel
  <1> HIDE DEF R
  <1>3. PICK x \in T : \A y \in T : ~(<<y, x>> \in R)
    BY <1>1, WFMin
  <1>4. x \in Nat /\ \A y \in T : y \in Nat /\ ~(y < x)
    <2> SUFFICES ASSUME NEW y \in T PROVE x \in Nat /\ y \in Nat /\ ~(y < x)
      OBVIOUS
    <2>1. x \in Nat /\ y \in Nat
      OBVIOUS
    <2>2. ~(<<y, x>> \in R)
      BY <1>3
    <2> QED BY <1>2, <2>1, <2>2
  <1> QED BY <1>4

\* Induction up to a number, with the set of those at which a claim holds.
LEMMA UpTo ==
  ASSUME NEW m \in Nat, NEW H, 0 \in H,
         \A n \in 1 .. m : n - 1 \in H => n \in H
  PROVE  \A n \in 0 .. m : n \in H
  <1> DEFINE Bad == {n \in 0 .. m : n \notin H}
  <1>1. Bad = {}
    <2> SUFFICES ASSUME Bad # {} PROVE FALSE
      OBVIOUS
    <2>1. Bad \in SUBSET Nat
      OBVIOUS
    <2>2. PICK n \in Bad : \A y \in Bad : n <= y
      BY <2>1, LeastNatural
    <2>3. n \in 0 .. m /\ n \notin H /\ n # 0
      BY <2>2
    <2>4. n \in 1 .. m /\ n - 1 \in 0 .. m
      BY <2>3
    <2>5. n - 1 \notin Bad
      BY <2>1, <2>2, <2>4
    <2> QED BY <2>3, <2>4, <2>5
  <1> QED BY <1>1

\* f holds the database after each operation of a batch.
Leads(f, db, batch, how) ==
  /\ f[0] = db
  /\ \A n \in 1 .. Len(batch) : f[n] = Outcome(f[n - 1], batch[n].op, how[n])

LEMMA BatchesLead ==
  ASSUME NEW T, NEW batch \in Seq(T), NEW db, NEW how
  PROVE  \E f : Leads(f, db, batch, how) /\ Written(db, batch, how) = f[Len(batch)]
<1> DEFINE Step(x, n) == Outcome(x, batch[n].op, how[n])
           Upto(n) == \E f : f = [m \in 0 .. n |-> IF m = 0 THEN db ELSE Step(f[m - 1], m)]
           S == {n \in Nat : Upto(n)}
<1>0. Written(db, batch, how)
        = (CHOOSE g : g = [m \in 0 .. Len(batch) |->
                             IF m = 0 THEN db ELSE Step(g[m - 1], m)])[Len(batch)]
  BY DEF Written
<1>a. \A f : /\ f[0] = db
             /\ \A n \in 1 .. Len(batch) : f[n] = Step(f[n - 1], n)
             => Leads(f, db, batch, how)
  BY DEF Leads
<1> HIDE DEF Step
<1>1. 0 \in S
  <2>1. PICK g : g = [m \in 0 .. 0 |-> db]
    OBVIOUS
  <2>2. g = [m \in 0 .. 0 |-> IF m = 0 THEN db ELSE Step(g[m - 1], m)]
    BY <2>1
  <2> QED BY <2>2
<1>2. \A n \in 1 .. Len(batch) : n - 1 \in S => n \in S
  <2> SUFFICES ASSUME NEW n \in 1 .. Len(batch), n - 1 \in S PROVE n \in S
    OBVIOUS
  <2>1. PICK f : f = [m \in 0 .. n - 1 |-> IF m = 0 THEN db ELSE Step(f[m - 1], m)]
    OBVIOUS
  <2>2. PICK g : g = [m \in 0 .. n |-> IF m = n THEN Step(f[n - 1], n) ELSE f[m]]
    OBVIOUS
  <2>3. ASSUME NEW m \in 0 .. n
        PROVE  g[m] = IF m = 0 THEN db ELSE Step(g[m - 1], m)
    <3>1. CASE m = n
      <4>1. m - 1 \in 0 .. n /\ m - 1 # n /\ m # 0
        BY <3>1
      <4>2. g[m - 1] = f[n - 1]
        BY <2>2, <3>1, <4>1
      <4> QED BY <2>2, <3>1, <4>1, <4>2
    <3>2. CASE m # n
      <4>1. m \in 0 .. n - 1 /\ g[m] = f[m]
        BY <2>2, <3>2
      <4>2. f[m] = IF m = 0 THEN db ELSE Step(f[m - 1], m)
        BY <2>1, <4>1
      <4>3. m # 0 => g[m - 1] = f[m - 1]
        BY <2>2, <4>1
      <4> QED BY <4>1, <4>2, <4>3
    <3> QED BY <3>1, <3>2
  <2>4. g = [m \in 0 .. n |-> IF m = 0 THEN db ELSE Step(g[m - 1], m)]
    BY <2>2, <2>3
  <2>5. Upto(n)
    BY <2>4
  <2>6. n \in Nat
    OBVIOUS
  <2> HIDE DEF Upto
  <2> QED BY <2>5, <2>6
<1>3. Len(batch) \in S
  <2> HIDE DEF S
  <2>1. PICK m \in Nat : m = Len(batch)
    OBVIOUS
  <2>2. \A n \in 1 .. m : n - 1 \in S => n \in S
    BY <1>2, <2>1
  <2>3. \A n \in 0 .. m : n \in S
    BY <1>1, <2>2, UpTo
  <2> QED BY <2>1, <2>3
<1> DEFINE after == CHOOSE g : g = [m \in 0 .. Len(batch) |->
                                      IF m = 0 THEN db ELSE Step(g[m - 1], m)]
<1>4. after = [m \in 0 .. Len(batch) |-> IF m = 0 THEN db ELSE Step(after[m - 1], m)]
  BY <1>3
<1>5. Written(db, batch, how) = after[Len(batch)]
  BY <1>0
<1> HIDE DEF after
<1>6. /\ after[0] = db
      /\ \A n \in 1 .. Len(batch) : after[n] = Step(after[n - 1], n)
  BY <1>4
<1> QED BY <1>5, <1>6, <1>a

\* A set of pairs that holds after n operations if it did after n - 1: good[n].
LEMMA BatchKeeps ==
  ASSUME NEW T, NEW batch \in Seq(T), NEW db, NEW how, NEW good,
         db \in good[0],
         \A n \in 1 .. Len(batch) : \A x \in good[n - 1] :
           Outcome(x, batch[n].op, how[n]) \in good[n]
  PROVE  Written(db, batch, how) \in good[Len(batch)]
<1>1. PICK f : Leads(f, db, batch, how) /\ Written(db, batch, how) = f[Len(batch)]
  BY BatchesLead
<1> DEFINE S == {n \in 0 .. Len(batch) : f[n] \in good[n]}
<1>2. Len(batch) \in Nat /\ 0 \in S
  BY <1>1 DEF Leads
<1>3. \A n \in 1 .. Len(batch) : n - 1 \in S => n \in S
  BY <1>1 DEF Leads
<1> HIDE DEF S
<1>4. Len(batch) \in S
  <2>1. \A n \in 0 .. Len(batch) : n \in S
    BY <1>2, <1>3, UpTo
  <2> QED BY <1>2, <2>1
<1> QED BY <1>1, <1>4 DEF S

\* A batch of the writer leaves a database, with the orders it found there.
LEMMA WrittenIs ==
  ASSUME NEW db \in Database, NEW batch \in Seq(Queued),
         NEW how, \A i \in 1 .. Len(batch) : how[i] \in Outcomes(batch[i])
  PROVE  /\ Written(db, batch, how) \in Database
         /\ Written(db, batch, how).orders = db.orders
<1> DEFINE D == {x \in Database : x.orders = db.orders}
           good == [n \in 0 .. Len(batch) |-> D]
<1>1. db \in good[0]
  OBVIOUS
<1>2. \A n \in 1 .. Len(batch) : \A x \in good[n - 1] :
        Outcome(x, batch[n].op, how[n]) \in good[n]
  <2> SUFFICES ASSUME NEW n \in 1 .. Len(batch), NEW x \in D
               PROVE  Outcome(x, batch[n].op, how[n]) \in D
    OBVIOUS
  <2>1. batch[n] \in Queued /\ how[n] \in Outcomes(batch[n])
    OBVIOUS
  <2> QED BY <2>1, OutcomeIs
<1> HIDE DEF good
<1>3. Written(db, batch, how) \in good[Len(batch)]
  BY <1>1, <1>2, BatchKeeps
<1> QED BY <1>3 DEF good

-----------------------------------------------------------------------------
(*****************************************************************************)
(* Replicas: copies and archives                                             *)
(*****************************************************************************)

Orders_ == [Names \X Signals -> Orders \cup {Nothing}]

LEMMA EmptyIs == Empty \in Database
  BY TablesAssumption, DatabaseIs
     DEF Empty, Settings_, Accounts_, Sessions_, Bans_, Registry_

LEMMA ExportedIs ==
  ASSUME NEW db \in Database
  PROVE  /\ Exported(db) \in Database /\ Exported(db).orders = Empty.orders
         /\ Exported(db).settings = db.settings /\ Exported(db).accounts = db.accounts
         /\ Exported(db).sessions = db.sessions /\ Exported(db).bans = db.bans
         /\ Exported(db).journal = db.journal /\ Exported(db).rules = db.rules
         /\ \A g \in Gateways : Exported(db).gateways[g] =
              IF db.gateways[g] = Nothing THEN Nothing
              ELSE [db.gateways[g] EXCEPT !.auto_apply = FALSE]
  <1> DEFINE row(g) == IF db.gateways[g] = Nothing THEN Nothing
                       ELSE [db.gateways[g] EXCEPT !.auto_apply = FALSE]
             t == [g \in Gateways |-> row(g)]
  <1>1. \A g \in Gateways : row(g) \in GatewayRow \cup {Nothing}
    BY DEF Database, GatewayRow
  <1>2. Exported(db) = [db EXCEPT !.orders = Empty.orders, !.gateways = t]
    BY DEF Exported
  <1> HIDE DEF row
  <1>3. t \in Registry_ /\ \A g \in Gateways : t[g] = row(g)
    BY <1>1 DEF Registry_
  <1>4. Empty.orders \in Orders_
    BY DEF Empty, Orders_
  <1> HIDE DEF t
  <1>5. /\ Exported(db) \in Database /\ Exported(db).orders = Empty.orders
        /\ Exported(db).settings = db.settings /\ Exported(db).accounts = db.accounts
        /\ Exported(db).sessions = db.sessions /\ Exported(db).bans = db.bans
        /\ Exported(db).journal = db.journal /\ Exported(db).rules = db.rules
        /\ Exported(db).gateways = t
    BY <1>2, <1>3, <1>4 DEF Database, Registry_, Orders_
  <1> QED BY <1>3, <1>5 DEF row

\* What db.import makes of each row.
LEMMA ImportedSetting ==
  ASSUME NEW db \in Database, NEW file \in Database, NEW k \in Keys
  PROVE  ImportedSettings(db, file)[k] =
           IF file.settings[k] = Nothing THEN db.settings[k] ELSE file.settings[k]
  BY DEF ImportedSettings, PgSetting, Database

\* An account of the file over the row that is there.
Joined(row, old) ==
  [password |-> row.password, totp |-> row.totp \/ (old # Nothing /\ old.totp)]

LEMMA ImportedAccount ==
  ASSUME NEW db \in Database, NEW file \in Database, NEW u \in Users
  PROVE  ImportedAccounts(db, file)[u] =
           IF file.accounts[u] = Nothing THEN db.accounts[u]
           ELSE Joined(file.accounts[u], db.accounts[u])
  <1>1. CASE file.accounts[u] = Nothing
    BY <1>1 DEF ImportedAccounts
  <1>2. CASE file.accounts[u] # Nothing
    <2> DEFINE row == file.accounts[u]
               old == db.accounts[u]
               op == [kind |-> "user_create", key |-> u, password |-> row.password]
               kept == old # Nothing /\ old.totp
               made == PgAccount(db.accounts, op)[u]
    <2>1. row \in AccountRow /\ old \in AccountRow \cup {Nothing}
      BY <1>2 DEF Database
    <2>2. db.accounts = [x \in Users |-> db.accounts[x]]
      BY DEF Database
    <2>3. made = [password |-> row.password, totp |-> kept]
      BY <2>2 DEF PgAccount
    <2>4. ImportedAccounts(db, file)[u]
            = IF row.totp THEN [made EXCEPT !.totp = TRUE] ELSE made
      BY <1>2 DEF ImportedAccounts
    <2> HIDE DEF made
    <2>5. CASE row.totp = TRUE
      BY <1>2, <2>3, <2>4, <2>5 DEF Joined
    <2>6. CASE row.totp = FALSE
      BY <1>2, <2>3, <2>4, <2>6 DEF Joined
    <2> QED BY <2>1, <2>5, <2>6 DEF AccountRow
  <1> QED BY <1>1, <1>2

LEMMA ImportedSession ==
  ASSUME NEW db \in Database, NEW file \in Database, NEW s \in Sids
  PROVE  ImportedSessions(db, file)[s] =
           IF file.sessions[s] # Nothing /\ db.sessions[s] = Nothing
           THEN "active" ELSE db.sessions[s]
  BY DEF ImportedSessions, PgSession, Database

LEMMA ImportedBan ==
  ASSUME NEW db \in Database, NEW file \in Database, NEW a \in Addresses
  PROVE  ImportedBans(db, file)[a] =
           IF file.bans[a] = 0 THEN db.bans[a] ELSE Later(db.bans[a], file.bans[a])
  BY DEF ImportedBans, PgBan, Database

\* A gateway of the file, new to Postgres or over the row that is there.
Brought(row) ==
  [public |-> row.public, private |-> row.private, local |-> row.local,
   status |-> row.status, auto_apply |-> FALSE]
Over(row, old) ==
  [public |-> row.public,
   private |-> IF row.private = Nothing THEN old.private ELSE row.private,
   local |-> row.local, status |-> row.status, auto_apply |-> old.auto_apply]

LEMMA BroughtIs ==
  ASSUME NEW row \in GatewayRow
  PROVE  /\ Brought(row) \in GatewayRow
         /\ [row EXCEPT !.auto_apply = FALSE] = Brought(row)
  <1>1. Brought(row) \in GatewayRow
    BY DEF Brought, GatewayRow
  <1> DEFINE new(x) == IF x = "auto_apply" THEN FALSE ELSE row[x]
             columns == {"public", "private", "local", "status", "auto_apply"}
  <1>2. [row EXCEPT !.auto_apply = FALSE] = [x \in columns |-> new(x)]
    BY DEF GatewayRow
  <1>3. /\ new("public") = row.public /\ new("private") = row.private
        /\ new("local") = row.local /\ new("status") = row.status
        /\ new("auto_apply") = FALSE
    OBVIOUS
  <1> HIDE DEF new
  <1>4. [x \in columns |-> new(x)]
          = [public |-> new("public"), private |-> new("private"),
             local |-> new("local"), status |-> new("status"),
             auto_apply |-> new("auto_apply")]
    OBVIOUS
  <1>5. Brought(row) = [public |-> new("public"), private |-> new("private"),
                        local |-> new("local"), status |-> new("status"),
                        auto_apply |-> new("auto_apply")]
    BY <1>3 DEF Brought
  <1> QED BY <1>1, <1>2, <1>4, <1>5

LEMMA ImportedGateway ==
  ASSUME NEW db \in Database, NEW file \in Database, NEW g \in Gateways,
         NEW row, row = file.gateways[g], NEW old, old = db.gateways[g]
  PROVE  ImportedGateways(db, file)[g] =
           IF row = Nothing THEN old
           ELSE IF old = Nothing THEN Brought(row) ELSE Over(row, old)
  <1>1. CASE row = Nothing
    BY <1>1 DEF ImportedGateways
  <1>2. CASE row # Nothing
    <2> DEFINE op == [kind |-> "gw_registry_add", key |-> g, public |-> row.public,
                      private |-> row.private, local |-> row.local,
                      status |-> row.status]
    <2>1. row \in GatewayRow /\ old \in GatewayRow \cup {Nothing}
      BY <1>2 DEF Database
    <2>2. g \in DOMAIN db.gateways
      BY DEF Database
    <2>3. ImportedGateways(db, file)[g] = PgGateway(db.gateways, op)[g]
      BY <1>2 DEF ImportedGateways
    <2>5. CASE old = Nothing
      <3>1. PgGateway(db.gateways, op)[g] = Registered(op)
        BY <2>2, <2>5 DEF PgGateway
      <3>2. Registered(op) = Brought(row)
        BY DEF Registered, Brought
      <3> QED BY <1>2, <2>3, <2>5, <3>1, <3>2
    <2>6. CASE old # Nothing
      <3>1. PICK kept, f : /\ kept = IF row.private = Nothing THEN old.private
                                                            ELSE row.private
                           /\ f = old.auto_apply
        OBVIOUS
      <3>2. PgGateway(db.gateways, op)[g] =
              [Registered(op) EXCEPT !.private = kept, !.auto_apply = f]
        BY <2>2, <2>6, <3>1 DEF PgGateway, Registered
      <3>3. Registered(op) = [public |-> row.public, private |-> row.private,
                              local |-> row.local, status |-> row.status,
                              auto_apply |-> FALSE]
        BY DEF Registered
      <3>4. [Registered(op) EXCEPT !.private = kept, !.auto_apply = f]
              = [public |-> row.public, private |-> kept, local |-> row.local,
                 status |-> row.status, auto_apply |-> f]
        <4>1. PICK r, a, b, c, d, e :
                /\ r = Registered(op) /\ a = row.public /\ b = row.private
                /\ c = row.local /\ d = row.status /\ e = FALSE
          OBVIOUS
        <4>2. r = [public |-> a, private |-> b, local |-> c, status |-> d,
                   auto_apply |-> e]
          BY <3>3, <4>1
        <4> DEFINE new(x) == IF x = "private" THEN kept
                             ELSE IF x = "auto_apply" THEN f ELSE r[x]
        <4>3. [r EXCEPT !.private = kept, !.auto_apply = f]
                = [x \in {"public", "private", "local", "status", "auto_apply"}
                     |-> new(x)]
          BY <4>2
        <4>4. /\ new("public") = a /\ new("private") = kept /\ new("local") = c
              /\ new("status") = d /\ new("auto_apply") = f
          BY <4>2
        <4> HIDE DEF new
        <4>5. [x \in {"public", "private", "local", "status", "auto_apply"} |-> new(x)]
                = [public |-> new("public"), private |-> new("private"),
                   local |-> new("local"), status |-> new("status"),
                   auto_apply |-> new("auto_apply")]
          OBVIOUS
        <4> QED BY <4>1, <4>3, <4>4, <4>5
      <3>5. PgGateway(db.gateways, op)[g] = Over(row, old)
        BY <3>1, <3>2, <3>4 DEF Over
      <3> QED BY <1>2, <2>3, <2>6, <3>5
    <2> QED BY <2>5, <2>6
  <1> QED BY <1>1, <1>2

\* What db.import leaves is a database.
LEMMA ImportedIs ==
  ASSUME NEW db \in Database, NEW file \in Database
  PROVE  Imported(db, file) \in Database
  <1>1. ImportedSettings(db, file) \in Settings_
    <2>1. \A k \in Keys : ImportedSettings(db, file)[k] \in Values \cup {Nothing}
      BY ImportedSetting DEF Database
    <2> QED BY <2>1 DEF ImportedSettings, Settings_
  <1>2. ImportedAccounts(db, file) \in Accounts_
    <2>1. ASSUME NEW u \in Users
          PROVE  ImportedAccounts(db, file)[u] \in AccountRow \cup {Nothing}
      <3>1. CASE file.accounts[u] = Nothing
        BY <3>1, ImportedAccount DEF Database
      <3>2. CASE file.accounts[u] # Nothing
        <4>1. file.accounts[u].password \in Values
          BY <3>2 DEF Database, AccountRow
        <4>2. ImportedAccounts(db, file)[u] = Joined(file.accounts[u], db.accounts[u])
          BY <3>2, ImportedAccount
        <4> QED BY <4>1, <4>2 DEF Joined, AccountRow
      <3> QED BY <3>1, <3>2
    <2> QED BY <2>1 DEF ImportedAccounts, Accounts_
  <1>3. ImportedSessions(db, file) \in Sessions_
    <2>1. ASSUME NEW s \in Sids
          PROVE  ImportedSessions(db, file)[s] \in SessionRow \cup {Nothing}
      <3>1. \/ ImportedSessions(db, file)[s] = "active"
            \/ ImportedSessions(db, file)[s] = db.sessions[s]
        BY ImportedSession
      <3>2. db.sessions[s] \in SessionRow \cup {Nothing}
        BY DEF Database
      <3> QED BY <3>1, <3>2 DEF SessionRow
    <2> QED BY <2>1 DEF ImportedSessions, Sessions_
  <1>4. ImportedBans(db, file) \in Bans_
    <2>1. \A a \in Addresses : ImportedBans(db, file)[a] \in Untils
      BY ImportedBan DEF Database, Later
    <2> QED BY <2>1 DEF ImportedBans, Bans_
  <1>5. ImportedGateways(db, file) \in Registry_
    <2>1. ASSUME NEW g \in Gateways
          PROVE  ImportedGateways(db, file)[g] \in GatewayRow \cup {Nothing}
      <3>1. PICK row, old : row = file.gateways[g] /\ old = db.gateways[g]
        OBVIOUS
      <3>2. row \in GatewayRow \cup {Nothing} /\ old \in GatewayRow \cup {Nothing}
        BY <3>1 DEF Database
      <3>3. /\ row # Nothing => Brought(row) \in GatewayRow
            /\ row # Nothing /\ old # Nothing => Over(row, old) \in GatewayRow
        BY <3>2 DEF Brought, Over, GatewayRow
      <3> QED BY <3>1, <3>2, <3>3, ImportedGateway
    <2> QED BY <2>1 DEF ImportedGateways, Registry_
  <1>6. /\ db.journal + file.journal \in Nat /\ db.rules \subseteq Rules
        /\ db.orders \in Orders_
    BY DEF Database, Orders_
  <1> QED BY <1>1, <1>2, <1>3, <1>4, <1>5, <1>6
          DEF Imported, Database, Settings_, Accounts_, Sessions_, Bans_, Registry_, Orders_

\* What an export reads is a database, and what it makes of one an archive.
LEMMA ReadableIs ==
  ASSUME NEW db \in Database, NEW sections
  PROVE  Readable(db, sections) \in Database
  <1> DEFINE x == IF "secrets" \in sections THEN db.settings ELSE Empty.settings
             y == IF "users" \in sections THEN db.accounts ELSE Empty.accounts
             z == IF "gw_registry" \in sections THEN db.gateways ELSE Empty.gateways
             r == IF "gw_distribution" \in sections THEN db.rules ELSE Empty.rules
             o == IF "signal_orders" \in sections THEN db.orders ELSE Empty.orders
  <1>1. Readable(db, sections) =
          [db EXCEPT !.settings = x, !.accounts = y, !.gateways = z, !.rules = r,
                     !.orders = o]
    BY DEF Readable
  <1>2. /\ x \in Settings_ /\ y \in Accounts_ /\ z \in Registry_
        /\ r \in SUBSET Rules /\ o \in Orders_
    <2>1. /\ db.settings \in Settings_ /\ Empty.settings \in Settings_
          /\ db.accounts \in Accounts_ /\ Empty.accounts \in Accounts_
          /\ db.gateways \in Registry_ /\ Empty.gateways \in Registry_
          /\ db.rules \in SUBSET Rules /\ Empty.rules \in SUBSET Rules
          /\ db.orders \in Orders_ /\ Empty.orders \in Orders_
      BY EmptyIs, DatabaseIs DEF Orders_
    <2> QED BY <2>1
  <1> HIDE DEF x, y, z, r, o
  <1> QED BY <1>1, <1>2 DEF Database, Settings_, Accounts_, Registry_, Orders_

LEMMA ArchivedIs ==
  ASSUME NEW db \in Database, NEW withSecrets \in BOOLEAN
  PROVE  Archived(db, withSecrets) \in Archive
  <1>1. Archived(db, withSecrets).settings \in [Keys -> Values \cup {Nothing}]
    BY DEF Archived, Database
  <1>2. Archived(db, withSecrets).passwords \in [Users -> Values \cup {Nothing}]
    <2>1. \A u \in Users : db.accounts[u] # Nothing => db.accounts[u].password \in Values
      BY DEF Database, AccountRow
    <2> QED BY <2>1 DEF Archived
  <1>3. Archived(db, withSecrets).gateways \in [Gateways -> GatewayRow \cup {Nothing}]
    <2> DEFINE kept(g) == IF withSecrets /\ db.gateways[g].local
                         THEN db.gateways[g].private ELSE Nothing
               row(g) == IF db.gateways[g] = Nothing THEN Nothing
                         ELSE [db.gateways[g] EXCEPT !.private = kept(g)]
    <2>1. ASSUME NEW g \in Gateways PROVE row(g) \in GatewayRow \cup {Nothing}
      <3>1. CASE db.gateways[g] = Nothing
        BY <3>1
      <3>2. CASE db.gateways[g] # Nothing
        <4>1. PICK old \in GatewayRow : old = db.gateways[g]
          BY <3>2 DEF Database
        <4>2. kept(g) \in KeyPairs \cup {Nothing}
          BY <4>1 DEF GatewayRow
        <4> HIDE DEF kept
        <4>3. row(g) = [old EXCEPT !.private = kept(g)]
          BY <3>2, <4>1
        <4> QED BY <4>2, <4>3 DEF GatewayRow
      <3> QED BY <3>1, <3>2
    <2>2. Archived(db, withSecrets).gateways = [g \in Gateways |-> row(g)]
      BY DEF Archived
    <2> HIDE DEF row
    <2> QED BY <2>1, <2>2
  <1>4. Archived(db, withSecrets).rules \subseteq Rules
    <2>1. db.rules \subseteq Rules
      BY DEF Database
    <2>2. Archived(db, withSecrets).rules = db.rules
      BY Zenon DEF Archived
    <2> QED BY <2>1, <2>2
  <1>5. Archived(db, withSecrets).orders \in [Signals -> Orders \cup {Nothing}]
    <2> DEFINE order(s) == IF Named(db) THEN db.orders[<<"local", s>>] ELSE Nothing
    <2>1. ASSUME NEW s \in Signals PROVE order(s) \in Orders \cup {Nothing}
      <3>1. db.orders \in Orders_
        BY DEF Database, Orders_
      <3>2. <<"local", s>> \in Names \X Signals
        BY DEF Names
      <3>3. db.orders[<<"local", s>>] \in Orders \cup {Nothing}
        BY <3>1, <3>2 DEF Orders_
      <3> QED BY <3>3
    <2>2. Archived(db, withSecrets).orders = [s \in Signals |-> order(s)]
      BY DEF Archived
    <2> HIDE DEF order
    <2> QED BY <2>1, <2>2
  <1>6. Archived(db, withSecrets)
          = [settings |-> Archived(db, withSecrets).settings,
             passwords |-> Archived(db, withSecrets).passwords,
             gateways |-> Archived(db, withSecrets).gateways,
             rules |-> Archived(db, withSecrets).rules,
             orders |-> Archived(db, withSecrets).orders]
    BY DEF Archived
  <1> QED BY <1>1, <1>2, <1>3, <1>4, <1>5, <1>6 DEF Archive

\* What an import makes of each table.
LEMMA RestoredTables ==
  ASSUME NEW db \in Database, NEW a \in Archive
  PROVE  /\ RestoredSettings(db.settings, a) \in Settings_
         /\ RestoredAccounts(db.accounts, a) \in Accounts_
         /\ RestoredGateways(db.gateways, a) \in Registry_
         /\ RestoredRules(db.rules, a) \in SUBSET Rules
         /\ RestoredOrders(db.orders, a) \in Orders_
  <1>1. RestoredSettings(db.settings, a) \in Settings_
    BY DEF Database, Archive, RestoredSettings, Settings_
  <1>2. RestoredAccounts(db.accounts, a) \in Accounts_
    BY DEF Database, Archive, RestoredAccounts, Accounts_, AccountRow
  <1>3. RestoredGateways(db.gateways, a) \in Registry_
    <2>1. ASSUME NEW g \in Gateways
          PROVE  RestoredGateways(db.gateways, a)[g] \in GatewayRow \cup {Nothing}
      <3> DEFINE new == a.gateways[g]
                 old == db.gateways[g]
      <3>1. new \in GatewayRow \cup {Nothing} /\ old \in GatewayRow \cup {Nothing}
        BY DEF Database, Archive
      <3>2. RestoredGateways(db.gateways, a)[g] =
              IF new = Nothing THEN old
              ELSE IF old = Nothing THEN new
              ELSE [new EXCEPT !.private = IF old.private = Nothing THEN @
                                                                    ELSE old.private,
                               !.local = old.local]
        BY DEF RestoredGateways
      <3>3. CASE new = Nothing \/ old = Nothing
        BY <3>1, <3>2, <3>3
      <3>4. CASE new # Nothing /\ old # Nothing
        BY <3>1, <3>2, <3>4 DEF GatewayRow
      <3> QED BY <3>3, <3>4
    <2> QED BY <2>1 DEF RestoredGateways, Registry_
  <1>4. RestoredRules(db.rules, a) \in SUBSET Rules
    BY DEF Database, Archive, RestoredRules
  <1>5. RestoredOrders(db.orders, a) \in Orders_
    BY DEF Database, Archive, RestoredOrders, Orders_
  <1> QED BY <1>1, <1>2, <1>3, <1>4, <1>5

LEMMA RestoredIs ==
  ASSUME NEW db \in Database, NEW a \in Archive, NEW sections
  PROVE  Restored(db, a, sections) \in Database
  <1>1. PICK x \in Settings_, y \in Accounts_, z \in Registry_,
             r \in SUBSET Rules, o \in Orders_ :
          Restored(db, a, sections) =
            [db EXCEPT !.settings = x, !.accounts = y, !.gateways = z, !.rules = r,
                       !.orders = o]
    <2>1. /\ db.settings \in Settings_ /\ db.accounts \in Accounts_
          /\ db.gateways \in Registry_ /\ db.rules \in SUBSET Rules
          /\ db.orders \in Orders_
      BY DatabaseIs DEF Orders_
    <2> QED BY <2>1, RestoredTables DEF Restored
  <1> QED BY <1>1 DEF Database, Settings_, Accounts_, Registry_, Orders_

-----------------------------------------------------------------------------
(*****************************************************************************)
(* Replicas: types                                                           *)
(*****************************************************************************)

\* A request puts operations into the queue, behind the others, as many as fit.
LEMMA QueueAfter ==
  ASSUME DeploymentOK, PendingOK, NEW ops \in Seq(Operations), Enqueue(ops)
  PROVE  /\ sent < MaxOps[family] /\ sent' = sent + 1
         /\ UNCHANGED <<fixed, self, pg, mirrors, begun>>
         /\ queue' \in Seq(Queued) /\ Len(queue) <= Len(queue')
         /\ Len(queue') <= MaxQueue
         /\ \A i \in 1 .. Len(queue) : queue'[i] = queue[i]
         /\ \A i \in Len(queue) + 1 .. Len(queue') :
              /\ i - Len(queue) \in 1 .. Len(ops)
              /\ queue'[i] = [op |-> ops[i - Len(queue)], at |-> sent + 1]
<1> DEFINE room == MaxQueue - Len(queue)
           fit == IF Len(ops) <= room THEN Len(ops) ELSE room
           new == [i \in 1 .. fit |-> [op |-> ops[i], at |-> sent + 1]]
<1>1. sent < MaxOps[family] /\ queue' = queue \o new /\ sent' = sent + 1
      /\ UNCHANGED <<fixed, self, pg, mirrors, begun>>
  BY DEF Enqueue, mirrorVars
<1>2. MaxQueue \in Nat /\ MaxOps[family] \in Nat /\ sent \in Nat
      /\ Len(queue) \in Nat /\ Len(ops) \in Nat /\ Len(queue) <= MaxQueue
  BY CapacityAssumption DEF DeploymentOK, PendingOK
<1>3. fit \in Nat /\ fit <= Len(ops) /\ fit <= room
  BY <1>2
<1>4. \A i \in 1 .. fit : [op |-> ops[i], at |-> sent + 1] \in Queued
  BY <1>2, <1>3 DEF Queued
<1> HIDE DEF fit
<1>5. new \in Seq(Queued) /\ Len(new) = fit /\ DOMAIN new = 1 .. fit
  <2>1. new \in [1 .. fit -> Queued]
    BY <1>4
  <2> QED BY <2>1, <1>3
<1>6. \A i \in 1 .. fit : new[i] = [op |-> ops[i], at |-> sent + 1]
  OBVIOUS
<1> HIDE DEF new
<1>7. queue' \in Seq(Queued) /\ Len(queue') = Len(queue) + fit
      /\ \A i \in 1 .. Len(queue') :
           queue'[i] = IF i <= Len(queue) THEN queue[i] ELSE new[i - Len(queue)]
  <2>1. queue \in Seq(Queued)
    BY DEF PendingOK
  <2>2. /\ queue \o new \in Seq(Queued) /\ Len(queue \o new) = Len(queue) + Len(new)
        /\ \A i \in 1 .. Len(queue) + Len(new) :
             (queue \o new)[i] = IF i <= Len(queue) THEN queue[i] ELSE new[i - Len(queue)]
    BY <1>5, <2>1, ConcatProperties
  <2> QED BY <1>1, <1>5, <2>2
<1>8. \A i \in 1 .. Len(queue) : queue'[i] = queue[i]
  BY <1>2, <1>3, <1>7
<1>9. ASSUME NEW i \in Len(queue) + 1 .. Len(queue')
      PROVE  /\ i - Len(queue) \in 1 .. Len(ops)
             /\ queue'[i] = [op |-> ops[i - Len(queue)], at |-> sent + 1]
  <2>1. i - Len(queue) \in 1 .. fit /\ i \in 1 .. Len(queue') /\ ~ i <= Len(queue)
    BY <1>2, <1>3, <1>7
  <2>2. queue'[i] = new[i - Len(queue)]
    BY <1>7, <2>1
  <2>3. i - Len(queue) \in 1 .. Len(ops)
    BY <1>2, <1>3, <2>1
  <2> QED BY <1>6, <2>1, <2>2, <2>3
<1>10. Len(queue) <= Len(queue') /\ Len(queue') <= MaxQueue
  BY <1>2, <1>3, <1>7
<1> QED BY <1>1, <1>7, <1>8, <1>9, <1>10

LEMMA Enqueued ==
  ASSUME DeploymentOK, PendingOK, NEW ops \in Seq(Operations), Enqueue(ops)
  PROVE  DeploymentOK' /\ PendingOK' /\ pg' = pg
<1>1. /\ sent < MaxOps[family] /\ sent' = sent + 1
      /\ UNCHANGED <<fixed, self, pg, mirrors, begun>>
      /\ queue' \in Seq(Queued) /\ Len(queue) <= Len(queue')
      /\ Len(queue') <= MaxQueue
      /\ \A i \in 1 .. Len(queue) : queue'[i] = queue[i]
      /\ \A i \in Len(queue) + 1 .. Len(queue') :
           queue'[i] = [op |-> ops[i - Len(queue)], at |-> sent + 1]
  BY QueueAfter
<1>2. MaxOps[family] \in Nat /\ sent \in Nat /\ Len(queue) \in Nat /\ Len(queue') \in Nat
      /\ queue \in Seq(Queued)
  BY <1>1, CapacityAssumption DEF DeploymentOK, PendingOK
<1>3. DeploymentOK'
  BY <1>1, <1>2 DEF DeploymentOK, fixed, self
<1>4. ASSUME NEW e \in RangeOf(queue') \cup mirrors'
      PROVE  e.at \in 1 .. sent'
  <2>1. CASE e \in mirrors'
    BY <1>1, <1>2, <2>1 DEF PendingOK
  <2>2. CASE e \in RangeOf(queue')
    <3>1. PICK i \in 1 .. Len(queue') : e = queue'[i]
      BY <1>1, <2>2 DEF RangeOf
    <3>2. CASE i <= Len(queue)
      <4>0. i \in 1 .. Len(queue) /\ DOMAIN queue = 1 .. Len(queue)
        BY <1>2, <3>2
      <4>1. e = queue[i] /\ i \in DOMAIN queue
        BY <1>1, <3>1, <4>0
      <4>2. e \in RangeOf(queue)
        BY <4>1 DEF RangeOf
      <4> QED BY <1>1, <1>2, <4>2 DEF PendingOK
    <3>3. CASE ~ i <= Len(queue)
      <4>1. e = [op |-> ops[i - Len(queue)], at |-> sent + 1]
        BY <1>1, <1>2, <3>1, <3>3
      <4> QED BY <1>1, <1>2, <4>1
    <3> QED BY <3>2, <3>3
  <2> QED BY <2>1, <2>2
<1>5. /\ mirrors' \subseteq Queued
      /\ begun' \subseteq {m \in mirrors' : m.op.kind \in TwoStatements}
  BY <1>1 DEF PendingOK
<1> QED BY <1>1, <1>3, <1>4, <1>5 DEF PendingOK

\* The rows of an operation are rows.
LEMMA TouchedRows ==
  ASSUME NEW op \in Operations
  PROVE  Touches(op) \subseteq Rows
<1>2. CASE op.kind \in SettingOps
  BY <1>2, SettingOpIs DEF Touches, Rows, SettingOps
<1>3. CASE op.kind \in AccountOps
  BY <1>3, AccountOpIs DEF Touches, Rows, AccountOps
<1>4. CASE op.kind \in SessionOps
  BY <1>4, SessionOpIs DEF Touches, Rows, SessionOps
<1>5. CASE op.kind \in BanOps
  BY <1>5, BanOpIs DEF Touches, Rows, BanOps
<1>6. CASE op.kind \in JournalOps
  <2>1. op.key = "journal"
    BY <1>6 DEF Operations, SettingRequests, BanRequests, SessionOps, JournalOps
  <2> QED BY <1>6, <2>1 DEF Touches, Rows, JournalOps
<1>7. CASE op.kind \in MeshOps
  BY <1>7, MeshOpIs DEF Touches, Rows, MeshOps
<1> QED BY <1>2, <1>3, <1>4, <1>5, <1>6, <1>7, KindIs

\* What is written down for the record.
LEMMA BookIs ==
  ASSUME DeploymentOK, PendingOK, NEW op \in Operations, Book(op)
  PROVE  DeploymentOK' /\ PendingOK' /\ UNCHANGED <<pg, lite, archive>>
<1>1. [kind |-> "gw_audit_add", key |-> "journal"] \in Operations
  BY DEF Operations, JournalOps
<1>2. <<op, [kind |-> "gw_audit_add", key |-> "journal"]>> \in Seq(Operations)
  BY <1>1
<1> QED BY <1>2, Enqueued DEF Book

LEMMA RegistryTypes ==
  ASSUME ReplicasTypeOK,
         \/ \E g \in Gateways, pair \in KeyPairs, isLocal \in BOOLEAN,
               lookedUp \in BOOLEAN : Register(g, pair, isLocal, lookedUp)
         \/ Registry
  PROVE  ReplicasTypeOK' /\ UNCHANGED <<pg, lite, archive, skewed, apart>>
<1> USE DEF ReplicasTypeOK
<1>0. ASSUME NEW op \in Operations, Book(op),
             UNCHANGED <<skewed, apart>>, unchecked' \subseteq Gateways,
             rushed' \in BOOLEAN
      PROVE  ReplicasTypeOK' /\ UNCHANGED <<pg, lite, archive, skewed, apart>>
  BY <1>0, BookIs DEF HistoryOK, DatabasesOK
<1>1. ASSUME NEW g \in Gateways, NEW pair \in KeyPairs, NEW isLocal \in BOOLEAN,
             NEW lookedUp \in BOOLEAN, Register(g, pair, isLocal, lookedUp)
      PROVE  ReplicasTypeOK' /\ UNCHANGED <<pg, lite, archive, skewed, apart>>
  <2>1. PICK op : op = [kind |-> "gw_registry_add", key |-> g, public |-> pair,
                        private |-> IF isLocal THEN pair ELSE Nothing,
                        local |-> isLocal, status |-> "active"]
    OBVIOUS
  <2>2. op \in Operations
    BY <2>1 DEF Operations, Statuses
  <2>3. Book(op) /\ UNCHANGED historyVars
    BY <1>1, <2>1 DEF Register
  <2> QED BY <2>2, <2>3, <1>0 DEF historyVars, HistoryOK
<1>2. ASSUME NEW g \in Gateways, NEW status \in Statuses, Amend(g, status)
      PROVE  ReplicasTypeOK' /\ UNCHANGED <<pg, lite, archive, skewed, apart>>
  <2>1. PICK op : op = [kind |-> "gw_registry_update", key |-> g,
                        patch |-> [status |-> status]]
    OBVIOUS
  <2>2. op \in Operations
    BY <2>1 DEF Operations, GatewayPatch
  <2>3. Book(op) /\ UNCHANGED historyVars
    BY <1>2, <2>1 DEF Amend
  <2> QED BY <2>2, <2>3, <1>0 DEF historyVars, HistoryOK
<1>3. ASSUME NEW g \in Gateways, NEW on \in BOOLEAN, TrustPeer(g, on)
      PROVE  ReplicasTypeOK' /\ UNCHANGED <<pg, lite, archive, skewed, apart>>
  <2>1. PICK op : op = [kind |-> "gw_registry_update", key |-> g,
                        patch |-> [auto_apply |-> on]]
    OBVIOUS
  <2>2. op \in Operations
    BY <2>1 DEF Operations, GatewayPatch
  <2>3. Book(op) /\ UNCHANGED historyVars
    BY <1>3, <2>1 DEF TrustPeer
  <2> QED BY <2>2, <2>3, <1>0 DEF historyVars, HistoryOK
<1>4. ASSUME NEW g \in Gateways, NEW pair \in KeyPairs, RotateKey(g, pair)
      PROVE  ReplicasTypeOK' /\ UNCHANGED <<pg, lite, archive, skewed, apart>>
  <2>1. PICK op, kept : /\ kept = IF Read.gateways[g].local THEN pair ELSE Nothing
                        /\ op = [kind |-> "gw_registry_update", key |-> g,
                                 patch |-> [public |-> pair, private |-> kept]]
    OBVIOUS
  <2>2. op \in Operations
    BY <2>1 DEF Operations, GatewayPatch
  <2>3. Book(op) /\ UNCHANGED historyVars
    BY <1>4, <2>1 DEF RotateKey
  <2> QED BY <2>2, <2>3, <1>0 DEF historyVars, HistoryOK
<1>5. ASSUME NEW g \in Gateways, Delete(g)
      PROVE  ReplicasTypeOK' /\ UNCHANGED <<pg, lite, archive, skewed, apart>>
  <2>1. PICK op : op = [kind |-> "gw_registry_delete", key |-> g]
    OBVIOUS
  <2>2. op \in Operations
    BY <2>1 DEF Operations
  <2>3. Book(op) /\ UNCHANGED <<skewed, apart, unchecked>> /\ rushed' \in BOOLEAN
    BY <1>5, <2>1 DEF Delete
  <2> QED BY <2>2, <2>3, <1>0 DEF HistoryOK
<1>6. ASSUME NEW rules \in SUBSET Rules, SetRules(rules)
      PROVE  ReplicasTypeOK' /\ UNCHANGED <<pg, lite, archive, skewed, apart>>
  <2>1. PICK op : op = [kind |-> "gw_distribution_replace", key |-> "rules",
                        rules |-> rules]
    OBVIOUS
  <2>2. op \in Operations
    BY <2>1 DEF Operations
  <2>3. Book(op) /\ UNCHANGED <<skewed, apart, rushed>> /\ unchecked' \subseteq Gateways
    BY <1>6, <2>1 DEF SetRules, HistoryOK
  <2> QED BY <2>2, <2>3, <1>0 DEF HistoryOK
<1> QED BY <1>1, <1>2, <1>3, <1>4, <1>5, <1>6 DEF Registry

LEMMA ReplicasTypeInit == ReplicasInit => ReplicasTypeOK
<1> SUFFICES ASSUME ReplicasInit PROVE ReplicasTypeOK
  OBVIOUS
<1>1. lite \in Database /\ pg \in Database
  BY CapacityAssumption DEF ReplicasInit
<1>2. archive \in Archive \cup {Nothing}
  BY CapacityAssumption DEF ReplicasInit
<1>3. DeploymentOK
  BY CapacityAssumption DEF ReplicasInit, DeploymentOK, Names
<1>4. PendingOK
  <2>1. queue = << >> /\ mirrors = {} /\ begun = {}
    BY DEF ReplicasInit
  <2>2. RangeOf(queue) = {} /\ Len(queue) = 0 /\ queue \in Seq(Queued)
    BY <2>1 DEF RangeOf
  <2> QED BY <2>1, <2>2, CapacityAssumption DEF PendingOK
<1>5. HistoryOK
  BY DEF ReplicasInit, HistoryOK
<1> QED BY <1>1, <1>2, <1>3, <1>4, <1>5 DEF ReplicasTypeOK, DatabasesOK

\* The rows of queued operations, and of those on their way to Postgres.
LEMMA PendingRows ==
  ASSUME PendingOK
  PROVE  /\ queue \in Seq(Queued)
         /\ \A i \in DOMAIN queue :
              /\ queue[i] \in Queued /\ queue[i].op \in Operations
              /\ queue[i].at \in 1 .. sent /\ Touches(queue[i].op) \subseteq Rows
         /\ \A m \in mirrors :
              /\ m \in Queued /\ m.op \in Operations
              /\ m.at \in 1 .. sent /\ Touches(m.op) \subseteq Rows
<1>1. queue \in Seq(Queued) /\ mirrors \subseteq Queued
  BY DEF PendingOK
<1>2. ASSUME NEW i \in DOMAIN queue
      PROVE  /\ queue[i] \in Queued /\ queue[i].op \in Operations
             /\ queue[i].at \in 1 .. sent /\ Touches(queue[i].op) \subseteq Rows
  <2>1. queue[i] \in Queued /\ queue[i] \in RangeOf(queue)
    BY <1>1 DEF RangeOf
  <2>2. queue[i].op \in Operations
    BY <2>1 DEF Queued
  <2> QED BY <2>1, <2>2, TouchedRows DEF PendingOK
<1>3. ASSUME NEW m \in mirrors
      PROVE  /\ m \in Queued /\ m.op \in Operations
             /\ m.at \in 1 .. sent /\ Touches(m.op) \subseteq Rows
  <2>1. m.op \in Operations
    BY <1>1 DEF Queued
  <2> QED BY <1>1, <2>1, TouchedRows DEF PendingOK
<1> QED BY <1>1, <1>2, <1>3

LEMMA WriterTypes ==
  ASSUME ReplicasTypeOK, WriteBatch \/ WritePg
  PROVE  ReplicasTypeOK'
<1> USE DEF ReplicasTypeOK
<1>a. /\ queue \in Seq(Queued) /\ DOMAIN queue = 1 .. Len(queue)
      /\ \A i \in DOMAIN queue :
           queue[i] \in Queued /\ queue[i].at \in 1 .. sent
           /\ Touches(queue[i].op) \subseteq Rows
  BY PendingRows
<1>b. ASSUME queue' = << >>, sent' = sent, begun' = begun, mirrors \subseteq mirrors',
             mirrors' \subseteq mirrors \cup {queue[i] : i \in DOMAIN queue}
      PROVE  PendingOK'
  <2>1. RangeOf(queue') = {} /\ Len(queue') = 0 /\ queue' \in Seq(Queued)
    BY <1>b DEF RangeOf
  <2>2. \A e \in mirrors' : e \in Queued /\ e.at \in 1 .. sent'
    BY <1>a, <1>b, PendingRows
  <2>3. begun' \subseteq {m \in mirrors' : m.op.kind \in TwoStatements}
    BY <1>b DEF PendingOK
  <2> QED BY <1>b, <2>1, <2>2, <2>3, CapacityAssumption DEF PendingOK
<1>1. CASE WriteBatch
  <2>1. PICK how \in Courses, committed \in BOOLEAN :
          /\ \A i \in DOMAIN queue : how[i] \in Outcomes(queue[i])
          /\ lite' = IF committed THEN Written(lite, queue, how) ELSE lite
          /\ mirrors \subseteq mirrors'
          /\ mirrors' \subseteq mirrors \cup {queue[i] : i \in Mirrored(how)}
          /\ skewed' = skewed \cup
               UNION {Touches(queue[i].op) :
                        i \in IF committed THEN {i \in DOMAIN queue : how[i] = "half"}
                             ELSE {j \in DOMAIN queue : how[j] = "done"}}
    BY <1>1 DEF WriteBatch, Courses
  <2>2. lite' \in Database
    BY <2>1, <1>a, WrittenIs DEF DatabasesOK
  <2>3. skewed' \subseteq Rows
    BY <2>1, <1>a DEF HistoryOK
  <2>4. mirrors' \subseteq mirrors \cup {queue[i] : i \in DOMAIN queue}
    BY <2>1, <1>a DEF Mirrored, Courses
  <2>5. /\ queue' = << >> /\ rushed' = FALSE
        /\ UNCHANGED <<fixed, self, pg, begun, archive, sent, apart, unchecked>>
    BY <1>1 DEF WriteBatch
  <2> QED BY <2>1, <2>2, <2>3, <2>4, <2>5, <1>b
          DEF DeploymentOK, DatabasesOK, HistoryOK, fixed, self
<1>2. CASE WritePg
  <2>1. PICK how \in Courses :
          /\ \A i \in 1 .. Len(queue) : how[i] \in Outcomes(queue[i])
          /\ pg' = Written(pg, queue, how)
          /\ skewed' = skewed \cup
               UNION {Touches(queue[i].op) : i \in {j \in DOMAIN queue : how[j] = "half"}}
    BY <1>2, <1>a DEF WritePg, Courses
  <2>2. pg' \in Database
    BY <2>1, <1>a, WrittenIs DEF DatabasesOK
  <2>3. skewed' \subseteq Rows
    BY <2>1, <1>a DEF HistoryOK
  <2>4. /\ queue' = << >> /\ rushed' = FALSE
        /\ UNCHANGED <<fixed, self, lite, mirrors, begun, archive, sent, apart, unchecked>>
    BY <1>2 DEF WritePg, mirrorVars
  <2> QED BY <2>2, <2>3, <2>4, <1>b DEF DeploymentOK, DatabasesOK, HistoryOK, fixed, self
<1> QED BY <1>1, <1>2

\* What is left of a mirror leaves a database, with the orders it found there.
LEMMA RestIs ==
  ASSUME PendingOK, NEW db \in Database, NEW m \in mirrors
  PROVE  Rest(db, m) \in Database /\ Rest(db, m).orders = db.orders
<1>1. m.op \in Operations
  BY PendingRows
<1>2. m \in begun => m.op.kind \in TwoStatements
  BY DEF PendingOK
<1> QED BY <1>1, <1>2, ArmsKeepDatabases, HalfIs DEF Rest

LEMMA MirrorTypes ==
  ASSUME ReplicasTypeOK, MirrorBegins \/ Mirror \/ Crash
  PROVE  ReplicasTypeOK'
<1> USE DEF ReplicasTypeOK
<1>1. CASE Mirror
  <2>1. PICK m \in mirrors, reached \in BOOLEAN :
          /\ mirrors' = mirrors \ {m} /\ begun' = begun \ {m}
          /\ pg' = IF reached THEN Rest(pg, m) ELSE pg
          /\ skewed' = skewed \cup (IF reached THEN Overtaken(m) ELSE Touches(m.op))
          /\ UNCHANGED <<fixed, self, lite, queue, archive, sent, apart, unchecked,
                        rushed>>
    BY <1>1 DEF Mirror
  <2>2. m \in Queued /\ m.op \in Operations /\ Touches(m.op) \subseteq Rows
    BY PendingRows
  <2>3. pg' \in Database
    BY <2>1, <2>2, RestIs DEF DatabasesOK
  <2>4. Overtaken(m) \subseteq Touches(m.op)
    BY DEF Overtaken
  <2>5. skewed' \subseteq Rows
    BY <2>1, <2>2, <2>4 DEF HistoryOK
  <2>6. PendingOK'
    BY <2>1 DEF PendingOK, RangeOf
  <2> QED BY <2>1, <2>3, <2>5, <2>6 DEF DeploymentOK, DatabasesOK, HistoryOK, fixed, self
<1>2. CASE Crash
  <2>1. /\ queue' = << >> /\ mirrors' = {} /\ begun' = {}
        /\ skewed' = skewed \cup UNION {Touches(m.op) : m \in mirrors}
        /\ rushed' = FALSE
        /\ UNCHANGED <<fixed, lite, pg, archive, sent, apart, unchecked>>
    BY <1>2 DEF Crash
  <2>2. knownAs' \in Names /\ cache' \in [Signals -> Orders \cup {Nothing}]
    <3>1. CASE Boot
      <4>1. knownAs' \in Names
        BY <3>1 DEF Boot, Names
      <4>2. [s \in Signals |-> lite.orders[<<knownAs', s>>]]
              \in [Signals -> Orders \cup {Nothing}]
        BY <4>1 DEF DatabasesOK, Database
      <4> QED BY <3>1, <4>1, <4>2 DEF Boot
    <3>2. CASE UNCHANGED self
      BY <3>2 DEF self, DeploymentOK
    <3> QED BY <1>2, <3>1, <3>2 DEF Crash
  <2>3. PendingOK'
    <3>1. RangeOf(queue') = {} /\ Len(queue') = 0 /\ queue' \in Seq(Queued)
      BY <2>1 DEF RangeOf
    <3> QED BY <2>1, <3>1, CapacityAssumption DEF PendingOK
  <2>4. HistoryOK'
    BY <2>1, PendingRows DEF HistoryOK
  <2> QED BY <2>1, <2>2, <2>3, <2>4 DEF DeploymentOK, DatabasesOK, fixed
<1>3. CASE MirrorBegins
  <2>1. PICK m \in mirrors :
          /\ m.op.kind \in TwoStatements /\ begun' = begun \cup {m}
          /\ pg' = PgBegun(pg, m.op) /\ skewed' = skewed \cup Overtaken(m)
          /\ UNCHANGED <<fixed, self, lite, queue, mirrors, archive, sent, apart, unchecked,
                        rushed>>
    BY <1>3 DEF MirrorBegins
  <2>2. m.op \in Operations /\ Touches(m.op) \subseteq Rows
    BY PendingRows
  <2>3. pg' \in Database
    BY <2>1, <2>2, HalfIs DEF DatabasesOK
  <2>4. skewed' \subseteq Rows
    BY <2>1, <2>2 DEF HistoryOK, Overtaken
  <2>5. PendingOK'
    BY <2>1 DEF PendingOK, RangeOf
  <2> QED BY <2>1, <2>3, <2>4, <2>5 DEF DeploymentOK, DatabasesOK, HistoryOK, fixed, self
<1> QED BY <1>1, <1>2, <1>3

LEMMA RequestTypes ==
  ASSUME ReplicasTypeOK, Write \/ Enrol \/ SaveOrder
  PROVE  ReplicasTypeOK'
<1> USE DEF ReplicasTypeOK
<1>1. CASE Write
  <2>1. PICK op \in Operations : Enqueue(<<op>>)
    <3>1. /\ SettingRequests \subseteq Operations /\ BanRequests \subseteq Operations
          /\ AccountRequests \subseteq Operations
          /\ SessionRequests \subseteq Operations
      <4>1. AccountRequests \subseteq Operations
        BY DEF Operations, AccountRequests
      <4>2. SessionRequests \subseteq Operations
        BY DEF Operations, SessionRequests, SessionOps
      <4> QED BY <4>1, <4>2 DEF Operations
    <3> QED BY <1>1, <3>1 DEF Write
  <2>2. <<op>> \in Seq(Operations)
    OBVIOUS
  <2>3. DeploymentOK' /\ PendingOK' /\ pg' = pg
    BY <2>1, <2>2, Enqueued
  <2>4. UNCHANGED <<lite, archive, historyVars>>
    BY <1>1 DEF Write
  <2> QED BY <2>3, <2>4 DEF DatabasesOK, HistoryOK, historyVars
<1>2. CASE Enrol
  <2>1. \E g \in Gateways, pair \in KeyPairs : Register(g, pair, TRUE, TRUE)
    BY <1>2 DEF Enrol
  <2> QED BY <2>1, RegistryTypes
<1>3. CASE SaveOrder
  <2>1. PICK s \in Signals, n \in Orders, reached \in BOOLEAN :
          StoreOrder(<<knownAs, s>>, n, reached)
    BY <1>3 DEF SaveOrder
  <2>2. <<knownAs, s>> \in Names \X Signals
    BY DEF DeploymentOK
  <2>3. PICK row \in Names \X Signals : row = <<knownAs, s>>
    BY <2>2
  <2>4. /\ lite' = [lite EXCEPT !.orders[row] = n]
        /\ cache' = [cache EXCEPT ![s] = n]
        /\ pg' = IF mode # "sqlite" /\ reached THEN [pg EXCEPT !.orders[row] = n]
                                              ELSE pg
        /\ apart' = IF reached THEN apart \ {row} ELSE apart \cup {row}
    BY <2>1, <2>3 DEF StoreOrder
  <2>5. [lite EXCEPT !.orders[row] = n] \in Database
        /\ [pg EXCEPT !.orders[row] = n] \in Database
    BY DEF DatabasesOK, Database
  <2>6. sent' = sent + 1 /\ sent' \in 0 .. MaxOps[family]
    BY <1>3, CapacityAssumption DEF SaveOrder, DeploymentOK
  <2>7. UNCHANGED <<fixed, knownAs, queue, mirrors, begun, archive, skewed, unchecked,
                    rushed>>
    BY <1>3 DEF SaveOrder, mirrorVars
  <2>8. DeploymentOK'
    BY <2>4, <2>6, <2>7 DEF DeploymentOK, fixed
  <2>9. PendingOK'
    <3>1. sent \in Nat
      BY CapacityAssumption DEF DeploymentOK
    <3> QED BY <2>6, <2>7, <3>1 DEF PendingOK, RangeOf
  <2>10. DatabasesOK' /\ HistoryOK'
    BY <2>4, <2>5, <2>7 DEF DatabasesOK, HistoryOK
  <2> QED BY <2>8, <2>9, <2>10
<1> QED BY <1>1, <1>2, <1>3

LEMMA CopyTypes ==
  ASSUME ReplicasTypeOK, SaveArchive \/ Import \/ Export
  PROVE  ReplicasTypeOK'
<1> USE DEF ReplicasTypeOK
<1>1. lite \in Database /\ pg \in Database
  BY DEF DatabasesOK
<1>2. /\ sent < MaxOps[family] /\ sent' = sent + 1
      /\ UNCHANGED <<fixed, self, queue, mirrors, begun, skewed, unchecked, rushed>>
  BY DEF SaveArchive, Import, Export, historyVars, mirrorVars
<1>3. DeploymentOK' /\ PendingOK'
  <2>1. sent \in Nat /\ MaxOps[family] \in Nat
    BY CapacityAssumption DEF DeploymentOK
  <2> QED BY <1>2, <2>1 DEF DeploymentOK, PendingOK, RangeOf, fixed, self
<1>4. lite' \in Database /\ pg' \in Database /\ archive' \in Archive \cup {Nothing}
      /\ apart' \subseteq Names \X Signals
  <2>1. CASE SaveArchive
    <3>1. PICK withSecrets \in BOOLEAN, sections \in SUBSET Sections :
            archive' = Archived(Readable(lite, sections), withSecrets)
      BY <2>1 DEF SaveArchive
    <3>2. archive' \in Archive
      BY <1>1, <3>1, ReadableIs, ArchivedIs
    <3>3. UNCHANGED <<lite, pg, apart>>
      BY <2>1 DEF SaveArchive, historyVars
    <3> QED BY <1>1, <3>2, <3>3 DEF HistoryOK
  <2>2. CASE Import
    <3>1. pg' = Imported(pg, lite) /\ UNCHANGED <<lite, archive, apart>>
      BY <2>2 DEF Import, historyVars
    <3> QED BY <1>1, <3>1, ImportedIs DEF HistoryOK, DatabasesOK
  <2>3. CASE Export
    <3>1. /\ lite' = Exported(pg) /\ UNCHANGED <<pg, archive>>
          /\ apart' = apart \cup Reordered(lite, lite')
      BY <2>3 DEF Export
    <3>2. Exported(pg) \in Database
      BY <1>1, ExportedIs
    <3> QED BY <1>1, <3>1, <3>2 DEF HistoryOK, DatabasesOK, Reordered
  <2> QED BY <2>1, <2>2, <2>3
<1>5. DatabasesOK' /\ HistoryOK'
  BY <1>2, <1>4 DEF DatabasesOK, HistoryOK
<1> QED BY <1>3, <1>5

LEMMA RestoreTypes ==
  ASSUME ReplicasTypeOK, Restore
  PROVE  ReplicasTypeOK'
<1> USE DEF ReplicasTypeOK
<1>1. PICK sections \in SUBSET Sections : lite' = Restored(lite, archive, sections)
  BY DEF Restore
<1>2. /\ Enqueue(<<[kind |-> "gw_audit_add", key |-> "journal"]>>)
      /\ skewed' = skewed \cup Altered(lite, lite')
      /\ apart' = apart \cup Reordered(lite, lite')
      /\ unchecked' = unchecked \cup
           {g \in Gateways : \E r \in lite'.rules \ lite.rules : g \in {r[1], r[2]}}
      /\ UNCHANGED <<archive, rushed>> /\ archive # Nothing
  BY DEF Restore
<1>3. lite' \in Database
  BY <1>1, <1>2, RestoredIs DEF DatabasesOK
<1>4. DeploymentOK' /\ PendingOK' /\ pg' = pg
  <2>1. [kind |-> "gw_audit_add", key |-> "journal"] \in Operations
    BY DEF Operations, JournalOps
  <2>2. <<[kind |-> "gw_audit_add", key |-> "journal"]>> \in Seq(Operations)
    BY <2>1
  <2> QED BY <1>2, <2>2, Enqueued
<1>5. /\ Altered(lite, lite') \subseteq Rows
      /\ Reordered(lite, lite') \subseteq Names \X Signals
  BY DEF Altered, Reordered, Rows
<1>6. HistoryOK'
  BY <1>2, <1>5 DEF HistoryOK
<1> QED BY <1>2, <1>3, <1>4, <1>6 DEF DatabasesOK

LEMMA ReplicasTypeStep ==
  ASSUME ReplicasTypeOK, [ReplicasNext]_replicasVars
  PROVE  ReplicasTypeOK'
<1>1. CASE UNCHANGED replicasVars
  BY <1>1 DEF replicasVars, mirrorVars, fixed, self, historyVars, ReplicasTypeOK, DeploymentOK,
              DatabasesOK, PendingOK, HistoryOK, RangeOf
<1>2. CASE ReplicasNext
  BY <1>2, RequestTypes, RegistryTypes, WriterTypes, MirrorTypes, CopyTypes,
     RestoreTypes DEF ReplicasNext
<1> QED BY <1>1, <1>2

\* Both databases hold rows of the right shape whatever the writer's batches lose
\* or tear, whatever is copied between them and whatever an archive brings; the
\* queue never grows beyond its capacity.
THEOREM ReplicasTypeCorrect == ReplicasSpec => []ReplicasTypeOK
<1>1. ReplicasInit => ReplicasTypeOK
  BY ReplicasTypeInit
<1>2. ReplicasTypeOK /\ [ReplicasNext]_replicasVars => ReplicasTypeOK'
  BY ReplicasTypeStep
<1> QED BY <1>1, <1>2, PTL DEF ReplicasSpec

-----------------------------------------------------------------------------
(*****************************************************************************)
(* Replicas: what copies and archives leave                                  *)
(*****************************************************************************)

LEMMA ImportStep ==
  ASSUME ReplicasTypeOK, Import
  PROVE  /\ \A a \in Addresses : pg'.bans[a] >= pg.bans[a]
         /\ \A s \in Sids :
              pg.sessions[s] = "revoked" => pg'.sessions[s] = "revoked"
         /\ \A u \in Users :
              pg.accounts[u] # Nothing =>
                /\ pg'.accounts[u] # Nothing
                /\ pg.accounts[u].totp => pg'.accounts[u].totp
         /\ \A g \in Gateways :
              pg.gateways[g] # Nothing =>
                /\ pg'.gateways[g] # Nothing
                /\ pg.gateways[g].private # Nothing => pg'.gateways[g].private # Nothing
                /\ pg.gateways[g].auto_apply = pg'.gateways[g].auto_apply
         /\ pg'.rules = pg.rules
<1>1. /\ pg'.settings = ImportedSettings(pg, lite)
      /\ pg'.accounts = ImportedAccounts(pg, lite)
      /\ pg'.sessions = ImportedSessions(pg, lite)
      /\ pg'.bans = ImportedBans(pg, lite)
      /\ pg'.gateways = ImportedGateways(pg, lite)
      /\ pg'.rules = pg.rules
  BY DEF Import, Imported
<1>2. lite \in Database /\ pg \in Database
  BY DEF ReplicasTypeOK, DatabasesOK
<1>3. ASSUME NEW a \in Addresses
      PROVE  pg'.bans[a] >= pg.bans[a]
  <2>1. pg.bans[a] \in Nat /\ lite.bans[a] \in Nat
    BY <1>2, TablesAssumption DEF Database
  <2>2. ImportedBans(pg, lite)[a] =
          IF lite.bans[a] = 0 THEN pg.bans[a] ELSE Later(pg.bans[a], lite.bans[a])
    BY <1>2, ImportedBan
  <2> QED BY <1>1, <2>1, <2>2 DEF Later
<1>4. ASSUME NEW s \in Sids, pg.sessions[s] = "revoked"
      PROVE  pg'.sessions[s] = "revoked"
  <2>1. "revoked" # Nothing
    BY NothingAssumption DEF SessionRow
  <2> QED BY <1>1, <1>2, <1>4, <2>1, ImportedSession
<1>5. ASSUME NEW u \in Users, pg.accounts[u] # Nothing
      PROVE  /\ pg'.accounts[u] # Nothing
             /\ pg.accounts[u].totp => pg'.accounts[u].totp
  <2>1. CASE lite.accounts[u] = Nothing
    <3>1. pg'.accounts[u] = pg.accounts[u]
      BY <1>1, <1>2, <2>1, ImportedAccount
    <3> QED BY <1>5, <3>1
  <2>2. CASE lite.accounts[u] # Nothing
    <3>2. ImportedAccounts(pg, lite)[u] = Joined(lite.accounts[u], pg.accounts[u])
      BY <1>2, <2>2, ImportedAccount
    <3>3. ImportedAccounts(pg, lite)[u] \in AccountRow
      <4>1. lite.accounts[u].password \in Values
        BY <1>2, <2>2 DEF Database, AccountRow
      <4> QED BY <3>2, <4>1 DEF Joined, AccountRow
    <3>4. ImportedAccounts(pg, lite)[u] # Nothing
      BY <3>3, NothingAssumption
    <3>5. PICK row, old : row = lite.accounts[u] /\ old = pg.accounts[u]
      OBVIOUS
    <3>6. old.totp => Joined(row, old).totp
      BY <1>5, <3>5 DEF Joined
    <3>7. pg'.accounts[u] = Joined(row, old) /\ pg'.accounts[u] # Nothing
      BY <1>1, <3>2, <3>4, <3>5
    <3> QED BY <3>5, <3>6, <3>7
  <2> QED BY <2>1, <2>2
<1>6. ASSUME NEW g \in Gateways, pg.gateways[g] # Nothing
      PROVE  /\ pg'.gateways[g] # Nothing
             /\ pg.gateways[g].private # Nothing => pg'.gateways[g].private # Nothing
             /\ pg.gateways[g].auto_apply = pg'.gateways[g].auto_apply
  <2>1. PICK row, old : row = lite.gateways[g] /\ old = pg.gateways[g]
    OBVIOUS
  <2>2. row \in GatewayRow \cup {Nothing} /\ old \in GatewayRow
    BY <1>2, <1>6, <2>1 DEF Database
  <2>3. pg'.gateways[g] = IF row = Nothing THEN old ELSE Over(row, old)
    BY <1>1, <1>2, <1>6, <2>1, ImportedGateway
  <2>4. CASE row = Nothing
    BY <1>6, <2>1, <2>3, <2>4
  <2>5. CASE row # Nothing
    <3>1. Over(row, old) \in GatewayRow
      BY <2>2, <2>5 DEF Over, GatewayRow
    <3>2. /\ Over(row, old).private = IF row.private = Nothing THEN old.private
                                                               ELSE row.private
          /\ Over(row, old).auto_apply = old.auto_apply
      BY DEF Over
    <3>3. Over(row, old) # Nothing
      BY <3>1, NothingAssumption
    <3> QED BY <2>1, <2>3, <2>5, <3>2, <3>3
  <2> QED BY <2>4, <2>5
<1> QED BY <1>1, <1>3, <1>4, <1>5, <1>6

\* db.import over a Postgres in use weakens nothing there: expiries of bans,
\* revocations, second factors, private keys, auto_apply flags and rules stay,
\* whatever the file holds.
THEOREM ImportsNeverWeaken == ReplicasSpec => ImportNeverWeakens
<1>1. ReplicasTypeOK /\ [ReplicasNext]_replicasVars =>
        [Import =>
           /\ \A a \in Addresses : pg'.bans[a] >= pg.bans[a]
           /\ \A s \in Sids :
                pg.sessions[s] = "revoked" => pg'.sessions[s] = "revoked"
           /\ \A u \in Users :
                pg.accounts[u] # Nothing =>
                  pg'.accounts[u] # Nothing
                  /\ (pg.accounts[u].totp => pg'.accounts[u].totp)
           /\ \A g \in Gateways :
                pg.gateways[g] # Nothing =>
                  /\ pg'.gateways[g] # Nothing
                  /\ pg.gateways[g].private # Nothing =>
                       pg'.gateways[g].private # Nothing
                  /\ pg.gateways[g].auto_apply = pg'.gateways[g].auto_apply
           /\ pg'.rules = pg.rules]_replicasVars
  BY ImportStep
<1> QED BY <1>1, ReplicasTypeCorrect, PTL DEF ReplicasSpec, ImportNeverWeakens

LEMMA RestoreStep ==
  ASSUME ReplicasTypeOK, Restore
  PROVE  /\ \A u \in Users :
              lite.accounts[u] # Nothing => lite'.accounts[u] = lite.accounts[u]
         /\ \A g \in Gateways :
              lite.gateways[g] # Nothing =>
                /\ lite'.gateways[g] # Nothing
                /\ lite'.gateways[g].local = lite.gateways[g].local
                /\ lite.gateways[g].private # Nothing =>
                     lite'.gateways[g].private = lite.gateways[g].private
         /\ \A k \in Keys : lite.settings[k] # Nothing => lite'.settings[k] # Nothing
         /\ lite.rules \subseteq lite'.rules
<1>1. PICK sections \in SUBSET Sections : lite' = Restored(lite, archive, sections)
  BY DEF Restore
<1>2. lite \in Database /\ archive \in Archive
  BY DEF ReplicasTypeOK, DatabasesOK, Restore
<1>3. /\ \/ lite'.settings = lite.settings
         \/ lite'.settings = RestoredSettings(lite.settings, archive)
      /\ \/ lite'.accounts = lite.accounts
         \/ lite'.accounts = RestoredAccounts(lite.accounts, archive)
      /\ \/ lite'.gateways = lite.gateways
         \/ lite'.gateways = RestoredGateways(lite.gateways, archive)
      /\ \/ lite'.rules = lite.rules
         \/ lite'.rules = RestoredRules(lite.rules, archive)
  BY <1>1, <1>2 DEF Restored, Database
<1>4. \A u \in Users :
        lite.accounts[u] # Nothing => lite'.accounts[u] = lite.accounts[u]
  BY <1>3 DEF RestoredAccounts
<1>5. ASSUME NEW g \in Gateways, lite.gateways[g] # Nothing
      PROVE  /\ lite'.gateways[g] # Nothing
             /\ lite'.gateways[g].local = lite.gateways[g].local
             /\ lite.gateways[g].private # Nothing =>
                  lite'.gateways[g].private = lite.gateways[g].private
  <2>1. PICK row, old : row = archive.gateways[g] /\ old = lite.gateways[g]
    OBVIOUS
  <2>2. row \in GatewayRow \cup {Nothing} /\ old \in GatewayRow
    BY <1>2, <1>5, <2>1 DEF Database, Archive
  <2>3. CASE lite'.gateways = lite.gateways \/ row = Nothing
    BY <1>3, <1>5, <2>1, <2>3 DEF RestoredGateways
  <2>4. CASE lite'.gateways = RestoredGateways(lite.gateways, archive) /\ row # Nothing
    <3>1. PICK p, l : /\ p = IF old.private = Nothing THEN row.private ELSE old.private
                      /\ l = old.local
      OBVIOUS
    <3>2. lite'.gateways[g] = [row EXCEPT !.private = p, !.local = l]
      BY <1>5, <2>1, <2>4, <3>1 DEF RestoredGateways
    <3>3. row \in GatewayRow /\ p \in KeyPairs \cup {Nothing} /\ l \in BOOLEAN
      BY <2>2, <2>4, <3>1 DEF GatewayRow
    <3>4. lite'.gateways[g] \in GatewayRow /\ lite'.gateways[g].private = p
          /\ lite'.gateways[g].local = l
      BY <3>2, <3>3 DEF GatewayRow
    <3>5. lite'.gateways[g] # Nothing
      BY <3>4, NothingAssumption
    <3> QED BY <2>1, <3>1, <3>4, <3>5
  <2> QED BY <1>3, <2>3, <2>4
<1>6. \A k \in Keys : lite.settings[k] # Nothing => lite'.settings[k] # Nothing
  BY <1>3 DEF RestoredSettings
<1>7. lite.rules \subseteq lite'.rules
  BY <1>3 DEF RestoredRules
<1> QED BY <1>4, <1>5, <1>6, <1>7

\* Importing an archive never replaces an account or a private key that is there,
\* never makes a gateway local, and removes no gateway, setting or rule, whatever
\* sections fail.
THEOREM RestoresTakeOverNothing == ReplicasSpec => RestoreTakesOverNothing
<1>1. ReplicasTypeOK /\ [ReplicasNext]_replicasVars =>
        [Restore =>
           /\ \A u \in Users :
                lite.accounts[u] # Nothing => lite'.accounts[u] = lite.accounts[u]
           /\ \A g \in Gateways :
                lite.gateways[g] # Nothing =>
                  /\ lite'.gateways[g] # Nothing
                  /\ lite'.gateways[g].local = lite.gateways[g].local
                  /\ lite.gateways[g].private # Nothing =>
                       lite'.gateways[g].private = lite.gateways[g].private
           /\ \A k \in Keys :
                lite.settings[k] # Nothing => lite'.settings[k] # Nothing
           /\ lite.rules \subseteq lite'.rules]_replicasVars
  BY RestoreStep
<1> QED BY <1>1, ReplicasTypeCorrect, PTL DEF ReplicasSpec, RestoreTakesOverNothing

\* What db.export takes out of a Postgres and db.import brings into an empty one.
LEMMA MovedHouse ==
  ASSUME NEW db \in Database
  PROVE  Carried(Imported(Empty, Exported(db))) = Carried(db)
<1>1. PICK file \in Database :
        /\ file = Exported(db)
        /\ file.settings = db.settings /\ file.accounts = db.accounts
        /\ file.sessions = db.sessions /\ file.bans = db.bans
        /\ file.journal = db.journal
        /\ \A g \in Gateways : file.gateways[g] =
             IF db.gateways[g] = Nothing THEN Nothing
             ELSE [db.gateways[g] EXCEPT !.auto_apply = FALSE]
  BY ExportedIs
<1>2. PICK empty \in Database : empty = Empty
  BY EmptyIs
<1>3. /\ \A k \in Keys : empty.settings[k] = Nothing
      /\ \A u \in Users : empty.accounts[u] = Nothing
      /\ \A s \in Sids : empty.sessions[s] = Nothing
      /\ \A a \in Addresses : empty.bans[a] = 0
      /\ \A g \in Gateways : empty.gateways[g] = Nothing
      /\ empty.journal = 0
  BY <1>2 DEF Empty
<1>4. PICK new \in Database : new = Imported(empty, file)
  BY ImportedIs
<1>5. /\ new.settings = ImportedSettings(empty, file)
      /\ new.accounts = ImportedAccounts(empty, file)
      /\ new.sessions = ImportedSessions(empty, file)
      /\ new.bans = ImportedBans(empty, file)
      /\ new.journal = empty.journal + file.journal
      /\ new.gateways = ImportedGateways(empty, file)
  BY <1>4, Zenon DEF Imported
<1>6. new.settings = db.settings
  <2>1. \A k \in Keys : new.settings[k] = db.settings[k]
    BY <1>1, <1>3, <1>5, ImportedSetting
  <2> QED BY <2>1 DEF Database
<1>7. new.accounts = db.accounts
  <2>1. ASSUME NEW u \in Users PROVE new.accounts[u] = db.accounts[u]
    <3>1. CASE db.accounts[u] = Nothing
      BY <1>1, <1>3, <1>5, <3>1, ImportedAccount
    <3>2. CASE db.accounts[u] # Nothing
      <4>1. db.accounts[u] \in AccountRow
        BY <3>2 DEF Database
      <4>2. PICK row : row = db.accounts[u]
        OBVIOUS
      <4>3. new.accounts[u] = Joined(row, Nothing)
        BY <1>1, <1>3, <1>5, <3>2, <4>2, ImportedAccount
      <4>4. row = [password |-> row.password, totp |-> row.totp]
        BY <4>1, <4>2 DEF AccountRow
      <4>5. row.totp \in BOOLEAN
        BY <4>1, <4>2 DEF AccountRow
      <4>6. CASE row.totp = TRUE
        BY <4>2, <4>3, <4>4, <4>6 DEF Joined
      <4>7. CASE row.totp = FALSE
        BY <4>2, <4>3, <4>4, <4>7 DEF Joined
      <4> QED BY <4>5, <4>6, <4>7
    <3> QED BY <3>1, <3>2
  <2> QED BY <2>1 DEF Database
<1>8. new.bans = db.bans
  <2>1. ASSUME NEW a \in Addresses PROVE new.bans[a] = db.bans[a]
    <3>1. db.bans[a] \in Nat
      BY TablesAssumption DEF Database
    <3>2. new.bans[a] = IF file.bans[a] = 0 THEN empty.bans[a]
                        ELSE Later(empty.bans[a], file.bans[a])
      BY <1>5, ImportedBan
    <3> QED BY <1>1, <1>3, <3>1, <3>2 DEF Later
  <2> QED BY <2>1 DEF Database
<1>9. new.journal = db.journal
  BY <1>1, <1>3, <1>5 DEF Database
<1>10. {s \in Sids : new.sessions[s] # Nothing} = {s \in Sids : db.sessions[s] # Nothing}
  <2>1. "active" # Nothing
    BY NothingAssumption DEF SessionRow
  <2>2. \A s \in Sids : new.sessions[s] # Nothing <=> db.sessions[s] # Nothing
    BY <1>1, <1>3, <1>5, <2>1, ImportedSession
  <2> QED BY <2>2
<1>11. ASSUME NEW g \in Gateways
       PROVE  new.gateways[g] = IF db.gateways[g] = Nothing THEN Nothing
                                ELSE Brought(db.gateways[g])
  <2>1. new.gateways[g] = IF file.gateways[g] = Nothing THEN empty.gateways[g]
                          ELSE Brought(file.gateways[g])
    BY <1>3, <1>5, ImportedGateway
  <2>2. CASE db.gateways[g] = Nothing
    BY <1>1, <1>3, <2>1, <2>2
  <2>3. CASE db.gateways[g] # Nothing
    <3>1. PICK row : row = db.gateways[g]
      OBVIOUS
    <3>2. row \in GatewayRow /\ file.gateways[g] = [row EXCEPT !.auto_apply = FALSE]
      BY <1>1, <2>3, <3>1 DEF Database
    <3>3. file.gateways[g] # Nothing
      BY <3>2, NothingAssumption DEF GatewayRow
    <3>4. Brought(file.gateways[g]) = Brought(row)
      BY <3>2 DEF Brought, GatewayRow
    <3> QED BY <2>1, <2>3, <3>1, <3>3, <3>4
  <2> QED BY <2>2, <2>3
<1>12. [g \in Gateways |-> IF new.gateways[g] = Nothing THEN Nothing
                           ELSE [new.gateways[g] EXCEPT !.auto_apply = FALSE]]
       = [g \in Gateways |-> IF db.gateways[g] = Nothing THEN Nothing
                             ELSE [db.gateways[g] EXCEPT !.auto_apply = FALSE]]
  <2>1. ASSUME NEW g \in Gateways, db.gateways[g] # Nothing
        PROVE  /\ new.gateways[g] # Nothing
               /\ [new.gateways[g] EXCEPT !.auto_apply = FALSE]
                    = [db.gateways[g] EXCEPT !.auto_apply = FALSE]
    <3>1. PICK row : row = db.gateways[g]
      OBVIOUS
    <3>2. row \in GatewayRow
      BY <2>1, <3>1 DEF Database
    <3>3. new.gateways[g] = Brought(row)
      BY <1>11, <2>1, <3>1
    <3>4. Brought(row) \in GatewayRow
      BY <3>2 DEF Brought, GatewayRow
    <3>5. [Brought(row) EXCEPT !.auto_apply = FALSE] = [row EXCEPT !.auto_apply = FALSE]
      <4>1. [row EXCEPT !.auto_apply = FALSE] = Brought(row)
        BY <3>2, BroughtIs
      <4>2. PICK b \in GatewayRow : b = Brought(row)
        BY <3>4
      <4>3. [b EXCEPT !.auto_apply = FALSE] = Brought(b)
        BY BroughtIs
      <4>4. Brought(b) = Brought(row)
        BY <4>2 DEF Brought
      <4> QED BY <4>1, <4>2, <4>3, <4>4
    <3> QED BY <3>1, <3>3, <3>4, <3>5, NothingAssumption
  <2>2. \A g \in Gateways : db.gateways[g] = Nothing => new.gateways[g] = Nothing
    BY <1>11
  <2> QED BY <2>1, <2>2
<1>13. Carried(new) = Carried(db)
  BY <1>6, <1>7, <1>8, <1>9, <1>10, <1>12, Zenon DEF Carried
<1> QED BY <1>1, <1>2, <1>4, <1>13

\* A gateway's row as an archive with secrets holds it.
Unpacked(row) ==
  [row EXCEPT !.private = IF row.local THEN row.private ELSE Nothing]

LEMMA UnpackedIs ==
  ASSUME NEW row \in GatewayRow
  PROVE  /\ Unpacked(row) \in GatewayRow /\ Unpacked(row).local = row.local
         /\ Unpacked(Unpacked(row)) = Unpacked(row)
<1>1. PICK p : p = IF row.local THEN row.private ELSE Nothing
  OBVIOUS
<1>2. p \in KeyPairs \cup {Nothing}
  BY <1>1 DEF GatewayRow
<1>3. PICK r : r = Unpacked(row)
  OBVIOUS
<1>4. r = [row EXCEPT !.private = p]
  BY <1>1, <1>3 DEF Unpacked
<1>5. r \in GatewayRow /\ r.local = row.local /\ r.private = p
  BY <1>2, <1>4 DEF GatewayRow
<1>6. PICK q : q = IF r.local THEN r.private ELSE Nothing
  OBVIOUS
<1>7. q = r.private
  BY <1>1, <1>5, <1>6
<1>8. [r EXCEPT !.private = q] = r
  BY <1>5, <1>7 DEF GatewayRow
<1>9. Unpacked(r) = r
  BY <1>6, <1>8 DEF Unpacked
<1> QED BY <1>3, <1>5, <1>9

\* The tables of an archive with secrets.
LEMMA ArchivedTables ==
  ASSUME NEW db \in Database
  PROVE  /\ \A k \in Keys : Archived(db, TRUE).settings[k] = db.settings[k]
         /\ \A u \in Users : Archived(db, TRUE).passwords[u] =
              IF db.accounts[u] = Nothing THEN Nothing ELSE db.accounts[u].password
         /\ \A g \in Gateways : Archived(db, TRUE).gateways[g] =
              IF db.gateways[g] = Nothing THEN Nothing ELSE Unpacked(db.gateways[g])
         /\ Archived(db, TRUE).rules = db.rules
         /\ \A s \in Signals : Archived(db, TRUE).orders[s] =
              IF Named(db) THEN db.orders[<<"local", s>>] ELSE Nothing
<1>1. \A k \in Keys : Archived(db, TRUE).settings[k] = db.settings[k]
  BY DEF Archived
<1>2. \A u \in Users : Archived(db, TRUE).passwords[u] =
        IF db.accounts[u] = Nothing THEN Nothing ELSE db.accounts[u].password
  BY DEF Archived
<1>3. ASSUME NEW g \in Gateways
      PROVE  Archived(db, TRUE).gateways[g] =
               IF db.gateways[g] = Nothing THEN Nothing ELSE Unpacked(db.gateways[g])
  BY DEF Archived, Unpacked
<1>4. Archived(db, TRUE).rules = db.rules
  BY Zenon DEF Archived
<1>5. \A s \in Signals : Archived(db, TRUE).orders[s] =
        IF Named(db) THEN db.orders[<<"local", s>>] ELSE Nothing
  BY DEF Archived
<1> QED BY <1>1, <1>2, <1>3, <1>4, <1>5

\* The tables of a gateway that read every section of an archive.
LEMMA RestoredAll ==
  ASSUME NEW db \in Database, NEW a \in Archive
  PROVE  /\ Restored(db, a, Sections).settings = RestoredSettings(db.settings, a)
         /\ Restored(db, a, Sections).accounts = RestoredAccounts(db.accounts, a)
         /\ Restored(db, a, Sections).gateways = RestoredGateways(db.gateways, a)
         /\ Restored(db, a, Sections).rules = RestoredRules(db.rules, a)
         /\ Restored(db, a, Sections).orders =
              IF Named(db) THEN RestoredOrders(db.orders, a) ELSE db.orders
  BY DEF Restored, Sections, Database

LEMMA ArchivesEqual ==
  ASSUME NEW a \in Archive, NEW b \in Archive,
         \A k \in Keys : a.settings[k] = b.settings[k],
         \A u \in Users : a.passwords[u] = b.passwords[u],
         \A g \in Gateways : a.gateways[g] = b.gateways[g],
         a.rules = b.rules,
         \A s \in Signals : a.orders[s] = b.orders[s]
  PROVE  a = b
<1>1. a.settings = b.settings
  BY DEF Archive
<1>2. a.passwords = b.passwords
  BY DEF Archive
<1>3. a.gateways = b.gateways
  BY DEF Archive
<1>4. a.orders = b.orders
  BY DEF Archive
<1> QED BY <1>1, <1>2, <1>3, <1>4 DEF Archive

\* A row an archive brought already is left as it is.
LEMMA RestoredTwice ==
  ASSUME NEW t, NEW a, NEW g \in Gateways, NEW row \in GatewayRow, row # Nothing,
         t[g] = row, a.gateways[g] = row
  PROVE  RestoredGateways(t, a)[g] = row
<1>1. PICK p, l : /\ p = IF row.private = Nothing THEN row.private ELSE row.private
                  /\ l = row.local
  OBVIOUS
<1>2. RestoredGateways(t, a)[g] = [row EXCEPT !.private = p, !.local = l]
  BY <1>1 DEF RestoredGateways
<1>3. p = row.private /\ l = row.local
  BY <1>1
<1>4. [row EXCEPT !.private = p, !.local = l] = row
  BY <1>3 DEF GatewayRow
<1> QED BY <1>2, <1>4

\* An archive with secrets, read twice by a blank gateway.
LEMMA ArchiveRestores ==
  ASSUME NEW db \in Database, NEW made, made = Archived(db, TRUE),
         NEW once, once = Restored(Empty, made, Sections)
  PROVE  /\ [Archived(once, TRUE) EXCEPT !.orders = made.orders] = made
         /\ Archived(Restored(once, made, Sections), TRUE) = made
<1>1. made \in Archive
  BY ArchivedIs
<1>2. once \in Database
  BY <1>1, EmptyIs, RestoredIs
<1>3. ~ Named(Empty)
  BY DEF Named, Empty
<1>e. /\ \A k \in Keys : Empty.settings[k] = Nothing
      /\ \A u \in Users : Empty.accounts[u] = Nothing
      /\ \A g \in Gateways : Empty.gateways[g] = Nothing
      /\ \A s \in Signals : Empty.orders[<<"local", s>>] = Nothing
      /\ Empty.rules = {}
  BY DEF Empty, Names
<1>4. /\ once.settings = RestoredSettings(Empty.settings, made)
      /\ once.accounts = RestoredAccounts(Empty.accounts, made)
      /\ once.gateways = RestoredGateways(Empty.gateways, made)
      /\ once.rules = RestoredRules(Empty.rules, made)
      /\ once.orders = Empty.orders
  BY <1>1, <1>3, EmptyIs, RestoredAll
<1>5. ASSUME NEW k \in Keys PROVE once.settings[k] = made.settings[k]
  BY <1>4, <1>e DEF RestoredSettings
<1>6. ASSUME NEW u \in Users
      PROVE  once.accounts[u] = IF made.passwords[u] = Nothing THEN Nothing
                                ELSE [password |-> made.passwords[u], totp |-> FALSE]
  BY <1>4, <1>e DEF RestoredAccounts
<1>7. ASSUME NEW g \in Gateways PROVE once.gateways[g] = made.gateways[g]
  <2>1. PICK t : t = Empty.gateways
    OBVIOUS
  <2>2. once.gateways[g] = RestoredGateways(t, made)[g] /\ t[g] = Nothing
    BY <1>4, <1>e, <2>1
  <2>3. RestoredGateways(t, made)[g] =
          IF made.gateways[g] = Nothing THEN t[g] ELSE made.gateways[g]
    BY <2>2 DEF RestoredGateways
  <2> QED BY <2>2, <2>3
<1>8. once.rules = made.rules
  BY <1>4, <1>e DEF RestoredRules
<1>9. ASSUME NEW s \in Signals PROVE once.orders[<<"local", s>>] = Nothing
  BY <1>4, <1>e
\* What is archived again of accounts, and of gateways that an archive brought.
<1>10. ASSUME NEW u \in Users, NEW x, x = once.accounts[u]
       PROVE  (IF x = Nothing THEN Nothing ELSE x.password) = made.passwords[u]
  <2>1. CASE made.passwords[u] = Nothing
    BY <1>6, <1>10, <2>1
  <2>2. CASE made.passwords[u] # Nothing
    <3>1. x = [password |-> made.passwords[u], totp |-> FALSE]
      BY <1>6, <1>10, <2>2
    <3>2. made.passwords[u] \in Values
      BY <1>1, <2>2 DEF Archive
    <3>3. x \in AccountRow
      BY <3>1, <3>2 DEF AccountRow
    <3> QED BY <3>1, <3>3, NothingAssumption
  <2> QED BY <2>1, <2>2
<1>11. ASSUME NEW g \in Gateways, made.gateways[g] # Nothing
       PROVE  Unpacked(made.gateways[g]) = made.gateways[g]
  <2>1. PICK row : row = db.gateways[g]
    OBVIOUS
  <2>2. row # Nothing /\ made.gateways[g] = Unpacked(row)
    BY <1>11, <2>1, ArchivedTables
  <2>3. row \in GatewayRow
    BY <2>1, <2>2 DEF Database
  <2> QED BY <2>2, <2>3, UnpackedIs
<1>12. [Archived(once, TRUE) EXCEPT !.orders = made.orders] = made
  <2>1. PICK redone \in Archive : redone = Archived(once, TRUE)
    BY <1>2, ArchivedIs
  <2>2. /\ \A k \in Keys : redone.settings[k] = made.settings[k]
        /\ \A u \in Users : redone.passwords[u] = made.passwords[u]
        /\ \A g \in Gateways : redone.gateways[g] = made.gateways[g]
        /\ redone.rules = made.rules
    <3>1. \A k \in Keys : redone.settings[k] = made.settings[k]
      BY <1>2, <1>5, <2>1, ArchivedTables
    <3>2. ASSUME NEW u \in Users PROVE redone.passwords[u] = made.passwords[u]
      <4>1. PICK x : x = once.accounts[u]
        OBVIOUS
      <4>2. redone.passwords[u] = IF x = Nothing THEN Nothing ELSE x.password
        BY <1>2, <2>1, <4>1, ArchivedTables
      <4> QED BY <1>10, <4>1, <4>2
    <3>3. ASSUME NEW g \in Gateways PROVE redone.gateways[g] = made.gateways[g]
      <4>1. redone.gateways[g] = IF once.gateways[g] = Nothing THEN Nothing
                                ELSE Unpacked(once.gateways[g])
        BY <1>2, <2>1, ArchivedTables
      <4> QED BY <1>7, <1>11, <4>1
    <3>4. redone.rules = made.rules
      BY <1>2, <1>8, <2>1, ArchivedTables
    <3> QED BY <3>1, <3>2, <3>3, <3>4
  <2>3. PICK c : c = [redone EXCEPT !.orders = made.orders]
    OBVIOUS
  <2>4. /\ c \in Archive /\ c.settings = redone.settings
        /\ c.passwords = redone.passwords /\ c.gateways = redone.gateways
        /\ c.rules = redone.rules /\ c.orders = made.orders
    BY <1>1, <2>3 DEF Archive
  <2>5. c = made
    <3>1. /\ \A k \in Keys : c.settings[k] = made.settings[k]
          /\ \A u \in Users : c.passwords[u] = made.passwords[u]
          /\ \A g \in Gateways : c.gateways[g] = made.gateways[g]
          /\ c.rules = made.rules
          /\ \A s \in Signals : c.orders[s] = made.orders[s]
      BY <2>2, <2>4
    <3> QED BY <1>1, <2>4, <3>1, ArchivesEqual
  <2> QED BY <2>1, <2>3, <2>5
<1>13. Archived(Restored(once, made, Sections), TRUE) = made
  <2>1. PICK twice \in Database : twice = Restored(once, made, Sections)
    BY <1>1, <1>2, RestoredIs
  <2>2. /\ twice.settings = RestoredSettings(once.settings, made)
        /\ twice.accounts = RestoredAccounts(once.accounts, made)
        /\ twice.gateways = RestoredGateways(once.gateways, made)
        /\ twice.rules = RestoredRules(once.rules, made)
        /\ twice.orders = IF Named(once) THEN RestoredOrders(once.orders, made)
                                         ELSE once.orders
    BY <1>1, <1>2, <2>1, RestoredAll
  <2>3. PICK redone \in Archive : redone = Archived(twice, TRUE)
    BY <2>1, ArchivedIs
  <2>4. ASSUME NEW k \in Keys PROVE redone.settings[k] = made.settings[k]
    <3>1. twice.settings[k] = made.settings[k]
      BY <1>5, <2>2 DEF RestoredSettings
    <3> QED BY <2>1, <2>3, <3>1, ArchivedTables
  <2>5. ASSUME NEW u \in Users PROVE redone.passwords[u] = made.passwords[u]
    <3>1. twice.accounts[u] = once.accounts[u]
      BY <1>6, <2>2 DEF RestoredAccounts
    <3>2. PICK x : x = once.accounts[u]
      OBVIOUS
    <3>3. redone.passwords[u] = IF x = Nothing THEN Nothing ELSE x.password
      <4>1. redone.passwords[u] = IF twice.accounts[u] = Nothing THEN Nothing
                                 ELSE twice.accounts[u].password
        BY <2>1, <2>3, ArchivedTables
      <4> QED BY <3>1, <3>2, <4>1
    <3> QED BY <1>10, <3>2, <3>3
  <2>6. ASSUME NEW g \in Gateways
        PROVE  twice.gateways[g] = made.gateways[g]
    <3>1. CASE made.gateways[g] = Nothing
      BY <1>7, <2>2, <3>1 DEF RestoredGateways
    <3>2. CASE made.gateways[g] # Nothing
      <4>1. PICK row \in GatewayRow : row = made.gateways[g]
        BY <1>1, <3>2 DEF Archive
      <4>2. once.gateways[g] = row /\ row # Nothing
        BY <1>7, <3>2, <4>1
      <4>3. RestoredGateways(once.gateways, made)[g] = row
        BY <4>1, <4>2, RestoredTwice
      <4> QED BY <2>2, <4>1, <4>3
    <3> QED BY <3>1, <3>2
  <2>7. ASSUME NEW g \in Gateways PROVE redone.gateways[g] = made.gateways[g]
    <3>1. redone.gateways[g] = IF twice.gateways[g] = Nothing THEN Nothing
                              ELSE Unpacked(twice.gateways[g])
      BY <2>1, <2>3, ArchivedTables
    <3> QED BY <1>11, <2>6, <3>1
  <2>8. redone.rules = made.rules
    <3>1. twice.rules = made.rules
      BY <1>8, <2>2 DEF RestoredRules
    <3> QED BY <2>1, <2>3, <3>1, ArchivedTables
  <2>9. Named(once) <=> Named(db)
    <3>1. ASSUME NEW g \in Gateways
          PROVE  (once.gateways[g] # Nothing /\ once.gateways[g].local)
                   <=> (db.gateways[g] # Nothing /\ db.gateways[g].local)
      <4>1. PICK row : row = db.gateways[g]
        OBVIOUS
      <4>2. CASE row = Nothing
        <5>1. made.gateways[g] = Nothing
          BY <4>1, <4>2, ArchivedTables
        <5>2. once.gateways[g] = Nothing /\ db.gateways[g] = Nothing
          BY <1>7, <4>1, <4>2, <5>1
        <5> QED BY <5>2
      <4>3. CASE row # Nothing
        <5>0. made.gateways[g] = Unpacked(row)
          BY <4>1, <4>3, ArchivedTables
        <5>1. row \in GatewayRow /\ once.gateways[g] = Unpacked(row)
          BY <1>7, <4>1, <4>3, <5>0 DEF Database
        <5>2. PICK new \in GatewayRow : new = Unpacked(row) /\ new.local = row.local
          BY <5>1, UnpackedIs
        <5>3. new # Nothing /\ row # Nothing
          BY <5>1, NothingAssumption
        <5>4. once.gateways[g] = new /\ db.gateways[g] = row
          BY <4>1, <5>1, <5>2
        <5>5. row.local \in BOOLEAN
          BY <5>1 DEF GatewayRow
        <5>6. CASE row.local = TRUE
          BY <5>2, <5>3, <5>4, <5>6
        <5>7. CASE row.local = FALSE
          BY <5>2, <5>3, <5>4, <5>7
        <5> QED BY <5>5, <5>6, <5>7
      <4> QED BY <4>2, <4>3
    <3> QED BY <3>1 DEF Named
  <2>10. Named(twice) <=> Named(once)
    BY <1>7, <2>6 DEF Named
  <2>11. ASSUME NEW s \in Signals PROVE redone.orders[s] = made.orders[s]
    <3>1. redone.orders[s] = IF Named(twice) THEN twice.orders[<<"local", s>>]
                                             ELSE Nothing
      BY <2>1, <2>3, ArchivedTables
    <3>2. CASE Named(db)
      <4>1. twice.orders = RestoredOrders(once.orders, made)
        BY <2>2, <2>9, <3>2
      <4>2. twice.orders[<<"local", s>>] = made.orders[s]
        BY <1>9, <4>1 DEF RestoredOrders, Names
      <4> QED BY <2>9, <2>10, <3>1, <3>2, <4>2
    <3>3. CASE ~ Named(db)
      BY <2>9, <2>10, <3>1, <3>3, ArchivedTables
    <3> QED BY <3>2, <3>3
  <2> QED BY <1>1, <2>1, <2>3, <2>4, <2>5, <2>7, <2>8, <2>11, ArchivesEqual
<1> QED BY <1>12, <1>13

\* Moving house: whatever a Postgres holds, db.export and db.import carry it over
\* but for rules, auto_apply flags and revocations; whatever a SQLite file holds, an
\* archive with secrets gives a blank gateway, read twice.
THEOREM BackupsRestore == ReplicasSpec => []BackupRestores
<1>1. ReplicasTypeOK => BackupRestores
  <2> SUFFICES ASSUME ReplicasTypeOK PROVE BackupRestores
    OBVIOUS
  <2>1. lite \in Database /\ pg \in Database
    BY DEF ReplicasTypeOK, DatabasesOK
  <2> QED BY <2>1, MovedHouse, ArchiveRestores DEF BackupRestores
<1> QED BY <1>1, ReplicasTypeCorrect, PTL

-----------------------------------------------------------------------------
(*****************************************************************************)
(* Replicas: the registry and its rules                                      *)
(*****************************************************************************)

Adds(op, g) == op.kind = "gw_registry_add" /\ op.key = g
Deletes(op, g) == op.kind = "gw_registry_delete" /\ op.key = g

\* Only its registration brings a gateway into a registry, and only its deletion
\* takes it out.
LEMMA ArmOfGateway ==
  ASSUME NEW t \in Registry_, NEW op \in Operations, op.kind \in MeshOps,
         op.kind # "gw_distribution_replace", NEW g \in Gateways
  PROVE  /\ Adds(op, g) => LiteGateway(t, op)[g] # Nothing /\ PgGateway(t, op)[g] # Nothing
         /\ Deletes(op, g) =>
              LiteGateway(t, op)[g] = Nothing /\ PgGateway(t, op)[g] = Nothing
         /\ ~ Adds(op, g) /\ ~ Deletes(op, g) =>
              /\ LiteGateway(t, op)[g] # Nothing <=> t[g] # Nothing
              /\ PgGateway(t, op)[g] # Nothing <=> t[g] # Nothing
<1>0. op.key \in Gateways /\ DOMAIN t = Gateways
  BY MeshOpIs DEF Registry_
<1>1. CASE op.key # g
  BY <1>0, <1>1 DEF LiteGateway, PgGateway, Adds, Deletes
<1>2. CASE op.key = g /\ op.kind = "gw_registry_add"
  <2>1. Registered(op) \in GatewayRow
    BY <1>2, MeshOpIs
  <2>2. LiteGateway(t, op)[g] = Registered(op)
    BY <1>0, <1>2 DEF LiteGateway
  <2>3. PgGateway(t, op)[g] \in GatewayRow
    <3>1. CASE t[g] = Nothing
      BY <1>0, <1>2, <2>1, <3>1 DEF PgGateway
    <3>2. CASE t[g] # Nothing
      <4>1. PICK kept, f : /\ kept = IF op.private = Nothing THEN t[g].private
                                                            ELSE op.private
                           /\ f = t[g].auto_apply
        OBVIOUS
      <4>2. t[g] \in GatewayRow
        BY <3>2 DEF Registry_
      <4>3. kept \in KeyPairs \cup {Nothing} /\ f \in BOOLEAN
        BY <2>1, <4>1, <4>2 DEF GatewayRow, Registered
      <4>4. PgGateway(t, op)[g] = [Registered(op) EXCEPT !.private = kept, !.auto_apply = f]
        BY <1>0, <1>2, <3>2, <4>1 DEF PgGateway, Registered
      <4> QED BY <2>1, <4>3, <4>4 DEF GatewayRow
    <3> QED BY <3>1, <3>2
  <2> QED BY <1>2, <2>1, <2>2, <2>3, NothingAssumption DEF Adds, Deletes
<1>3. CASE op.key = g /\ op.kind = "gw_registry_delete"
  BY <1>0, <1>3 DEF LiteGateway, PgGateway, Adds, Deletes
<1>4. CASE op.key = g /\ op.kind = "gw_registry_update"
  <2>1. op.patch \in GatewayPatch /\ t[g] \in GatewayRow \cup {Nothing}
    BY <1>4, MeshOpIs DEF Registry_
  <2>2. Patched(t[g], op.patch) # Nothing <=> t[g] # Nothing
    BY <2>1, PatchedGateway, NothingAssumption DEF Patched
  <2>3. LiteGateway(t, op)[g] = Patched(t[g], op.patch)
        /\ PgGateway(t, op)[g] = Patched(t[g], op.patch)
    BY <1>0, <1>4 DEF LiteGateway, PgGateway
  <2> QED BY <1>4, <2>2, <2>3 DEF Adds, Deletes
<1> QED BY <1>1, <1>2, <1>3, <1>4 DEF MeshOps

\* The tables an operation leaves in a database whose arms are these.
TablesAfter(x, db, op, setting, account, session, ban, gateway, rules) ==
  /\ x.settings = IF op.kind \in SettingOps THEN setting ELSE db.settings
  /\ x.accounts = IF op.kind \in AccountOps THEN account ELSE db.accounts
  /\ x.sessions = IF op.kind \in SessionOps THEN session ELSE db.sessions
  /\ x.bans = IF op.kind \in BanOps THEN ban ELSE db.bans
  /\ x.journal = IF op.kind \in JournalOps THEN db.journal + 1 ELSE db.journal
  /\ x.gateways = IF op.kind \in MeshOps \ {"gw_distribution_replace"} THEN gateway
                                                              ELSE db.gateways
  /\ x.rules = IF op.kind \in MeshOps THEN rules ELSE db.rules

LEMMA TablesAfterArms ==
  ASSUME NEW db \in Database, NEW op \in Operations
  PROVE  /\ TablesAfter(LiteApply(db, op), db, op, LiteSetting(db.settings, op),
                        LiteAccount(db.accounts, op), LiteSession(db.sessions, op),
                        LiteBan(db.bans, op), LiteGateway(db.gateways, op),
                        LiteRules(db.rules, op))
         /\ TablesAfter(PgDispatch(db, op), db, op, PgSetting(db.settings, op),
                        PgAccount(db.accounts, op), PgSession(db.sessions, op),
                        PgBan(db.bans, op), PgGateway(db.gateways, op),
                        PgRules(db.rules, op))
<1>0. DOMAIN db = {"settings", "accounts", "sessions", "bans", "journal", "gateways",
                   "rules", "orders"}
  BY DEF Database
<1>1. CASE op.kind \in SettingOps
  <2>1. /\ op.kind \notin AccountOps /\ op.kind \notin SessionOps
        /\ op.kind \notin BanOps /\ op.kind \notin JournalOps /\ op.kind \notin MeshOps
    BY <1>1 DEF SettingOps, AccountOps, SessionOps, BanOps, JournalOps, MeshOps
  <2>2. PICK x, y : /\ x = LiteSetting(db.settings, op) /\ y = PgSetting(db.settings, op)
    OBVIOUS
  <2>3. /\ LiteApply(db, op) = [db EXCEPT !.settings = x]
        /\ PgDispatch(db, op) = [db EXCEPT !.settings = y]
    BY <1>1, <2>2, ArmOf
  <2> QED BY <1>1, <1>0, <2>1, <2>2, <2>3 DEF TablesAfter
<1>2. CASE op.kind \in AccountOps
  <2>1. /\ op.kind \notin SettingOps /\ op.kind \notin SessionOps
        /\ op.kind \notin BanOps /\ op.kind \notin JournalOps /\ op.kind \notin MeshOps
    BY <1>2 DEF SettingOps, AccountOps, SessionOps, BanOps, JournalOps, MeshOps
  <2>2. PICK x, y : /\ x = LiteAccount(db.accounts, op) /\ y = PgAccount(db.accounts, op)
    OBVIOUS
  <2>3. /\ LiteApply(db, op) = [db EXCEPT !.accounts = x]
        /\ PgDispatch(db, op) = [db EXCEPT !.accounts = y]
    BY <1>2, <2>2, ArmOf
  <2> QED BY <1>2, <1>0, <2>1, <2>2, <2>3 DEF TablesAfter
<1>3. CASE op.kind \in SessionOps
  <2>1. /\ op.kind \notin SettingOps /\ op.kind \notin AccountOps
        /\ op.kind \notin BanOps /\ op.kind \notin JournalOps /\ op.kind \notin MeshOps
    BY <1>3 DEF SettingOps, AccountOps, SessionOps, BanOps, JournalOps, MeshOps
  <2>2. PICK x, y : /\ x = LiteSession(db.sessions, op) /\ y = PgSession(db.sessions, op)
    OBVIOUS
  <2>3. /\ LiteApply(db, op) = [db EXCEPT !.sessions = x]
        /\ PgDispatch(db, op) = [db EXCEPT !.sessions = y]
    BY <1>3, <2>2, ArmOf
  <2> QED BY <1>3, <1>0, <2>1, <2>2, <2>3 DEF TablesAfter
<1>4. CASE op.kind \in BanOps
  <2>1. /\ op.kind \notin SettingOps /\ op.kind \notin AccountOps
        /\ op.kind \notin SessionOps
        /\ op.kind \notin JournalOps /\ op.kind \notin MeshOps
    BY <1>4 DEF SettingOps, AccountOps, SessionOps, BanOps, JournalOps, MeshOps
  <2>2. PICK x, y : /\ x = LiteBan(db.bans, op) /\ y = PgBan(db.bans, op)
    OBVIOUS
  <2>3. /\ LiteApply(db, op) = [db EXCEPT !.bans = x]
        /\ PgDispatch(db, op) = [db EXCEPT !.bans = y]
    BY <1>4, <2>2, ArmOf
  <2> QED BY <1>4, <1>0, <2>1, <2>2, <2>3 DEF TablesAfter
<1>5. CASE op.kind \in JournalOps
  <2>1. /\ op.kind \notin SettingOps /\ op.kind \notin AccountOps
        /\ op.kind \notin SessionOps
        /\ op.kind \notin BanOps /\ op.kind \notin MeshOps
    BY <1>5 DEF SettingOps, AccountOps, SessionOps, BanOps, JournalOps, MeshOps
  <2>2. PICK x : x = db.journal + 1
    OBVIOUS
  <2>3. /\ LiteApply(db, op) = [db EXCEPT !.journal = x]
        /\ PgDispatch(db, op) = [db EXCEPT !.journal = x]
    BY <1>5, <2>2, ArmOf
  <2> QED BY <1>5, <1>0, <2>1, <2>2, <2>3 DEF TablesAfter
<1>6. CASE op.kind \in MeshOps
  <2>1. /\ op.kind \notin SettingOps /\ op.kind \notin AccountOps
        /\ op.kind \notin SessionOps
        /\ op.kind \notin BanOps /\ op.kind \notin JournalOps
    BY <1>6 DEF SettingOps, AccountOps, SessionOps, BanOps, JournalOps, MeshOps
  <2>2. PICK r, q, x, y :
          /\ r = LiteGateway(db.gateways, op) /\ q = PgGateway(db.gateways, op)
          /\ x = LiteRules(db.rules, op) /\ y = PgRules(db.rules, op)
    OBVIOUS
  <2>3. CASE op.kind = "gw_distribution_replace"
    <3>1. /\ LiteApply(db, op) = [db EXCEPT !.rules = x]
          /\ PgDispatch(db, op) = [db EXCEPT !.rules = y]
      BY <2>2, <2>3, ArmOf
    <3> QED BY <1>6, <1>0, <2>1, <2>2, <2>3, <3>1 DEF TablesAfter
  <2>4. CASE op.kind # "gw_distribution_replace"
    <3>1. /\ LiteApply(db, op) = [db EXCEPT !.gateways = r, !.rules = x]
          /\ PgDispatch(db, op) = [db EXCEPT !.gateways = q, !.rules = y]
      BY <1>6, <2>2, <2>4, ArmOf
    <3> QED BY <1>6, <1>0, <2>1, <2>2, <2>4, <3>1 DEF TablesAfter
  <2> QED BY <2>3, <2>4
<1> QED BY <1>1, <1>2, <1>3, <1>4, <1>5, <1>6, KindIs

\* x holds of the registry and of the rules what the operation leaves of db's.
RegistryAfter(x, db, op) ==
  /\ \A g \in Gateways :
       /\ Adds(op, g) => x.gateways[g] # Nothing
       /\ Deletes(op, g) => x.gateways[g] = Nothing
       /\ ~ Adds(op, g) /\ ~ Deletes(op, g) =>
            (x.gateways[g] # Nothing <=> db.gateways[g] # Nothing)
  /\ x.rules = CASE op.kind = "gw_distribution_replace" -> op.rules
                 [] op.kind = "gw_registry_delete"      -> Without(db.rules, op.key)
                 [] OTHER                               -> db.rules

LEMMA ArmsOfRegistry ==
  ASSUME NEW db \in Database, NEW op \in Operations
  PROVE  /\ RegistryAfter(LiteApply(db, op), db, op)
         /\ RegistryAfter(PgDispatch(db, op), db, op)
<1>0. PICK r, q, x, y :
        /\ r = LiteGateway(db.gateways, op) /\ q = PgGateway(db.gateways, op)
        /\ x = LiteRules(db.rules, op) /\ y = PgRules(db.rules, op)
  OBVIOUS
<1>a. /\ LiteApply(db, op).gateways =
           IF op.kind \in MeshOps \ {"gw_distribution_replace"} THEN r ELSE db.gateways
      /\ PgDispatch(db, op).gateways =
           IF op.kind \in MeshOps \ {"gw_distribution_replace"} THEN q ELSE db.gateways
      /\ LiteApply(db, op).rules = IF op.kind \in MeshOps THEN x ELSE db.rules
      /\ PgDispatch(db, op).rules = IF op.kind \in MeshOps THEN y ELSE db.rules
  BY <1>0, TablesAfterArms DEF TablesAfter
<1>1. CASE op.kind \in MeshOps \ {"gw_distribution_replace"}
  <2>1. ASSUME NEW g \in Gateways
        PROVE  /\ Adds(op, g) => r[g] # Nothing /\ q[g] # Nothing
               /\ Deletes(op, g) => r[g] = Nothing /\ q[g] = Nothing
               /\ ~ Adds(op, g) /\ ~ Deletes(op, g) =>
                    /\ r[g] # Nothing <=> db.gateways[g] # Nothing
                    /\ q[g] # Nothing <=> db.gateways[g] # Nothing
    BY <1>0, <1>1, ArmOfGateway, DatabaseIs
  <2>2. x = y /\ x = CASE op.kind = "gw_registry_delete" -> Without(db.rules, op.key)
                       [] OTHER -> db.rules
    BY <1>0, <1>1 DEF LiteRules, PgRules
  <2> QED BY <1>a, <1>1, <2>1, <2>2 DEF RegistryAfter
<1>2. CASE op.kind = "gw_distribution_replace"
  <2>1. x = op.rules /\ y = op.rules /\ op.kind \in MeshOps
    BY <1>0, <1>2 DEF LiteRules, PgRules, MeshOps
  <2> QED BY <1>a, <1>2, <2>1 DEF RegistryAfter, Adds, Deletes
<1>3. CASE op.kind \notin MeshOps
  BY <1>a, <1>3 DEF RegistryAfter, Adds, Deletes, MeshOps
<1> QED BY <1>1, <1>2, <1>3

\* x holds what the first of two statements leaves of db.
HalfOf(x, db, op) ==
  /\ x.settings = db.settings /\ x.accounts = db.accounts
  /\ x.sessions = db.sessions /\ x.bans = db.bans /\ x.journal = db.journal
  /\ \A g \in Gateways :
       x.gateways[g] = IF Deletes(op, g) THEN Nothing ELSE db.gateways[g]
  /\ x.rules = IF op.kind = "gw_distribution_replace" THEN {} ELSE db.rules

LEMMA HalvesAre ==
  ASSUME NEW db \in Database, NEW op \in Operations, op.kind \in TwoStatements
  PROVE  HalfOf(LiteApplyHalf(db, op), db, op) /\ HalfOf(PgBegun(db, op), db, op)
<1>1. CASE op.kind = "gw_registry_delete"
  <2>1. PICK r, q : r = LiteGateway(db.gateways, op) /\ q = PgGateway(db.gateways, op)
    OBVIOUS
  <2>2. ASSUME NEW g \in Gateways
        PROVE  /\ r[g] = IF Deletes(op, g) THEN Nothing ELSE db.gateways[g]
               /\ q[g] = IF Deletes(op, g) THEN Nothing ELSE db.gateways[g]
    BY <1>1, <2>1 DEF LiteGateway, PgGateway, Deletes, Database
  <2>3. /\ LiteApplyHalf(db, op) = [db EXCEPT !.gateways = r]
        /\ PgBegun(db, op) = [db EXCEPT !.gateways = q]
    BY <1>1, <2>1 DEF LiteApplyHalf, PgBegun
  <2>4. PICK x, y : x = [db EXCEPT !.gateways = r] /\ y = [db EXCEPT !.gateways = q]
    OBVIOUS
  <2>5. \A z \in {x, y} :
          /\ z.settings = db.settings /\ z.accounts = db.accounts
          /\ z.sessions = db.sessions /\ z.bans = db.bans /\ z.journal = db.journal
          /\ z.rules = db.rules
    BY <2>4 DEF Database
  <2>6. x.gateways = r /\ y.gateways = q
    BY <2>4 DEF Database
  <2> QED BY <1>1, <2>2, <2>3, <2>4, <2>5, <2>6 DEF HalfOf
<1>2. CASE op.kind = "gw_distribution_replace"
  <2>1. PICK x : x = [db EXCEPT !.rules = {}]
    OBVIOUS
  <2>2. LiteApplyHalf(db, op) = x /\ PgBegun(db, op) = x
    BY <1>2, <2>1 DEF LiteApplyHalf, PgBegun
  <2>3. /\ x.settings = db.settings /\ x.accounts = db.accounts
        /\ x.sessions = db.sessions /\ x.bans = db.bans /\ x.journal = db.journal
        /\ x.gateways = db.gateways /\ x.rules = {}
    BY <2>1 DEF Database
  <2> QED BY <1>2, <2>2, <2>3 DEF HalfOf, Deletes
<1> QED BY <1>1, <1>2 DEF TwoStatements

\* What became of an operation, for the registry.
LEMMA OutcomeOfRegistry ==
  ASSUME NEW db \in Database, NEW e \in Queued, NEW how \in Outcomes(e),
         NEW x, x = Outcome(db, e.op, how)
  PROVE  /\ x \in Database
         /\ how = "done" => RegistryAfter(x, db, e.op)
         /\ how = "failed" => x = db
         /\ how = "half" =>
              /\ x.rules \subseteq db.rules
              /\ \A g \in Gateways :
                   ~ Deletes(e.op, g) =>
                     (x.gateways[g] # Nothing <=> db.gateways[g] # Nothing)
<1>0. e.op \in Operations /\ x \in Database
  BY OutcomeIs DEF Queued
<1>1. CASE how = "done"
  BY <1>0, <1>1, ArmsOfRegistry DEF Outcome, Done
<1>2. CASE how = "failed"
  BY <1>0, <1>2 DEF Outcome
<1>3. CASE how = "half"
  <2>1. /\ e.op.kind \in TwoStatements
        /\ x = LiteApplyHalf(db, e.op) \/ x = PgBegun(db, e.op)
    BY <1>3 DEF Outcome, Outcomes, Begun
  <2>2. HalfOf(x, db, e.op)
    BY <1>0, <2>1, HalvesAre
  <2>3. x.rules \subseteq db.rules
    BY <2>2 DEF HalfOf
  <2> QED BY <1>0, <1>3, <2>2, <2>3 DEF HalfOf
<1> QED BY <1>1, <1>2, <1>3 DEF Outcomes

\* A gateway survives a batch that does not delete it.
LEMMA GatewayStays ==
  ASSUME NEW db \in Database, NEW batch \in Seq(Queued), NEW how,
         \A i \in 1 .. Len(batch) : how[i] \in Outcomes(batch[i]),
         NEW g \in Gateways, db.gateways[g] # Nothing,
         \A i \in 1 .. Len(batch) : ~ Deletes(batch[i].op, g)
  PROVE  Written(db, batch, how).gateways[g] # Nothing
<1> DEFINE D == {x \in Database : x.gateways[g] # Nothing}
           good == [n \in 0 .. Len(batch) |-> D]
<1>1. db \in good[0]
  OBVIOUS
<1>2. \A n \in 1 .. Len(batch) : \A x \in good[n - 1] :
        Outcome(x, batch[n].op, how[n]) \in good[n]
  <2> SUFFICES ASSUME NEW n \in 1 .. Len(batch), NEW x \in D
               PROVE  Outcome(x, batch[n].op, how[n]) \in D
    OBVIOUS
  <2>1. batch[n] \in Queued /\ how[n] \in Outcomes(batch[n]) /\ ~ Deletes(batch[n].op, g)
    OBVIOUS
  <2>2. PICK y : y = Outcome(x, batch[n].op, how[n])
    OBVIOUS
  <2>3. /\ y \in Database
        /\ how[n] = "done" => RegistryAfter(y, x, batch[n].op)
        /\ how[n] = "failed" => y = x
        /\ how[n] = "half" => (y.gateways[g] # Nothing <=> x.gateways[g] # Nothing)
    BY <2>1, <2>2, OutcomeOfRegistry
  <2>4. y.gateways[g] # Nothing
    BY <2>1, <2>3 DEF RegistryAfter, Outcomes
  <2> QED BY <2>2, <2>3, <2>4
<1> HIDE DEF good
<1>3. Written(db, batch, how) \in good[Len(batch)]
  BY <1>1, <1>2, BatchKeeps
<1> QED BY <1>3 DEF good

\* Rules name gateways of the registry or of `known`; so will those that are still to
\* be written, from the operation after the nth.
RulesKnown(db, known) ==
  \A r \in db.rules : \A g \in {r[1], r[2]} : db.gateways[g] # Nothing \/ g \in known
ReplacesKnown(db, batch, n, known) ==
  \A i \in n + 1 .. Len(batch) :
    batch[i].op.kind = "gw_distribution_replace" =>
      \A r \in batch[i].op.rules : \A g \in {r[1], r[2]} :
        \/ g \in known
        \/ /\ db.gateways[g] # Nothing
           /\ \A j \in n + 1 .. i - 1 : ~ Deletes(batch[j].op, g)

LEMMA RulesStep ==
  ASSUME NEW db \in Database, NEW batch \in Seq(Queued), NEW n \in 1 .. Len(batch),
         NEW how \in Outcomes(batch[n]), NEW known,
         \A g \in Gateways : how = "half" /\ Deletes(batch[n].op, g) => g \in known,
         RulesKnown(db, known), ReplacesKnown(db, batch, n - 1, known),
         NEW x, x = Outcome(db, batch[n].op, how)
  PROVE  x \in Database /\ RulesKnown(x, known) /\ ReplacesKnown(x, batch, n, known)
<1> DEFINE op == batch[n].op
<1>a. batch[n] \in Queued /\ Len(batch) \in Nat /\ n \in Nat
  OBVIOUS
<1>0. batch[n] \in Queued /\ op \in Operations /\ Len(batch) \in Nat /\ n \in Nat
  BY <1>a DEF Queued
<1>1. /\ x \in Database
      /\ how = "done" => RegistryAfter(x, db, op)
      /\ how = "failed" => x = db
      /\ how = "half" =>
           /\ x.rules \subseteq db.rules
           /\ \A g \in Gateways :
                ~ Deletes(op, g) => (x.gateways[g] # Nothing <=> db.gateways[g] # Nothing)
  BY <1>0, OutcomeOfRegistry
<1>2. \A r \in Rules : r[1] \in Gateways /\ r[2] \in Gateways
  BY DEF Rules
<1>3. how = "done" \/ how = "failed" \/ how = "half"
  BY DEF Outcomes
\* A gateway that is not known and not deleted now is still there.
<1>4. ASSUME NEW g \in Gateways, g \notin known, db.gateways[g] # Nothing,
             ~ (how = "done" /\ Deletes(op, g))
      PROVE  x.gateways[g] # Nothing
  BY <1>1, <1>3, <1>4 DEF RegistryAfter
<1>5. RulesKnown(x, known)
  <2> SUFFICES ASSUME NEW r \in x.rules, NEW g \in {r[1], r[2]}, g \notin known
               PROVE  x.gateways[g] # Nothing
    BY DEF RulesKnown
  <2>1. r \in Rules /\ g \in Gateways
    BY <1>1, <1>2 DEF Database
  <2>2. CASE r \in db.rules /\ ~ (how = "done" /\ Deletes(op, g))
    BY <1>4, <2>1, <2>2 DEF RulesKnown
  <2>3. CASE r \notin db.rules
    <3>1. how = "done" /\ op.kind = "gw_distribution_replace" /\ r \in op.rules
      BY <1>1, <1>3, <2>3 DEF RegistryAfter, Without
    <3>2. db.gateways[g] # Nothing
      BY <1>0, <3>1 DEF ReplacesKnown
    <3>3. ~ Deletes(op, g)
      BY <3>1 DEF Deletes
    <3> QED BY <1>4, <2>1, <3>2, <3>3
  <2>4. CASE how = "done" /\ Deletes(op, g)
    <3>1. x.rules = Without(db.rules, g)
      BY <1>1, <2>4 DEF RegistryAfter, Deletes
    <3> QED BY <3>1 DEF Without
  <2> QED BY <2>2, <2>3, <2>4
<1>6. ReplacesKnown(x, batch, n, known)
  <2> SUFFICES ASSUME NEW i \in n + 1 .. Len(batch),
                      batch[i].op.kind = "gw_distribution_replace",
                      NEW r \in batch[i].op.rules, NEW g \in {r[1], r[2]}, g \notin known
               PROVE  /\ x.gateways[g] # Nothing
                      /\ \A j \in n + 1 .. i - 1 : ~ Deletes(batch[j].op, g)
    BY DEF ReplacesKnown
  <2>1. g \in Gateways
    <3>0. i \in 1 .. Len(batch) /\ batch[i] \in Queued
      BY <1>0
    <3>1. batch[i].op \in Operations
      BY <3>0 DEF Queued
    <3>2. r \in Rules
      BY <3>1, MeshOpIs DEF MeshOps
    <3> QED BY <1>2, <3>2
  <2>2. i \in (n - 1) + 1 .. Len(batch)
    BY <1>0
  <2>3. /\ db.gateways[g] # Nothing
        /\ \A j \in (n - 1) + 1 .. i - 1 : ~ Deletes(batch[j].op, g)
    BY <2>2 DEF ReplacesKnown
  <2>4. ~ Deletes(op, g) /\ \A j \in n + 1 .. i - 1 : ~ Deletes(batch[j].op, g)
    BY <1>0, <2>3
  <2> QED BY <1>4, <2>1, <2>3, <2>4
<1> QED BY <1>1, <1>5, <1>6

\* A batch leaves no rule dangling but those that were expected.
LEMMA RulesOfBatch ==
  ASSUME NEW db \in Database, NEW batch \in Seq(Queued), NEW how,
         \A i \in 1 .. Len(batch) : how[i] \in Outcomes(batch[i]),
         NEW known,
         \A i \in 1 .. Len(batch), g \in Gateways :
           how[i] = "half" /\ Deletes(batch[i].op, g) => g \in known,
         RulesKnown(db, known), ReplacesKnown(db, batch, 0, known)
  PROVE  RulesKnown(Written(db, batch, how), known)
<1> DEFINE D(n) == {x \in Database :
                      RulesKnown(x, known) /\ ReplacesKnown(x, batch, n, known)}
           good == [n \in 0 .. Len(batch) |-> D(n)]
<1>1. db \in good[0]
  OBVIOUS
<1>2. \A n \in 1 .. Len(batch) : \A x \in good[n - 1] :
        Outcome(x, batch[n].op, how[n]) \in good[n]
  <2> SUFFICES ASSUME NEW n \in 1 .. Len(batch), NEW x \in D(n - 1)
               PROVE  Outcome(x, batch[n].op, how[n]) \in D(n)
    OBVIOUS
  <2>1. PICK y : y = Outcome(x, batch[n].op, how[n])
    OBVIOUS
  <2>2. y \in Database /\ RulesKnown(y, known) /\ ReplacesKnown(y, batch, n, known)
    BY <2>1, RulesStep
  <2> QED BY <2>1, <2>2
<1> HIDE DEF good
<1>3. Written(db, batch, how) \in good[Len(batch)]
  BY <1>1, <1>2, BatchKeeps
<1> QED BY <1>3 DEF good

\* A gateway is registered in SQLite (`there`) if it is in Postgres and no deletion is
\* on its way, and if a registration is on its way and no deletion after it.
RowFollows(there, inPg, tasks, g) ==
  /\ inPg /\ (\A m \in tasks : ~ Deletes(m.op, g)) => there
  /\ \A m \in tasks :
       Adds(m.op, g) /\ (\A d \in tasks : Deletes(d.op, g) => d.at <= m.at) => there

\* Operations are queued, and mirrored, in the order of their requests; what a
\* request notes comes after what it does.
InOrder(batch) ==
  \A i, j \in 1 .. Len(batch) :
    i < j =>
      \/ batch[i].at < batch[j].at
      \/ batch[i].op.kind \notin JournalOps /\ batch[j].op.kind \in JournalOps
Ahead(tasks, batch) == \A m \in tasks, i \in 1 .. Len(batch) : m.at < batch[i].at

\* The tasks of a batch, once n of its operations have been written.
Tasks(tasks, batch, how, n) ==
  tasks \cup {batch[i] : i \in {j \in 1 .. n : how[j] = "done"}}

LEMMA FollowsStep ==
  ASSUME NEW db \in Database, NEW batch \in Seq(Queued), NEW n \in 1 .. Len(batch),
         NEW how, how[n] \in Outcomes(batch[n]), NEW tasks \in SUBSET Queued,
         NEW g \in Gateways, NEW inPg \in BOOLEAN, InOrder(batch), Ahead(tasks, batch),
         how[n] = "half" => ~ Deletes(batch[n].op, g),
         RowFollows(db.gateways[g] # Nothing, inPg, Tasks(tasks, batch, how, n - 1), g),
         NEW x, x = Outcome(db, batch[n].op, how[n])
  PROVE  /\ x \in Database
         /\ RowFollows(x.gateways[g] # Nothing, inPg, Tasks(tasks, batch, how, n), g)
<1> DEFINE op == batch[n].op
           old == Tasks(tasks, batch, how, n - 1)
           new == Tasks(tasks, batch, how, n)
<1>0. batch[n] \in Queued /\ Len(batch) \in Nat /\ n \in Nat
  OBVIOUS
<1>1. /\ x \in Database
      /\ how[n] = "done" => RegistryAfter(x, db, op)
      /\ how[n] = "failed" => x = db
      /\ how[n] = "half" =>
           (~ Deletes(op, g) => (x.gateways[g] # Nothing <=> db.gateways[g] # Nothing))
  BY <1>0, OutcomeOfRegistry
<1>2. how[n] = "done" \/ how[n] = "failed" \/ how[n] = "half"
  BY DEF Outcomes
<1>3. new = IF how[n] = "done" THEN old \cup {batch[n]} ELSE old
  BY <1>0 DEF Tasks
<1>4. \A m \in old : m \in Queued /\ m.at \in Nat
  <2>1. \A i \in 1 .. n - 1 : batch[i] \in Queued
    BY <1>0
  <2>2. \A m \in old : m \in Queued
    BY <2>1 DEF Tasks
  <2> QED BY <2>2 DEF Queued
<1>5. CASE how[n] = "done" /\ Adds(op, g)
  BY <1>1, <1>5 DEF RegistryAfter, RowFollows
<1>6. CASE how[n] = "done" /\ Deletes(op, g)
  <2>1. batch[n] \in new /\ batch[n].at \in Nat
    BY <1>0, <1>3, <1>6 DEF Queued
  <2>2. \A m \in old : m.at < batch[n].at
    <3> SUFFICES ASSUME NEW m \in old PROVE m.at < batch[n].at
      OBVIOUS
    <3>1. CASE m \in tasks
      BY <3>1 DEF Ahead
    <3>2. CASE m \notin tasks
      <4>1. PICK i \in 1 .. n - 1 : m = batch[i]
        BY <3>2 DEF Tasks
      <4>2. batch[n].op.kind \notin JournalOps
        BY <1>6 DEF Deletes, JournalOps
      <4>3. i \in 1 .. Len(batch) /\ i < n
        BY <1>0
      <4> QED BY <4>1, <4>2, <4>3 DEF InOrder
    <3> QED BY <3>1, <3>2
  <2>3. ~ (\A m \in new : ~ Deletes(m.op, g))
    BY <1>6, <2>1
  <2>4. ASSUME NEW m \in new, Adds(m.op, g), \A d \in new : Deletes(d.op, g) => d.at <= m.at
        PROVE  FALSE
    <3>1. m # batch[n]
      BY <1>6, <2>4 DEF Adds, Deletes
    <3>2. m \in old /\ m.at < batch[n].at /\ m.at \in Nat
      BY <1>3, <1>4, <2>2, <3>1
    <3>3. batch[n].at <= m.at
      BY <1>6, <2>1, <2>4
    <3> QED BY <2>1, <3>2, <3>3
  <2> QED BY <1>1, <2>3, <2>4 DEF RowFollows
<1>7. CASE ~ (how[n] = "done" /\ (Adds(op, g) \/ Deletes(op, g)))
  <2>1. x.gateways[g] # Nothing <=> db.gateways[g] # Nothing
    BY <1>1, <1>2, <1>7 DEF RegistryAfter
  <2>2. /\ old \subseteq new
        /\ \A m \in new : Adds(m.op, g) \/ Deletes(m.op, g) => m \in old
    BY <1>3, <1>7
  <2> HIDE DEF old, new
  <2>3. RowFollows(db.gateways[g] # Nothing, inPg, old, g)
    BY DEF old
  <2>4. RowFollows(x.gateways[g] # Nothing, inPg, new, g)
    BY <2>1, <2>2, <2>3 DEF RowFollows
  <2> QED BY <1>1, <2>4 DEF new
<1> QED BY <1>5, <1>6, <1>7

LEMMA FollowsBatch ==
  ASSUME NEW db \in Database, NEW batch \in Seq(Queued), NEW how,
         \A i \in 1 .. Len(batch) : how[i] \in Outcomes(batch[i]),
         NEW tasks \in SUBSET Queued, NEW g \in Gateways, NEW inPg \in BOOLEAN,
         InOrder(batch), Ahead(tasks, batch),
         \A i \in 1 .. Len(batch) : how[i] = "half" => ~ Deletes(batch[i].op, g),
         RowFollows(db.gateways[g] # Nothing, inPg, tasks, g)
  PROVE  RowFollows(Written(db, batch, how).gateways[g] # Nothing, inPg,
                    Tasks(tasks, batch, how, Len(batch)), g)
<1> DEFINE D(n) == {x \in Database :
                      RowFollows(x.gateways[g] # Nothing, inPg,
                                 Tasks(tasks, batch, how, n), g)}
           good == [n \in 0 .. Len(batch) |-> D(n)]
<1>1. db \in good[0]
  <2>1. Tasks(tasks, batch, how, 0) = tasks
    BY DEF Tasks
  <2> QED BY <2>1
<1>2. \A n \in 1 .. Len(batch) : \A x \in good[n - 1] :
        Outcome(x, batch[n].op, how[n]) \in good[n]
  <2> SUFFICES ASSUME NEW n \in 1 .. Len(batch), NEW x \in D(n - 1)
               PROVE  Outcome(x, batch[n].op, how[n]) \in D(n)
    OBVIOUS
  <2>1. PICK y : y = Outcome(x, batch[n].op, how[n])
    OBVIOUS
  <2>2. y \in Database
        /\ RowFollows(y.gateways[g] # Nothing, inPg, Tasks(tasks, batch, how, n), g)
    BY <2>1, FollowsStep
  <2> QED BY <2>1, <2>2
<1> HIDE DEF good
<1>3. Written(db, batch, how) \in good[Len(batch)]
  BY <1>1, <1>2, BatchKeeps
<1> QED BY <1>3 DEF good

\* The strengthening.  The queue, behind the mirrors, is in the order of the requests;
\* SQLite follows what a handler sees of the registry in Postgres; the rules that are
\* queued will name gateways too; and some gateway is not about to be deleted.
OrderOK == InOrder(queue) /\ Ahead(mirrors, queue) /\ (mode # "both" => mirrors = {})
RegistryFollows ==
  mode = "both" =>
    \A g \in Gateways \ skewed :
      RowFollows(lite.gateways[g] # Nothing, pg.gateways[g] # Nothing, mirrors, g)
RulesFollow ==
  /\ RulesKnown(Primary, unchecked \cup skewed)
  /\ ReplacesKnown(Primary, queue, 0, unchecked \cup skewed)
OneStays ==
  mode # "both" /\ ~ rushed =>
    \A i \in 1 .. Len(queue) :
      queue[i].op.kind = "gw_registry_delete" =>
        \E g \in Gateways :
          /\ Primary.gateways[g] # Nothing
          /\ \A j \in 1 .. Len(queue) : ~ Deletes(queue[j].op, g)
RegistryInv == OrderOK /\ RegistryFollows /\ RulesFollow /\ OneStays

\* Two mirrors of one request are of two tables.
OneAtATime(tasks) ==
  \A m, e \in tasks :
    m.at = e.at => m = e \/ (m.op.kind \in JournalOps <=> e.op.kind \notin JournalOps)

\* A mirror that has begun has overtaken none on its rows, and what its first statement
\* did is still there, but for rows set apart by then.
HalfRun(db, op) ==
  /\ op.kind = "gw_registry_delete" =>
       op.key \in skewed \/ db.gateways[op.key] = Nothing
  /\ op.kind = "gw_distribution_replace" => "rules" \in skewed \/ db.rules = {}
MirrorsInv ==
  /\ OneAtATime(mirrors)
  /\ \A m \in begun : Overtaken(m) \subseteq skewed /\ HalfRun(pg, m.op)

\* What a request leaves, but for the queue.
Noted == [kind |-> "gw_audit_add", key |-> "journal"]
Asked(op) ==
  /\ \E ops \in {<<op>>, <<op, Noted>>} : Enqueue(ops)
  /\ UNCHANGED <<lite, skewed, apart>> /\ unchecked \subseteq unchecked'
  /\ op.kind \notin JournalOps
  /\ op.kind \in AccountOps =>
       (op.kind = "user_create" <=> Read.accounts[op.key] = Nothing)
  /\ op.kind = "user_session_create" =>
       pg.sessions[op.key] = Nothing /\ \A e \in Pending : e.key # op.key
  /\ op.kind = "gw_distribution_replace" =>
       /\ op.rules \subseteq Acceptable
       /\ \A r \in op.rules : \A g \in {r[1], r[2]} :
            (\E e \in Pending : Deletes(e, g)) => g \in unchecked'
  /\ IF op.kind = "gw_registry_delete"
     THEN /\ op.key \in Known /\ Cardinality(Known) > 1
          /\ ~ rushed' => \A e \in Pending : e.kind # "gw_registry_delete"
     ELSE rushed' = rushed

LEMMA RequestsAsk ==
  ASSUME ReplicasTypeOK, Write \/ Registry \/ Enrol
  PROVE  \E op \in Operations : Asked(op)
<1>1. CASE Write
  <2>1. PICK op \in SettingRequests \cup AccountRequests \cup SessionRequests
                    \cup BanRequests :
          Enqueue(<<op>>)
    BY <1>1 DEF Write
  <2>2. op \in Operations /\ op.kind # "gw_registry_delete"
        /\ op.kind # "gw_distribution_replace"
    <3>1. CASE op \in SettingRequests
      BY <3>1 DEF Operations, SettingRequests
    <3>2. CASE op \in AccountRequests
      BY <3>2 DEF Operations, AccountRequests
    <3>3. CASE op \in SessionRequests
      BY <3>3 DEF Operations, SessionRequests, SessionOps
    <3>4. CASE op \in BanRequests
      BY <3>4 DEF Operations, BanRequests
    <3> QED BY <3>1, <3>2, <3>3, <3>4
  <2>3. UNCHANGED <<lite, skewed, apart, unchecked, rushed>>
    BY <1>1 DEF Write, historyVars
  <2>4. /\ op.kind \notin JournalOps
        /\ op.kind \in AccountOps =>
             (op.kind = "user_create" <=> Read.accounts[op.key] = Nothing)
        /\ op.kind = "user_session_create" =>
             pg.sessions[op.key] = Nothing /\ \A e \in Pending : e.key # op.key
    <3>1. CASE op \in SettingRequests
      BY <3>1 DEF SettingRequests, JournalOps, AccountOps
    <3>2. CASE op \in AccountRequests
      <4>1. op.kind \in AccountOps /\ op.key \in Users
            /\ (op.kind = "user_create" <=> Read.accounts[op.key] = Nothing)
        BY <3>2 DEF AccountRequests, AccountOps
      <4> QED BY <4>1 DEF AccountOps, JournalOps
    <3>3. CASE op \in SessionRequests
      BY <3>3 DEF SessionRequests, JournalOps, AccountOps
    <3>4. CASE op \in BanRequests
      BY <3>4 DEF BanRequests, JournalOps, AccountOps
    <3> QED BY <3>1, <3>2, <3>3, <3>4
  <2> QED BY <2>1, <2>2, <2>3, <2>4 DEF Asked
<1>2. ASSUME NEW g \in Gateways, NEW pair \in KeyPairs, NEW isLocal \in BOOLEAN,
             NEW lookedUp \in BOOLEAN, Register(g, pair, isLocal, lookedUp)
      PROVE  \E op \in Operations : Asked(op)
  <2>1. PICK op : op = [kind |-> "gw_registry_add", key |-> g, public |-> pair,
                        private |-> IF isLocal THEN pair ELSE Nothing,
                        local |-> isLocal, status |-> "active"]
    OBVIOUS
  <2>2. op \in Operations /\ op.kind = "gw_registry_add"
    BY <2>1 DEF Operations, Statuses
  <2>3. Book(op) /\ UNCHANGED historyVars
    BY <1>2, <2>1 DEF Register
  <2> QED BY <2>2, <2>3 DEF Asked, Book, Noted, historyVars, JournalOps, AccountOps
<1>3. ASSUME NEW op \in Operations, op.kind = "gw_registry_update", Book(op),
             UNCHANGED historyVars
      PROVE  \E o \in Operations : Asked(o)
  BY <1>3 DEF Asked, Book, Noted, historyVars, JournalOps, AccountOps
<1>4. CASE Enrol
  BY <1>2, <1>4 DEF Enrol
<1>5. ASSUME NEW g \in Gateways, NEW status \in Statuses, Amend(g, status)
      PROVE  \E op \in Operations : Asked(op)
  <2>1. PICK op : op = [kind |-> "gw_registry_update", key |-> g,
                        patch |-> [status |-> status]]
    OBVIOUS
  <2>2. op \in Operations /\ op.kind = "gw_registry_update"
    BY <2>1 DEF Operations, GatewayPatch
  <2>3. Book(op) /\ UNCHANGED historyVars
    BY <1>5, <2>1 DEF Amend
  <2> QED BY <2>2, <2>3, <1>3
<1>6. ASSUME NEW g \in Gateways, NEW on \in BOOLEAN, TrustPeer(g, on)
      PROVE  \E op \in Operations : Asked(op)
  <2>1. PICK op : op = [kind |-> "gw_registry_update", key |-> g,
                        patch |-> [auto_apply |-> on]]
    OBVIOUS
  <2>2. op \in Operations /\ op.kind = "gw_registry_update"
    BY <2>1 DEF Operations, GatewayPatch
  <2>3. Book(op) /\ UNCHANGED historyVars
    BY <1>6, <2>1 DEF TrustPeer
  <2> QED BY <2>2, <2>3, <1>3
<1>7. ASSUME NEW g \in Gateways, NEW pair \in KeyPairs, RotateKey(g, pair)
      PROVE  \E op \in Operations : Asked(op)
  <2>1. PICK op, kept : /\ kept = IF Read.gateways[g].local THEN pair ELSE Nothing
                        /\ op = [kind |-> "gw_registry_update", key |-> g,
                                 patch |-> [public |-> pair, private |-> kept]]
    OBVIOUS
  <2>2. op \in Operations /\ op.kind = "gw_registry_update"
    BY <2>1 DEF Operations, GatewayPatch
  <2>3. Book(op) /\ UNCHANGED historyVars
    BY <1>7, <2>1 DEF RotateKey
  <2> QED BY <2>2, <2>3, <1>3
<1>8. ASSUME NEW g \in Gateways, Delete(g)
      PROVE  \E op \in Operations : Asked(op)
  <2>1. PICK op : op = [kind |-> "gw_registry_delete", key |-> g]
    OBVIOUS
  <2>2. op \in Operations /\ op.kind = "gw_registry_delete" /\ op.key = g
    BY <2>1 DEF Operations
  <2>3. /\ Book(op) /\ UNCHANGED <<skewed, apart, unchecked>>
        /\ rushed' = (rushed \/ \E e \in Pending : e.kind = "gw_registry_delete")
        /\ g \in Known /\ Cardinality(Known) > 1
    BY <1>8, <2>1 DEF Delete, Deletable
  <2> QED BY <2>2, <2>3 DEF Asked, Book, Noted, JournalOps, AccountOps
<1>9. ASSUME NEW rules \in SUBSET Rules, SetRules(rules)
      PROVE  \E op \in Operations : Asked(op)
  <2>1. PICK op : op = [kind |-> "gw_distribution_replace", key |-> "rules",
                        rules |-> rules]
    OBVIOUS
  <2>2. op \in Operations /\ op.kind = "gw_distribution_replace" /\ op.rules = rules
    BY <2>1 DEF Operations
  <2>3. /\ Book(op) /\ UNCHANGED <<skewed, apart, rushed>> /\ rules \subseteq Acceptable
        /\ unchecked' = unchecked \cup
             {g \in Gateways :
                /\ \E r \in rules : g \in {r[1], r[2]}
                /\ \E e \in Pending : e.kind = "gw_registry_delete" /\ e.key = g}
    BY <1>9, <2>1 DEF SetRules
  <2>4. ASSUME NEW r \in rules, NEW g \in {r[1], r[2]}, \E e \in Pending : Deletes(e, g)
        PROVE  g \in unchecked'
    BY <2>3, <2>4 DEF Deletes, Rules
  <2> QED BY <2>2, <2>3, <2>4 DEF Asked, Book, Noted, JournalOps, AccountOps
<1> QED BY <1>1, <1>2, <1>4, <1>5, <1>6, <1>7, <1>8, <1>9 DEF Registry

\* Requests queue up behind the others: what is queued first is an operation, then
\* at most a note of it.
LEMMA OrderGrows ==
  ASSUME DeploymentOK, PendingOK, OrderOK, NEW op \in Operations,
         NEW ops \in {<<op>>, <<op, Noted>>}, Enqueue(ops),
         op.kind \notin JournalOps \/ ops = <<op>>
  PROVE  /\ OrderOK' /\ UNCHANGED <<mode, self, pg, mirrors>> /\ sent' = sent + 1
         /\ Len(queue) \in Nat /\ Len(queue') \in Nat /\ Len(queue) <= Len(queue')
         /\ \A i \in 1 .. Len(queue) : queue'[i] = queue[i]
         /\ \A i \in Len(queue) + 1 .. Len(queue') :
              /\ queue'[i].op = Noted \/ (queue'[i].op = op /\ i = Len(queue) + 1)
              /\ queue'[i].at = sent + 1
<1>0. Noted \in Operations
  BY DEF Noted, Operations, JournalOps
<1>1. ops \in Seq(Operations)
  <2>1. <<op>> \in Seq(Operations) /\ <<op, Noted>> \in Seq(Operations)
    BY <1>0
  <2> QED BY <2>1
<1>2. Len(ops) \in 1 .. 2 /\ ops[1] = op /\ (Len(ops) = 2 => ops[2] = Noted)
  OBVIOUS
<1>3. /\ UNCHANGED <<fixed, self, pg, mirrors, begun>> /\ sent' = sent + 1
      /\ queue' \in Seq(Queued) /\ Len(queue) <= Len(queue')
      /\ \A i \in 1 .. Len(queue) : queue'[i] = queue[i]
      /\ \A i \in Len(queue) + 1 .. Len(queue') :
           /\ i - Len(queue) \in 1 .. Len(ops)
           /\ queue'[i] = [op |-> ops[i - Len(queue)], at |-> sent + 1]
  BY <1>1, QueueAfter
<1>4. Len(queue) \in Nat /\ Len(queue') \in Nat /\ sent \in Nat
  BY <1>3, CapacityAssumption DEF PendingOK, DeploymentOK
<1>5. UNCHANGED <<mode, pg, mirrors>>
  BY <1>3 DEF fixed
<1>6. ASSUME NEW i \in Len(queue) + 1 .. Len(queue')
      PROVE  /\ queue'[i].at = sent + 1
             /\ queue'[i].op = Noted \/ (queue'[i].op = op /\ i = Len(queue) + 1)
  <2>1. PICK j : j = i - Len(queue)
    OBVIOUS
  <2>2. j \in 1 .. Len(ops) /\ queue'[i] = [op |-> ops[j], at |-> sent + 1]
    BY <1>3, <2>1
  <2>3. j = 1 \/ (j = 2 /\ Len(ops) = 2)
    BY <1>2, <2>2
  <2>4. ops[j] = Noted \/ (ops[j] = op /\ i = Len(queue) + 1)
    BY <1>2, <1>4, <2>1, <2>3
  <2> QED BY <2>2, <2>4
<1>7. \A i \in 1 .. Len(queue) : queue[i].at \in 1 .. sent
  <2>1. queue \in Seq(Queued)
    BY DEF PendingOK
  <2> QED BY <2>1, PendingRows
<1>8. InOrder(queue')
  <2> SUFFICES ASSUME NEW i \in 1 .. Len(queue'), NEW j \in 1 .. Len(queue'), i < j
               PROVE  \/ queue'[i].at < queue'[j].at
                      \/ /\ queue'[i].op.kind \notin JournalOps
                         /\ queue'[j].op.kind \in JournalOps
    BY DEF InOrder
  <2>a. i < j
    OBVIOUS
  <2>1. CASE j <= Len(queue)
    <3>1. i \in 1 .. Len(queue) /\ j \in 1 .. Len(queue)
      BY <1>4, <2>1
    <3>2. queue'[i] = queue[i] /\ queue'[j] = queue[j]
      BY <1>3, <3>1
    <3> QED BY <3>1, <3>2 DEF OrderOK, InOrder
  <2>2. CASE ~ j <= Len(queue) /\ i <= Len(queue)
    <3>1. i \in 1 .. Len(queue) /\ j \in Len(queue) + 1 .. Len(queue')
      BY <1>4, <2>2
    <3>2. queue'[i].at \in 1 .. sent /\ queue'[j].at = sent + 1
      BY <1>3, <1>6, <1>7, <3>1
    <3> QED BY <1>4, <3>2
  <2>3. CASE ~ i <= Len(queue)
    <3>1. j \in Len(queue) + 1 .. Len(queue') /\ j # Len(queue) + 1
          /\ i \in Len(queue) + 1 .. Len(queue')
      BY <1>4, <2>3
    <3>2. queue'[j].op = Noted
      BY <1>6, <3>1
    <3>3. PICK n, l \in Nat : n = Len(queue) /\ l = Len(queue')
      BY <1>4
    <3>4. i = n + 1 /\ j = n + 2 /\ Len(ops) = 2
      <4>1. /\ i \in n + 1 .. l /\ j \in n + 1 .. l
            /\ i - n \in 1 .. Len(ops) /\ j - n \in 1 .. Len(ops)
        BY <1>3, <3>1, <3>3
      <4>2. PICK c \in {1, 2} : c = Len(ops)
        BY <1>2
      <4>3. i - n < j - n
        BY <2>a, <3>3, <4>1
      <4>4. PICK x, y \in 1 .. c : x = i - n /\ y = j - n
        BY <4>1, <4>2
      <4>5. x = 1 /\ y = 2 /\ c = 2
        <5>1. x < y
          BY <4>3, <4>4
        <5>2. c = 1 => x = 1 /\ y = 1
          OBVIOUS
        <5>3. c = 2 => x \in {1, 2} /\ y \in {1, 2}
          OBVIOUS
        <5> QED BY <5>1, <5>2, <5>3
      <4> QED BY <3>3, <4>1, <4>2, <4>4, <4>5
    <3>5. ops # <<op>> /\ queue'[i].op = op
      <4>1. queue'[i] = [op |-> ops[i - n], at |-> sent + 1]
        BY <1>3, <3>1, <3>3
      <4>2. i - n = 1
        BY <3>3, <3>4
      <4>3. queue'[i].op = op
        BY <1>2, <4>1, <4>2
      <4> QED BY <3>4, <4>3
    <3> QED BY <3>2, <3>5 DEF Noted, JournalOps
  <2> QED BY <2>1, <2>2, <2>3
<1>9. Ahead(mirrors', queue')
  <2> SUFFICES ASSUME NEW m \in mirrors, NEW i \in 1 .. Len(queue')
               PROVE  m.at < queue'[i].at
    BY <1>5 DEF Ahead
  <2>1. CASE i <= Len(queue)
    BY <1>3, <1>4, <2>1 DEF OrderOK, Ahead
  <2>2. CASE ~ i <= Len(queue)
    <3>1. i \in Len(queue) + 1 .. Len(queue')
      BY <1>4, <2>2
    <3>2. m.at \in 1 .. sent /\ queue'[i].at = sent + 1
      BY <1>6, <3>1, PendingRows
    <3> QED BY <1>4, <3>2
  <2> QED BY <2>1, <2>2
<1>10. OrderOK'
  BY <1>5, <1>8, <1>9 DEF OrderOK
<1> QED BY <1>3, <1>4, <1>5, <1>6, <1>10

\* A queue after a request, a registry after an archive, and a set of rules that names
\* gateways that no queued operation deletes.
Lengthened(new, old, op) ==
  /\ Len(old) <= Len(new) /\ \A i \in 1 .. Len(old) : new[i] = old[i]
  /\ \A i \in Len(old) + 1 .. Len(new) :
       new[i].op = Noted \/ (new[i].op = op /\ i = Len(old) + 1)
Grown(x, db) == \A g \in Gateways : db.gateways[g] # Nothing => x.gateways[g] # Nothing
Checked(op, db, old, known) ==
  op.kind = "gw_distribution_replace" =>
    \A r \in op.rules : \A g \in {r[1], r[2]} :
      \/ g \in known
      \/ db.gateways[g] # Nothing /\ \A j \in 1 .. Len(old) : ~ Deletes(old[j].op, g)

LEMMA RulesGrow ==
  ASSUME NEW db, NEW old \in Seq(Queued), NEW known, NEW x, NEW new \in Seq(Queued),
         NEW more, NEW op, Lengthened(new, old, op), Grown(x, db), known \subseteq more,
         Checked(op, x, old, more), ReplacesKnown(db, old, 0, known)
  PROVE  ReplacesKnown(x, new, 0, more)
<1>0. Len(old) \in Nat /\ Len(new) \in Nat
  OBVIOUS
<1> SUFFICES ASSUME NEW i \in 1 .. Len(new),
                    new[i].op.kind = "gw_distribution_replace",
                    NEW r \in new[i].op.rules, NEW g \in {r[1], r[2]}, g \notin more
             PROVE  x.gateways[g] # Nothing /\ \A j \in 1 .. i - 1 : ~ Deletes(new[j].op, g)
  BY DEF ReplacesKnown
<1>1. CASE i <= Len(old)
  <2>1. i \in 1 .. Len(old) /\ new[i] = old[i]
    BY <1>0, <1>1 DEF Lengthened
  <2>2. g \in Gateways
    <3>1. old[i] \in Queued
      BY <2>1
    <3>2. old[i].op \in Operations /\ old[i].op.kind = "gw_distribution_replace"
      BY <2>1, <3>1 DEF Queued
    <3>3. r \in Rules
      BY <2>1, <3>2, MeshOpIs DEF MeshOps
    <3> QED BY <3>3 DEF Rules
  <2>3. db.gateways[g] # Nothing /\ \A j \in 1 .. i - 1 : ~ Deletes(old[j].op, g)
    BY <2>1 DEF ReplacesKnown
  <2>4. \A j \in 1 .. i - 1 : new[j] = old[j]
    BY <1>0, <1>1 DEF Lengthened
  <2> QED BY <2>2, <2>3, <2>4 DEF Grown
<1>2. CASE ~ i <= Len(old)
  <2>1. i \in Len(old) + 1 .. Len(new)
    BY <1>0, <1>2
  <2>2. new[i].op = op /\ i = Len(old) + 1
    BY <2>1 DEF Noted, Lengthened
  <2>3. x.gateways[g] # Nothing /\ \A j \in 1 .. Len(old) : ~ Deletes(old[j].op, g)
    BY <2>2 DEF Checked
  <2>4. \A j \in 1 .. i - 1 : j \in 1 .. Len(old)
    BY <1>0, <2>2
  <2>5. \A j \in 1 .. Len(old) : new[j] = old[j]
    BY DEF Lengthened
  <2> QED BY <2>3, <2>4, <2>5
<1> QED BY <1>1, <1>2

\* What is queued is pending, and so is what is mirrored.
LEMMA PendingOps ==
  ASSUME PendingOK
  PROVE  /\ \A i \in 1 .. Len(queue) : queue[i].op \in Pending
         /\ \A m \in mirrors : m.op \in Pending
  BY DEF Pending, RangeOf, PendingOK

\* The database read is the one written first, but with both.
LEMMA ReadIsPrimary ==
  ASSUME ReplicasTypeOK
  PROVE  mode # "both" => Read = Primary
  BY DEF Read, Primary, ReplicasTypeOK, DeploymentOK, Modes

LEMMA RequestKeepsRegistry ==
  ASSUME ReplicasTypeOK, RegistryInv, NEW op \in Operations, Asked(op)
  PROVE  RegistryInv'
<1>1. PICK ops \in {<<op>>, <<op, Noted>>} : Enqueue(ops)
  BY DEF Asked
<1>2. DeploymentOK /\ PendingOK /\ OrderOK /\ RegistryFollows /\ RulesFollow /\ OneStays
  BY DEF ReplicasTypeOK, RegistryInv
<1>3. /\ OrderOK' /\ UNCHANGED <<mode, pg, mirrors>>
      /\ Len(queue) \in Nat /\ Len(queue') \in Nat /\ Len(queue) <= Len(queue')
      /\ \A i \in 1 .. Len(queue) : queue'[i] = queue[i]
      /\ \A i \in Len(queue) + 1 .. Len(queue') :
           queue'[i].op = Noted \/ (queue'[i].op = op /\ i = Len(queue) + 1)
  <2>1. op.kind \notin JournalOps
    BY DEF Asked
  <2> QED BY <1>1, <1>2, <2>1, OrderGrows
<1>4. UNCHANGED <<lite, skewed>> /\ unchecked \subseteq unchecked' /\ Primary' = Primary
  BY <1>3 DEF Asked, Primary
<1>5. queue \in Seq(Queued) /\ queue' \in Seq(Queued)
      /\ \A i \in 1 .. Len(queue) : queue[i].op \in Operations
  <2>1. queue \in Seq(Queued) /\ \A i \in 1 .. Len(queue) : queue[i].op \in Operations
    BY <1>2, PendingRows
  <2>2. ops \in Seq(Operations)
    <3>0. Noted \in Operations
      BY DEF Noted, Operations, JournalOps
    <3>1. <<op>> \in Seq(Operations) /\ <<op, Noted>> \in Seq(Operations)
      BY <3>0
    <3> QED BY <3>1
  <2>3. queue' \in Seq(Queued)
    BY <1>1, <1>2, <2>2, QueueAfter
  <2> QED BY <2>1, <2>3
<1>6. RegistryFollows'
  BY <1>2, <1>3, <1>4 DEF RegistryFollows
<1>7. RulesFollow'
  <2>1. RulesKnown(Primary, (unchecked \cup skewed)')
    BY <1>2, <1>4 DEF RulesFollow, RulesKnown
  <2>2. ASSUME op.kind = "gw_distribution_replace", NEW r \in op.rules,
               NEW g \in {r[1], r[2]}, g \notin (unchecked \cup skewed)'
        PROVE  /\ Primary.gateways[g] # Nothing
               /\ \A j \in 1 .. Len(queue) : ~ Deletes(queue[j].op, g)
    <3>1. r \in Acceptable /\ ((\E e \in Pending : Deletes(e, g)) => g \in unchecked')
      BY <2>2 DEF Asked
    <3>2. g \in Gateways /\ Read.gateways[g] # Nothing
      BY <3>1 DEF Acceptable, Known
    <3>3. \A e \in Pending : ~ Deletes(e, g)
      BY <2>2, <3>1
    <3>4. /\ \A j \in 1 .. Len(queue) : ~ Deletes(queue[j].op, g)
          /\ \A m \in mirrors : ~ Deletes(m.op, g)
      BY <1>2, <3>3, PendingOps
    <3>5. CASE mode # "both"
      BY <3>2, <3>4, <3>5, ReadIsPrimary
    <3>6. CASE mode = "both"
      <4>1. Read = pg /\ Primary = lite
        BY <3>6 DEF Read, Primary
      <4>2. g \notin skewed
        BY <1>4, <2>2
      <4>3. RowFollows(lite.gateways[g] # Nothing, pg.gateways[g] # Nothing, mirrors, g)
        BY <1>2, <3>2, <3>6, <4>2 DEF RegistryFollows
      <4> QED BY <3>2, <3>4, <4>1, <4>3 DEF RowFollows
    <3> QED BY <3>5, <3>6
  <2>3. ReplacesKnown(Primary, queue, 0, unchecked \cup skewed)
    BY <1>2 DEF RulesFollow
  <2>4. PICK db, known, more : /\ db = Primary /\ known = unchecked \cup skewed
                               /\ more = (unchecked \cup skewed)'
    OBVIOUS
  <2>5. known \subseteq more
    BY <1>4, <2>4
  <2>6. ReplacesKnown(db, queue', 0, more)
    <3>1. PICK new \in Seq(Queued) : new = queue'
      BY <1>5
    <3>2. Lengthened(new, queue, op)
      BY <1>3, <3>1 DEF Lengthened
    <3>3. Checked(op, db, queue, more) /\ Grown(db, db)
      BY <2>2, <2>4 DEF Checked, Grown
    <3>4. ReplacesKnown(db, queue, 0, known)
      BY <2>3, <2>4
    <3>5. ReplacesKnown(db, new, 0, more)
      BY <1>5, <2>5, <3>2, <3>3, <3>4, RulesGrow
    <3> QED BY <3>1, <3>5
  <2> QED BY <1>4, <2>1, <2>4, <2>6 DEF RulesFollow
<1>8. OneStays'
  <2> SUFFICES ASSUME mode # "both", ~ rushed', NEW i \in 1 .. Len(queue'),
                      queue'[i].op.kind = "gw_registry_delete"
               PROVE  \E g \in Gateways :
                        /\ Primary.gateways[g] # Nothing
                        /\ \A j \in 1 .. Len(queue') : ~ Deletes(queue'[j].op, g)
    BY <1>3, <1>4 DEF OneStays
  <2>0. \A j \in 1 .. Len(queue') :
          \/ j \in 1 .. Len(queue) /\ queue'[j] = queue[j]
          \/ queue'[j].op = Noted \/ queue'[j].op = op
    BY <1>3
  <2>1. CASE op.kind = "gw_registry_delete"
    <3>1. op.key \in Known /\ Cardinality(Known) > 1
          /\ \A e \in Pending : e.kind # "gw_registry_delete"
      BY <2>1 DEF Asked
    <3>2. PICK g \in Known : g # op.key
      <4>1. ~ Known \subseteq {op.key}
        <5>1. SUFFICES ASSUME Known \subseteq {op.key} PROVE FALSE
          OBVIOUS
        <5>2. Known = {op.key}
          BY <3>1, <5>1
        <5>3. Cardinality({op.key}) = 1
          BY FS_Singleton
        <5> QED BY <3>1, <5>2, <5>3
      <4> QED BY <4>1
    <3>3. Primary.gateways[g] # Nothing /\ g \in Gateways
      BY ReadIsPrimary DEF Known
    <3>4. \A j \in 1 .. Len(queue) : queue[j].op.kind # "gw_registry_delete"
      BY <1>2, <3>1, PendingOps
    <3>5. \A j \in 1 .. Len(queue') : ~ Deletes(queue'[j].op, g)
      BY <2>0, <3>2, <3>4 DEF Deletes, Noted
    <3> QED BY <3>3, <3>5
  <2>2. CASE op.kind # "gw_registry_delete"
    <3>1. rushed' = rushed
      BY <2>2 DEF Asked
    <3>2. i \in 1 .. Len(queue) /\ queue'[i] = queue[i]
      BY <2>0, <2>2 DEF Noted
    <3>3. PICK g \in Gateways : /\ Primary.gateways[g] # Nothing
                                /\ \A j \in 1 .. Len(queue) : ~ Deletes(queue[j].op, g)
      BY <1>2, <3>1, <3>2 DEF OneStays
    <3>4. \A j \in 1 .. Len(queue') : ~ Deletes(queue'[j].op, g)
      BY <2>0, <2>2, <3>3 DEF Deletes, Noted
    <3> QED BY <3>3, <3>4
  <2> QED BY <2>1, <2>2
<1> QED BY <1>3, <1>6, <1>7, <1>8 DEF RegistryInv

LEMMA RestoreKeepsRegistry ==
  ASSUME ReplicasTypeOK, RegistryInv, Restore
  PROVE  RegistryInv' /\ Grown(Primary', Primary)
<1>1. /\ Enqueue(<<Noted>>)
      /\ skewed' = skewed \cup Altered(lite, lite')
      /\ unchecked' = unchecked \cup
           {g \in Gateways : \E r \in lite'.rules \ lite.rules : g \in {r[1], r[2]}}
      /\ UNCHANGED rushed
  BY DEF Restore, Noted
<1>2. DeploymentOK /\ PendingOK /\ OrderOK /\ RegistryFollows /\ RulesFollow /\ OneStays
  BY DEF ReplicasTypeOK, RegistryInv
<1>3. Noted \in Operations /\ Noted.kind = "gw_audit_add"
  BY DEF Noted, Operations, JournalOps
<1>4. /\ OrderOK' /\ UNCHANGED <<mode, pg, mirrors>>
      /\ Len(queue) \in Nat /\ Len(queue') \in Nat /\ Len(queue) <= Len(queue')
      /\ \A i \in 1 .. Len(queue) : queue'[i] = queue[i]
      /\ \A i \in Len(queue) + 1 .. Len(queue') : queue'[i].op = Noted
  BY <1>1, <1>2, <1>3, OrderGrows
<1>5. queue \in Seq(Queued) /\ queue' \in Seq(Queued)
  BY RestoreTypes, <1>2 DEF ReplicasTypeOK, PendingOK
<1>6. /\ \A g \in Gateways : lite.gateways[g] # Nothing => lite'.gateways[g] # Nothing
      /\ lite.rules \subseteq lite'.rules /\ lite' \in Database
  BY RestoreStep, RestoreTypes DEF ReplicasTypeOK, DatabasesOK
<1>7. Grown(Primary', Primary)
  BY <1>4, <1>6 DEF Grown, Primary
<1>8. RegistryFollows'
  <2> SUFFICES ASSUME mode = "both", NEW g \in Gateways \ skewed'
               PROVE  RowFollows(lite'.gateways[g] # Nothing, pg.gateways[g] # Nothing,
                                 mirrors, g)
    BY <1>4 DEF RegistryFollows
  <2>1. g \in Gateways \ skewed /\ lite'.gateways[g] = lite.gateways[g]
    BY <1>1 DEF Altered
  <2>2. RowFollows(lite.gateways[g] # Nothing, pg.gateways[g] # Nothing, mirrors, g)
    BY <1>2, <2>1 DEF RegistryFollows
  <2> QED BY <2>1, <2>2
<1>9. RulesFollow'
  <2>1. PICK known, more : known = unchecked \cup skewed /\ more = (unchecked \cup skewed)'
    OBVIOUS
  <2>2. known \subseteq more
    BY <1>1, <2>1
  <2>3. RulesKnown(Primary', more)
    <3> SUFFICES ASSUME NEW r \in Primary'.rules, NEW g \in {r[1], r[2]}, g \notin more
                 PROVE  Primary'.gateways[g] # Nothing
      BY DEF RulesKnown
    <3>1. Primary' \in Database
      BY <1>6, RestoreTypes DEF Primary, ReplicasTypeOK, DatabasesOK
    <3>2. g \in Gateways
      BY <3>1 DEF Database, Rules
    <3>3. r \in Primary.rules
      <4>1. CASE mode = "pg"
        BY <1>4, <4>1 DEF Primary
      <4>2. CASE mode # "pg"
        BY <1>1, <1>4, <2>1, <3>2, <4>2 DEF Primary
      <4> QED BY <4>1, <4>2
    <3>4. Primary.gateways[g] # Nothing
      BY <1>2, <2>1, <2>2, <3>3 DEF RulesFollow, RulesKnown
    <3> QED BY <1>7, <3>2, <3>4 DEF Grown
  <2>4. PICK db, x, new : db = Primary /\ x = Primary' /\ new = queue'
    OBVIOUS
  <2>5. Lengthened(new, queue, Noted) /\ new \in Seq(Queued)
    BY <1>4, <1>5, <2>4 DEF Lengthened
  <2>6. Checked(Noted, x, queue, more) /\ Grown(x, db)
    BY <1>3, <1>7, <2>4 DEF Checked
  <2>7. ReplacesKnown(db, queue, 0, known)
    BY <1>2, <2>1, <2>4 DEF RulesFollow
  <2>8. ReplacesKnown(x, new, 0, more)
    BY <1>5, <2>2, <2>5, <2>6, <2>7, RulesGrow
  <2> QED BY <2>1, <2>3, <2>4, <2>8 DEF RulesFollow
<1>10. OneStays'
  <2> SUFFICES ASSUME mode # "both", ~ rushed, NEW i \in 1 .. Len(queue'),
                      queue'[i].op.kind = "gw_registry_delete"
               PROVE  \E g \in Gateways :
                        /\ Primary'.gateways[g] # Nothing
                        /\ \A j \in 1 .. Len(queue') : ~ Deletes(queue'[j].op, g)
    BY <1>1, <1>4 DEF OneStays
  <2>1. \A j \in 1 .. Len(queue') :
          \/ j \in 1 .. Len(queue) /\ queue'[j] = queue[j]
          \/ queue'[j].op = Noted
    BY <1>4
  <2>2. i \in 1 .. Len(queue) /\ queue'[i] = queue[i]
    BY <1>3, <2>1
  <2>3. PICK g \in Gateways : /\ Primary.gateways[g] # Nothing
                              /\ \A j \in 1 .. Len(queue) : ~ Deletes(queue[j].op, g)
    BY <1>2, <2>2 DEF OneStays
  <2>4. \A j \in 1 .. Len(queue') : ~ Deletes(queue'[j].op, g)
    BY <1>3, <2>1, <2>3 DEF Deletes
  <2> QED BY <1>7, <2>3, <2>4 DEF Grown
<1> QED BY <1>4, <1>7, <1>8, <1>9, <1>10 DEF RegistryInv

\* Copies, and the orders of signals, go around the queue.
LEMMA CopyKeepsRegistry ==
  ASSUME ReplicasTypeOK, RegistryInv,
         SaveArchive \/ SaveOrder \/ Import \/ Export \/ UNCHANGED replicasVars
  PROVE  RegistryInv' /\ Grown(Primary', Primary)
<1>1. UNCHANGED <<mode, queue, mirrors, skewed, unchecked, rushed>>
  BY DEF SaveArchive, SaveOrder, Import, Export, replicasVars, historyVars, fixed,
         mirrorVars
<1>2. lite \in Database /\ pg \in Database
  BY DEF ReplicasTypeOK, DatabasesOK
<1>3. /\ Primary'.rules = Primary.rules
      /\ \A g \in Gateways : Primary.gateways[g] # Nothing => Primary'.gateways[g] # Nothing
      /\ mode = "both" =>
           lite'.gateways = lite.gateways /\ pg'.gateways = pg.gateways
  <2>1. CASE SaveArchive \/ UNCHANGED replicasVars
    <3>1. UNCHANGED <<lite, pg>>
      BY <2>1 DEF SaveArchive, replicasVars
    <3> QED BY <1>1, <3>1 DEF Primary
  <2>2. CASE SaveOrder
    <3>1. PICK s \in Signals, n \in Orders, reached \in BOOLEAN :
            StoreOrder(<<knownAs, s>>, n, reached)
      BY <2>2 DEF SaveOrder
    <3>2. PICK row : row = <<knownAs, s>>
      OBVIOUS
    <3>3. /\ lite' = [lite EXCEPT !.orders[row] = n]
          /\ pg' = [pg EXCEPT !.orders[row] = n] \/ pg' = pg
      BY <3>1, <3>2 DEF StoreOrder
    <3>4. /\ lite'.rules = lite.rules /\ lite'.gateways = lite.gateways
          /\ pg'.rules = pg.rules /\ pg'.gateways = pg.gateways
      BY <1>2, <3>3 DEF Database
    <3> QED BY <1>1, <3>4 DEF Primary
  <2>3. CASE Import
    <3>1. mode # "both" /\ lite' = lite /\ pg'.rules = pg.rules
          /\ \A g \in Gateways : pg.gateways[g] # Nothing => pg'.gateways[g] # Nothing
      BY <2>3, ImportStep DEF Import
    <3> QED BY <1>1, <3>1 DEF Primary
  <2>4. CASE Export
    BY <1>1, <2>4 DEF Export, Primary
  <2> QED BY <2>1, <2>2, <2>3, <2>4
<1>4. OrderOK /\ RegistryFollows /\ RulesFollow /\ OneStays
  BY DEF RegistryInv
<1>5. OrderOK'
  BY <1>1, <1>4 DEF OrderOK
<1>6. RegistryFollows'
  BY <1>1, <1>3, <1>4 DEF RegistryFollows
<1>7. RulesFollow'
  <2>1. \A r \in Primary.rules : \A g \in {r[1], r[2]} : g \in Gateways
    BY <1>2 DEF Primary, Database, Rules
  <2>2. RulesKnown(Primary', (unchecked \cup skewed)')
    BY <1>1, <1>3, <1>4, <2>1 DEF RulesFollow, RulesKnown
  <2>3. \A i \in 1 .. Len(queue) :
          queue[i].op.kind = "gw_distribution_replace" =>
            \A r \in queue[i].op.rules : \A g \in {r[1], r[2]} : g \in Gateways
    <3> SUFFICES ASSUME NEW i \in 1 .. Len(queue),
                        queue[i].op.kind = "gw_distribution_replace",
                        NEW r \in queue[i].op.rules, NEW g \in {r[1], r[2]}
                 PROVE  g \in Gateways
      OBVIOUS
    <3>1. queue[i].op \in Operations
      BY PendingRows DEF ReplicasTypeOK, PendingOK
    <3>2. r \in Rules
      BY <3>1, MeshOpIs DEF MeshOps
    <3> QED BY <3>2 DEF Rules
  <2>4. ReplacesKnown(Primary', queue', 0, (unchecked \cup skewed)')
    BY <1>1, <1>3, <1>4, <2>3 DEF RulesFollow, ReplacesKnown
  <2> QED BY <2>2, <2>4 DEF RulesFollow
<1>8. OneStays'
  BY <1>1, <1>3, <1>4 DEF OneStays
<1> QED BY <1>3, <1>5, <1>6, <1>7, <1>8 DEF RegistryInv, Grown

\* Two databases with the same tables, but for the rows set apart.
SameTables(x, y) ==
  /\ x.settings = y.settings /\ x.accounts = y.accounts /\ x.sessions = y.sessions
  /\ x.bans = y.bans /\ x.journal = y.journal
  /\ \A g \in Gateways \ skewed : x.gateways[g] = y.gateways[g]
  /\ "rules" \notin skewed => x.rules = y.rules

\* A mirror that ends leaves what it would have left in one go.
LEMMA RestIsDispatch ==
  ASSUME PendingOK, MirrorsInv, pg \in Database, NEW m \in mirrors
  PROVE  SameTables(Rest(pg, m), PgDispatch(pg, m.op))
<1>1. m.op \in Operations
  BY PendingRows
<1>2. CASE m \notin begun
  BY <1>2 DEF Rest, SameTables
<1>3. CASE m \in begun
  <2>1. m.op.kind \in TwoStatements /\ HalfRun(pg, m.op) /\ Rest(pg, m) = PgFinished(pg, m.op)
    BY <1>3 DEF PendingOK, MirrorsInv, Rest
  <2>2. PICK x, y : x = Rest(pg, m) /\ y = PgDispatch(pg, m.op)
    OBVIOUS
  <2>3. /\ y.settings = pg.settings /\ y.accounts = pg.accounts
        /\ y.sessions = pg.sessions /\ y.bans = pg.bans /\ y.journal = pg.journal
        /\ y.gateways = IF m.op.kind = "gw_registry_delete"
                        THEN PgGateway(pg.gateways, m.op) ELSE pg.gateways
        /\ y.rules = PgRules(pg.rules, m.op)
    BY <1>1, <2>1, <2>2, TablesAfterArms
       DEF TablesAfter, TwoStatements, SettingOps, AccountOps, SessionOps, BanOps,
           JournalOps, MeshOps
  <2>4. PICK r : r = IF m.op.kind = "gw_registry_delete" THEN Without(pg.rules, m.op.key)
                                                         ELSE pg.rules \cup m.op.rules
    OBVIOUS
  <2>5. x = [pg EXCEPT !.rules = r]
    BY <2>1, <2>2, <2>4 DEF PgFinished
  <2>6. /\ x.settings = pg.settings /\ x.accounts = pg.accounts
        /\ x.sessions = pg.sessions /\ x.bans = pg.bans /\ x.journal = pg.journal
        /\ x.gateways = pg.gateways /\ x.rules = r
    BY <2>5 DEF Database
  <2>7. CASE m.op.kind = "gw_registry_delete"
    <3>1. PICK q : q = PgGateway(pg.gateways, m.op)
      OBVIOUS
    <3>2. \A g \in Gateways \ skewed : q[g] = pg.gateways[g]
      BY <2>1, <2>7, <3>1 DEF PgGateway, HalfRun, Database
    <3>3. y.rules = x.rules
      BY <2>3, <2>4, <2>6, <2>7 DEF PgRules
    <3> QED BY <2>2, <2>3, <2>6, <2>7, <3>1, <3>2, <3>3 DEF SameTables
  <2>8. CASE m.op.kind = "gw_distribution_replace"
    <3>1. y.rules = m.op.rules
      BY <2>3, <2>8 DEF PgRules
    <3>2. "rules" \notin skewed => x.rules = m.op.rules
      BY <2>1, <2>4, <2>6, <2>8 DEF HalfRun
    <3> QED BY <2>2, <2>3, <2>6, <2>8, <3>1, <3>2 DEF SameTables
  <2> QED BY <2>1, <2>7, <2>8 DEF TwoStatements
<1> QED BY <1>2, <1>3

\* A mirror arrives at a registry.
LEMMA FollowsMirror ==
  ASSUME PendingOK, pg \in Database, NEW m \in mirrors, NEW g \in Gateways, NEW there,
         g \notin Overtaken(m),
         RowFollows(there, pg.gateways[g] # Nothing, mirrors, g)
  PROVE  RowFollows(there, PgDispatch(pg, m.op).gateways[g] # Nothing, mirrors \ {m}, g)
<1>1. m \in Queued /\ m.op \in Operations /\ m.at \in Nat
  BY PendingRows DEF Queued
<1>2. PICK x : x = PgDispatch(pg, m.op)
  OBVIOUS
<1>3. RegistryAfter(x, pg, m.op)
  BY <1>1, <1>2, ArmsOfRegistry
<1>4. \A d \in mirrors : d.at \in Nat
  BY PendingRows DEF Queued
<1>5. CASE Adds(m.op, g)
  <2>1. ~ Deletes(m.op, g)
    BY <1>5 DEF Adds, Deletes
  <2>2. (\A d \in mirrors : ~ Deletes(d.op, g)) => there
    BY <1>5 DEF RowFollows
  <2> QED BY <1>2, <2>1, <2>2 DEF RowFollows
<1>6. CASE Deletes(m.op, g)
  <2>1. x.gateways[g] = Nothing
    BY <1>3, <1>6 DEF RegistryAfter
  <2>2. ASSUME NEW a \in mirrors \ {m}, Adds(a.op, g),
               \A d \in mirrors \ {m} : Deletes(d.op, g) => d.at <= a.at
        PROVE  there
    <3>1. m.at <= a.at
      <4>1. SUFFICES ASSUME ~ m.at <= a.at PROVE FALSE
        OBVIOUS
      <4>2. a.at < m.at
        BY <1>1, <1>4, <4>1
      <4>3. ~ Commute(a.op, m.op)
        BY <1>6 DEF Commute, Deletes, JournalOps
      <4>4. g \in Touches(a.op) /\ g \in Touches(m.op)
        BY <1>6, <2>2 DEF Touches, Adds, Deletes
      <4> QED BY <4>2, <4>3, <4>4 DEF Overtaken
    <3>2. \A d \in mirrors : Deletes(d.op, g) => d.at <= a.at
      BY <2>2, <3>1
    <3> QED BY <2>2, <3>2 DEF RowFollows
  <2> QED BY <1>2, <2>1, <2>2 DEF RowFollows
<1>7. CASE ~ Adds(m.op, g) /\ ~ Deletes(m.op, g)
  <2>1. x.gateways[g] # Nothing <=> pg.gateways[g] # Nothing
    BY <1>3, <1>7 DEF RegistryAfter
  <2> QED BY <1>2, <1>7, <2>1 DEF RowFollows
<1> QED BY <1>5, <1>6, <1>7

LEMMA MirrorKeepsRegistry ==
  ASSUME ReplicasTypeOK, MirrorsInv, RegistryInv, Mirror
  PROVE  RegistryInv' /\ Grown(Primary', Primary)
<1>1. PICK m \in mirrors, reached \in BOOLEAN :
        /\ mirrors' = mirrors \ {m}
        /\ pg' = IF reached THEN Rest(pg, m) ELSE pg
        /\ skewed' = skewed \cup (IF reached THEN Overtaken(m) ELSE Touches(m.op))
        /\ UNCHANGED <<fixed, lite, queue, unchecked, rushed>>
  BY DEF Mirror
<1>2. OrderOK /\ RegistryFollows /\ RulesFollow /\ OneStays /\ PendingOK /\ pg \in Database
  BY DEF RegistryInv, ReplicasTypeOK, DatabasesOK
<1>3. mode = "both" /\ UNCHANGED <<mode, lite, queue, unchecked, rushed>>
  BY <1>1, <1>2 DEF OrderOK, fixed
<1>4. Primary' = Primary
  BY <1>3 DEF Primary
<1>5. OrderOK'
  BY <1>1, <1>2, <1>3 DEF OrderOK, InOrder, Ahead
<1>6. RegistryFollows'
  <2> SUFFICES ASSUME NEW g \in Gateways \ skewed'
               PROVE  RowFollows(lite.gateways[g] # Nothing, pg'.gateways[g] # Nothing,
                                 mirrors', g)
    BY <1>3 DEF RegistryFollows
  <2>1. RowFollows(lite.gateways[g] # Nothing, pg.gateways[g] # Nothing, mirrors, g)
    BY <1>1, <1>2, <1>3 DEF RegistryFollows
  <2>2. CASE reached
    <3>1. g \notin Overtaken(m) /\ g \notin skewed /\ pg' = Rest(pg, m)
      BY <1>1, <2>2
    <3>2. pg'.gateways[g] = PgDispatch(pg, m.op).gateways[g]
      BY <1>2, <3>1, RestIsDispatch DEF SameTables
    <3> QED BY <1>1, <1>2, <2>1, <3>1, <3>2, FollowsMirror
  <2>3. CASE ~ reached
    <3>1. g \notin Touches(m.op) /\ pg' = pg
      BY <1>1, <2>3
    <3>2. ~ Deletes(m.op, g)
      BY <3>1 DEF Deletes, Touches
    <3> QED BY <1>1, <2>1, <3>1, <3>2 DEF RowFollows
  <2> QED BY <2>2, <2>3
<1>7. RulesFollow'
  <2>1. PICK known, more : known = unchecked \cup skewed /\ more = (unchecked \cup skewed)'
    OBVIOUS
  <2>2. known \subseteq more
    BY <1>1, <1>3, <2>1
  <2> QED BY <1>2, <1>3, <1>4, <2>1, <2>2 DEF RulesFollow, RulesKnown, ReplacesKnown
<1>8. OneStays'
  BY <1>3 DEF OneStays
<1> QED BY <1>4, <1>5, <1>6, <1>7, <1>8 DEF RegistryInv, Grown

LEMMA MirrorBeginsKeepsRegistry ==
  ASSUME ReplicasTypeOK, RegistryInv, MirrorBegins
  PROVE  RegistryInv' /\ Grown(Primary', Primary)
<1>1. PICK m \in mirrors :
        /\ m.op.kind \in TwoStatements /\ pg' = PgBegun(pg, m.op)
        /\ skewed' = skewed \cup Overtaken(m)
        /\ UNCHANGED <<fixed, lite, queue, mirrors, unchecked, rushed>>
  BY DEF MirrorBegins
<1>2. OrderOK /\ RegistryFollows /\ RulesFollow /\ OneStays /\ PendingOK /\ pg \in Database
  BY DEF RegistryInv, ReplicasTypeOK, DatabasesOK
<1>3. mode = "both" /\ UNCHANGED <<mode, lite, queue, mirrors, unchecked, rushed>>
  BY <1>1, <1>2 DEF OrderOK, fixed
<1>4. Primary' = Primary
  BY <1>3 DEF Primary
<1>5. OrderOK'
  BY <1>2, <1>3 DEF OrderOK
<1>6. RegistryFollows'
  <2> SUFFICES ASSUME NEW g \in Gateways \ skewed'
               PROVE  RowFollows(lite.gateways[g] # Nothing, pg'.gateways[g] # Nothing,
                                 mirrors, g)
    BY <1>3 DEF RegistryFollows
  <2>1. RowFollows(lite.gateways[g] # Nothing, pg.gateways[g] # Nothing, mirrors, g)
    BY <1>1, <1>2, <1>3 DEF RegistryFollows
  <2>2. HalfOf(pg', pg, m.op)
    BY <1>1, <1>2, PendingRows, HalvesAre
  <2>3. ~ Deletes(m.op, g) => pg'.gateways[g] = pg.gateways[g]
    BY <2>2 DEF HalfOf
  <2> QED BY <2>1, <2>3 DEF RowFollows
<1>7. RulesFollow'
  <2>1. PICK known, more : known = unchecked \cup skewed /\ more = (unchecked \cup skewed)'
    OBVIOUS
  <2>2. known \subseteq more
    BY <1>1, <1>3, <2>1
  <2> QED BY <1>2, <1>3, <1>4, <2>1, <2>2 DEF RulesFollow, RulesKnown, ReplacesKnown
<1>8. OneStays'
  BY <1>2, <1>3, <1>4 DEF OneStays
<1> QED BY <1>4, <1>5, <1>6, <1>7, <1>8 DEF RegistryInv, Grown

LEMMA CrashKeepsRegistry ==
  ASSUME ReplicasTypeOK, RegistryInv, Crash
  PROVE  RegistryInv' /\ Grown(Primary', Primary)
<1>1. /\ queue' = << >> /\ mirrors' = {}
      /\ skewed' = skewed \cup UNION {Touches(m.op) : m \in mirrors}
      /\ UNCHANGED <<mode, lite, pg, unchecked>>
  BY DEF Crash, fixed
<1>2. OrderOK /\ RegistryFollows /\ RulesFollow
  BY DEF RegistryInv
<1>3. Primary' = Primary /\ Len(queue') = 0
  BY <1>1 DEF Primary
<1>4. OrderOK' /\ OneStays'
  BY <1>1, <1>3 DEF OrderOK, OneStays, InOrder, Ahead
<1>5. RegistryFollows'
  <2> SUFFICES ASSUME mode = "both", NEW g \in Gateways \ skewed'
               PROVE  RowFollows(lite.gateways[g] # Nothing,
                                 pg.gateways[g] # Nothing, {}, g)
    BY <1>1 DEF RegistryFollows
  <2>1. RowFollows(lite.gateways[g] # Nothing, pg.gateways[g] # Nothing, mirrors, g)
    BY <1>1, <1>2 DEF RegistryFollows
  <2>2. \A m \in mirrors : ~ Deletes(m.op, g)
    BY <1>1 DEF Deletes, Touches
  <2> QED BY <2>1, <2>2 DEF RowFollows
<1>6. RulesFollow'
  <2>1. RulesKnown(Primary', (unchecked \cup skewed)')
    BY <1>1, <1>2, <1>3 DEF RulesFollow, RulesKnown
  <2> QED BY <1>3, <2>1 DEF RulesFollow, ReplacesKnown
<1> QED BY <1>3, <1>4, <1>5, <1>6 DEF RegistryInv, Grown

\* Some gateway stays, after a batch of the writer, unless two deletions raced.
LEMMA BatchSparesOne ==
  ASSUME ReplicasTypeOK, RegistryInv, mode # "both", ~ rushed, NEW how,
         \A i \in 1 .. Len(queue) : how[i] \in Outcomes(queue[i]),
         NEW g \in Gateways, Primary.gateways[g] # Nothing
  PROVE  \E h \in Gateways : Written(Primary, queue, how).gateways[h] # Nothing
<1>1. queue \in Seq(Queued) /\ Primary \in Database
  BY DEF ReplicasTypeOK, PendingOK, DatabasesOK, Primary
<1>2. CASE \E i \in 1 .. Len(queue) : queue[i].op.kind = "gw_registry_delete"
  <2>1. PICK h \in Gateways : /\ Primary.gateways[h] # Nothing
                              /\ \A j \in 1 .. Len(queue) : ~ Deletes(queue[j].op, h)
    BY <1>2 DEF RegistryInv, OneStays
  <2> QED BY <1>1, <2>1, GatewayStays
<1>3. CASE \A i \in 1 .. Len(queue) : queue[i].op.kind # "gw_registry_delete"
  <2>1. \A j \in 1 .. Len(queue) : ~ Deletes(queue[j].op, g)
    BY <1>3 DEF Deletes
  <2> QED BY <1>1, <2>1, GatewayStays
<1> QED BY <1>2, <1>3

\* The writer, on SQLite and on Postgres.
LEMMA WriterKeepsRegistry ==
  ASSUME ReplicasTypeOK, RegistryInv, WriteBatch \/ WritePg
  PROVE  /\ RegistryInv'
         /\ mode # "both" /\ ~ rushed =>
              \A g \in Gateways : Primary.gateways[g] # Nothing =>
                \E h \in Gateways : Primary'.gateways[h] # Nothing
<1>1. OrderOK /\ RegistryFollows /\ RulesFollow /\ OneStays /\ PendingOK
      /\ lite \in Database /\ pg \in Database /\ queue \in Seq(Queued)
      /\ mirrors \in SUBSET Queued /\ DOMAIN queue = 1 .. Len(queue)
  BY DEF RegistryInv, ReplicasTypeOK, DatabasesOK, PendingOK
<1>2. queue' = << >> /\ Len(queue') = 0 /\ UNCHANGED <<mode, unchecked>>
  BY DEF WriteBatch, WritePg, fixed
<1>a. \A i \in 1 .. Len(queue), g \in Gateways :
        Deletes(queue[i].op, g) \/ Adds(queue[i].op, g) => g \in Touches(queue[i].op)
  BY DEF Adds, Deletes, Touches
<1>3. CASE WritePg
  <2>1. PICK how \in Courses :
          /\ \A i \in 1 .. Len(queue) : how[i] \in Outcomes(queue[i])
          /\ pg' = Written(pg, queue, how)
          /\ skewed' = skewed \cup
               UNION {Touches(queue[i].op) : i \in {j \in DOMAIN queue : how[j] = "half"}}
    BY <1>1, <1>3 DEF WritePg, Courses
  <2>2. mode = "pg" /\ UNCHANGED <<lite, mirrors>>
    BY <1>3 DEF WritePg, mirrorVars
  <2>3. \A i \in 1 .. Len(queue), g \in Gateways :
          how[i] = "half" /\ Deletes(queue[i].op, g) => g \in skewed'
    BY <1>1, <1>a, <2>1
  <2>4. Primary = pg /\ Primary' = pg'
    BY <1>2, <2>2 DEF Primary
  <2>5. RulesKnown(pg', (unchecked \cup skewed)')
    <3>1. PICK known, more : /\ known = unchecked \cup skewed
                             /\ more = (unchecked \cup skewed)'
      OBVIOUS
    <3>2. known \subseteq more /\ skewed' \subseteq more
      BY <1>2, <2>1, <3>1
    <3>3. RulesKnown(pg, more) /\ ReplacesKnown(pg, queue, 0, more)
      BY <1>1, <2>4, <3>1, <3>2 DEF RulesFollow, RulesKnown, ReplacesKnown
    <3>4. \A i \in 1 .. Len(queue), g \in Gateways :
            how[i] = "half" /\ Deletes(queue[i].op, g) => g \in more
      BY <2>3, <3>2
    <3>5. RulesKnown(Written(pg, queue, how), more)
      BY <1>1, <2>1, <3>3, <3>4, RulesOfBatch
    <3> QED BY <2>1, <3>1, <3>5
  <2>6. RegistryInv'
    BY <1>1, <1>2, <2>2, <2>4, <2>5
       DEF RegistryInv, OrderOK, InOrder, Ahead, RegistryFollows, RulesFollow,
           ReplacesKnown, OneStays
  <2> QED BY <2>1, <2>4, <2>6, BatchSparesOne
<1>4. CASE WriteBatch
  <2>1. PICK how \in Courses, committed \in BOOLEAN :
          /\ \A i \in DOMAIN queue : how[i] \in Outcomes(queue[i])
          /\ lite' = IF committed THEN Written(lite, queue, how) ELSE lite
          /\ mirrors' = IF mode = "both"
                        THEN mirrors \cup {queue[i] : i \in Mirrored(how)}
                        ELSE mirrors
          /\ skewed' = skewed \cup
               UNION {Touches(queue[i].op) :
                        i \in IF committed THEN {i \in DOMAIN queue : how[i] = "half"}
                             ELSE {j \in DOMAIN queue : how[j] = "done"}}
    BY <1>1, <1>4 DEF WriteBatch, Courses
  <2>2. mode # "pg" /\ pg' = pg /\ \A i \in 1 .. Len(queue) : how[i] \in Outcomes(queue[i])
    BY <1>1, <1>4, <2>1 DEF WriteBatch
  <2>3. Primary = lite /\ Primary' = lite'
    BY <1>2, <2>2 DEF Primary
  <2>4. OrderOK' /\ OneStays'
    BY <1>1, <1>2, <2>1 DEF OrderOK, InOrder, Ahead, OneStays
  <2>5. committed => \A i \in 1 .. Len(queue), g \in Gateways :
          how[i] = "half" /\ Deletes(queue[i].op, g) => g \in skewed'
    BY <1>1, <1>a, <2>1
  <2>6. RulesFollow'
    <3>1. PICK known, more : /\ known = unchecked \cup skewed
                             /\ more = (unchecked \cup skewed)'
      OBVIOUS
    <3>2. known \subseteq more
      BY <1>2, <2>1, <3>1
    <3>3. RulesKnown(lite, more) /\ ReplacesKnown(lite, queue, 0, more)
      BY <1>1, <2>3, <3>1, <3>2 DEF RulesFollow, RulesKnown, ReplacesKnown
    <3>4. RulesKnown(lite', more)
      <4>1. CASE committed
        <5>1. \A i \in 1 .. Len(queue), g \in Gateways :
                how[i] = "half" /\ Deletes(queue[i].op, g) => g \in more
          BY <2>5, <3>1, <4>1
        <5>2. RulesKnown(Written(lite, queue, how), more)
          BY <1>1, <2>2, <3>3, <5>1, RulesOfBatch
        <5> QED BY <2>1, <4>1, <5>2
      <4>2. CASE ~ committed
        BY <2>1, <3>3, <4>2
      <4> QED BY <4>1, <4>2
    <3> QED BY <1>2, <2>3, <3>1, <3>4 DEF RulesFollow, ReplacesKnown
  <2>7. RegistryFollows'
    <3> SUFFICES ASSUME mode = "both", NEW g \in Gateways \ skewed'
                 PROVE  RowFollows(lite'.gateways[g] # Nothing, pg.gateways[g] # Nothing,
                                   mirrors', g)
      BY <1>2, <2>2 DEF RegistryFollows
    <3>1. RowFollows(lite.gateways[g] # Nothing, pg.gateways[g] # Nothing, mirrors, g)
      BY <1>1, <2>1 DEF RegistryFollows
    <3>2. mirrors' = Tasks(mirrors, queue, how, Len(queue))
      BY <1>1, <2>1 DEF Tasks, Mirrored, Courses
    <3>3. CASE committed
      <4>1. \A i \in 1 .. Len(queue) : how[i] = "half" => ~ Deletes(queue[i].op, g)
        BY <2>5, <3>3
      <4>2. PICK inPg \in BOOLEAN : inPg = (pg.gateways[g] # Nothing)
        OBVIOUS
      <4>3. InOrder(queue) /\ Ahead(mirrors, queue)
        BY <1>1 DEF OrderOK
      <4>4. RowFollows(Written(lite, queue, how).gateways[g] # Nothing, inPg,
                       Tasks(mirrors, queue, how, Len(queue)), g)
        <5>1. RowFollows(lite.gateways[g] # Nothing, inPg, mirrors, g)
          BY <3>1, <4>2
        <5>2. g \in Gateways
          OBVIOUS
        <5> QED BY <1>1, <2>2, <4>1, <4>3, <5>1, <5>2, FollowsBatch
      <4> QED BY <2>1, <3>2, <3>3, <4>2, <4>4
    <3>4. CASE ~ committed
      <4>1. \A m \in mirrors' : Adds(m.op, g) \/ Deletes(m.op, g) => m \in mirrors
        BY <1>1, <1>a, <2>1, <3>4 DEF Mirrored, Courses
      <4>2. lite' = lite /\ mirrors \subseteq mirrors'
        BY <2>1, <3>4
      <4> QED BY <3>1, <4>1, <4>2 DEF RowFollows
    <3> QED BY <3>3, <3>4
  <2>8. mode # "both" /\ ~ rushed =>
          \A g \in Gateways : Primary.gateways[g] # Nothing =>
            \E h \in Gateways : Primary'.gateways[h] # Nothing
    BY <2>1, <2>2, <2>3, BatchSparesOne
  <2> QED BY <2>4, <2>6, <2>7, <2>8 DEF RegistryInv
<1> QED BY <1>3, <1>4

\* The tasks of a batch, one by one.
LEMMA TasksOfBatch ==
  ASSUME NEW batch \in Seq(Queued), NEW n \in 1 .. Len(batch), NEW how,
         NEW tasks \in SUBSET Queued, InOrder(batch), Ahead(tasks, batch),
         OneAtATime(tasks)
  PROVE  /\ OneAtATime(Tasks(tasks, batch, how, n))
         /\ OneAtATime(Tasks(tasks, batch, how, n - 1))
         /\ Tasks(tasks, batch, how, n - 1) \subseteq Queued
         /\ Tasks(tasks, batch, how, n) =
              IF how[n] = "done" THEN Tasks(tasks, batch, how, n - 1) \cup {batch[n]}
                                 ELSE Tasks(tasks, batch, how, n - 1)
         /\ \A m \in Tasks(tasks, batch, how, n - 1) :
              \/ m.at < batch[n].at
              \/ m.op.kind \notin JournalOps /\ batch[n].op.kind \in JournalOps
<1>1. Len(batch) \in Nat /\ n \in Nat /\ \A i \in 1 .. Len(batch) : batch[i] \in Queued
  OBVIOUS
<1>2. \A m \in tasks : m.at \in Nat
  BY DEF Queued
<1>3. \A i \in 1 .. Len(batch) : batch[i].at \in Nat
  BY <1>1 DEF Queued
<1>4. ASSUME NEW k \in 0 .. Len(batch)
      PROVE  OneAtATime(Tasks(tasks, batch, how, k))
  <2> SUFFICES ASSUME NEW m \in Tasks(tasks, batch, how, k),
                      NEW e \in Tasks(tasks, batch, how, k), m.at = e.at
               PROVE  m = e \/ (m.op.kind \in JournalOps <=> e.op.kind \notin JournalOps)
    BY DEF OneAtATime
  <2>1. \A d \in Tasks(tasks, batch, how, k) :
          d \in tasks \/ \E i \in 1 .. Len(batch) : d = batch[i]
    BY <1>1 DEF Tasks
  <2>2. CASE m \in tasks /\ e \in tasks
    BY <2>2 DEF OneAtATime
  <2>3. CASE m \in tasks /\ e \notin tasks
    BY <1>2, <1>3, <2>1, <2>3 DEF Ahead
  <2>4. CASE m \notin tasks /\ e \in tasks
    BY <1>2, <1>3, <2>1, <2>4 DEF Ahead
  <2>5. CASE m \notin tasks /\ e \notin tasks
    <3>1. PICK i, j \in 1 .. Len(batch) : m = batch[i] /\ e = batch[j]
      BY <2>1, <2>5
    <3>2. CASE i = j
      BY <3>1, <3>2
    <3>3. CASE i < j
      BY <1>3, <3>1, <3>3 DEF InOrder
    <3>4. CASE j < i
      BY <1>3, <3>1, <3>4 DEF InOrder
    <3> QED BY <3>2, <3>3, <3>4
  <2> QED BY <2>2, <2>3, <2>4, <2>5
<1>5. ASSUME NEW m \in Tasks(tasks, batch, how, n - 1)
      PROVE  /\ m \in Queued
             /\ \/ m.at < batch[n].at
                \/ m.op.kind \notin JournalOps /\ batch[n].op.kind \in JournalOps
  <2>1. CASE m \in tasks
    BY <2>1 DEF Ahead
  <2>2. CASE m \notin tasks
    <3>1. PICK i \in 1 .. n - 1 : m = batch[i]
      BY <2>2 DEF Tasks
    <3>2. i \in 1 .. Len(batch) /\ i < n
      BY <1>1
    <3> QED BY <1>1, <3>1, <3>2 DEF InOrder
  <2> QED BY <2>1, <2>2
<1>6. n \in 0 .. Len(batch) /\ n - 1 \in 0 .. Len(batch)
  BY <1>1
<1>7. Tasks(tasks, batch, how, n) =
        IF how[n] = "done" THEN Tasks(tasks, batch, how, n - 1) \cup {batch[n]}
                           ELSE Tasks(tasks, batch, how, n - 1)
  BY <1>1 DEF Tasks
<1> QED BY <1>4, <1>5, <1>6, <1>7

\* What the mirrors on their way have left to do.
LEMMA MirrorsInit == ASSUME ReplicasInit PROVE MirrorsInv
BY DEF ReplicasInit, MirrorsInv, OneAtATime

LEMMA EndKeepsMirrors ==
  ASSUME ReplicasTypeOK, MirrorsInv, NEW m \in mirrors,
         mirrors' = mirrors \ {m}, begun' = begun \ {m}, pg' = Rest(pg, m),
         skewed' = skewed \cup Overtaken(m), NEW n \in begun, n # m
  PROVE  HalfRun(pg, n.op)'
<1>1. PendingOK /\ pg \in Database /\ m \in Queued /\ m.op \in Operations
      /\ n \in mirrors /\ n \in Queued /\ n.op \in Operations
      /\ n.op.kind \in TwoStatements
  BY PendingRows DEF ReplicasTypeOK, DatabasesOK, PendingOK
<1>2. HalfRun(pg, n.op) /\ Overtaken(n) \subseteq skewed
  BY DEF MirrorsInv
<1>3. PICK y : y = PgDispatch(pg, m.op)
  OBVIOUS
<1>4. SameTables(pg', y) /\ RegistryAfter(y, pg, m.op)
  BY <1>1, <1>3, RestIsDispatch, ArmsOfRegistry
\* A row both touch is overtaken by one or the other.
<1>5. ASSUME NEW row \in Touches(m.op), row \in Touches(n.op), m.op.kind \in MeshOps
      PROVE  row \in skewed'
  <2>1. m.at \in Nat /\ n.at \in Nat
    BY <1>1 DEF Queued
  <2>2. ~ Commute(m.op, n.op) /\ ~ Commute(n.op, m.op)
        /\ m.op.kind \notin JournalOps /\ n.op.kind \notin JournalOps
    BY <1>1, <1>5 DEF Commute, TwoStatements, MeshOps, JournalOps
  <2>3. m.at # n.at
    BY <1>1, <2>2 DEF MirrorsInv, OneAtATime
  <2>4. CASE m.at < n.at
    <3>1. row \in Overtaken(n)
      BY <1>5, <2>2, <2>4 DEF Overtaken
    <3> QED BY <1>2, <3>1
  <2>5. CASE n.at < m.at
    <3>1. row \in Overtaken(m)
      BY <1>1, <1>5, <2>2, <2>5 DEF Overtaken
    <3> QED BY <3>1
  <2> QED BY <2>1, <2>3, <2>4, <2>5
<1>6. ASSUME n.op.kind = "gw_registry_delete", n.op.key \notin skewed'
      PROVE  pg'.gateways[n.op.key] = Nothing
  <2>1. PICK g \in Gateways : g = n.op.key
    BY <1>1, <1>6, MeshOpIs DEF MeshOps
  <2>2. g \in Touches(n.op) /\ pg.gateways[g] = Nothing /\ g \notin skewed
    BY <1>2, <1>6, <2>1 DEF Touches, HalfRun
  <2>3. ~ Adds(m.op, g)
    <3>1. SUFFICES ASSUME Adds(m.op, g) PROVE FALSE
      OBVIOUS
    <3>2. g \in Touches(m.op) /\ m.op.kind \in MeshOps
      BY <3>1 DEF Adds, Touches, MeshOps
    <3> QED BY <1>5, <1>6, <2>1, <2>2, <3>2
  <2>4. y.gateways[g] = Nothing
    BY <1>4, <2>2, <2>3 DEF RegistryAfter
  <2> QED BY <1>4, <2>1, <2>2, <2>4 DEF SameTables
<1>7. ASSUME n.op.kind = "gw_distribution_replace", "rules" \notin skewed'
      PROVE  pg'.rules = {}
  <2>1. "rules" \in Touches(n.op) /\ pg.rules = {} /\ "rules" \notin skewed
    BY <1>2, <1>7 DEF Touches, HalfRun
  <2>2. m.op.kind # "gw_distribution_replace"
    <3>1. SUFFICES ASSUME m.op.kind = "gw_distribution_replace" PROVE FALSE
      OBVIOUS
    <3>2. "rules" \in Touches(m.op) /\ m.op.kind \in MeshOps
      BY <3>1 DEF Touches, MeshOps
    <3> QED BY <1>5, <1>7, <2>1, <3>2
  <2>3. y.rules = {}
    BY <1>4, <2>1, <2>2 DEF RegistryAfter, Without
  <2> QED BY <1>4, <2>1, <2>3 DEF SameTables
<1> QED BY <1>6, <1>7 DEF HalfRun

LEMMA MirrorsStep ==
  ASSUME ReplicasTypeOK, OrderOK, MirrorsInv, [ReplicasNext]_replicasVars
  PROVE  MirrorsInv'
<1>0. PendingOK /\ pg \in Database /\ queue \in Seq(Queued) /\ mirrors \in SUBSET Queued
      /\ begun \subseteq mirrors /\ DOMAIN queue = 1 .. Len(queue) /\ Len(queue) \in Nat
      /\ OneAtATime(mirrors) /\ InOrder(queue) /\ Ahead(mirrors, queue)
      /\ \A m \in begun : Overtaken(m) \subseteq skewed /\ HalfRun(pg, m.op)
  BY DEF ReplicasTypeOK, DatabasesOK, PendingOK, OrderOK, MirrorsInv
<1>1. ASSUME UNCHANGED <<mirrors, begun>>, skewed \subseteq skewed',
             begun = {} \/ (pg'.gateways = pg.gateways /\ pg'.rules = pg.rules)
      PROVE  MirrorsInv'
  <2>1. \A m \in begun : Overtaken(m)' = Overtaken(m)
    BY <1>1 DEF Overtaken
  <2>2. \A m \in begun : HalfRun(pg, m.op)'
    BY <1>0, <1>1 DEF HalfRun
  <2> QED BY <1>0, <1>1, <2>1, <2>2 DEF MirrorsInv
<1>2. CASE Write \/ Registry \/ Enrol
  <2>1. PICK op \in Operations : Asked(op)
    BY <1>2, RequestsAsk
  <2>2. UNCHANGED <<pg, mirrors, begun, skewed>>
    BY <2>1 DEF Asked, Enqueue, mirrorVars
  <2> QED BY <1>1, <2>2
<1>3. CASE SaveOrder
  <2>1. PICK s \in Signals, n \in Orders, reached \in BOOLEAN :
          StoreOrder(<<knownAs, s>>, n, reached)
    BY <1>3 DEF SaveOrder
  <2>2. PICK row : row = <<knownAs, s>>
    OBVIOUS
  <2>3. pg' = [pg EXCEPT !.orders[row] = n] \/ pg' = pg
    BY <2>1, <2>2 DEF StoreOrder
  <2>4. pg'.gateways = pg.gateways /\ pg'.rules = pg.rules
    BY <1>0, <2>3 DEF Database
  <2>5. UNCHANGED <<mirrors, begun, skewed>>
    BY <1>3 DEF SaveOrder, mirrorVars
  <2> QED BY <1>1, <2>4, <2>5
<1>4. CASE WriteBatch
  <2>1. PICK how \in Courses :
          mirrors' = IF mode = "both" THEN mirrors \cup {queue[i] : i \in Mirrored(how)}
                                      ELSE mirrors
    BY <1>4 DEF WriteBatch
  <2>2. UNCHANGED <<pg, begun>> /\ skewed \subseteq skewed'
    BY <1>4 DEF WriteBatch
  <2>3. mirrors' = Tasks(mirrors, queue, how, Len(queue)) \/ mirrors' = mirrors
    BY <1>0, <2>1 DEF Tasks, Mirrored, Courses
  <2>4. OneAtATime(mirrors')
    <3>1. CASE Len(queue) = 0
      <4>1. Tasks(mirrors, queue, how, Len(queue)) = mirrors
        BY <3>1 DEF Tasks
      <4> QED BY <1>0, <2>3, <4>1
    <3>2. CASE Len(queue) # 0
      <4>1. Len(queue) \in 1 .. Len(queue)
        BY <1>0, <3>2
      <4>2. OneAtATime(Tasks(mirrors, queue, how, Len(queue)))
        BY <1>0, <4>1, TasksOfBatch
      <4> QED BY <1>0, <2>3, <4>2
    <3> QED BY <3>1, <3>2
  <2>5. ASSUME NEW m \in begun
        PROVE  Overtaken(m)' \subseteq Overtaken(m)
    <3>1. ASSUME NEW f \in mirrors', f.at < m.at
          PROVE  f \in mirrors
      <4>1. f \in mirrors \/ \E i \in 1 .. Len(queue) : f = queue[i]
        BY <1>0, <2>1 DEF Mirrored, Courses
      <4>2. ASSUME NEW i \in 1 .. Len(queue), f = queue[i]
            PROVE  FALSE
        <5>1. m \in mirrors /\ queue[i] \in Queued /\ m \in Queued
          BY <1>0
        <5>2. m.at < queue[i].at /\ m.at \in Nat /\ queue[i].at \in Nat
          BY <1>0, <5>1 DEF Ahead, Queued
        <5> QED BY <3>1, <4>2, <5>2
      <4> QED BY <4>1, <4>2
    <3> QED BY <3>1 DEF Overtaken
  <2>6. \A m \in begun : HalfRun(pg, m.op)'
    BY <1>0, <2>2 DEF HalfRun
  <2> QED BY <1>0, <2>2, <2>4, <2>5, <2>6 DEF MirrorsInv
<1>5. CASE WritePg \/ Import \/ Export
  <2>1. mirrors = {} /\ UNCHANGED <<mirrors, begun>> /\ skewed \subseteq skewed'
    BY <1>5 DEF WritePg, Import, Export, OrderOK, mirrorVars, historyVars
  <2> QED BY <1>0, <1>1, <2>1
<1>6. CASE MirrorBegins
  <2>1. PICK m \in mirrors :
          /\ m.op.kind \in TwoStatements /\ begun' = begun \cup {m}
          /\ pg' = PgBegun(pg, m.op) /\ skewed' = skewed \cup Overtaken(m)
          /\ UNCHANGED mirrors
    BY <1>6 DEF MirrorBegins
  <2>2. HalfOf(pg', pg, m.op)
    BY <1>0, <2>1, PendingRows, HalvesAre
  <2>3. ASSUME NEW n \in begun'
        PROVE  Overtaken(n)' \subseteq skewed' /\ HalfRun(pg, n.op)'
    <3>1. n \in mirrors /\ n.op \in Operations
      BY <1>0, <2>1, <2>3, PendingRows
    <3>2. n.op.kind = "gw_registry_delete" => n.op.key \in Gateways
      BY <3>1, MeshOpIs DEF MeshOps
    <3>3. Overtaken(n)' = Overtaken(n)
      BY <2>1 DEF Overtaken
    <3>4. n # m => n \in begun
      BY <2>1, <2>3
    <3>5. Overtaken(n)' \subseteq skewed'
      BY <1>0, <2>1, <3>3, <3>4
    <3>6. CASE n = m
      BY <2>2, <3>2, <3>5, <3>6 DEF HalfOf, HalfRun, Deletes
    <3>7. CASE n # m
      <4>1. HalfRun(pg, n.op) /\ skewed \subseteq skewed'
        BY <1>0, <2>1, <3>4, <3>7
      <4>2. ASSUME n.op.kind = "gw_registry_delete"
            PROVE  n.op.key \in skewed' \/ pg'.gateways[n.op.key] = Nothing
        <5>1. PICK g \in Gateways : g = n.op.key
          BY <3>2, <4>2
        <5>2. pg'.gateways[g] = Nothing \/ pg'.gateways[g] = pg.gateways[g]
          BY <2>2 DEF HalfOf
        <5> QED BY <4>1, <4>2, <5>1, <5>2 DEF HalfRun
      <4>3. ASSUME n.op.kind = "gw_distribution_replace"
            PROVE  "rules" \in skewed' \/ pg'.rules = {}
        BY <2>2, <4>1, <4>3 DEF HalfOf, HalfRun
      <4> QED BY <3>5, <4>2, <4>3 DEF HalfRun
    <3> QED BY <3>5, <3>6, <3>7
  <2> QED BY <1>0, <2>1, <2>3 DEF MirrorsInv
<1>7. CASE Mirror
  <2>1. PICK m \in mirrors, reached \in BOOLEAN :
          /\ mirrors' = mirrors \ {m} /\ begun' = begun \ {m}
          /\ pg' = IF reached THEN Rest(pg, m) ELSE pg
          /\ skewed' = skewed \cup (IF reached THEN Overtaken(m) ELSE Touches(m.op))
    BY <1>7 DEF Mirror
  <2>2. ASSUME NEW n \in begun'
        PROVE  Overtaken(n)' \subseteq skewed' /\ HalfRun(pg, n.op)'
    <3>1. n \in begun /\ n # m
      BY <2>1, <2>2
    <3>2. Overtaken(n)' \subseteq Overtaken(n)
      BY <2>1 DEF Overtaken
    <3>3. CASE reached
      <4>1. pg' = Rest(pg, m) /\ skewed' = skewed \cup Overtaken(m)
        BY <2>1, <3>3
      <4> QED BY <1>0, <2>1, <3>1, <3>2, <4>1, EndKeepsMirrors
    <3>4. CASE ~ reached
      <4>1. HalfRun(pg, n.op)'
        BY <1>0, <2>1, <3>1, <3>4 DEF HalfRun
      <4> QED BY <1>0, <2>1, <3>1, <3>2, <4>1
    <3> QED BY <3>3, <3>4
  <2>3. OneAtATime(mirrors')
    BY <1>0, <2>1 DEF OneAtATime
  <2> QED BY <2>2, <2>3 DEF MirrorsInv
<1>8. CASE Crash
  BY <1>8 DEF Crash, MirrorsInv, OneAtATime
<1>9. CASE Restore
  BY <1>1, <1>9 DEF Restore, Enqueue, mirrorVars
<1>10. CASE SaveArchive \/ UNCHANGED replicasVars
  <2>1. UNCHANGED <<pg, mirrors, begun, skewed>>
    BY <1>10 DEF SaveArchive, replicasVars, mirrorVars, historyVars
  <2> QED BY <1>1, <2>1
<1> QED BY <1>2, <1>3, <1>4, <1>5, <1>6, <1>7, <1>8, <1>9, <1>10 DEF ReplicasNext

LEMMA RegistryInit == ASSUME ReplicasInit PROVE RegistryInv
<1>1. queue = << >> /\ Len(queue) = 0 /\ mirrors = {} /\ pg = lite
      /\ family \in Families /\ lite \in Starts[family]
  BY DEF ReplicasInit
<1>2. Primary = lite
  BY <1>1 DEF Primary
<1>3. RulesKnown(lite, unchecked \cup skewed)
  BY <1>1, StartsAssumption DEF RulesKnown
<1> QED BY <1>1, <1>2, <1>3
        DEF RegistryInv, OrderOK, InOrder, Ahead, RegistryFollows, RowFollows, RulesFollow,
            ReplacesKnown, OneStays

LEMMA RegistryStep ==
  ASSUME ReplicasTypeOK, MirrorsInv, RegistryInv, [ReplicasNext]_replicasVars
  PROVE  /\ RegistryInv'
         /\ mode # "both" /\ ~ rushed =>
              \A g \in Gateways : Primary.gateways[g] # Nothing =>
                \E h \in Gateways : Primary'.gateways[h] # Nothing
<1>1. CASE Write \/ Registry \/ Enrol
  <2>1. PICK op \in Operations : Asked(op)
    BY <1>1, RequestsAsk
  <2>2. RegistryInv'
    BY <2>1, RequestKeepsRegistry
  <2>3. UNCHANGED <<lite, pg, mode>>
    BY <2>1 DEF Asked, Enqueue, fixed
  <2> QED BY <2>2, <2>3 DEF Primary
<1>2. CASE WriteBatch \/ WritePg
  BY <1>2, WriterKeepsRegistry
<1>3. CASE Mirror \/ MirrorBegins
  BY <1>3, MirrorKeepsRegistry, MirrorBeginsKeepsRegistry DEF Grown
<1>4. CASE Crash
  BY <1>4, CrashKeepsRegistry DEF Grown
<1>5. CASE Restore
  BY <1>5, RestoreKeepsRegistry DEF Grown
<1>6. CASE SaveArchive \/ SaveOrder \/ Import \/ Export \/ UNCHANGED replicasVars
  BY <1>6, CopyKeepsRegistry DEF Grown
<1> QED BY <1>1, <1>2, <1>3, <1>4, <1>5, <1>6 DEF ReplicasNext

\* Distribution rules name registered gateways, although each was checked against
\* what the database said before the queue: the others are rules asked for while the
\* deletion of their gateway was queued, rules of an archive, and those of a
\* gateway that an accident has set apart in the two databases.
THEOREM RulesFollowRegistry == ReplicasSpec => []RulesNameGateways
<1>1. ReplicasInit => ReplicasTypeOK /\ MirrorsInv /\ RegistryInv
  BY ReplicasTypeInit, MirrorsInit, RegistryInit
<1>2. ReplicasTypeOK /\ MirrorsInv /\ RegistryInv /\ [ReplicasNext]_replicasVars
        => ReplicasTypeOK' /\ MirrorsInv' /\ RegistryInv'
  BY ReplicasTypeStep, MirrorsStep, RegistryStep DEF RegistryInv
<1>3. RegistryInv => RulesNameGateways
  BY DEF RegistryInv, RulesFollow, RulesKnown, RulesNameGateways
<1> QED BY <1>1, <1>2, <1>3, PTL DEF ReplicasSpec

\* With one database the registry is never emptied, unless two deletions were
\* accepted before either was written.
THEOREM RegistryKeepsOne == ReplicasSpec => LastGatewayStays
<1>1. ReplicasInit => ReplicasTypeOK /\ MirrorsInv /\ RegistryInv
  BY ReplicasTypeInit, MirrorsInit, RegistryInit
<1>2. ReplicasTypeOK /\ MirrorsInv /\ RegistryInv /\ [ReplicasNext]_replicasVars
        => ReplicasTypeOK' /\ MirrorsInv' /\ RegistryInv'
  BY ReplicasTypeStep, MirrorsStep, RegistryStep DEF RegistryInv
<1>3. ReplicasTypeOK /\ MirrorsInv /\ RegistryInv /\ [ReplicasNext]_replicasVars
        => [(/\ mode # "both"
             /\ \E g \in Gateways : Primary.gateways[g] # Nothing
             /\ \A g \in Gateways : Primary'.gateways[g] = Nothing)
            => rushed]_replicasVars
  BY RegistryStep
<1> QED BY <1>1, <1>2, <1>3, PTL DEF ReplicasSpec, LastGatewayStays

-----------------------------------------------------------------------------
(*****************************************************************************)
(* Replicas: what the two databases hold of a row                            *)
(*****************************************************************************)

\* The rows of the tables, each with its table; rules and journal count as one.
Cells ==
  ({"settings"} \X Keys) \cup ({"accounts"} \X Users) \cup ({"sessions"} \X Sids)
  \cup ({"bans"} \X Addresses) \cup ({"gateways"} \X Gateways)
  \cup {<<"rules", "rules">>, <<"journal", "journal">>}

\* The operations that change a table.
OpsOn(table) ==
  CASE table = "settings" -> SettingOps
    [] table = "accounts" -> AccountOps
    [] table = "sessions" -> SessionOps
    [] table = "bans"     -> BanOps
    [] table = "gateways" -> MeshOps \ {"gw_distribution_replace"}
    [] table = "rules"    -> TwoStatements
    [] table = "journal"  -> JournalOps

Bears(op, c) == op.kind \in OpsOn(c[1]) /\ (c[1] = "rules" \/ c[2] = op.key)

\* What both databases should hold of a gateway.
Told(row) == IF row = Nothing THEN << >> ELSE <<row.public, row.local, row.status>>

ValueOf(db, c) ==
  CASE c[1] = "settings" -> db.settings[c[2]]
    [] c[1] = "accounts" -> db.accounts[c[2]]
    [] c[1] = "sessions" -> db.sessions[c[2]]
    [] c[1] = "bans"     -> db.bans[c[2]]
    [] c[1] = "gateways" -> Told(db.gateways[c[2]])
    [] c[1] = "rules"    -> db.rules
    [] c[1] = "journal"  -> db.journal

\* What an operation that bears on a cell makes of its value.
EffectOnAccount(op, v) ==
  CASE op.kind = "user_create" -> [password |-> op.password, totp |-> FALSE]
    [] op.kind = "user_update" -> Patched(v, op.patch)
    [] op.kind = "user_delete" -> Nothing
EffectOnGateway(op, v) ==
  CASE op.kind = "gw_registry_add"    -> Told(Registered(op))
    [] op.kind = "gw_registry_delete" -> << >>
    [] op.kind = "gw_registry_update" ->
         IF v = << >> THEN << >>
         ELSE <<IF "public" \in DOMAIN op.patch THEN op.patch.public ELSE v[1],
                v[2],
                IF "status" \in DOMAIN op.patch THEN op.patch.status ELSE v[3]>>
Effect(c, op, v) ==
  CASE c[1] = "settings" -> IF op.kind = "set_config" THEN op.value ELSE Nothing
    [] c[1] = "accounts" -> EffectOnAccount(op, v)
    [] c[1] = "sessions" -> IF op.kind = "user_session_create" THEN "active"
                            ELSE IF v = Nothing THEN Nothing ELSE "revoked"
    [] c[1] = "bans"     -> IF op.kind = "ip_ban" THEN Later(v, op.until) ELSE 0
    [] c[1] = "gateways" -> EffectOnGateway(op, v)
    [] c[1] = "rules"    -> LiteRules(v, op)
    [] c[1] = "journal"  -> v + 1

\* Accounts are created where there is none, or none with a second factor, and
\* sessions once: there the two databases do the same.
Alike(op, c, v) ==
  Bears(op, c) =>
    /\ op.kind = "user_create" => v = Nothing \/ v.totp = FALSE
    /\ op.kind = "user_session_create" => v = Nothing

\* x holds in c what an operation leaves of db.
CellAfter(x, db, op, c) ==
  ValueOf(x, c) = IF Bears(op, c) THEN Effect(c, op, ValueOf(db, c)) ELSE ValueOf(db, c)

LEMMA CellIs ==
  ASSUME NEW c \in Cells
  PROVE  \/ c[1] = "settings" /\ c[2] \in Keys
         \/ c[1] = "accounts" /\ c[2] \in Users
         \/ c[1] = "sessions" /\ c[2] \in Sids
         \/ c[1] = "bans" /\ c[2] \in Addresses
         \/ c[1] = "gateways" /\ c[2] \in Gateways
         \/ c[1] = "rules" /\ c[2] = "rules"
         \/ c[1] = "journal" /\ c[2] = "journal"
  BY DEF Cells

LEMMA SettingCell ==
  ASSUME NEW db \in Database, NEW op \in Operations, NEW c \in Cells, c[1] = "settings"
  PROVE  CellAfter(LiteApply(db, op), db, op, c) /\ CellAfter(PgDispatch(db, op), db, op, c)
<1>1. PICK x, y : x = LiteApply(db, op) /\ y = PgDispatch(db, op)
  OBVIOUS
<1>2. c[2] \in Keys
  BY CellIs
<1>3. /\ x.settings = IF op.kind \in SettingOps THEN LiteSetting(db.settings, op)
                                                ELSE db.settings
      /\ y.settings = IF op.kind \in SettingOps THEN PgSetting(db.settings, op)
                                                ELSE db.settings
  BY <1>1, TablesAfterArms DEF TablesAfter
<1>4. ValueOf(x, c) = x.settings[c[2]] /\ ValueOf(y, c) = y.settings[c[2]]
      /\ ValueOf(db, c) = db.settings[c[2]]
  BY DEF ValueOf
<1>5. Bears(op, c) <=> op.kind \in SettingOps /\ c[2] = op.key
  BY DEF Bears, OpsOn, SettingOps
<1>6. DOMAIN db.settings = Keys
  BY DEF Database
<1>7. CASE op.kind \in SettingOps
  BY <1>1, <1>2, <1>3, <1>4, <1>5, <1>6, <1>7, SettingOpIs
     DEF CellAfter, Effect, LiteSetting, PgSetting
<1>8. CASE op.kind \notin SettingOps
  BY <1>1, <1>3, <1>4, <1>5, <1>8 DEF CellAfter
<1> QED BY <1>7, <1>8

LEMMA AccountCell ==
  ASSUME NEW db \in Database, NEW op \in Operations, NEW c \in Cells, c[1] = "accounts"
  PROVE  /\ CellAfter(LiteApply(db, op), db, op, c)
         /\ Alike(op, c, ValueOf(db, c)) => CellAfter(PgDispatch(db, op), db, op, c)
<1>1. PICK x, y : x = LiteApply(db, op) /\ y = PgDispatch(db, op)
  OBVIOUS
<1>2. c[2] \in Users
  BY CellIs
<1>3. /\ x.accounts = IF op.kind \in AccountOps THEN LiteAccount(db.accounts, op)
                                                ELSE db.accounts
      /\ y.accounts = IF op.kind \in AccountOps THEN PgAccount(db.accounts, op)
                                                ELSE db.accounts
  BY <1>1, TablesAfterArms DEF TablesAfter
<1>4. ValueOf(x, c) = x.accounts[c[2]] /\ ValueOf(y, c) = y.accounts[c[2]]
      /\ ValueOf(db, c) = db.accounts[c[2]]
  BY DEF ValueOf
<1>5. Bears(op, c) <=> op.kind \in AccountOps /\ c[2] = op.key
  BY DEF Bears, OpsOn, AccountOps
<1>6. DOMAIN db.accounts = Users /\ db.accounts[c[2]] \in AccountRow \cup {Nothing}
  BY <1>2 DEF Database
<1>7. CASE op.kind \in AccountOps /\ c[2] = op.key
  <2>1. PICK v : v = db.accounts[c[2]]
    OBVIOUS
  <2>2. LiteAccount(db.accounts, op)[c[2]] = EffectOnAccount(op, v)
    BY <1>2, <1>6, <1>7, <2>1 DEF LiteAccount, EffectOnAccount, AccountOps
  <2>3. Effect(c, op, v) = EffectOnAccount(op, v)
    BY DEF Effect
  <2>4. ASSUME Alike(op, c, v)
        PROVE  PgAccount(db.accounts, op)[c[2]] = EffectOnAccount(op, v)
    <3>1. CASE op.kind = "user_create"
      <4>1. PICK f : f = (v # Nothing /\ v.totp)
        OBVIOUS
      <4>2. f = FALSE
        BY <1>5, <1>7, <2>4, <3>1, <4>1 DEF Alike
      <4>3. PgAccount(db.accounts, op)[c[2]] = [password |-> op.password, totp |-> f]
        BY <1>2, <1>6, <1>7, <2>1, <3>1, <4>1 DEF PgAccount
      <4> QED BY <3>1, <4>2, <4>3 DEF EffectOnAccount
    <3>2. CASE op.kind # "user_create"
      BY <1>2, <1>6, <1>7, <2>1, <3>2 DEF PgAccount, EffectOnAccount, AccountOps
    <3> QED BY <3>1, <3>2
  <2> QED BY <1>1, <1>3, <1>4, <1>5, <1>7, <2>1, <2>2, <2>3, <2>4 DEF CellAfter
<1>8. CASE op.kind \in AccountOps /\ c[2] # op.key
  <2>1. op.key \in Users
    BY <1>8, AccountOpIs
  <2> QED BY <1>1, <1>2, <1>3, <1>4, <1>5, <1>6, <1>8, <2>1
          DEF CellAfter, LiteAccount, PgAccount
<1>9. CASE op.kind \notin AccountOps
  BY <1>1, <1>3, <1>4, <1>5, <1>9 DEF CellAfter
<1> QED BY <1>7, <1>8, <1>9

LEMMA SessionCell ==
  ASSUME NEW db \in Database, NEW op \in Operations, NEW c \in Cells, c[1] = "sessions"
  PROVE  /\ CellAfter(LiteApply(db, op), db, op, c)
         /\ Alike(op, c, ValueOf(db, c)) => CellAfter(PgDispatch(db, op), db, op, c)
<1>1. PICK x, y : x = LiteApply(db, op) /\ y = PgDispatch(db, op)
  OBVIOUS
<1>2. c[2] \in Sids
  BY CellIs
<1>3. /\ x.sessions = IF op.kind \in SessionOps THEN LiteSession(db.sessions, op)
                                                ELSE db.sessions
      /\ y.sessions = IF op.kind \in SessionOps THEN PgSession(db.sessions, op)
                                                ELSE db.sessions
  BY <1>1, TablesAfterArms DEF TablesAfter
<1>4. ValueOf(x, c) = x.sessions[c[2]] /\ ValueOf(y, c) = y.sessions[c[2]]
      /\ ValueOf(db, c) = db.sessions[c[2]]
  BY DEF ValueOf
<1>5. Bears(op, c) <=> op.kind \in SessionOps /\ c[2] = op.key
  BY DEF Bears, OpsOn, SessionOps
<1>6. DOMAIN db.sessions = Sids
  BY DEF Database
<1>7. CASE op.kind \in SessionOps /\ c[2] = op.key
  <2>1. PICK v : v = db.sessions[c[2]]
    OBVIOUS
  <2>2. LiteSession(db.sessions, op)[c[2]] = Effect(c, op, v)
    BY <1>2, <1>6, <1>7, <2>1 DEF LiteSession, Effect
  <2>3. ASSUME Alike(op, c, v)
        PROVE  PgSession(db.sessions, op)[c[2]] = Effect(c, op, v)
    BY <1>2, <1>5, <1>6, <1>7, <2>1, <2>3 DEF PgSession, Effect, Alike, SessionOps
  <2> QED BY <1>1, <1>3, <1>4, <1>5, <1>7, <2>1, <2>2, <2>3 DEF CellAfter
<1>8. CASE op.kind \in SessionOps /\ c[2] # op.key
  BY <1>1, <1>2, <1>3, <1>4, <1>5, <1>6, <1>8, SessionOpIs
     DEF CellAfter, LiteSession, PgSession
<1>9. CASE op.kind \notin SessionOps
  BY <1>1, <1>3, <1>4, <1>5, <1>9 DEF CellAfter
<1> QED BY <1>7, <1>8, <1>9

LEMMA BanCell ==
  ASSUME NEW db \in Database, NEW op \in Operations, NEW c \in Cells, c[1] = "bans"
  PROVE  CellAfter(LiteApply(db, op), db, op, c) /\ CellAfter(PgDispatch(db, op), db, op, c)
<1>1. PICK x, y : x = LiteApply(db, op) /\ y = PgDispatch(db, op)
  OBVIOUS
<1>2. c[2] \in Addresses
  BY CellIs
<1>3. /\ x.bans = IF op.kind \in BanOps THEN LiteBan(db.bans, op) ELSE db.bans
      /\ y.bans = IF op.kind \in BanOps THEN PgBan(db.bans, op) ELSE db.bans
  BY <1>1, TablesAfterArms DEF TablesAfter
<1>4. ValueOf(x, c) = x.bans[c[2]] /\ ValueOf(y, c) = y.bans[c[2]]
      /\ ValueOf(db, c) = db.bans[c[2]]
  BY DEF ValueOf
<1>5. Bears(op, c) <=> op.kind \in BanOps /\ c[2] = op.key
  BY DEF Bears, OpsOn, BanOps
<1>6. DOMAIN db.bans = Addresses
  BY DEF Database
<1>7. CASE op.kind \in BanOps
  BY <1>1, <1>2, <1>3, <1>4, <1>5, <1>6, <1>7, BanOpIs
     DEF CellAfter, Effect, LiteBan, PgBan
<1>8. CASE op.kind \notin BanOps
  BY <1>1, <1>3, <1>4, <1>5, <1>8 DEF CellAfter
<1> QED BY <1>7, <1>8

\* An update, of a row and of what both databases should hold of it.
LEMMA ToldOfPatched ==
  ASSUME NEW row \in GatewayRow \cup {Nothing}, NEW op, op.patch \in GatewayPatch,
         op.kind = "gw_registry_update"
  PROVE  Told(Patched(row, op.patch)) = EffectOnGateway(op, Told(row))
<1>1. CASE row = Nothing
  BY <1>1 DEF Told, Patched, EffectOnGateway
<1>2. CASE row # Nothing
  <2>1. PICK p : p = op.patch
    OBVIOUS
  <2>2. row \in GatewayRow /\ p \in GatewayPatch /\ Patched(row, p) # Nothing
    BY <1>2, <2>1, PatchedGateway, NothingAssumption
  <2>3. Patched(row, p) =
          [c \in DOMAIN row |-> IF c \in DOMAIN p THEN p[c] ELSE row[c]]
    BY <1>2 DEF Patched
  <2>4. DOMAIN row = {"public", "private", "local", "status", "auto_apply"}
    BY <2>2 DEF GatewayRow
  <2>5. "local" \notin DOMAIN p
    BY <2>2 DEF GatewayPatch
  <2>6. /\ Patched(row, p).public = IF "public" \in DOMAIN p THEN p.public ELSE row.public
        /\ Patched(row, p).local = row.local
        /\ Patched(row, p).status = IF "status" \in DOMAIN p THEN p.status ELSE row.status
    BY <2>3, <2>4, <2>5
  <2>7. PICK new : new = Patched(row, p)
    OBVIOUS
  <2>8. Told(new) = <<new.public, new.local, new.status>>
        /\ Told(row) = <<row.public, row.local, row.status>>
    BY <1>2, <2>2, <2>7 DEF Told
  <2>9. Told(row) # << >> /\ Told(row)[1] = row.public /\ Told(row)[2] = row.local
        /\ Told(row)[3] = row.status
    BY <2>8
  <2> QED BY <2>1, <2>6, <2>7, <2>8, <2>9 DEF EffectOnGateway
<1> QED BY <1>1, <1>2

LEMMA GatewayCell ==
  ASSUME NEW db \in Database, NEW op \in Operations, NEW c \in Cells, c[1] = "gateways"
  PROVE  CellAfter(LiteApply(db, op), db, op, c) /\ CellAfter(PgDispatch(db, op), db, op, c)
<1>1. PICK x, y : x = LiteApply(db, op) /\ y = PgDispatch(db, op)
  OBVIOUS
<1>2. c[2] \in Gateways
  BY CellIs
<1> DEFINE Ours == MeshOps \ {"gw_distribution_replace"}
<1>3. /\ x.gateways = IF op.kind \in Ours THEN LiteGateway(db.gateways, op)
                                          ELSE db.gateways
      /\ y.gateways = IF op.kind \in Ours THEN PgGateway(db.gateways, op)
                                          ELSE db.gateways
  BY <1>1, TablesAfterArms DEF TablesAfter
<1>4. ValueOf(x, c) = Told(x.gateways[c[2]]) /\ ValueOf(y, c) = Told(y.gateways[c[2]])
      /\ ValueOf(db, c) = Told(db.gateways[c[2]])
  BY DEF ValueOf
<1>5. Bears(op, c) => op.kind \in Ours
  BY DEF Bears, OpsOn
<1>6. DOMAIN db.gateways = Gateways /\ db.gateways[c[2]] \in GatewayRow \cup {Nothing}
  BY <1>2 DEF Database
<1>7. CASE op.kind \in Ours /\ c[2] = op.key
  <2>0. Bears(op, c)
    BY <1>7 DEF Bears, OpsOn
  <2>1. PICK row, t : row = db.gateways[c[2]] /\ t = db.gateways
    OBVIOUS
  <2>2. Told(LiteGateway(t, op)[c[2]]) = EffectOnGateway(op, Told(row))
    <3>1. CASE op.kind = "gw_registry_update"
      <4>1. op.patch \in GatewayPatch
        BY <1>7, <3>1, MeshOpIs
      <4>2. LiteGateway(t, op)[c[2]] = Patched(row, op.patch)
        BY <1>2, <1>6, <1>7, <2>1, <3>1 DEF LiteGateway
      <4> QED BY <1>6, <2>1, <3>1, <4>1, <4>2, ToldOfPatched
    <3>2. CASE op.kind = "gw_registry_add"
      BY <1>2, <1>6, <1>7, <2>1, <3>2 DEF LiteGateway, EffectOnGateway
    <3>3. CASE op.kind = "gw_registry_delete"
      <4>1. LiteGateway(t, op)[c[2]] = Nothing
        BY <1>2, <1>6, <1>7, <2>1, <3>3 DEF LiteGateway
      <4> QED BY <3>3, <4>1 DEF EffectOnGateway, Told
    <3> QED BY <1>7, <3>1, <3>2, <3>3 DEF MeshOps
  <2>3. Told(PgGateway(t, op)[c[2]]) = EffectOnGateway(op, Told(row))
    <3>1. CASE op.kind = "gw_registry_update"
      <4>1. op.patch \in GatewayPatch
        BY <1>7, <3>1, MeshOpIs
      <4>2. PgGateway(t, op)[c[2]] = Patched(row, op.patch)
        BY <1>2, <1>6, <1>7, <2>1, <3>1 DEF PgGateway
      <4> QED BY <1>6, <2>1, <3>1, <4>1, <4>2, ToldOfPatched
    <3>2. CASE op.kind = "gw_registry_add" /\ row = Nothing
      BY <1>2, <1>6, <1>7, <2>1, <3>2 DEF PgGateway, EffectOnGateway
    <3>3. CASE op.kind = "gw_registry_add" /\ row # Nothing
      <4>1. PICK kept, f : /\ kept = IF op.private = Nothing THEN row.private
                                                            ELSE op.private
                           /\ f = row.auto_apply
        OBVIOUS
      <4>2. PICK new : new = [Registered(op) EXCEPT !.private = kept, !.auto_apply = f]
        OBVIOUS
      <4>3. PgGateway(t, op)[c[2]] = new
        BY <1>2, <1>6, <1>7, <2>1, <3>3, <4>1, <4>2 DEF PgGateway, Registered
      <4>4. Registered(op) \in GatewayRow
        BY <3>3, MeshOpIs DEF MeshOps
      <4>5. row \in GatewayRow /\ (op.private # Nothing => op.private \in KeyPairs)
        <5>1. row \in GatewayRow
          BY <1>6, <2>1, <3>3
        <5> QED BY <4>4, <5>1 DEF Registered, GatewayRow
      <4>6. new \in GatewayRow /\ new.public = Registered(op).public
            /\ new.local = Registered(op).local /\ new.status = Registered(op).status
        BY <4>1, <4>2, <4>4, <4>5 DEF GatewayRow
      <4> QED BY <3>3, <4>3, <4>4, <4>6, NothingAssumption DEF EffectOnGateway, Told
    <3>4. CASE op.kind = "gw_registry_delete"
      <4>1. PgGateway(t, op)[c[2]] = Nothing
        BY <1>2, <1>6, <1>7, <2>1, <3>4 DEF PgGateway
      <4> QED BY <3>4, <4>1 DEF EffectOnGateway, Told
    <3> QED BY <1>7, <3>1, <3>2, <3>3, <3>4 DEF MeshOps
  <2>4. Effect(c, op, Told(row)) = EffectOnGateway(op, Told(row))
    BY DEF Effect
  <2> QED BY <1>1, <1>3, <1>4, <1>7, <2>0, <2>1, <2>2, <2>3, <2>4 DEF CellAfter
<1>8. CASE op.kind \in Ours /\ c[2] # op.key
  <2>1. op.key \in Gateways
    BY <1>8, MeshOpIs
  <2> QED BY <1>1, <1>2, <1>3, <1>4, <1>6, <1>8, <2>1
          DEF CellAfter, Bears, LiteGateway, PgGateway
<1>9. CASE op.kind \notin Ours
  BY <1>1, <1>3, <1>4, <1>5, <1>9 DEF CellAfter
<1> QED BY <1>7, <1>8, <1>9

LEMMA RulesCell ==
  ASSUME NEW db \in Database, NEW op \in Operations, NEW c \in Cells, c[1] = "rules"
  PROVE  CellAfter(LiteApply(db, op), db, op, c) /\ CellAfter(PgDispatch(db, op), db, op, c)
<1>1. PICK x, y : x = LiteApply(db, op) /\ y = PgDispatch(db, op)
  OBVIOUS
<1>2. /\ x.rules = IF op.kind \in MeshOps THEN LiteRules(db.rules, op) ELSE db.rules
      /\ y.rules = IF op.kind \in MeshOps THEN PgRules(db.rules, op) ELSE db.rules
  BY <1>1, TablesAfterArms DEF TablesAfter
<1>3. ValueOf(x, c) = x.rules /\ ValueOf(y, c) = y.rules /\ ValueOf(db, c) = db.rules
  BY DEF ValueOf
<1>4. Bears(op, c) <=> op.kind \in TwoStatements
  BY DEF Bears, OpsOn
<1>5. LiteRules(db.rules, op) = PgRules(db.rules, op)
  BY DEF LiteRules, PgRules
<1>6. CASE op.kind \in TwoStatements
  <2>1. op.kind \in MeshOps
    BY <1>6 DEF TwoStatements, MeshOps
  <2>2. Effect(c, op, db.rules) = LiteRules(db.rules, op)
    BY DEF Effect
  <2> QED BY <1>1, <1>2, <1>3, <1>4, <1>5, <1>6, <2>1, <2>2 DEF CellAfter
<1>7. CASE op.kind \notin TwoStatements
  <2>1. LiteRules(db.rules, op) = db.rules
    BY <1>7 DEF LiteRules, TwoStatements
  <2> QED BY <1>1, <1>2, <1>3, <1>4, <1>5, <1>7, <2>1 DEF CellAfter
<1> QED BY <1>6, <1>7

LEMMA JournalCell ==
  ASSUME NEW db \in Database, NEW op \in Operations, NEW c \in Cells, c[1] = "journal"
  PROVE  CellAfter(LiteApply(db, op), db, op, c) /\ CellAfter(PgDispatch(db, op), db, op, c)
<1>1. PICK x, y : x = LiteApply(db, op) /\ y = PgDispatch(db, op)
  OBVIOUS
<1>2. /\ x.journal = IF op.kind \in JournalOps THEN db.journal + 1 ELSE db.journal
      /\ y.journal = IF op.kind \in JournalOps THEN db.journal + 1 ELSE db.journal
  BY <1>1, TablesAfterArms DEF TablesAfter
<1>3. ValueOf(x, c) = x.journal /\ ValueOf(y, c) = y.journal
      /\ ValueOf(db, c) = db.journal
  BY DEF ValueOf
<1>4. c[2] = "journal" /\ (op.kind \in JournalOps => op.key = "journal")
  <2>1. op.kind \in JournalOps => op.key = "journal"
    BY DEF Operations, SettingRequests, BanRequests, SessionOps, JournalOps
  <2> QED BY <2>1, CellIs
<1>5. Bears(op, c) <=> op.kind \in JournalOps
  BY <1>4 DEF Bears, OpsOn
<1>6. Effect(c, op, db.journal) = db.journal + 1
  BY DEF Effect
<1> QED BY <1>1, <1>2, <1>3, <1>5, <1>6 DEF CellAfter

\* What an operation does to a cell, in either database: the same, of the same value.
LEMMA CellsAfterArms ==
  ASSUME NEW db \in Database, NEW op \in Operations, NEW c \in Cells
  PROVE  /\ CellAfter(LiteApply(db, op), db, op, c)
         /\ Alike(op, c, ValueOf(db, c)) => CellAfter(PgDispatch(db, op), db, op, c)
BY CellIs, SettingCell, AccountCell, SessionCell, BanCell, GatewayCell, RulesCell,
   JournalCell

\* The rows an operation touches are those of the cells it bears on; a half of it
\* changes no other.
LEMMA BearingTouches ==
  ASSUME NEW op \in Operations, NEW c \in Cells, Bears(op, c)
  PROVE  c[2] \in Touches(op)
<1>1. CASE c[1] = "rules"
  BY <1>1, CellIs DEF Bears, OpsOn, Touches, TwoStatements
<1>2. CASE c[1] # "rules"
  <2>1. op.key = c[2] /\ op.kind # "gw_distribution_replace"
    BY <1>2, CellIs DEF Bears, OpsOn, SettingOps, AccountOps, SessionOps, BanOps,
                        JournalOps
  <2> QED BY <2>1 DEF Touches
<1> QED BY <1>1, <1>2

LEMMA HalfOfCell ==
  ASSUME NEW db \in Database, NEW op \in Operations, NEW c \in Cells,
         op.kind \in TwoStatements, c[2] \notin Touches(op)
  PROVE  ValueOf(LiteApplyHalf(db, op), c) = ValueOf(db, c)
<1>1. PICK x : x = LiteApplyHalf(db, op)
  OBVIOUS
<1>2. CASE op.kind = "gw_registry_delete"
  <2>1. PICK t : t = LiteGateway(db.gateways, op)
    OBVIOUS
  <2>2. x = [db EXCEPT !.gateways = t]
    BY <1>1, <1>2, <2>1 DEF LiteApplyHalf
  <2>3. /\ x.settings = db.settings /\ x.accounts = db.accounts
        /\ x.sessions = db.sessions /\ x.bans = db.bans /\ x.gateways = t
        /\ x.rules = db.rules /\ x.journal = db.journal
    BY <2>2 DEF Database
  <2>4. c[1] = "gateways" => t[c[2]] = db.gateways[c[2]]
    <3>1. SUFFICES ASSUME c[1] = "gateways" PROVE t[c[2]] = db.gateways[c[2]]
      OBVIOUS
    <3>2. c[2] \in Gateways /\ c[2] # op.key
      BY <1>2, <3>1, CellIs DEF Touches
    <3> QED BY <2>1, <3>2 DEF LiteGateway, Database
  <2> QED BY <1>1, <2>3, <2>4, CellIs DEF ValueOf
<1>3. CASE op.kind = "gw_distribution_replace"
  <2>1. x = [db EXCEPT !.rules = {}] /\ c[2] # "rules"
    BY <1>1, <1>3 DEF LiteApplyHalf, Touches
  <2>2. /\ x.settings = db.settings /\ x.accounts = db.accounts
        /\ x.sessions = db.sessions /\ x.bans = db.bans /\ x.gateways = db.gateways
        /\ x.journal = db.journal
    BY <2>1 DEF Database
  <2> QED BY <1>1, <2>1, <2>2, CellIs DEF ValueOf
<1> QED BY <1>2, <1>3 DEF TwoStatements

\* What the first of two statements changes of a cell is what the operation overwrites.
LEMMA HalfOverwritten ==
  ASSUME NEW x, NEW db, NEW op \in Operations, NEW c \in Cells,
         op.kind \in TwoStatements, HalfOf(x, db, op)
  PROVE  \/ ValueOf(x, c) = ValueOf(db, c)
         \/ Bears(op, c) /\ c[1] # "bans" /\ \A v, w : Effect(c, op, v) = Effect(c, op, w)
<1>1. CASE c[1] = "gateways"
  <2>1. c[2] \in Gateways
    BY <1>1, CellIs
  <2>2. CASE ~ Deletes(op, c[2])
    BY <1>1, <2>1, <2>2 DEF HalfOf, ValueOf
  <2>3. CASE Deletes(op, c[2])
    <3>1. op.kind = "gw_registry_delete" /\ op.key = c[2]
      BY <2>3 DEF Deletes
    <3>2. \A v : Effect(c, op, v) = << >>
      BY <1>1, <3>1 DEF Effect, EffectOnGateway
    <3> QED BY <1>1, <3>1, <3>2 DEF Bears, OpsOn, MeshOps
  <2> QED BY <2>2, <2>3
<1>2. CASE c[1] = "rules"
  <2>1. CASE op.kind = "gw_distribution_replace"
    <3>1. \A v : Effect(c, op, v) = op.rules
      BY <1>2, <2>1 DEF Effect, LiteRules
    <3> QED BY <1>2, <2>1, <3>1 DEF Bears, OpsOn, TwoStatements
  <2>2. CASE op.kind # "gw_distribution_replace"
    BY <1>2, <2>2 DEF HalfOf, ValueOf
  <2> QED BY <2>1, <2>2
<1>3. CASE c[1] \notin {"gateways", "rules"}
  BY <1>3, CellIs DEF HalfOf, ValueOf
<1> QED BY <1>1, <1>2, <1>3

\* A mirror that ends leaves a cell as it would have left it in one go.
LEMMA RestOfCell ==
  ASSUME PendingOK, MirrorsInv, pg \in Database, NEW m \in mirrors,
         NEW c \in Cells, c[2] \notin skewed
  PROVE  ValueOf(Rest(pg, m), c) = ValueOf(PgDispatch(pg, m.op), c)
<1>1. PICK x, y : x = Rest(pg, m) /\ y = PgDispatch(pg, m.op)
  OBVIOUS
<1>2. SameTables(x, y)
  BY <1>1, RestIsDispatch
<1>3. ValueOf(x, c) = ValueOf(y, c)
  BY <1>2, CellIs DEF SameTables, ValueOf
<1> QED BY <1>1, <1>3

\* Operations whose order does not matter: what they do to a cell.
LEMMA EffectsCommute ==
  ASSUME NEW a \in Operations, NEW b \in Operations, NEW c \in Cells, NEW v,
         Bears(a, c), Bears(b, c), Commute(a, b), c[1] = "bans" => v \in Nat
  PROVE  Effect(c, a, Effect(c, b, v)) = Effect(c, b, Effect(c, a, v))
<1>1. CASE a.kind = "ip_ban" /\ b.kind = "ip_ban"
  <2>1. c[1] = "bans"
    BY <1>1, CellIs DEF Bears, OpsOn, SettingOps, AccountOps, SessionOps, MeshOps,
                        TwoStatements, JournalOps
  <2>2. a.until \in Nat /\ b.until \in Nat /\ v \in Nat
    BY <1>1, <2>1, BanOpIs, TablesAssumption DEF BanOps
  <2>3. \A w : Effect(c, a, w) = Later(w, a.until) /\ Effect(c, b, w) = Later(w, b.until)
    BY <1>1, <2>1 DEF Effect
  <2> QED BY <2>2, <2>3 DEF Later
<1>2. CASE a.kind \in JournalOps /\ b.kind \in JournalOps
  <2>1. c[1] = "journal"
    BY <1>2, CellIs DEF Bears, OpsOn, SettingOps, AccountOps, SessionOps, MeshOps,
                        TwoStatements, JournalOps, BanOps
  <2> QED BY <2>1 DEF Effect
<1> QED BY <1>1, <1>2 DEF Commute

LEMMA BansAreNatural ==
  ASSUME NEW op \in Operations, NEW c \in Cells, c[1] = "bans", Bears(op, c),
         NEW v \in Nat
  PROVE  Effect(c, op, v) \in Nat
<1>1. op.kind \in BanOps
  BY DEF Bears, OpsOn
<1> QED BY <1>1, BanOpIs, TablesAssumption DEF Effect, Later

-----------------------------------------------------------------------------
(*****************************************************************************)
(* Replicas: catching up                                                     *)
(*****************************************************************************)

\* The tasks that bear on a cell.
Concerned(tasks, c) == {m \in tasks : Bears(m.op, c)}

\* f leads from v0 to v1 through the effects of the tasks T in the order of their
\* requests: f[t] is the value once those up to t have run.
Replay(f, T, c, v0, v1) ==
  /\ f[0] = v0
  /\ \A t \in Nat : (\A m \in T : m.at <= t) => f[t] = v1
  /\ \A m \in T : f[m.at] = Effect(c, m.op, f[m.at - 1])
  /\ \A s, t \in Nat :
       s <= t /\ (\A m \in T : m.at <= s \/ t < m.at) => f[s] = f[t]
  /\ c[1] = "bans" => \A t \in Nat : f[t] \in Nat
CatchesUp(T, c, v0, v1) == \E f : Replay(f, T, c, v0, v1)

\* Tasks of one cell, each of a request of its own.
Tasked(T, c) ==
  /\ \A m \in T : Bears(m.op, c) /\ m.op \in Operations /\ m.at \in Nat \ {0}
  /\ \A m, e \in T : m.at = e.at => m = e

LEMMA UpToDate ==
  ASSUME NEW c, NEW v0, NEW v1, CatchesUp({}, c, v0, v1)
  PROVE  v0 = v1
BY DEF CatchesUp, Replay

LEMMA NothingToCatch ==
  ASSUME NEW c, NEW v, c[1] = "bans" => v \in Nat
  PROVE  CatchesUp({}, c, v, v)
<1> DEFINE f == [t \in Nat |-> v]
<1>1. Replay(f, {}, c, v, v)
  BY DEF Replay
<1> QED BY <1>1 DEF CatchesUp

\* One more to catch up with, the latest.
LEMMA OneMore ==
  ASSUME NEW c \in Cells, NEW v0, NEW v1, NEW T, Tasked(T, c), CatchesUp(T, c, v0, v1),
         NEW e, e.op \in Operations, Bears(e.op, c), e.at \in Nat \ {0},
         \A m \in T : m.at < e.at
  PROVE  CatchesUp(T \cup {e}, c, v0, Effect(c, e.op, v1))
<1>1. PICK f : Replay(f, T, c, v0, v1)
  BY DEF CatchesUp
<1>2. PICK n : n = e.at
  OBVIOUS
<1>3. PICK v : v = Effect(c, e.op, v1)
  OBVIOUS
<1> DEFINE g == [t \in Nat |-> IF t < n THEN f[t] ELSE v]
<1>4. \A t \in Nat : g[t] = IF t < n THEN f[t] ELSE v
  OBVIOUS
<1>5. /\ n \in Nat \ {0} /\ n - 1 \in Nat /\ n - 1 < n
      /\ \A m \in T : m.at \in Nat \ {0} /\ m.at < n
  BY <1>2 DEF Tasked
<1>6. f[n - 1] = v1
  BY <1>1, <1>5 DEF Replay
<1> HIDE DEF g
<1>7. g[0] = v0
  BY <1>1, <1>4, <1>5 DEF Replay
<1>8. ASSUME NEW t \in Nat, \A m \in T \cup {e} : m.at <= t
      PROVE  g[t] = v
  BY <1>2, <1>4, <1>5, <1>8
<1>9. ASSUME NEW m \in T \cup {e}
      PROVE  g[m.at] = Effect(c, m.op, g[m.at - 1])
  <2>1. CASE m = e
    BY <1>2, <1>3, <1>4, <1>5, <1>6, <2>1
  <2>2. CASE m # e
    <3>1. m \in T /\ m.at \in Nat /\ m.at - 1 \in Nat /\ m.at < n /\ m.at - 1 < n
      BY <1>5, <2>2
    <3>2. g[m.at] = f[m.at] /\ g[m.at - 1] = f[m.at - 1]
      BY <1>4, <3>1
    <3> QED BY <1>1, <3>1, <3>2 DEF Replay
  <2> QED BY <2>1, <2>2
<1>10. ASSUME NEW s \in Nat, NEW t \in Nat, s <= t,
              \A m \in T \cup {e} : m.at <= s \/ t < m.at
       PROVE  g[s] = g[t]
  <2>1. n <= s \/ t < n
    BY <1>2, <1>10
  <2>2. CASE n <= s
    BY <1>4, <1>5, <1>10, <2>2
  <2>3. CASE t < n
    <3>1. g[s] = f[s] /\ g[t] = f[t]
      BY <1>4, <1>5, <1>10, <2>3
    <3>2. f[s] = f[t]
      BY <1>1, <1>10 DEF Replay
    <3> QED BY <3>1, <3>2
  <2> QED BY <2>1, <2>2, <2>3
<1>11. ASSUME c[1] = "bans", NEW t \in Nat
       PROVE  g[t] \in Nat
  <2>1. f[t] \in Nat /\ v1 \in Nat
    BY <1>1, <1>5, <1>6, <1>11 DEF Replay
  <2>2. v \in Nat
    BY <1>3, <1>11, <2>1, BansAreNatural
  <2> QED BY <1>4, <2>1, <2>2
<1>12. Replay(g, T \cup {e}, c, v0, v)
  BY <1>7, <1>8, <1>9, <1>10, <1>11 DEF Replay
<1> QED BY <1>3, <1>12 DEF CatchesUp

\* One task runs, ahead of none that it does not commute with: what is left leads
\* from the value that it makes of the old one to where it led before.
LEMMA OneLess ==
  ASSUME NEW c \in Cells, NEW v0, NEW v1, NEW T, Tasked(T, c), CatchesUp(T, c, v0, v1),
         NEW m \in T, \A e \in T : e.at < m.at => Commute(e.op, m.op)
  PROVE  CatchesUp(T \ {m}, c, Effect(c, m.op, v0), v1)
<1>1. PICK f : Replay(f, T, c, v0, v1)
  BY DEF CatchesUp
<1>2. PICK n : n = m.at
  OBVIOUS
<1>3. /\ n \in Nat \ {0} /\ n - 1 \in Nat /\ n - 1 < n
      /\ m.op \in Operations /\ Bears(m.op, c)
  BY <1>2 DEF Tasked
<1>4. ASSUME NEW e \in T \ {m}
      PROVE  /\ e.op \in Operations /\ Bears(e.op, c)
             /\ e.at \in Nat \ {0} /\ e.at - 1 \in Nat
             /\ e.at # n /\ (e.at < n => Commute(m.op, e.op))
  <2>1. e.op \in Operations /\ Bears(e.op, c) /\ e.at \in Nat \ {0} /\ e.at # n
    BY <1>2 DEF Tasked
  <2>2. e.at < n => Commute(m.op, e.op)
    BY <1>2 DEF Commute
  <2> QED BY <2>1, <2>2
<1> DEFINE after(v) == Effect(c, m.op, v)
           g == [t \in Nat |-> IF t < n THEN after(f[t]) ELSE f[t]]
<1>5. \A t \in Nat : g[t] = IF t < n THEN after(f[t]) ELSE f[t]
  OBVIOUS
<1>6. f[n] = after(f[n - 1])
  BY <1>1, <1>2 DEF Replay
<1>7. c[1] = "bans" => \A t \in Nat : f[t] \in Nat
  BY <1>1 DEF Replay
<1>8. \A v, e : e \in T \ {m} /\ e.at < n /\ (c[1] = "bans" => v \in Nat) =>
        after(Effect(c, e.op, v)) = Effect(c, e.op, after(v))
  BY <1>3, <1>4, EffectsCommute
<1>a. c[1] = "bans" => \A v \in Nat : after(v) \in Nat
  BY <1>3, BansAreNatural
<1> HIDE DEF after, g
<1>b. \A s, t \in Nat :
        s <= t /\ (\A e \in T : e.at <= s \/ t < e.at) => f[s] = f[t]
  BY <1>1 DEF Replay
\* Between the tasks that are left, nothing happens but what m does at n.
<1>9. ASSUME NEW s \in Nat, NEW t \in Nat, s <= t,
             \A e \in T \ {m} : e.at <= s \/ t < e.at
      PROVE  g[s] = g[t]
  <2>1. CASE t < n
    <3>1. \A e \in T : e.at <= s \/ t < e.at
      BY <1>2, <1>9, <2>1
    <3>2. f[s] = f[t] /\ s < n
      BY <1>3, <1>9, <1>b, <2>1, <3>1
    <3> QED BY <1>5, <2>1, <3>2
  <2>2. CASE n <= s
    <3>1. \A e \in T : e.at <= s \/ t < e.at
      BY <1>2, <1>9, <2>2
    <3>2. f[s] = f[t] /\ ~ s < n /\ ~ t < n
      BY <1>3, <1>9, <1>b, <2>2, <3>1
    <3> QED BY <1>5, <3>2
  <2>3. CASE s < n /\ n <= t
    <3>1. \A e \in T : e.at <= s \/ n - 1 < e.at
      BY <1>2, <1>3, <1>4, <1>9, <2>3
    <3>2. \A e \in T : e.at <= n \/ t < e.at
      BY <1>2, <1>3, <1>4, <1>9, <2>3
    <3>3. f[s] = f[n - 1] /\ f[n] = f[t]
      BY <1>3, <1>b, <2>3, <3>1, <3>2
    <3>4. g[s] = after(f[s]) /\ g[t] = f[t]
      BY <1>3, <1>5, <2>3
    <3> QED BY <1>6, <3>3, <3>4
  <2> QED BY <1>3, <2>1, <2>2, <2>3
<1>10. g[0] = after(v0)
  BY <1>1, <1>3, <1>5 DEF Replay
<1>11. ASSUME NEW t \in Nat, \A e \in T \ {m} : e.at <= t
       PROVE  g[t] = v1
  <2>1. PICK l \in Nat : t <= l /\ n <= l
    BY <1>3
  <2>2. g[t] = g[l]
    BY <1>9, <1>11, <2>1
  <2>3. \A e \in T : e.at <= l
    BY <1>2, <1>3, <1>4, <1>11, <2>1
  <2>4. f[l] = v1
    BY <1>1, <2>1, <2>3 DEF Replay
  <2> QED BY <1>3, <1>5, <2>1, <2>2, <2>4
<1>12. ASSUME NEW e \in T \ {m}
       PROVE  g[e.at] = Effect(c, e.op, g[e.at - 1])
  <2>1. PICK k : k = e.at
    OBVIOUS
  <2>2. k \in Nat \ {0} /\ k - 1 \in Nat /\ k # n
    BY <1>4, <2>1
  <2>3. f[k] = Effect(c, e.op, f[k - 1])
    BY <1>1, <2>1 DEF Replay
  <2>4. CASE k < n
    <3>1. g[k] = after(f[k]) /\ g[k - 1] = after(f[k - 1])
      BY <1>3, <1>5, <2>2, <2>4
    <3>2. c[1] = "bans" => f[k - 1] \in Nat
      BY <1>7, <2>2
    <3>3. after(Effect(c, e.op, f[k - 1])) = Effect(c, e.op, after(f[k - 1]))
      BY <1>8, <2>1, <2>4, <3>2
    <3> QED BY <2>1, <2>3, <3>1, <3>3
  <2>5. CASE n < k
    <3>1. g[k] = f[k] /\ g[k - 1] = f[k - 1]
      BY <1>3, <1>5, <2>2, <2>5
    <3> QED BY <2>1, <2>3, <3>1
  <2> QED BY <1>3, <2>2, <2>4, <2>5
<1>13. ASSUME c[1] = "bans", NEW t \in Nat
       PROVE  g[t] \in Nat
  BY <1>5, <1>7, <1>13, <1>a
<1>14. Replay(g, T \ {m}, c, after(v0), v1)
  BY <1>9, <1>10, <1>11, <1>12, <1>13 DEF Replay
<1> QED BY <1>14 DEF CatchesUp, after

\* What the first of the tasks overwrites does not matter.
LEMMA StartsOver ==
  ASSUME NEW c, c[1] # "bans", NEW v0, NEW v1, NEW T, Tasked(T, c), CatchesUp(T, c, v0, v1),
         NEW m \in T, \A e \in T \ {m} : m.at < e.at,
         \A v, w : Effect(c, m.op, v) = Effect(c, m.op, w), NEW u
  PROVE  CatchesUp(T, c, u, v1)
<1>1. PICK f : Replay(f, T, c, v0, v1)
  BY DEF CatchesUp
<1>2. PICK n : n = m.at
  OBVIOUS
<1>3. n \in Nat \ {0} /\ n - 1 \in Nat /\ n - 1 < n /\ \A e \in T : e.at \in Nat \ {0}
  BY <1>2 DEF Tasked
<1> DEFINE g == [t \in Nat |-> IF t < n THEN u ELSE f[t]]
<1>4. \A t \in Nat : g[t] = IF t < n THEN u ELSE f[t]
  OBVIOUS
<1> HIDE DEF g
<1>5. g[0] = u
  BY <1>3, <1>4
<1>6. ASSUME NEW t \in Nat, \A e \in T : e.at <= t
      PROVE  g[t] = v1
  <2>1. ~ t < n
    BY <1>2, <1>3, <1>6
  <2> QED BY <1>1, <1>4, <1>6, <2>1 DEF Replay
<1>7. ASSUME NEW e \in T
      PROVE  g[e.at] = Effect(c, e.op, g[e.at - 1])
  <2>1. f[e.at] = Effect(c, e.op, f[e.at - 1])
    BY <1>1 DEF Replay
  <2>2. CASE e = m
    <3>1. g[n] = f[n]
      BY <1>3, <1>4
    <3>2. f[n] = Effect(c, m.op, f[n - 1])
      BY <1>2, <2>1, <2>2
    <3>3. Effect(c, m.op, f[n - 1]) = Effect(c, m.op, g[n - 1])
      OBVIOUS
    <3> QED BY <1>2, <2>2, <3>1, <3>2, <3>3
  <2>3. CASE e # m
    <3>1. PICK k : k = e.at
      OBVIOUS
    <3>2. k \in Nat /\ k - 1 \in Nat /\ ~ k < n /\ ~ k - 1 < n
      BY <1>2, <1>3, <2>3, <3>1
    <3>3. g[k] = f[k] /\ g[k - 1] = f[k - 1]
      BY <1>4, <3>2
    <3> QED BY <2>1, <3>1, <3>3
  <2> QED BY <2>2, <2>3
<1>8. ASSUME NEW s \in Nat, NEW t \in Nat, s <= t, \A e \in T : e.at <= s \/ t < e.at
      PROVE  g[s] = g[t]
  <2>1. n <= s \/ t < n
    BY <1>2, <1>8
  <2>2. f[s] = f[t]
    BY <1>1, <1>8 DEF Replay
  <2> QED BY <1>3, <1>4, <1>8, <2>1, <2>2
<1>9. Replay(g, T, c, u, v1)
  BY <1>5, <1>6, <1>7, <1>8 DEF Replay
<1> QED BY <1>9 DEF CatchesUp

-----------------------------------------------------------------------------
(*****************************************************************************)
(* Replicas: the strengthening                                               *)
(*****************************************************************************)

\* Every cell of SQLite's tables that no accident touched is what the mirrors on
\* their way will make of Postgres'.
TablesCatchUp ==
  mode = "both" =>
    \A c \in Cells :
      c[2] \notin skewed =>
        CatchesUp(Concerned(mirrors, c), c, ValueOf(pg, c), ValueOf(lite, c))

\* An account that waits to be created is not there, or its row is a fresh one; what
\* else waits for it was asked for on the other side of its creation.
Waiting == RangeOf(queue) \cup mirrors
Creates(op, u) == op.kind = "user_create" /\ op.key = u
Alters(op, u) == op.kind \in {"user_update", "user_delete"} /\ op.key = u
Fresh(row) == row # Nothing => row.totp = FALSE
AccountWaits(awaited, row, u) ==
  \A e \in awaited :
    Creates(e.op, u) =>
      /\ Fresh(row)
      /\ \A d \in awaited :
           Alters(d.op, u) => IF row = Nothing THEN d.at < e.at ELSE e.at < d.at
AccountsWait ==
  mode = "both" =>
    \A u \in Users : u \notin skewed => AccountWaits(Waiting, pg.accounts[u], u)

\* A session that waits to be opened is not there, and waits once.
SignsIn(op, s) == op.kind = "user_session_create" /\ op.key = s
SessionWaits(awaited, row, s) ==
  \A e \in awaited :
    SignsIn(e.op, s) => row = Nothing /\ \A d \in awaited : SignsIn(d.op, s) => d = e
SessionsWait ==
  mode = "both" => \A s \in Sids : SessionWaits(Waiting, pg.sessions[s], s)

\* The orders of signals.
OrdersAgree ==
  /\ \A row \in Names \X Signals :
       row \notin apart /\ mode # "sqlite" => lite.orders[row] = pg.orders[row]
  /\ \A s \in Signals :
       <<knownAs, s>> \notin apart /\ cache[s] # Nothing =>
         cache[s] = lite.orders[<<knownAs, s>>]

AgreeInv ==
  TablesCatchUp /\ AccountsWait /\ SessionsWait /\ OrdersAgree

\* What bears on one cell is of one table.
LEMMA OneTable ==
  ASSUME NEW c \in Cells, NEW a, NEW b, Bears(a, c), Bears(b, c)
  PROVE  a.kind \in JournalOps <=> b.kind \in JournalOps
<1>1. a.kind \in OpsOn(c[1]) /\ b.kind \in OpsOn(c[1])
  BY DEF Bears
<1>2. CASE c[1] = "journal"
  BY <1>1, <1>2 DEF OpsOn
<1>3. CASE c[1] # "journal"
  <2>1. \A k \in OpsOn(c[1]) : k \notin JournalOps
    BY <1>3, CellIs DEF OpsOn, SettingOps, AccountOps, SessionOps, BanOps, MeshOps,
                        TwoStatements, JournalOps
  <2> QED BY <1>1, <2>1
<1> QED BY <1>2, <1>3

LEMMA ConcernedTasked ==
  ASSUME NEW tasks, \A m \in tasks : m.op \in Operations /\ m.at \in Nat \ {0},
         OneAtATime(tasks), NEW c \in Cells
  PROVE  Tasked(Concerned(tasks, c), c)
<1>1. ASSUME NEW m \in Concerned(tasks, c), NEW e \in Concerned(tasks, c), m.at = e.at
      PROVE  m = e
  <2>1. m \in tasks /\ e \in tasks /\ Bears(m.op, c) /\ Bears(e.op, c)
    BY DEF Concerned
  <2>2. m.op.kind \in JournalOps <=> e.op.kind \in JournalOps
    BY <2>1, OneTable
  <2> QED BY <1>1, <2>1, <2>2 DEF OneAtATime
<1> QED BY <1>1 DEF Tasked, Concerned

\* The orders of signals agree but where a write missed Postgres, or a copy of one
\* of the files went around it.
LEMMA OrdersInit == ASSUME ReplicasInit PROVE OrdersAgree
BY DEF ReplicasInit, OrdersAgree

LEMMA OrdersStep ==
  ASSUME ReplicasTypeOK, MirrorsInv, OrdersAgree, [ReplicasNext]_replicasVars
  PROVE  OrdersAgree'
<1>0. lite \in Database /\ pg \in Database /\ queue \in Seq(Queued)
      /\ mirrors \subseteq Queued /\ knownAs \in Names
      /\ cache \in [Signals -> Orders \cup {Nothing}] /\ DOMAIN queue = 1 .. Len(queue)
  BY DEF ReplicasTypeOK, DatabasesOK, PendingOK, DeploymentOK
<1>1. ASSUME UNCHANGED <<mode, apart>>, lite'.orders = lite.orders,
             pg'.orders = pg.orders \/ mode = "sqlite",
             \/ UNCHANGED <<knownAs, cache>>
             \/ \A s \in Signals :
                  cache'[s] = Nothing \/ cache'[s] = lite.orders[<<knownAs', s>>]
      PROVE  OrdersAgree'
  <2>1. \A row \in Names \X Signals :
          row \notin apart' /\ mode' # "sqlite" => lite'.orders[row] = pg'.orders[row]
    BY <1>1 DEF OrdersAgree
  <2>2. \A s \in Signals :
          <<knownAs', s>> \notin apart' /\ cache'[s] # Nothing =>
            cache'[s] = lite'.orders[<<knownAs', s>>]
    BY <1>1 DEF OrdersAgree
  <2> QED BY <2>1, <2>2 DEF OrdersAgree
<1>2. ASSUME UNCHANGED <<mode, knownAs, cache>>, pg'.orders = pg.orders,
             apart' = apart \cup Reordered(lite, lite')
      PROVE  OrdersAgree'
  <2>1. \A row \in Names \X Signals :
          row \notin apart' => row \notin apart /\ lite'.orders[row] = lite.orders[row]
    BY <1>2 DEF Reordered
  <2>2. \A row \in Names \X Signals :
          row \notin apart' /\ mode' # "sqlite" => lite'.orders[row] = pg'.orders[row]
    BY <1>2, <2>1 DEF OrdersAgree
  <2>3. \A s \in Signals : <<knownAs, s>> \in Names \X Signals
    BY <1>0
  <2>4. \A s \in Signals :
          <<knownAs', s>> \notin apart' /\ cache'[s] # Nothing =>
            cache'[s] = lite'.orders[<<knownAs', s>>]
    BY <1>2, <2>1, <2>3 DEF OrdersAgree
  <2> QED BY <2>2, <2>4 DEF OrdersAgree
<1>3. CASE Write \/ Registry \/ Enrol
  <2>1. PICK op \in Operations : Asked(op)
    BY <1>3, RequestsAsk
  <2>2. UNCHANGED <<lite, pg, mode, knownAs, cache, apart>>
    BY <2>1 DEF Asked, Enqueue, fixed, self
  <2> QED BY <1>1, <2>2
<1>4. CASE SaveOrder
  <2>1. PICK s \in Signals, n \in Orders, reached \in BOOLEAN :
          StoreOrder(<<knownAs, s>>, n, reached)
    BY <1>4 DEF SaveOrder
  <2>2. UNCHANGED <<mode, knownAs>>
    BY <1>4 DEF SaveOrder, fixed
  <2>3. PICK row \in Names \X Signals : row = <<knownAs, s>>
    BY <1>0
  <2>4. /\ lite' = [lite EXCEPT !.orders[row] = n]
        /\ cache' = [cache EXCEPT ![s] = n]
        /\ pg' = IF mode # "sqlite" /\ reached THEN [pg EXCEPT !.orders[row] = n] ELSE pg
        /\ apart' = IF reached THEN apart \ {row} ELSE apart \cup {row}
    BY <2>1, <2>3 DEF StoreOrder
  <2>5. /\ lite'.orders = [lite.orders EXCEPT ![row] = n]
        /\ pg'.orders = IF mode # "sqlite" /\ reached
                        THEN [pg.orders EXCEPT ![row] = n] ELSE pg.orders
    BY <1>0, <2>4 DEF Database
  <2>6. DOMAIN lite.orders = Names \X Signals /\ DOMAIN pg.orders = Names \X Signals
    BY <1>0 DEF Database
  <2>7. ASSUME NEW r \in Names \X Signals, r \notin apart', mode # "sqlite"
        PROVE  lite'.orders[r] = pg'.orders[r]
    <3>1. CASE r = row
      BY <2>4, <2>5, <2>6, <2>7, <3>1
    <3>2. CASE r # row
      <4>1. r \notin apart
        BY <2>4, <2>7, <3>2
      <4> QED BY <2>5, <2>6, <2>7, <3>2, <4>1 DEF OrdersAgree
    <3> QED BY <3>1, <3>2
  <2>8. ASSUME NEW q \in Signals, <<knownAs, q>> \notin apart', cache'[q] # Nothing
        PROVE  cache'[q] = lite'.orders[<<knownAs, q>>]
    <3>1. CASE q = s
      BY <1>0, <2>3, <2>4, <2>5, <2>6, <3>1
    <3>2. CASE q # s
      <4>1. PICK r \in Names \X Signals : r = <<knownAs, q>>
        BY <1>0
      <4>2. r # row
        BY <2>3, <3>2, <4>1
      <4>3. r \notin apart /\ cache'[q] = cache[q] /\ lite'.orders[r] = lite.orders[r]
        BY <1>0, <2>4, <2>5, <2>6, <2>8, <3>2, <4>1, <4>2
      <4> QED BY <2>8, <4>1, <4>3 DEF OrdersAgree
    <3> QED BY <3>1, <3>2
  <2> QED BY <2>2, <2>7, <2>8 DEF OrdersAgree
<1>5. CASE WriteBatch
  <2>1. PICK how \in [1 .. Len(queue) -> {"done", "failed", "half"}],
             committed \in BOOLEAN :
          /\ \A i \in DOMAIN queue : how[i] \in Outcomes(queue[i])
          /\ lite' = IF committed THEN Written(lite, queue, how) ELSE lite
    BY <1>5 DEF WriteBatch, Courses
  <2>2. UNCHANGED <<mode, pg, apart, knownAs, cache>>
    BY <1>5 DEF WriteBatch, fixed, self
  <2>3. lite'.orders = lite.orders
    BY <1>0, <2>1, WrittenIs
  <2> QED BY <1>1, <2>2, <2>3
<1>6. CASE WritePg
  <2>1. PICK how \in Courses : pg' = Written(pg, queue, how)
    BY <1>6 DEF WritePg
  <2>2. UNCHANGED <<mode, lite, apart, knownAs, cache>>
    BY <1>6 DEF WritePg, fixed, self
  <2>3. \A i \in 1 .. Len(queue) : how[i] \in Outcomes(queue[i])
    BY <1>0 DEF Courses
  <2>4. pg'.orders = pg.orders
    BY <1>0, <2>1, <2>3, WrittenIs
  <2> QED BY <1>1, <2>2, <2>4
<1>7. CASE Mirror
  <2>1. PICK m \in mirrors, reached \in BOOLEAN :
          pg' = IF reached THEN Rest(pg, m) ELSE pg
    BY <1>7 DEF Mirror
  <2>2. UNCHANGED <<mode, lite, apart, knownAs, cache>>
    BY <1>7 DEF Mirror, fixed, self
  <2>3. m.op \in Operations
    BY <1>0 DEF Queued
  <2>4. PgFinished(pg, m.op).orders = pg.orders
    BY <1>0 DEF PgFinished, Database
  <2>5. pg'.orders = pg.orders
    BY <1>0, <2>1, <2>3, <2>4, ArmsKeepDatabases DEF Rest
  <2> QED BY <1>1, <2>2, <2>5
<1>8. CASE Crash
  <2>1. UNCHANGED <<mode, lite, pg, apart>>
    BY <1>8 DEF Crash, fixed
  <2>2. \/ UNCHANGED <<knownAs, cache>>
        \/ \A s \in Signals :
             cache'[s] = Nothing \/ cache'[s] = lite.orders[<<knownAs', s>>]
    BY <1>8 DEF Crash, Boot, self
  <2> QED BY <1>1, <2>1, <2>2
<1>9. CASE SaveArchive \/ UNCHANGED replicasVars
  <2>1. UNCHANGED <<mode, lite, pg, apart, knownAs, cache>>
    BY <1>9 DEF SaveArchive, replicasVars, fixed, self, historyVars
  <2> QED BY <1>1, <2>1
<1>13. CASE MirrorBegins
  <2>1. PICK m \in mirrors : pg' = PgBegun(pg, m.op)
    BY <1>13 DEF MirrorBegins
  <2>2. UNCHANGED <<mode, lite, apart, knownAs, cache>>
    BY <1>13 DEF MirrorBegins, fixed, self
  <2>3. pg'.orders = pg.orders
    BY <1>0, <2>1 DEF PgBegun, Database
  <2> QED BY <1>1, <2>2, <2>3
<1>10. CASE Restore
  <2>1. UNCHANGED <<mode, pg, knownAs, cache>> /\ apart' = apart \cup Reordered(lite, lite')
    BY <1>10 DEF Restore, Enqueue, fixed, self
  <2> QED BY <1>2, <2>1
<1>11. CASE Import
  <2>1. UNCHANGED <<mode, lite, apart, knownAs, cache>> /\ pg' = Imported(pg, lite)
    BY <1>11 DEF Import, fixed, self, historyVars
  <2>2. pg'.orders = pg.orders
    BY <1>0, <2>1 DEF Imported, Database
  <2> QED BY <1>1, <2>1, <2>2
<1>12. CASE Export
  <2>1. UNCHANGED <<mode, pg, knownAs, cache>> /\ apart' = apart \cup Reordered(lite, lite')
    BY <1>12 DEF Export, fixed, self
  <2> QED BY <1>2, <2>1
<1> QED BY <1>3, <1>4, <1>5, <1>6, <1>7, <1>8, <1>9, <1>10, <1>11, <1>12, <1>13
        DEF ReplicasNext

\* What waits, and what a request adds to it.
LEMMA WaitingIs ==
  ASSUME PendingOK
  PROVE  \A e \in Waiting :
           /\ e \in Queued /\ e.op \in Operations /\ e.at \in 1 .. sent
           /\ e.op \in Pending
<1>1. Waiting \subseteq Queued
  <2>1. queue \in Seq(Queued) /\ mirrors \subseteq Queued
    BY DEF PendingOK
  <2>2. RangeOf(queue) \subseteq Queued
    BY <2>1 DEF RangeOf
  <2> QED BY <2>1, <2>2 DEF Waiting
<1> QED BY <1>1 DEF Waiting, Pending, PendingOK, Queued

LEMMA WaitingGrows ==
  ASSUME DeploymentOK, PendingOK, NEW op \in Operations,
         NEW ops \in {<<op>>, <<op, Noted>>}, Enqueue(ops)
  PROVE  \A e \in Waiting' :
           \/ e \in Waiting
           \/ e = [op |-> op, at |-> sent + 1] \/ e = [op |-> Noted, at |-> sent + 1]
<1>0. Noted \in Operations
  BY DEF Noted, Operations, JournalOps
<1>1. ops \in Seq(Operations)
  <2>1. <<op>> \in Seq(Operations) /\ <<op, Noted>> \in Seq(Operations)
    BY <1>0
  <2> QED BY <2>1
<1>2. \A j \in 1 .. Len(ops) : ops[j] = op \/ ops[j] = Noted
  OBVIOUS
<1>3. /\ mirrors' = mirrors /\ queue' \in Seq(Queued)
      /\ \A i \in 1 .. Len(queue) : queue'[i] = queue[i]
      /\ \A i \in Len(queue) + 1 .. Len(queue') :
           /\ i - Len(queue) \in 1 .. Len(ops)
           /\ queue'[i] = [op |-> ops[i - Len(queue)], at |-> sent + 1]
  BY <1>1, QueueAfter
<1>4. queue \in Seq(Queued) /\ Len(queue) \in Nat /\ Len(queue') \in Nat
      /\ DOMAIN queue = 1 .. Len(queue) /\ DOMAIN queue' = 1 .. Len(queue')
  BY <1>3 DEF PendingOK
<1>5. ASSUME NEW i \in 1 .. Len(queue')
      PROVE  \/ queue'[i] \in RangeOf(queue)
             \/ queue'[i] = [op |-> op, at |-> sent + 1]
             \/ queue'[i] = [op |-> Noted, at |-> sent + 1]
  <2>1. CASE i <= Len(queue)
    <3>1. i \in 1 .. Len(queue)
      BY <1>4, <2>1
    <3>2. queue[i] \in RangeOf(queue) /\ queue'[i] = queue[i]
      BY <1>3, <1>4, <3>1 DEF RangeOf
    <3> QED BY <3>2
  <2>2. CASE ~ i <= Len(queue)
    <3>1. i \in Len(queue) + 1 .. Len(queue')
      BY <1>4, <2>2
    <3>2. PICK j \in 1 .. Len(ops) : queue'[i] = [op |-> ops[j], at |-> sent + 1]
      BY <1>3, <3>1
    <3> QED BY <1>2, <3>2
  <2> QED BY <2>1, <2>2
<1>6. RangeOf(queue') = {queue'[i] : i \in 1 .. Len(queue')}
  BY <1>4 DEF RangeOf
<1>7. Waiting' = RangeOf(queue') \cup mirrors
  BY <1>3 DEF Waiting
<1> QED BY <1>5, <1>6, <1>7 DEF Waiting

\* A request to create an account finds none, another one finds it, and a session
\* is opened once.
LEMMA RequestsWait ==
  ASSUME ReplicasTypeOK, AccountsWait, SessionsWait, NEW op \in Operations,
         NEW ops \in {<<op>>, <<op, Noted>>}, Enqueue(ops), skewed \subseteq skewed',
         mode = "both" /\ op.kind \in AccountOps =>
           (op.kind = "user_create" <=> pg.accounts[op.key] = Nothing),
         op.kind = "user_session_create" =>
           pg.sessions[op.key] = Nothing /\ \A p \in Pending : p.key # op.key
  PROVE  AccountsWait' /\ SessionsWait'
<1>0. DeploymentOK /\ PendingOK /\ UNCHANGED <<mode, pg>> /\ sent \in Nat
  BY CapacityAssumption DEF ReplicasTypeOK, Enqueue, fixed, DeploymentOK
<1>1. PICK new, note : /\ new = [op |-> op, at |-> sent + 1]
                       /\ note = [op |-> Noted, at |-> sent + 1]
  OBVIOUS
<1>2. new.op = op /\ new.at = sent + 1 /\ note.op.kind = "gw_audit_add"
  BY <1>1 DEF Noted
<1>3. \A e \in Waiting' : e \in Waiting \/ e = new \/ e = note
  BY <1>0, <1>1, WaitingGrows
<1>4. \A e \in Waiting : e.at \in Nat /\ e.at < sent + 1 /\ e.op \in Pending
  BY <1>0, WaitingIs
<1>5. ASSUME mode = "both", NEW u \in Users, u \notin skewed'
      PROVE  AccountWaits(Waiting', pg.accounts[u], u)
  <2>1. PICK row : row = pg.accounts[u]
    OBVIOUS
  <2>2. AccountWaits(Waiting, row, u)
    BY <1>5, <2>1 DEF AccountsWait
  <2>3. ASSUME NEW e \in Waiting', Creates(e.op, u)
        PROVE  /\ Fresh(row)
               /\ \A d \in Waiting' :
                    Alters(d.op, u) => IF row = Nothing THEN d.at < e.at ELSE e.at < d.at
    <3>1. CASE e \in Waiting
      <4>1. \A d \in Waiting' :
              Alters(d.op, u) => IF row = Nothing THEN d.at < e.at ELSE e.at < d.at
        <5> SUFFICES ASSUME NEW d \in Waiting', Alters(d.op, u)
                     PROVE  IF row = Nothing THEN d.at < e.at ELSE e.at < d.at
          OBVIOUS
        <5>1. CASE d \in Waiting
          BY <2>2, <2>3, <3>1, <5>1 DEF AccountWaits
        <5>2. CASE d \notin Waiting
          <6>1. d = new
            BY <1>2, <1>3, <5>2 DEF Alters
          <6>2. row # Nothing
            BY <1>2, <1>5, <2>1, <6>1 DEF Alters, AccountOps
          <6> QED BY <1>2, <1>4, <3>1, <6>1, <6>2
        <5> QED BY <5>1, <5>2
      <4> QED BY <2>2, <2>3, <3>1, <4>1 DEF AccountWaits
    <3>2. CASE e \notin Waiting
      <4>1. e = new
        BY <1>2, <1>3, <2>3, <3>2 DEF Creates
      <4>2. row = Nothing
        BY <1>2, <1>5, <2>1, <2>3, <4>1 DEF Creates, AccountOps
      <4>3. \A d \in Waiting' : Alters(d.op, u) => d \in Waiting
        BY <1>2, <1>3, <2>3, <4>1 DEF Alters, Creates
      <4> QED BY <1>2, <1>4, <4>1, <4>2, <4>3 DEF Fresh
    <3> QED BY <3>1, <3>2
  <2> QED BY <2>1, <2>3 DEF AccountWaits
<1>6. ASSUME mode = "both", NEW s \in Sids
      PROVE  SessionWaits(Waiting', pg.sessions[s], s)
  <2>1. SessionWaits(Waiting, pg.sessions[s], s)
    BY <1>6 DEF SessionsWait
  <2>2. ASSUME NEW e \in Waiting', SignsIn(e.op, s)
        PROVE  pg.sessions[s] = Nothing /\ \A d \in Waiting' : SignsIn(d.op, s) => d = e
    <3>1. CASE op.kind = "user_session_create" /\ op.key = s
      <4>1. pg.sessions[s] = Nothing /\ \A d \in Waiting : ~ SignsIn(d.op, s)
        BY <1>4, <3>1 DEF SignsIn
      <4>2. \A d \in Waiting' : SignsIn(d.op, s) => d = new
        BY <1>2, <1>3, <4>1 DEF SignsIn
      <4> QED BY <2>2, <4>1, <4>2
    <3>2. CASE ~ (op.kind = "user_session_create" /\ op.key = s)
      <4>1. \A d \in Waiting' : SignsIn(d.op, s) => d \in Waiting
        BY <1>2, <1>3, <3>2 DEF SignsIn
      <4> QED BY <2>1, <2>2, <4>1 DEF SessionWaits
    <3> QED BY <3>1, <3>2
  <2> QED BY <2>2 DEF SessionWaits
<1> QED BY <1>0, <1>5, <1>6 DEF AccountsWait, SessionsWait

\* What waits is taken, or lost.
LEMMA WaitingShrinks ==
  ASSUME AccountsWait, SessionsWait, Waiting' \subseteq Waiting, skewed \subseteq skewed',
         mode' = mode,
         mode = "both" =>
           pg'.accounts = pg.accounts /\ pg'.sessions = pg.sessions
  PROVE  AccountsWait' /\ SessionsWait'
<1>1. ASSUME mode = "both", NEW u \in Users, u \notin skewed'
      PROVE  AccountWaits(Waiting', pg'.accounts[u], u)
  <2>1. AccountWaits(Waiting, pg'.accounts[u], u)
    BY <1>1 DEF AccountsWait
  <2> QED BY <2>1 DEF AccountWaits
<1>2. ASSUME mode = "both", NEW s \in Sids
      PROVE  SessionWaits(Waiting', pg'.sessions[s], s)
  <2>1. SessionWaits(Waiting, pg'.sessions[s], s)
    BY <1>2 DEF SessionsWait
  <2> QED BY <2>1 DEF SessionWaits
<1> QED BY <1>1, <1>2 DEF AccountsWait, SessionsWait

\* A mirror runs: what the arm of Postgres makes of an account or a session that
\* waits to be created.
Becomes(new, row, op, u) ==
  /\ Creates(op, u) => new # Nothing /\ Fresh(new)
  /\ ~ Creates(op, u) /\ row = Nothing => new = Nothing
  /\ ~ Creates(op, u) /\ ~ Alters(op, u) => new = row

LEMMA AccountMirrored ==
  ASSUME NEW op \in Operations, NEW db \in Database, NEW u \in Users,
         Creates(op, u) => Fresh(db.accounts[u])
  PROVE  Becomes(PgDispatch(db, op).accounts[u], db.accounts[u], op, u)
<1>0. PICK row, new : row = db.accounts[u] /\ new = PgDispatch(db, op).accounts[u]
  OBVIOUS
<1> DEFINE c == <<"accounts", u>>
<1>1. c \in Cells /\ c[1] = "accounts" /\ c[2] = u
  BY DEF Cells
<1>2. \A x : ValueOf(x, c) = x.accounts[u]
  BY <1>1 DEF ValueOf
<1>3. Bears(op, c) <=> op.kind \in AccountOps /\ op.key = u
  BY <1>1 DEF Bears, OpsOn
<1>4. Bears(op, c) <=> Creates(op, u) \/ Alters(op, u)
  BY <1>3 DEF AccountOps, Creates, Alters
<1>5. Alike(op, c, row)
  BY <1>0, <1>3 DEF Alike, Creates, AccountOps, Fresh
<1> HIDE DEF c
<1>6. new = IF Bears(op, c) THEN EffectOnAccount(op, row) ELSE row
  <2>1. Effect(c, op, row) = EffectOnAccount(op, row)
    BY <1>1 DEF Effect
  <2>2. CellAfter(PgDispatch(db, op), db, op, c)
    BY <1>0, <1>1, <1>2, <1>5, AccountCell
  <2> QED BY <1>0, <1>2, <2>1, <2>2 DEF CellAfter
<1>7. CASE Creates(op, u)
  <2>1. new = [password |-> op.password, totp |-> FALSE]
    BY <1>4, <1>6, <1>7 DEF EffectOnAccount, Creates
  <2>2. op.password \in Values
    BY <1>7, AccountOpIs DEF Creates, AccountOps
  <2>3. new \in AccountRow
    BY <2>1, <2>2 DEF AccountRow
  <2>4. new # Nothing
    BY <2>3, NothingAssumption
  <2>5. new.totp = FALSE
    BY <2>1
  <2> QED BY <1>0, <1>7, <2>4, <2>5 DEF Becomes, Fresh
<1>8. CASE Alters(op, u)
  <2>1. ~ Creates(op, u) /\ new = EffectOnAccount(op, row)
    BY <1>4, <1>6, <1>8 DEF Alters, Creates
  <2>2. row = Nothing => EffectOnAccount(op, row) = Nothing
    BY <1>8 DEF Alters, EffectOnAccount, Patched
  <2> QED BY <1>0, <1>8, <2>1, <2>2 DEF Becomes
<1>9. CASE ~ Creates(op, u) /\ ~ Alters(op, u)
  BY <1>0, <1>4, <1>6, <1>9 DEF Becomes
<1> QED BY <1>7, <1>8, <1>9

LEMMA SessionMirrored ==
  ASSUME NEW op \in Operations, NEW db \in Database, NEW s \in Sids, ~ SignsIn(op, s),
         db.sessions[s] = Nothing
  PROVE  PgDispatch(db, op).sessions[s] = Nothing
<1> DEFINE c == <<"sessions", s>>
<1>1. c \in Cells /\ c[1] = "sessions" /\ c[2] = s
  BY DEF Cells
<1>2. \A x : ValueOf(x, c) = x.sessions[s]
  BY <1>1 DEF ValueOf
<1>3. Alike(op, c, ValueOf(db, c))
  BY <1>1, <1>2 DEF Alike, Bears, OpsOn, SessionOps
<1> HIDE DEF c
<1>4. CellAfter(PgDispatch(db, op), db, op, c)
  BY <1>1, <1>3, SessionCell
<1>5. Bears(op, c) => op.kind # "user_session_create"
  BY <1>1 DEF Bears, SignsIn
<1> QED BY <1>1, <1>2, <1>4, <1>5 DEF CellAfter, Effect

\* A mirror that overtakes none on a row is the first of those that wait for it.
LEMMA FirstInLine ==
  ASSUME PendingOK, OrderOK, OneAtATime(mirrors), NEW m \in mirrors, NEW row,
         row \notin Overtaken(m), row \in Touches(m.op),
         NEW e \in Waiting, e # m, row \in Touches(e.op),
         m.op.kind \in AccountOps, e.op.kind \in AccountOps
  PROVE  m.at < e.at
<1>1. m.at \in Nat /\ e.at \in Nat
  <2>1. m \in Waiting
    BY DEF Waiting
  <2> QED BY <2>1, WaitingIs DEF Queued
<1>2. CASE e \in mirrors
  <2>1. m.op.kind \notin JournalOps /\ e.op.kind \notin JournalOps /\ ~ Commute(e.op, m.op)
    BY DEF Commute, AccountOps, JournalOps
  <2>2. ~ e.at < m.at
    BY <1>2, <2>1 DEF Overtaken
  <2>3. e.at # m.at
    BY <1>2, <2>1 DEF OneAtATime
  <2> QED BY <1>1, <2>2, <2>3
<1>3. CASE e \notin mirrors
  <2>1. queue \in Seq(Queued)
    BY DEF PendingOK
  <2>2. PICK i \in 1 .. Len(queue) : e = queue[i]
    BY <1>3, <2>1 DEF Waiting, RangeOf
  <2> QED BY <2>2 DEF OrderOK, Ahead
<1> QED BY <1>2, <1>3

LEMMA MirrorWaits ==
  ASSUME ReplicasTypeOK, OrderOK, OneAtATime(mirrors), AccountsWait, SessionsWait,
         NEW m \in mirrors, mirrors' = mirrors \ {m}, UNCHANGED <<mode, queue>>,
         skewed' = skewed \cup Overtaken(m), mode = "both",
         pg'.accounts = PgDispatch(pg, m.op).accounts,
         pg'.sessions = PgDispatch(pg, m.op).sessions
  PROVE  AccountsWait' /\ SessionsWait'
<1>0. PendingOK /\ pg \in Database /\ m.op \in Operations /\ m \in Waiting
      /\ Waiting' \subseteq Waiting /\ m \notin Waiting'
  <2>1. PendingOK /\ pg \in Database /\ m \in Waiting
    BY DEF ReplicasTypeOK, DatabasesOK, Waiting
  <2>2. Waiting' = RangeOf(queue) \cup (mirrors \ {m})
    BY DEF Waiting
  <2>3. m \notin RangeOf(queue)
    <3>1. queue \in Seq(Queued)
      BY <2>1 DEF PendingOK
    <3>2. \A i \in 1 .. Len(queue) : m # queue[i]
      <4>1. m.at \in Nat
        BY <2>1, WaitingIs
      <4> QED BY <4>1 DEF OrderOK, Ahead
    <3> QED BY <3>1, <3>2 DEF RangeOf
  <2> QED BY <2>1, <2>2, <2>3, WaitingIs DEF Waiting
<1>a. \A e \in Waiting : e.at \in Nat
  BY <1>0, WaitingIs
<1>1. ASSUME NEW u \in Users, u \notin skewed'
      PROVE  AccountWaits(Waiting', pg'.accounts[u], u)
  <2>1. PICK row, new : row = pg.accounts[u] /\ new = pg'.accounts[u]
    OBVIOUS
  <2>2. u \notin skewed /\ u \notin Overtaken(m)
    BY <1>1
  <2>3. AccountWaits(Waiting, row, u)
    BY <2>1, <2>2 DEF AccountsWait
  <2>4. Creates(m.op, u) => Fresh(row)
    BY <1>0, <2>3 DEF AccountWaits
  <2>5. Becomes(new, row, m.op, u)
    <3>1. PICK op \in Operations : op = m.op
      BY <1>0
    <3>2. Creates(op, u) => Fresh(pg.accounts[u])
      BY <2>1, <2>4, <3>1
    <3>3. Becomes(PgDispatch(pg, op).accounts[u], pg.accounts[u], op, u)
      BY <1>0, <3>2, AccountMirrored
    <3> QED BY <2>1, <3>1, <3>3
  <2>6. ASSUME NEW e \in Waiting', Creates(e.op, u) \/ Alters(e.op, u),
               Creates(m.op, u) \/ Alters(m.op, u)
        PROVE  m.at < e.at
    <3>1. e \in Waiting /\ e # m
      BY <1>0
    <3>2. /\ e.op.kind \in AccountOps /\ u \in Touches(e.op)
          /\ m.op.kind \in AccountOps /\ u \in Touches(m.op)
      BY <2>6 DEF Creates, Alters, AccountOps, Touches
    <3> QED BY <1>0, <2>2, <3>1, <3>2, FirstInLine
  <2>7. ASSUME NEW e \in Waiting', Creates(e.op, u)
        PROVE  /\ Fresh(new)
               /\ \A d \in Waiting' :
                    Alters(d.op, u) => IF new = Nothing THEN d.at < e.at ELSE e.at < d.at
    <3>1. CASE Creates(m.op, u)
      <4>1. ASSUME NEW d \in Waiting', Alters(d.op, u)
            PROVE  e.at < d.at
        <5>1. m.at < d.at /\ m.at \in Nat /\ d.at \in Nat
          BY <1>0, <1>a, <2>6, <3>1, <4>1
        <5>2. row # Nothing
          BY <1>0, <2>3, <3>1, <4>1, <5>1 DEF AccountWaits
        <5> QED BY <1>0, <2>3, <2>7, <4>1, <5>2 DEF AccountWaits
      <4> QED BY <2>5, <3>1, <4>1 DEF Becomes
    <3>2. CASE Alters(m.op, u)
      <4>1. ~ Creates(m.op, u)
        BY <3>2 DEF Creates, Alters
      <4>2. m.at < e.at /\ m.at \in Nat /\ e.at \in Nat
        BY <1>0, <1>a, <2>6, <2>7, <3>2
      <4>3. row = Nothing
        BY <1>0, <2>3, <2>7, <3>2, <4>2 DEF AccountWaits
      <4>4. new = Nothing
        BY <2>5, <4>1, <4>3 DEF Becomes
      <4>5. Fresh(new)
        BY <4>4 DEF Fresh
      <4> QED BY <1>0, <2>3, <2>7, <4>3, <4>4, <4>5 DEF AccountWaits
    <3>3. CASE ~ Creates(m.op, u) /\ ~ Alters(m.op, u)
      <4>1. new = row
        BY <2>5, <3>3 DEF Becomes
      <4> QED BY <1>0, <2>3, <2>7, <4>1 DEF AccountWaits
    <3> QED BY <3>1, <3>2, <3>3
  <2> QED BY <2>1, <2>7 DEF AccountWaits
<1>2. ASSUME NEW s \in Sids
      PROVE  SessionWaits(Waiting', pg'.sessions[s], s)
  <2>1. SessionWaits(Waiting, pg.sessions[s], s)
    BY DEF SessionsWait
  <2>2. ASSUME NEW e \in Waiting', SignsIn(e.op, s)
        PROVE  pg'.sessions[s] = Nothing /\ \A d \in Waiting' : SignsIn(d.op, s) => d = e
    <3>1. e \in Waiting /\ e # m
      BY <1>0
    <3>2. pg.sessions[s] = Nothing /\ \A d \in Waiting : SignsIn(d.op, s) => d = e
      BY <2>1, <2>2, <3>1 DEF SessionWaits
    <3>3. ~ SignsIn(m.op, s)
      BY <1>0, <3>1, <3>2
    <3> QED BY <1>0, <3>2, <3>3, SessionMirrored
  <2> QED BY <2>2 DEF SessionWaits
<1> QED BY <1>1, <1>2 DEF AccountsWait, SessionsWait

LEMMA CatchUpStep ==
  ASSUME mode # "pg", NEW db \in Database, NEW batch \in Seq(Queued),
         NEW n \in 1 .. Len(batch), \A i \in 1 .. Len(batch) : batch[i].at \in Nat \ {0},
         NEW how, how[n] \in Outcomes(batch[n]),
         NEW tasks \in SUBSET Queued, \A m \in tasks : m.at \in Nat \ {0},
         InOrder(batch), Ahead(tasks, batch), OneAtATime(tasks),
         NEW c \in Cells, how[n] = "half" => c[2] \notin Touches(batch[n].op), NEW v0,
         CatchesUp(Concerned(Tasks(tasks, batch, how, n - 1), c), c, v0, ValueOf(db, c)),
         NEW x, x = Outcome(db, batch[n].op, how[n])
  PROVE  /\ x \in Database
         /\ CatchesUp(Concerned(Tasks(tasks, batch, how, n), c), c, v0, ValueOf(x, c))
<1>1. PICK old, new, e : /\ old = Tasks(tasks, batch, how, n - 1)
                         /\ new = Tasks(tasks, batch, how, n) /\ e = batch[n]
  OBVIOUS
<1>2. e \in Queued /\ e.op \in Operations /\ e.at \in Nat \ {0}
      /\ Len(batch) \in Nat /\ n \in Nat
  <2>1. e \in Queued
    BY <1>1
  <2> QED BY <1>1, <2>1 DEF Queued
<1>3. /\ OneAtATime(old) /\ old \subseteq Queued
      /\ new = IF how[n] = "done" THEN old \cup {e} ELSE old
      /\ \A m \in old : \/ m.at < e.at
                        \/ m.op.kind \notin JournalOps /\ e.op.kind \in JournalOps
  BY <1>1, TasksOfBatch
<1>4. \A m \in old : m.op \in Operations /\ m.at \in Nat \ {0}
  <2>1. \A m \in old : m \in tasks \/ \E i \in 1 .. Len(batch) : m = batch[i]
    BY <1>1, <1>2 DEF Tasks
  <2>2. \A m \in old : m.at \in Nat \ {0}
    BY <2>1
  <2> QED BY <1>3, <2>2 DEF Queued
<1>5. CatchesUp(Concerned(old, c), c, v0, ValueOf(db, c))
  BY <1>1
<1>6. CASE how[n] = "done" /\ Bears(e.op, c)
  <2>1. x = LiteApply(db, e.op)
    BY <1>1, <1>6 DEF Outcome, Done
  <2>2. x \in Database /\ CellAfter(x, db, e.op, c)
    BY <1>2, <2>1, ArmsKeepDatabases, CellsAfterArms
  <2>3. ValueOf(x, c) = Effect(c, e.op, ValueOf(db, c))
    BY <1>6, <2>2 DEF CellAfter
  <2>4. Concerned(new, c) = Concerned(old, c) \cup {e}
    BY <1>3, <1>6 DEF Concerned
  <2>5. Tasked(Concerned(old, c), c)
    BY <1>3, <1>4, ConcernedTasked
  <2>6. ASSUME NEW m \in Concerned(old, c)
        PROVE  m.at < e.at
    <3>1. m \in old /\ Bears(m.op, c)
      BY DEF Concerned
    <3>2. m.op.kind \in JournalOps <=> e.op.kind \in JournalOps
      BY <1>6, <3>1, OneTable
    <3> QED BY <1>3, <3>1, <3>2
  <2>7. CatchesUp(Concerned(old, c) \cup {e}, c, v0, Effect(c, e.op, ValueOf(db, c)))
    BY <1>2, <1>5, <1>6, <2>5, <2>6, OneMore
  <2> QED BY <1>1, <2>2, <2>3, <2>4, <2>7
<1>7. CASE ~ (how[n] = "done" /\ Bears(e.op, c))
  <2>1. Concerned(new, c) = Concerned(old, c)
    BY <1>3, <1>7 DEF Concerned
  <2>2. x \in Database /\ ValueOf(x, c) = ValueOf(db, c)
    <3>1. CASE how[n] = "done"
      <4>1. x = LiteApply(db, e.op)
        BY <1>1, <3>1 DEF Outcome, Done
      <4>2. x \in Database /\ CellAfter(x, db, e.op, c)
        BY <1>2, <4>1, ArmsKeepDatabases, CellsAfterArms
      <4> QED BY <1>7, <3>1, <4>2 DEF CellAfter
    <3>2. CASE how[n] = "half"
      <4>1. x = LiteApplyHalf(db, e.op)
        BY <1>1, <3>2 DEF Outcome, Begun
      <4>2. e.op.kind \in TwoStatements /\ c[2] \notin Touches(e.op)
        BY <1>1, <3>2 DEF Outcomes
      <4> QED BY <1>2, <4>1, <4>2, HalfIs, HalfOfCell
    <3>3. CASE how[n] = "failed"
      BY <3>3 DEF Outcome
    <3> QED BY <3>1, <3>2, <3>3 DEF Outcomes
  <2> QED BY <1>1, <1>5, <2>1, <2>2
<1> QED BY <1>6, <1>7

LEMMA CatchUpBatch ==
  ASSUME mode # "pg", NEW db \in Database, NEW batch \in Seq(Queued),
         \A i \in 1 .. Len(batch) : batch[i].at \in Nat \ {0},
         NEW how, \A i \in 1 .. Len(batch) : how[i] \in Outcomes(batch[i]),
         NEW tasks \in SUBSET Queued, \A m \in tasks : m.at \in Nat \ {0},
         InOrder(batch), Ahead(tasks, batch), OneAtATime(tasks), NEW c \in Cells,
         \A i \in 1 .. Len(batch) : how[i] = "half" => c[2] \notin Touches(batch[i].op),
         NEW v0, CatchesUp(Concerned(tasks, c), c, v0, ValueOf(db, c))
  PROVE  CatchesUp(Concerned(Tasks(tasks, batch, how, Len(batch)), c), c, v0,
                   ValueOf(Written(db, batch, how), c))
<1> DEFINE D(n) == {x \in Database :
                      CatchesUp(Concerned(Tasks(tasks, batch, how, n), c), c, v0,
                                ValueOf(x, c))}
           good == [n \in 0 .. Len(batch) |-> D(n)]
<1>1. db \in good[0]
  <2>1. Tasks(tasks, batch, how, 0) = tasks
    BY DEF Tasks
  <2> QED BY <2>1
<1>2. \A n \in 1 .. Len(batch) : \A x \in good[n - 1] :
        Outcome(x, batch[n].op, how[n]) \in good[n]
  <2> SUFFICES ASSUME NEW n \in 1 .. Len(batch), NEW x \in D(n - 1)
               PROVE  Outcome(x, batch[n].op, how[n]) \in D(n)
    OBVIOUS
  <2>1. PICK y : y = Outcome(x, batch[n].op, how[n])
    OBVIOUS
  <2>2. /\ y \in Database
        /\ CatchesUp(Concerned(Tasks(tasks, batch, how, n), c), c, v0, ValueOf(y, c))
    BY <2>1, CatchUpStep
  <2> QED BY <2>1, <2>2
<1> HIDE DEF good
<1>3. Written(db, batch, how) \in good[Len(batch)]
  BY <1>1, <1>2, BatchKeeps
<1> QED BY <1>3 DEF good

\* Tasks that do not touch the row of a cell are of no concern to it.
LEMMA OthersConcerned ==
  ASSUME NEW tasks, NEW more, tasks \subseteq more, NEW c \in Cells,
         \A m \in more \ tasks : m.op \in Operations /\ c[2] \notin Touches(m.op)
  PROVE  Concerned(more, c) = Concerned(tasks, c)
<1>1. \A m \in more \ tasks : ~ Bears(m.op, c)
  BY BearingTouches
<1> QED BY <1>1 DEF Concerned

\* The writer.
LEMMA WriterCatchesUp ==
  ASSUME ReplicasTypeOK, OrderOK, MirrorsInv, TablesCatchUp, WriteBatch, mode = "both"
  PROVE  TablesCatchUp'
<1>1. PendingOK /\ queue \in Seq(Queued) /\ mirrors \in SUBSET Queued /\ lite \in Database
      /\ DOMAIN queue = 1 .. Len(queue) /\ OneAtATime(mirrors)
      /\ InOrder(queue) /\ Ahead(mirrors, queue) /\ Len(queue) \in Nat
  BY DEF ReplicasTypeOK, DatabasesOK, PendingOK, MirrorsInv, OrderOK
<1>2. PICK how \in [1 .. Len(queue) -> {"done", "failed", "half"}],
           committed \in BOOLEAN :
        /\ \A i \in DOMAIN queue : how[i] \in Outcomes(queue[i])
        /\ lite' = IF committed THEN Written(lite, queue, how) ELSE lite
        /\ mirrors' = IF mode = "both"
                      THEN mirrors \cup {queue[i] : i \in Mirrored(how)}
                      ELSE mirrors
        /\ skewed' = skewed \cup
             UNION {Touches(queue[i].op) :
                      i \in IF committed THEN {i \in DOMAIN queue : how[i] = "half"}
                           ELSE {j \in DOMAIN queue : how[j] = "done"}}
  BY DEF WriteBatch, Courses
<1>3. UNCHANGED <<mode, pg>>
  BY DEF WriteBatch, fixed
<1>4. mirrors' = Tasks(mirrors, queue, how, Len(queue))
  BY <1>2 DEF Tasks, Mirrored
<1>5. /\ \A i \in 1 .. Len(queue) :
           queue[i].op \in Operations /\ queue[i].at \in Nat \ {0}
      /\ \A m \in mirrors : m.at \in Nat \ {0}
  <2>1. sent \in Nat
    BY CapacityAssumption DEF ReplicasTypeOK, DeploymentOK
  <2> QED BY <1>1, <2>1, PendingRows
<1>6. ASSUME NEW c \in Cells, c[2] \notin skewed'
      PROVE  CatchesUp(Concerned(mirrors', c), c, ValueOf(pg, c), ValueOf(lite', c))
  <2>1. CatchesUp(Concerned(mirrors, c), c, ValueOf(pg, c), ValueOf(lite, c))
    BY <1>1, <1>2, <1>6 DEF TablesCatchUp
  <2>2. CASE committed
    <3>1. \A i \in 1 .. Len(queue) : how[i] = "half" => c[2] \notin Touches(queue[i].op)
      BY <1>1, <1>2, <1>6, <2>2
    <3>2. PICK v0 : v0 = ValueOf(pg, c)
      OBVIOUS
    <3>3. CatchesUp(Concerned(Tasks(mirrors, queue, how, Len(queue)), c), c, v0,
                    ValueOf(Written(lite, queue, how), c))
      <4>1. CatchesUp(Concerned(mirrors, c), c, v0, ValueOf(lite, c))
        BY <2>1, <3>2
      <4>2. \A i \in 1 .. Len(queue) : how[i] \in Outcomes(queue[i])
        BY <1>1, <1>2
      <4>3. mode # "pg"
        OBVIOUS
      <4> QED BY <1>1, <1>5, <3>1, <4>1, <4>2, <4>3, CatchUpBatch
    <3> QED BY <1>2, <1>4, <2>2, <3>2, <3>3
  <2>3. CASE ~ committed
    <3>1. \A m \in mirrors' \ mirrors : m.op \in Operations /\ c[2] \notin Touches(m.op)
      BY <1>1, <1>2, <1>5, <1>6, <2>3 DEF Mirrored
    <3>2. mirrors \subseteq mirrors' /\ lite' = lite
      BY <1>2, <2>3
    <3>3. Concerned(mirrors', c) = Concerned(mirrors, c)
      BY <3>1, <3>2, OthersConcerned
    <3> QED BY <2>1, <3>2, <3>3
  <2> QED BY <2>2, <2>3
<1> QED BY <1>3, <1>6 DEF TablesCatchUp

\* A mirror runs.
LEMMA MirrorCatchesUp ==
  ASSUME ReplicasTypeOK, OrderOK, MirrorsInv, AgreeInv,
         NEW m \in mirrors, NEW reached \in BOOLEAN,
         mirrors' = mirrors \ {m}, UNCHANGED <<mode, lite>>, mode = "both",
         pg' = (IF reached THEN Rest(pg, m) ELSE pg),
         skewed' = skewed \cup (IF reached THEN Overtaken(m) ELSE Touches(m.op))
  PROVE  TablesCatchUp'
<1>1. PendingOK /\ pg \in Database /\ OneAtATime(mirrors) /\ TablesCatchUp
      /\ AccountsWait /\ SessionsWait /\ m \in Waiting
  BY DEF ReplicasTypeOK, DatabasesOK, MirrorsInv, AgreeInv, Waiting
<1>2. /\ m.op \in Operations
      /\ \A e \in mirrors : e.op \in Operations /\ e.at \in Nat \ {0}
  <2>1. sent \in Nat
    BY CapacityAssumption DEF ReplicasTypeOK, DeploymentOK
  <2> QED BY <1>1, <2>1, PendingRows
<1>3. ASSUME NEW c \in Cells, c[2] \notin skewed'
      PROVE  CatchesUp(Concerned(mirrors', c), c, ValueOf(pg', c), ValueOf(lite, c))
  <2>1. CatchesUp(Concerned(mirrors, c), c, ValueOf(pg, c), ValueOf(lite, c))
    BY <1>1, <1>3 DEF TablesCatchUp
  <2>a. ValueOf(pg', c) = IF reached THEN ValueOf(PgDispatch(pg, m.op), c)
                                     ELSE ValueOf(pg, c)
    BY <1>1, <1>3, RestOfCell
  <2>2. CASE ~ Bears(m.op, c)
    <3>1. Concerned(mirrors', c) = Concerned(mirrors, c)
      BY <2>2 DEF Concerned
    <3>2. ValueOf(pg', c) = ValueOf(pg, c)
      <4>1. Alike(m.op, c, ValueOf(pg, c))
        BY <2>2 DEF Alike
      <4>2. CellAfter(PgDispatch(pg, m.op), pg, m.op, c)
        BY <1>1, <1>2, <4>1, CellsAfterArms
      <4> QED BY <2>2, <2>a, <4>2 DEF CellAfter
    <3> QED BY <2>1, <3>1, <3>2
  <2>3. CASE Bears(m.op, c)
    <3>1. c[2] \in Touches(m.op)
      BY <1>2, <2>3, BearingTouches
    <3>2. reached /\ c[2] \notin Overtaken(m) /\ c[2] \notin skewed
      BY <1>3, <3>1
    <3>3. Alike(m.op, c, ValueOf(pg, c))
      <4>1. CASE m.op.kind = "user_create"
        <5>1. c[1] = "accounts" /\ m.op.key = c[2]
          BY <2>3, <4>1, CellIs
             DEF Bears, OpsOn, SettingOps, SessionOps, BanOps, MeshOps, TwoStatements,
                 JournalOps
        <5>2. c[2] \in Users
          BY <5>1, CellIs
        <5>3. AccountWaits(Waiting, pg.accounts[c[2]], c[2])
          BY <1>1, <3>2, <5>2 DEF AccountsWait
        <5>4. Fresh(pg.accounts[c[2]])
          BY <1>1, <4>1, <5>1, <5>3 DEF AccountWaits, Creates
        <5>5. ValueOf(pg, c) = pg.accounts[c[2]]
          BY <5>1 DEF ValueOf
        <5> QED BY <4>1, <5>4, <5>5 DEF Alike, Fresh
      <4>2. CASE m.op.kind = "user_session_create"
        <5>1. c[1] = "sessions" /\ m.op.key = c[2]
          BY <2>3, <4>2, CellIs
             DEF Bears, OpsOn, SettingOps, AccountOps, BanOps, MeshOps, TwoStatements,
                 JournalOps
        <5>2. c[2] \in Sids
          BY <5>1, CellIs
        <5>3. SessionWaits(Waiting, pg.sessions[c[2]], c[2])
          BY <1>1, <5>2 DEF SessionsWait
        <5>4. pg.sessions[c[2]] = Nothing
          BY <1>1, <4>2, <5>1, <5>3 DEF SessionWaits, SignsIn
        <5> QED BY <4>2, <5>1, <5>4 DEF Alike, ValueOf
      <4>3. CASE m.op.kind \notin {"user_create", "user_session_create"}
        BY <4>3 DEF Alike
      <4> QED BY <4>1, <4>2, <4>3
    <3>4. CellAfter(PgDispatch(pg, m.op), pg, m.op, c)
      BY <1>1, <1>2, <3>3, CellsAfterArms
    <3>5. ValueOf(pg', c) = Effect(c, m.op, ValueOf(pg, c))
      BY <2>3, <2>a, <3>2, <3>4 DEF CellAfter
    <3>6. /\ m \in Concerned(mirrors, c)
          /\ Concerned(mirrors', c) = Concerned(mirrors, c) \ {m}
      BY <2>3 DEF Concerned
    <3>7. \A e \in Concerned(mirrors, c) : e.at < m.at => Commute(e.op, m.op)
      <4> SUFFICES ASSUME NEW e \in mirrors, Bears(e.op, c), e.at < m.at,
                          ~ Commute(e.op, m.op)
                   PROVE  FALSE
        BY DEF Concerned
      <4>1. c[2] \in Touches(e.op)
        BY <1>2, BearingTouches
      <4> QED BY <3>1, <3>2, <4>1 DEF Overtaken
    <3>8. Tasked(Concerned(mirrors, c), c)
      BY <1>1, <1>2, ConcernedTasked
    <3>9. CatchesUp(Concerned(mirrors, c) \ {m}, c, Effect(c, m.op, ValueOf(pg, c)),
                    ValueOf(lite, c))
      <4>1. PICK v0, v1, T : /\ v0 = ValueOf(pg, c) /\ v1 = ValueOf(lite, c)
                             /\ T = Concerned(mirrors, c)
        OBVIOUS
      <4>2. CatchesUp(T \ {m}, c, Effect(c, m.op, v0), v1)
        BY <2>1, <3>6, <3>7, <3>8, <4>1, OneLess
      <4> QED BY <4>1, <4>2
    <3> QED BY <3>5, <3>6, <3>9
  <2> QED BY <2>2, <2>3
<1> QED BY <1>3 DEF TablesCatchUp

\* A mirror begins.
LEMMA MirrorBeginsCatchesUp ==
  ASSUME ReplicasTypeOK, MirrorsInv, TablesCatchUp, NEW m \in mirrors,
         m.op.kind \in TwoStatements, UNCHANGED <<mode, lite, mirrors>>,
         HalfOf(pg', pg, m.op), skewed' = skewed \cup Overtaken(m)
  PROVE  TablesCatchUp'
<1>1. /\ m.op \in Operations /\ OneAtATime(mirrors)
      /\ \A e \in mirrors : e.op \in Operations /\ e.at \in Nat \ {0}
  <2>1. sent \in Nat /\ PendingOK
    BY CapacityAssumption DEF ReplicasTypeOK, DeploymentOK
  <2> QED BY <2>1, PendingRows DEF MirrorsInv
<1>2. ASSUME mode = "both", NEW c \in Cells, c[2] \notin skewed'
      PROVE  CatchesUp(Concerned(mirrors, c), c, ValueOf(pg', c), ValueOf(lite, c))
  <2>1. PICK v0, v1, u, T : /\ v0 = ValueOf(pg, c) /\ v1 = ValueOf(lite, c)
                            /\ u = ValueOf(pg', c) /\ T = Concerned(mirrors, c)
    OBVIOUS
  <2>2. CatchesUp(T, c, v0, v1)
    BY <1>2, <2>1 DEF TablesCatchUp
  <2>3. CASE u = v0
    BY <2>1, <2>2, <2>3
  <2>4. CASE u # v0
    <3>1. Bears(m.op, c) /\ c[1] # "bans" /\ \A v, w : Effect(c, m.op, v) = Effect(c, m.op, w)
      <4>1. PICK x : x = pg'
        OBVIOUS
      <4>2. HalfOf(x, pg, m.op) /\ u = ValueOf(x, c)
        BY <2>1, <4>1
      <4> QED BY <1>1, <2>1, <2>4, <4>2, HalfOverwritten
    <3>2. Tasked(T, c) /\ m \in T
      BY <1>1, <2>1, <3>1, ConcernedTasked DEF Concerned
    <3>3. ASSUME NEW e \in T \ {m}
          PROVE  m.at < e.at
      <4>1. e \in mirrors /\ e.at \in Nat /\ m.at \in Nat /\ e.at # m.at
        BY <1>1, <2>1, <3>2 DEF Concerned, Tasked
      <4>2. c[2] \in Touches(e.op) /\ c[2] \in Touches(m.op)
        BY <1>1, <2>1, <3>1, BearingTouches DEF Concerned
      <4>3. ~ Commute(e.op, m.op)
        BY DEF Commute, TwoStatements, JournalOps
      <4>4. ~ e.at < m.at
        BY <1>2, <4>1, <4>2, <4>3 DEF Overtaken
      <4> QED BY <4>1, <4>4
    <3>4. CatchesUp(T, c, u, v1)
      BY <2>2, <3>1, <3>2, <3>3, StartsOver
    <3> QED BY <2>1, <3>4
  <2> QED BY <2>3, <2>4
<1> QED BY <1>2 DEF TablesCatchUp

\* An archive, of whose rows those it changed count as set apart.
LEMMA RestoreCatchesUp ==
  ASSUME ReplicasTypeOK, TablesCatchUp, Restore
  PROVE  TablesCatchUp'
<1>1. /\ UNCHANGED <<mode, pg, mirrors>> /\ skewed' = skewed \cup Altered(lite, lite')
  BY DEF Restore, Enqueue, fixed, mirrorVars
<1>2. PICK sections \in SUBSET Sections : lite' = Restored(lite, archive, sections)
  BY DEF Restore
<1>3. lite \in Database
  BY DEF ReplicasTypeOK, DatabasesOK
<1>4. lite'.sessions = lite.sessions /\ lite'.bans = lite.bans
      /\ lite'.journal = lite.journal
  BY <1>2, <1>3 DEF Restored, Database
<1>5. ASSUME NEW c \in Cells, c[2] \notin skewed'
      PROVE  c[2] \notin skewed /\ ValueOf(lite', c) = ValueOf(lite, c)
  <2>1. c[2] \notin skewed /\ c[2] \notin Altered(lite, lite')
    BY <1>1, <1>5
  <2>2. PICK x : x = lite'
    OBVIOUS
  <2>3. /\ c[1] = "settings" => x.settings[c[2]] = lite.settings[c[2]]
        /\ c[1] = "accounts" => x.accounts[c[2]] = lite.accounts[c[2]]
        /\ c[1] = "gateways" => x.gateways[c[2]] = lite.gateways[c[2]]
        /\ c[1] = "rules" => x.rules = lite.rules
    BY <2>1, <2>2, CellIs DEF Altered
  <2>4. x.sessions = lite.sessions /\ x.bans = lite.bans /\ x.journal = lite.journal
    BY <1>4, <2>2
  <2>5. ValueOf(x, c) = ValueOf(lite, c)
    BY <2>3, <2>4, CellIs DEF ValueOf
  <2> QED BY <2>1, <2>2, <2>5
<1>6. ASSUME mode = "both", NEW c \in Cells, c[2] \notin skewed'
      PROVE  CatchesUp(Concerned(mirrors, c), c, ValueOf(pg, c), ValueOf(lite', c))
  <2>1. CatchesUp(Concerned(mirrors, c), c, ValueOf(pg, c), ValueOf(lite, c))
    BY <1>5, <1>6 DEF TablesCatchUp
  <2> QED BY <1>5, <1>6, <2>1
<1> QED BY <1>1, <1>6 DEF TablesCatchUp

LEMMA AgreeInit == ASSUME ReplicasInit PROVE AgreeInv
<1>1. queue = << >> /\ mirrors = {} /\ pg = lite /\ lite \in Database
  BY ReplicasTypeInit DEF ReplicasInit, ReplicasTypeOK, DatabasesOK
<1>2. Waiting = {}
  BY <1>1 DEF Waiting, RangeOf
<1>3. AccountsWait /\ SessionsWait
  BY <1>1, <1>2 DEF AccountsWait, SessionsWait, AccountWaits, SessionWaits
<1>4. TablesCatchUp
  <2> SUFFICES ASSUME NEW c \in Cells
               PROVE  CatchesUp(Concerned(mirrors, c), c, ValueOf(pg, c), ValueOf(lite, c))
    BY DEF TablesCatchUp
  <2>1. Concerned(mirrors, c) = {}
    BY <1>1 DEF Concerned
  <2>2. c[1] = "bans" => ValueOf(lite, c) \in Nat
    BY <1>1, CellIs, TablesAssumption DEF ValueOf, Database
  <2> QED BY <1>1, <2>1, <2>2, NothingToCatch
<1> QED BY <1>3, <1>4, OrdersInit DEF AgreeInv

LEMMA AgreeStep ==
  ASSUME ReplicasTypeOK, OrderOK, MirrorsInv, AgreeInv, [ReplicasNext]_replicasVars
  PROVE  AgreeInv'
<1>0. /\ TablesCatchUp /\ AccountsWait /\ SessionsWait /\ OrdersAgree /\ OrdersAgree'
      /\ OneAtATime(mirrors) /\ PendingOK /\ pg \in Database
  BY OrdersStep DEF AgreeInv, MirrorsInv, ReplicasTypeOK, DatabasesOK
<1> SUFFICES TablesCatchUp' /\ AccountsWait' /\ SessionsWait'
  BY <1>0 DEF AgreeInv
<1>1. CASE Write \/ Registry \/ Enrol
  <2>1. PICK op \in Operations : Asked(op)
    BY <1>1, RequestsAsk
  <2>2. PICK ops \in {<<op>>, <<op, Noted>>} : Enqueue(ops)
    BY <2>1 DEF Asked
  <2>3. UNCHANGED <<lite, pg, mode, mirrors, skewed>>
    BY <2>1 DEF Asked, Enqueue, fixed, mirrorVars
  <2>4. TablesCatchUp'
    BY <1>0, <2>3 DEF TablesCatchUp
  <2>5. mode = "both" => Read = pg
    BY DEF Read
  <2>6. /\ mode = "both" /\ op.kind \in AccountOps =>
             (op.kind = "user_create" <=> pg.accounts[op.key] = Nothing)
        /\ op.kind = "user_session_create" =>
             pg.sessions[op.key] = Nothing /\ \A p \in Pending : p.key # op.key
    BY <2>1, <2>5 DEF Asked
  <2> QED BY <1>0, <2>2, <2>3, <2>4, <2>6, RequestsWait
<1>2. CASE Restore
  <2>1. Enqueue(<<Noted>>) /\ skewed \subseteq skewed' /\ UNCHANGED mirrors
    BY <1>2 DEF Restore, Noted, Enqueue, mirrorVars
  <2>2. Noted \in Operations /\ Noted.kind = "gw_audit_add"
    BY DEF Noted, Operations, JournalOps
  <2>3. PICK op \in Operations : op = Noted
    BY <2>2
  <2>4. AccountsWait' /\ SessionsWait'
    <3>1. op.kind \notin AccountOps /\ op.kind # "user_session_create"
      BY <2>2, <2>3 DEF AccountOps
    <3>2. PICK ops \in {<<op>>, <<op, Noted>>} : ops = <<op>>
      OBVIOUS
    <3>3. Enqueue(ops)
      BY <2>1, <2>3, <3>2
    <3> QED BY <1>0, <2>1, <3>1, <3>3, RequestsWait
  <2> QED BY <1>0, <1>2, <2>1, <2>4, RestoreCatchesUp
<1>3. ASSUME mode # "both", UNCHANGED <<mode, mirrors>>
      PROVE  TablesCatchUp' /\ AccountsWait' /\ SessionsWait'
  BY <1>0, <1>3 DEF TablesCatchUp, AccountsWait, SessionsWait
<1>4. CASE WritePg \/ Import \/ Export
  <2>1. mode # "both" /\ UNCHANGED <<mode, mirrors>>
    BY <1>4 DEF WritePg, Import, Export, fixed, mirrorVars
  <2> QED BY <1>3, <2>1
<1>5. CASE WriteBatch
  <2>1. UNCHANGED <<mode, pg>> /\ skewed \subseteq skewed'
    BY <1>5 DEF WriteBatch, fixed
  <2>2. mode # "both" => mirrors' = mirrors
    BY <1>5 DEF WriteBatch
  <2>3. CASE mode # "both"
    BY <1>3, <2>1, <2>2, <2>3
  <2>4. CASE mode = "both"
    <3>1. TablesCatchUp'
      BY <1>0, <1>5, <2>4, WriterCatchesUp
    <3>2. Waiting' \subseteq Waiting
      <4>1. queue' = << >> /\ RangeOf(queue') = {}
        BY <1>5 DEF WriteBatch, RangeOf
      <4>2. PICK how \in [1 .. Len(queue) -> {"done", "failed", "half"}] :
              mirrors' = mirrors \cup {queue[i] : i \in Mirrored(how)}
        BY <1>5, <2>4 DEF WriteBatch, Courses
      <4>3. DOMAIN queue = 1 .. Len(queue)
        BY DEF ReplicasTypeOK, PendingOK
      <4>4. mirrors' \subseteq RangeOf(queue) \cup mirrors
        BY <4>2, <4>3 DEF RangeOf, Mirrored
      <4> QED BY <4>1, <4>4 DEF Waiting
    <3> QED BY <1>0, <2>1, <3>1, <3>2, WaitingShrinks
  <2> QED BY <2>3, <2>4
<1>6. CASE Mirror
  <2>1. PICK m \in mirrors, reached \in BOOLEAN :
          /\ mirrors' = mirrors \ {m}
          /\ pg' = IF reached THEN Rest(pg, m) ELSE pg
          /\ skewed' = skewed \cup (IF reached THEN Overtaken(m) ELSE Touches(m.op))
    BY <1>6 DEF Mirror
  <2>2. UNCHANGED <<mode, lite, queue>> /\ mode = "both"
    <3>1. UNCHANGED <<mode, lite, queue>>
      BY <1>6 DEF Mirror, fixed
    <3> QED BY <3>1 DEF OrderOK
  <2>3. TablesCatchUp'
    BY <2>1, <2>2, MirrorCatchesUp
  <2>5. CASE reached
    <3>1. /\ pg'.accounts = PgDispatch(pg, m.op).accounts
          /\ pg'.sessions = PgDispatch(pg, m.op).sessions
      BY <1>0, <2>1, <2>5, RestIsDispatch DEF SameTables
    <3>2. AccountsWait' /\ SessionsWait'
      BY <1>0, <2>1, <2>2, <2>5, <3>1, MirrorWaits
    <3> QED BY <2>3, <3>2
  <2>6. CASE ~ reached
    <3>1. Waiting' \subseteq Waiting
      BY <2>1, <2>2 DEF Waiting
    <3>2. AccountsWait' /\ SessionsWait'
      BY <1>0, <2>1, <2>2, <2>6, <3>1, WaitingShrinks
    <3> QED BY <2>3, <3>2
  <2> QED BY <2>5, <2>6
<1>7. CASE Crash
  <2>1. /\ queue' = << >> /\ mirrors' = {} /\ UNCHANGED <<mode, lite, pg>>
        /\ skewed' = skewed \cup UNION {Touches(m.op) : m \in mirrors}
    BY <1>7 DEF Crash, fixed
  <2>2. Waiting' \subseteq Waiting
    BY <2>1 DEF Waiting, RangeOf
  <2>3. AccountsWait' /\ SessionsWait'
    BY <1>0, <2>1, <2>2, WaitingShrinks
  <2>4. ASSUME mode = "both", NEW c \in Cells, c[2] \notin skewed'
        PROVE  CatchesUp(Concerned({}, c), c, ValueOf(pg, c), ValueOf(lite, c))
    <3>1. CatchesUp(Concerned(mirrors, c), c, ValueOf(pg, c), ValueOf(lite, c))
      BY <1>0, <2>1, <2>4 DEF TablesCatchUp
    <3>2. \A m \in mirrors \ {} : m.op \in Operations /\ c[2] \notin Touches(m.op)
      BY <2>1, <2>4, PendingRows DEF ReplicasTypeOK
    <3>3. Concerned(mirrors, c) = Concerned({}, c)
      BY <3>2, OthersConcerned
    <3> QED BY <3>1, <3>3
  <2>5. TablesCatchUp'
    BY <2>1, <2>4 DEF TablesCatchUp
  <2> QED BY <2>3, <2>5
<1>8. CASE SaveOrder
  <2>1. PICK s \in Signals, n \in Orders, reached \in BOOLEAN :
          StoreOrder(<<knownAs, s>>, n, reached)
    BY <1>8 DEF SaveOrder
  <2>2. PICK row : row = <<knownAs, s>>
    OBVIOUS
  <2>3. UNCHANGED <<mode, queue, mirrors, skewed>>
    BY <1>8 DEF SaveOrder, fixed, mirrorVars
  <2>4. /\ lite' = [lite EXCEPT !.orders[row] = n]
        /\ pg' = [pg EXCEPT !.orders[row] = n] \/ pg' = pg
    BY <2>1, <2>2 DEF StoreOrder
  <2>5. PICK x, y : x = lite' /\ y = pg'
    OBVIOUS
  <2>6. /\ x.settings = lite.settings /\ x.accounts = lite.accounts
        /\ x.sessions = lite.sessions /\ x.bans = lite.bans
        /\ x.gateways = lite.gateways /\ x.rules = lite.rules /\ x.journal = lite.journal
    BY <2>4, <2>5 DEF ReplicasTypeOK, DatabasesOK, Database
  <2>7. /\ y.settings = pg.settings /\ y.accounts = pg.accounts
        /\ y.sessions = pg.sessions /\ y.bans = pg.bans
        /\ y.gateways = pg.gateways /\ y.rules = pg.rules /\ y.journal = pg.journal
    BY <2>4, <2>5 DEF ReplicasTypeOK, DatabasesOK, Database
  <2>8. \A c \in Cells : ValueOf(x, c) = ValueOf(lite, c) /\ ValueOf(y, c) = ValueOf(pg, c)
    BY <2>6, <2>7, CellIs DEF ValueOf
  <2>9. TablesCatchUp'
    BY <1>0, <2>3, <2>5, <2>8 DEF TablesCatchUp
  <2>10. AccountsWait' /\ SessionsWait'
    BY <1>0, <2>3, <2>5, <2>7 DEF AccountsWait, SessionsWait, Waiting
  <2> QED BY <2>9, <2>10
<1>9. CASE SaveArchive \/ UNCHANGED replicasVars
  <2>1. UNCHANGED <<mode, lite, pg, queue, mirrors, skewed>>
    BY <1>9 DEF SaveArchive, replicasVars, fixed, mirrorVars, historyVars
  <2> QED BY <1>0, <2>1 DEF TablesCatchUp, AccountsWait, SessionsWait, Waiting
<1>10. CASE MirrorBegins
  <2>1. PICK m \in mirrors :
          /\ m.op.kind \in TwoStatements /\ pg' = PgBegun(pg, m.op)
          /\ skewed' = skewed \cup Overtaken(m)
          /\ UNCHANGED <<mode, lite, queue, mirrors>>
    BY <1>10 DEF MirrorBegins, fixed
  <2>2. HalfOf(pg', pg, m.op)
    BY <1>0, <2>1, PendingRows, HalvesAre
  <2>3. TablesCatchUp'
    BY <1>0, <2>1, <2>2, MirrorBeginsCatchesUp
  <2>4. Waiting' = Waiting /\ pg'.accounts = pg.accounts /\ pg'.sessions = pg.sessions
    BY <2>1, <2>2 DEF Waiting, HalfOf
  <2>5. AccountsWait' /\ SessionsWait'
    BY <1>0, <2>1, <2>4, WaitingShrinks
  <2> QED BY <2>3, <2>5
<1> QED BY <1>1, <1>2, <1>4, <1>5, <1>6, <1>7, <1>8, <1>9, <1>10 DEF ReplicasNext

\* A row no mirror is on its way to is as its mirrors have left it.
LEMMA CaughtUp ==
  ASSUME ReplicasTypeOK, AgreeInv
  PROVE  ReplicasAgree
<1>1. ASSUME mode = "both", NEW c \in Cells, Settled(c[2])
      PROVE  ValueOf(pg, c) = ValueOf(lite, c)
  <2>1. c[2] \notin skewed /\ \A m \in mirrors : c[2] \notin Touches(m.op)
    BY <1>1 DEF Settled
  <2>2. \A m \in mirrors : m.op \in Operations
    BY PendingRows DEF ReplicasTypeOK
  <2>3. Concerned(mirrors, c) = {}
    BY <2>1, <2>2, BearingTouches DEF Concerned
  <2>4. CatchesUp({}, c, ValueOf(pg, c), ValueOf(lite, c))
    BY <1>1, <2>1, <2>3 DEF AgreeInv, TablesCatchUp
  <2> QED BY <2>4, UpToDate
<1>2. ASSUME mode = "both"
      PROVE  /\ \A k \in Keys : Settled(k) => lite.settings[k] = pg.settings[k]
             /\ \A u \in Users : Settled(u) => lite.accounts[u] = pg.accounts[u]
             /\ \A s \in Sids : Settled(s) => lite.sessions[s] = pg.sessions[s]
             /\ \A a \in Addresses : Settled(a) => lite.bans[a] = pg.bans[a]
             /\ Settled("rules") => lite.rules = pg.rules
             /\ Settled("journal") => lite.journal = pg.journal
  <2>1. ASSUME NEW k \in Keys, Settled(k)
        PROVE  lite.settings[k] = pg.settings[k]
    <3>1. PICK c \in Cells : c = <<"settings", k>>
      BY DEF Cells
    <3> QED BY <1>1, <1>2, <2>1, <3>1 DEF ValueOf
  <2>2. ASSUME NEW u \in Users, Settled(u)
        PROVE  lite.accounts[u] = pg.accounts[u]
    <3>1. PICK c \in Cells : c = <<"accounts", u>>
      BY DEF Cells
    <3> QED BY <1>1, <1>2, <2>2, <3>1 DEF ValueOf
  <2>3. ASSUME NEW s \in Sids, Settled(s)
        PROVE  lite.sessions[s] = pg.sessions[s]
    <3>1. PICK c \in Cells : c = <<"sessions", s>>
      BY DEF Cells
    <3> QED BY <1>1, <1>2, <2>3, <3>1 DEF ValueOf
  <2>4. ASSUME NEW a \in Addresses, Settled(a)
        PROVE  lite.bans[a] = pg.bans[a]
    <3>1. PICK c \in Cells : c = <<"bans", a>>
      BY DEF Cells
    <3> QED BY <1>1, <1>2, <2>4, <3>1 DEF ValueOf
  <2>5. ASSUME Settled("rules")
        PROVE  lite.rules = pg.rules
    <3>1. PICK c \in Cells : c = <<"rules", "rules">>
      BY DEF Cells
    <3> QED BY <1>1, <1>2, <2>5, <3>1 DEF ValueOf
  <2>6. ASSUME Settled("journal")
        PROVE  lite.journal = pg.journal
    <3>1. PICK c \in Cells : c = <<"journal", "journal">>
      BY DEF Cells
    <3> QED BY <1>1, <1>2, <2>6, <3>1 DEF ValueOf
  <2> QED BY <2>1, <2>2, <2>3, <2>4, <2>5, <2>6
<1>3. ASSUME mode = "both", NEW g \in Gateways, Settled(g)
      PROVE  Shared(lite.gateways[g]) = Shared(pg.gateways[g])
  <2>1. PICK c \in Cells : c = <<"gateways", g>>
    BY DEF Cells
  <2>2. PICK x, y : x = lite.gateways[g] /\ y = pg.gateways[g]
    OBVIOUS
  <2>3. Told(x) = Told(y)
    BY <1>1, <1>3, <2>1, <2>2 DEF ValueOf
  <2>4. x = Nothing <=> y = Nothing
    BY <2>3 DEF Told
  <2>5. CASE x # Nothing
    <3>1. x.public = y.public /\ x.local = y.local /\ x.status = y.status
      BY <2>3, <2>4, <2>5 DEF Told
    <3> QED BY <2>2, <2>4, <2>5, <3>1 DEF Shared
  <2>6. CASE x = Nothing
    BY <2>2, <2>4, <2>6 DEF Shared
  <2> QED BY <2>5, <2>6
<1>4. ASSUME NEW s \in Signals
      PROVE  LET row == <<knownAs, s>>
             IN row \notin apart =>
                  /\ mode # "sqlite" => lite.orders[row] = pg.orders[row]
                  /\ cache[s] # Nothing => cache[s] = lite.orders[row]
  <2>1. <<knownAs, s>> \in Names \X Signals
    BY DEF ReplicasTypeOK, DeploymentOK
  <2> QED BY <2>1 DEF AgreeInv, OrdersAgree
<1> QED BY <1>2, <1>3, <1>4 DEF ReplicasAgree

\* A row none of whose writes was lost, torn or overtaken on its way is the same in both
\* databases once its last mirror has run, whatever happened to other rows and in
\* whatever order the threads of the mirrors finished; and signals run in the order
\* that both databases hold.
THEOREM CopiesOfTablesAgree == ReplicasSpec => []ReplicasAgree
<1>1. ReplicasInit => ReplicasTypeOK /\ MirrorsInv /\ RegistryInv /\ AgreeInv
  BY ReplicasTypeInit, MirrorsInit, RegistryInit, AgreeInit
<1>2. ReplicasTypeOK /\ MirrorsInv /\ RegistryInv /\ AgreeInv /\ [ReplicasNext]_replicasVars
        => ReplicasTypeOK' /\ MirrorsInv' /\ RegistryInv' /\ AgreeInv'
  <2>1. RegistryInv => OrderOK
    BY DEF RegistryInv
  <2> QED BY <2>1, ReplicasTypeStep, MirrorsStep, RegistryStep, AgreeStep
<1>3. ReplicasTypeOK /\ AgreeInv => ReplicasAgree
  BY CaughtUp
<1> QED BY <1>1, <1>2, <1>3, PTL DEF ReplicasSpec
=============================================================================
