--------------------------- MODULE DatabaseProofs ---------------------------
(***************************************************************************)
(* What is kept in the database, for any number of those who act on it:    *)
(* the schema that migrations and repairs leave, the accounts and what     *)
(* their tokens stand for, and the provider keys.                          *)
(***************************************************************************)
EXTENDS Migrations, SchemaRepair, Accounts, ProviderKeys, LeastNumber

-----------------------------------------------------------------------------
(* Migrations.                                                             *)

RunnerPlaces == {"idle", "done", "applies", "records", "commits", "marks"}

MigrationsTypeOK ==
  /\ byHand \in 0..LastFile
  /\ recorded \in SUBSET Files
  /\ executed \in [Files -> Nat]
  /\ runner \in [Runners -> [at : RunnerPlaces, pending : SUBSET Files, inserted : SUBSET Files]]

\* What an invocation that applies files has yet to do is all that is missing,
\* from its first pending file on.
Applying(r) ==
  /\ runner[r].pending # {}
  /\ Files \ runner[r].pending \subseteq recorded
  /\ 1..byHand \subseteq recorded

\* A baseline has every file that was executed by hand recorded, inserted or
\* still before it, and inserts nothing else.
Marking(r) ==
  /\ runner[r].inserted \subseteq 1..byHand
  /\ runner[r].pending \subseteq 1..byHand
  /\ 1..byHand \subseteq recorded \cup runner[r].inserted \cup runner[r].pending

Placed(r) ==
  /\ runner[r].at \in {"applies", "records", "commits"} => Applying(r)
  /\ runner[r].at \in {"idle", "done", "applies", "records"} => runner[r].inserted = {}
  /\ runner[r].at = "commits" => runner[r].inserted = {Current(r)}
  /\ runner[r].at = "marks" => Marking(r)

\* Rows that are not committed are new, and each is one invocation's.
Uncommitted ==
  /\ \A r \in Runners : runner[r].inserted \cap recorded = {}
  /\ \A r, s \in Runners : r # s => runner[r].inserted \cap runner[s].inserted = {}

MigrationsInv ==
  /\ MigrationsTypeOK
  /\ \A r \in Runners : Placed(r)
  /\ Uncommitted
  /\ AppliedOnceInOrder

-----------------------------------------------------------------------------

\* An invocation comes to the first of its pending files.
LEMMA FirstPending ==
  ASSUME MigrationsTypeOK, NEW r \in Runners, runner[r].pending # {}
  PROVE  /\ Current(r) \in runner[r].pending
         /\ Current(r) \in Files
         /\ \A v \in runner[r].pending : Current(r) <= v
<1>1. runner[r].pending \in SUBSET Files
  BY DEF MigrationsTypeOK
<1>2. runner[r].pending \in SUBSET Nat
  BY <1>1, MigrationsAssumption DEF Files
<1>3. PICK least \in runner[r].pending : \A v \in runner[r].pending : least <= v
  BY <1>2, LeastExists
<1>4. Current(r) \in runner[r].pending /\ \A v \in runner[r].pending : Current(r) <= v
  BY <1>3 DEF Current, Min
<1>5. QED
  BY <1>1, <1>4

\* What an invocation relies on stays true while more rows are recorded.
LEMMA OthersKeep ==
  ASSUME NEW s \in Runners, Placed(s), runner'[s] = runner[s],
         recorded \subseteq recorded', byHand' = byHand
  PROVE  Placed(s)'
<1>1. ASSUME Applying(s) PROVE Applying(s)'
  BY <1>1 DEF Applying
<1>2. ASSUME Marking(s) PROVE Marking(s)'
  BY <1>2 DEF Marking
<1>3. QED
  BY <1>1, <1>2 DEF Placed, Current

\* A step that turns one invocation, inserts nothing and records nothing keeps
\* the invariant if the invocation's new state fits its place.
LEMMA TurnKeeps ==
  ASSUME MigrationsInv, NEW r \in Runners,
         NEW new \in [at : RunnerPlaces, pending : SUBSET Files, inserted : SUBSET Files],
         Turns(r, new), UNCHANGED <<byHand, recorded, executed>>,
         new.inserted \cap recorded = {},
         \A s \in Runners \ {r} : new.inserted \cap runner[s].inserted = {},
         Placed(r)'
  PROVE  MigrationsInv'
<1>1. /\ runner' \in [Runners -> [at : RunnerPlaces, pending : SUBSET Files, inserted : SUBSET Files]]
      /\ runner'[r] = new
      /\ \A s \in Runners \ {r} : runner'[s] = runner[s]
  BY DEF MigrationsInv, MigrationsTypeOK, Turns
<1>2. MigrationsTypeOK'
  BY <1>1 DEF MigrationsInv, MigrationsTypeOK
<1>3. ASSUME NEW s \in Runners \ {r} PROVE Placed(s)'
  <2>1. Placed(s) /\ runner'[s] = runner[s]
    BY <1>1 DEF MigrationsInv
  <2>2. QED
    BY <2>1, OthersKeep
<1>4. Uncommitted'
  BY <1>1 DEF MigrationsInv, Uncommitted
<1>5. AppliedOnceInOrder'
  BY DEF MigrationsInv, AppliedOnceInOrder
<1>6. QED
  BY <1>2, <1>3, <1>4, <1>5 DEF MigrationsInv

-----------------------------------------------------------------------------

LEMMA MigrationsInitFits == MigrationsInit => MigrationsInv
<1>1. SUFFICES ASSUME MigrationsInit PROVE MigrationsInv
  OBVIOUS
<1>2. \A r \in Runners : runner[r] = Waiting
  BY <1>1 DEF MigrationsInit
<1>3. MigrationsTypeOK
  BY <1>1 DEF MigrationsInit, MigrationsTypeOK, Waiting, RunnerPlaces, Files
<1>4. \A r \in Runners : Placed(r)
  BY <1>2 DEF Placed, Waiting
<1>5. Uncommitted
  BY <1>2 DEF Uncommitted, Waiting
<1>6. AppliedOnceInOrder
  BY <1>1 DEF MigrationsInit, AppliedOnceInOrder
<1>7. QED
  BY <1>3, <1>4, <1>5, <1>6 DEF MigrationsInv

\* An invocation that commits its file records the next in order, for the first
\* time.
LEMMA CommitFileKeeps ==
  ASSUME MigrationsInv, NEW r \in Runners, CommitFile(r)
  PROVE  MigrationsInv'
<1> DEFINE v == Current(r)
<1>1. /\ MigrationsTypeOK /\ Uncommitted /\ AppliedOnceInOrder
      /\ \A s \in Runners : Placed(s)
  BY DEF MigrationsInv
<1>2. /\ runner[r].at = "commits" /\ Applying(r) /\ runner[r].inserted = {v}
      /\ byHand' = byHand /\ recorded' = recorded \cup {v}
      /\ executed' = [executed EXCEPT ![v] = @ + 1]
      /\ runner' = [runner EXCEPT ![r] = Proceed(Rest(r))]
  BY <1>1 DEF CommitFile, RunnerAt, Placed, Turns
<1>3. /\ v \in runner[r].pending /\ v \in Files
      /\ \A u \in runner[r].pending : v <= u
  BY <1>1, <1>2, FirstPending DEF Applying
<1>4. v \notin recorded /\ ~(v <= byHand)
  <2>1. v \notin recorded
    BY <1>1, <1>2 DEF Uncommitted
  <2>2. 1..byHand \subseteq recorded
    BY <1>2 DEF Applying
  <2>3. v \in Nat /\ 1 <= v /\ byHand \in Int
    BY <1>1, <1>3, MigrationsAssumption DEF Files, MigrationsTypeOK
  <2>4. QED
    BY <2>1, <2>2, <2>3
<1> HIDE DEF v
<1>5. /\ Rest(r) = runner[r].pending \ {v}
      /\ Proceed(Rest(r)) \in [at : RunnerPlaces, pending : SUBSET Files, inserted : SUBSET Files]
  <2>1. Rest(r) = runner[r].pending \ {v}
    BY DEF Rest, v
  <2>2. Rest(r) \in SUBSET Files
    BY <1>1, <2>1 DEF MigrationsTypeOK
  <2>3. QED
    BY <2>1, <2>2 DEF Proceed, RunnerPlaces
<1>6. /\ runner' \in [Runners -> [at : RunnerPlaces, pending : SUBSET Files, inserted : SUBSET Files]]
      /\ runner'[r] = Proceed(Rest(r))
      /\ \A s \in Runners \ {r} : runner'[s] = runner[s]
  BY <1>1, <1>2, <1>5 DEF MigrationsTypeOK
<1>7. MigrationsTypeOK'
  BY <1>1, <1>2, <1>3, <1>6 DEF MigrationsTypeOK, Files
<1>8. ASSUME NEW s \in Runners PROVE Placed(s)'
  <2>1. CASE s = r
    <3>1. CASE Rest(r) = {}
      BY <1>6, <2>1, <3>1 DEF Placed, Proceed
    <3>2. CASE Rest(r) # {}
      <4>1. /\ runner'[r].at = "applies" /\ runner'[r].pending = Rest(r)
            /\ runner'[r].inserted = {}
        BY <1>6, <3>2 DEF Proceed
      <4>2. Files' \ Rest(r) \subseteq recorded'
        BY <1>2, <1>5 DEF Applying, Files
      <4>3. 1..byHand' \subseteq recorded'
        BY <1>2 DEF Applying
      <4>4. Applying(r)'
        BY <3>2, <4>1, <4>2, <4>3 DEF Applying
      <4>5. QED
        BY <2>1, <4>1, <4>4 DEF Placed
    <3>3. QED
      BY <3>1, <3>2
  <2>2. CASE s # r
    BY <1>1, <1>2, <1>6, <2>2, OthersKeep
  <2>3. QED
    BY <2>1, <2>2
<1>9. Uncommitted'
  <2>1. runner'[r].inserted = {}
    BY <1>6 DEF Proceed
  <2>2. \A s \in Runners \ {r} : v \notin runner[s].inserted
    BY <1>1, <1>2 DEF Uncommitted
  <2>3. QED
    BY <1>1, <1>2, <1>6, <2>1, <2>2 DEF Uncommitted
<1>10. AppliedOnceInOrder'
  <2>1. ASSUME NEW u \in Files
        PROVE  executed'[u] = IF u \in recorded' \/ u <= byHand' THEN 1 ELSE 0
    <3>1. CASE u = v
      BY <1>1, <1>2, <1>3, <1>4, <3>1 DEF AppliedOnceInOrder, MigrationsTypeOK
    <3>2. CASE u # v
      BY <1>1, <1>2, <3>2 DEF AppliedOnceInOrder, MigrationsTypeOK
    <3>3. QED
      BY <3>1, <3>2
  <2>2. ASSUME NEW u \in 1..v, u # v PROVE u \in recorded
    <3>1. u \in Files /\ u < v
      BY <1>3, <2>2, MigrationsAssumption DEF Files
    <3>2. u \notin runner[r].pending
      BY <1>3, <3>1, MigrationsAssumption DEF Files
    <3>3. QED
      BY <1>2, <3>1, <3>2 DEF Applying
  <2>3. \A u \in recorded' : 1..u \subseteq recorded'
    BY <1>1, <1>2, <2>2 DEF AppliedOnceInOrder
  <2>4. QED
    BY <2>1, <2>3 DEF AppliedOnceInOrder, Files
<1>11. QED
  BY <1>7, <1>8, <1>9, <1>10 DEF MigrationsInv

\* A baseline that commits records the files executed by hand, all of them.
LEMMA CommitBaselineKeeps ==
  ASSUME MigrationsInv, NEW r \in Runners, CommitBaseline(r)
  PROVE  MigrationsInv'
<1>1. /\ MigrationsTypeOK /\ Uncommitted /\ AppliedOnceInOrder
      /\ \A s \in Runners : Placed(s)
  BY DEF MigrationsInv
<1>2. /\ runner[r].at = "marks" /\ runner[r].pending = {} /\ Marking(r)
      /\ byHand' = byHand /\ executed' = executed
      /\ recorded' = recorded \cup runner[r].inserted
      /\ runner' = [runner EXCEPT ![r] = Proceed({})]
  BY <1>1 DEF CommitBaseline, RunnerAt, Placed, Turns
<1>3. runner[r].inserted \subseteq 1..byHand /\ 1..byHand \subseteq recorded'
  BY <1>2 DEF Marking
<1>4. Proceed({}) = [at |-> "done", pending |-> {}, inserted |-> {}]
  BY DEF Proceed
<1>5. /\ runner' \in [Runners -> [at : RunnerPlaces, pending : SUBSET Files, inserted : SUBSET Files]]
      /\ runner'[r] = Proceed({})
      /\ \A s \in Runners \ {r} : runner'[s] = runner[s]
  BY <1>1, <1>2, <1>4 DEF MigrationsTypeOK, RunnerPlaces
<1>6. MigrationsTypeOK'
  BY <1>1, <1>2, <1>5 DEF MigrationsTypeOK, Files
<1>7. ASSUME NEW s \in Runners PROVE Placed(s)'
  <2>1. CASE s = r
    BY <1>4, <1>5, <2>1 DEF Placed
  <2>2. CASE s # r
    BY <1>1, <1>2, <1>5, <2>2, OthersKeep
  <2>3. QED
    BY <2>1, <2>2
<1>8. Uncommitted'
  BY <1>1, <1>2, <1>4, <1>5 DEF Uncommitted
<1>9. AppliedOnceInOrder'
  <2>1. byHand \in Int /\ recorded' \subseteq Files /\ Files \subseteq Int
    BY <1>6, <1>1, MigrationsAssumption DEF MigrationsTypeOK, Files
  <2>2. \A u \in Files : u \in recorded' \/ u <= byHand <=> u \in recorded \/ u <= byHand
    BY <1>2, <1>3, <2>1
  <2>3. \A u \in Files : executed'[u] = IF u \in recorded' \/ u <= byHand' THEN 1 ELSE 0
    BY <1>1, <1>2, <2>2 DEF AppliedOnceInOrder
  <2>4. ASSUME NEW u \in recorded' PROVE 1..u \subseteq recorded'
    <3>1. CASE u \in recorded
      BY <1>1, <1>2, <3>1 DEF AppliedOnceInOrder
    <3>2. CASE u \in runner[r].inserted
      BY <1>3, <2>1, <3>2
    <3>3. QED
      BY <1>2, <3>1, <3>2
  <2>5. QED
    BY <2>3, <2>4 DEF AppliedOnceInOrder, Files
<1>10. QED
  BY <1>6, <1>7, <1>8, <1>9 DEF MigrationsInv

LEMMA MigrationsStepKeeps ==
  ASSUME MigrationsInv, [MigrationsNext]_migrationVars
  PROVE  MigrationsInv'
<1> DEFINE Turn == [at : RunnerPlaces, pending : SUBSET Files, inserted : SUBSET Files]
<1>1. /\ MigrationsTypeOK /\ Uncommitted /\ \A s \in Runners : Placed(s)
      /\ \A s \in Runners : runner[s] \in Turn
  BY DEF MigrationsInv, MigrationsTypeOK
<1>2. CASE UNCHANGED migrationVars
  <2>1. /\ runner' = runner /\ recorded' = recorded
        /\ byHand' = byHand /\ executed' = executed
    BY <1>2 DEF migrationVars
  <2>2. \A s \in Runners : Placed(s)'
    BY <1>1, <2>1, OthersKeep
  <2>3. MigrationsTypeOK' /\ Uncommitted'
    BY <1>1, <2>1 DEF MigrationsTypeOK, Uncommitted
  <2>4. AppliedOnceInOrder'
    BY <2>1 DEF MigrationsInv, AppliedOnceInOrder
  <2>5. QED
    BY <2>2, <2>3, <2>4 DEF MigrationsInv
<1>3. ASSUME NEW r \in Runners, Turns(r, Waiting), UNCHANGED <<byHand, recorded, executed>>
      PROVE  MigrationsInv'
  <2>1. runner'[r] = Waiting /\ Waiting \in Turn /\ Waiting.inserted = {}
    BY <1>1, <1>3 DEF Turns, Waiting, RunnerPlaces, MigrationsTypeOK
  <2>2. Placed(r)'
    BY <2>1 DEF Placed, Waiting
  <2>3. QED
    BY <1>3, <2>1, <2>2, TurnKeeps
<1>4. ASSUME NEW r \in Runners, Turns(r, Proceed({})), UNCHANGED <<byHand, recorded, executed>>
      PROVE  MigrationsInv'
  <2>1. Proceed({}) = [at |-> "done", pending |-> {}, inserted |-> {}]
    BY DEF Proceed
  <2>2. runner'[r] = Proceed({}) /\ Proceed({}) \in Turn /\ Proceed({}).inserted = {}
    BY <1>1, <1>4, <2>1 DEF Turns, RunnerPlaces, MigrationsTypeOK
  <2>3. Placed(r)'
    BY <2>1, <2>2 DEF Placed
  <2>4. QED
    BY <1>4, <2>2, <2>3, TurnKeeps
<1>5. ASSUME NEW r \in Runners, Up(r) PROVE MigrationsInv'
  <2>1. CASE Files \ recorded = {}
    BY <1>4, <1>5, <2>1 DEF Up
  <2>2. CASE Files \ recorded # {}
    <3> DEFINE new == [at |-> "applies", pending |-> Files \ recorded, inserted |-> {}]
    <3>1. Turns(r, new) /\ UNCHANGED <<byHand, recorded, executed>> /\ 1..byHand \subseteq recorded
      BY <1>5, <2>2 DEF Up, Proceed
    <3>2. new \in Turn /\ runner'[r] = new /\ new.inserted = {}
      BY <1>1, <3>1 DEF Turns, RunnerPlaces, MigrationsTypeOK
    <3>3. Placed(r)'
      BY <2>2, <3>1, <3>2 DEF Placed, Applying, Files
    <3>4. QED
      BY <3>1, <3>2, <3>3, TurnKeeps
  <2>3. QED
    BY <2>1, <2>2
<1>6. ASSUME NEW r \in Runners, ExecuteFile(r) PROVE MigrationsInv'
  <2> DEFINE new == [runner[r] EXCEPT !.at = "records"]
  <2>1. /\ runner[r].at = "applies" /\ Turns(r, new)
        /\ UNCHANGED <<byHand, recorded, executed>>
    BY <1>6 DEF ExecuteFile, RunnerAt
  <2>2. /\ new \in Turn /\ runner'[r] = new /\ new.at = "records"
        /\ new.pending = runner[r].pending /\ new.inserted = runner[r].inserted
    BY <1>1, <2>1 DEF Turns, RunnerPlaces, MigrationsTypeOK
  <2>3. Applying(r) /\ runner[r].inserted = {}
    BY <1>1, <2>1 DEF Placed
  <2> HIDE DEF new
  <2>4. Placed(r)'
    BY <2>1, <2>2, <2>3 DEF Placed, Applying, Files
  <2>5. QED
    BY <2>1, <2>2, <2>3, <2>4, TurnKeeps
<1>7. ASSUME NEW r \in Runners, InsertRow(r) PROVE MigrationsInv'
  <2> DEFINE new == [runner[r] EXCEPT !.at = "commits", !.inserted = {Current(r)}]
  <2>1. /\ runner[r].at = "records" /\ Turns(r, new)
        /\ UNCHANGED <<byHand, recorded, executed>>
        /\ Current(r) \notin recorded
        /\ \A s \in Runners \ {r} : Current(r) \notin runner[s].inserted
    BY <1>7 DEF InsertRow, RunnerAt, Conflicts, HeldByOther
  <2>2. Applying(r) /\ Current(r) \in Files
    BY <1>1, <2>1, FirstPending DEF Placed, Applying
  <2>3. /\ new \in Turn /\ runner'[r] = new /\ new.at = "commits"
        /\ new.pending = runner[r].pending /\ new.inserted = {Current(r)}
    BY <1>1, <2>1, <2>2 DEF Turns, RunnerPlaces, MigrationsTypeOK
  <2> HIDE DEF new
  <2>4. Placed(r)'
    BY <2>1, <2>2, <2>3 DEF Placed, Applying, Files, Current
  <2>5. QED
    BY <2>1, <2>3, <2>4, TurnKeeps
<1>8. ASSUME NEW r \in Runners, FailFile(r) PROVE MigrationsInv'
  BY <1>4, <1>8 DEF FailFile
<1>9. ASSUME NEW r \in Runners, Baseline(r) PROVE MigrationsInv'
  <2> DEFINE new == [at |-> "marks", pending |-> 1..byHand \ recorded, inserted |-> {}]
  <2>1. Turns(r, new) /\ UNCHANGED <<byHand, recorded, executed>>
    BY <1>9 DEF Baseline
  <2>2. new \in Turn /\ runner'[r] = new /\ new.inserted = {}
    BY <1>1, <2>1, MigrationsAssumption DEF Turns, RunnerPlaces, MigrationsTypeOK, Files
  <2>3. Placed(r)'
    BY <2>1, <2>2 DEF Placed, Marking
  <2>4. QED
    BY <2>1, <2>2, <2>3, TurnKeeps
<1>10. ASSUME NEW r \in Runners, MarkFile(r) PROVE MigrationsInv'
  <2>1. /\ runner[r].at = "marks" /\ runner[r].pending # {} /\ Marking(r)
        /\ UNCHANGED <<byHand, recorded, executed>>
        /\ \A s \in Runners \ {r} : Current(r) \notin runner[s].inserted
    BY <1>1, <1>10 DEF MarkFile, RunnerAt, HeldByOther, Placed
  <2>2. CASE Conflicts(Current(r))
    BY <1>4, <1>10, <2>1, <2>2 DEF MarkFile
  <2>3. CASE ~Conflicts(Current(r))
    <3> DEFINE new == [runner[r] EXCEPT !.pending = Rest(r), !.inserted = @ \cup {Current(r)}]
    <3>1. Turns(r, new) /\ Current(r) \notin recorded
      BY <1>10, <2>3 DEF MarkFile, Conflicts
    <3>2. Current(r) \in runner[r].pending /\ Current(r) \in Files
      BY <1>1, <2>1, FirstPending
    <3>3. Rest(r) = runner[r].pending \ {Current(r)}
      BY DEF Rest
    <3>4. /\ new \in Turn /\ runner'[r] = new /\ new.at = "marks"
          /\ new.pending = runner[r].pending \ {Current(r)}
          /\ new.inserted = runner[r].inserted \cup {Current(r)}
      BY <1>1, <2>1, <3>1, <3>2, <3>3 DEF Turns, RunnerPlaces, MigrationsTypeOK
    <3> HIDE DEF new
    <3>5. Marking(r)'
      BY <2>1, <3>2, <3>4 DEF Marking
    <3>6. Placed(r)'
      BY <3>4, <3>5 DEF Placed
    <3>7. /\ new.inserted \cap recorded = {}
          /\ \A s \in Runners \ {r} : new.inserted \cap runner[s].inserted = {}
      BY <1>1, <2>1, <3>1, <3>4 DEF Uncommitted
    <3>8. QED
      BY <2>1, <3>1, <3>4, <3>6, <3>7, TurnKeeps
  <2>4. QED
    BY <2>2, <2>3
<1>11. ASSUME NEW r \in Runners, Quit(r) PROVE MigrationsInv'
  BY <1>3, <1>11 DEF Quit
<1>12. QED
  BY <1>2, <1>5, <1>6, <1>7, <1>8, <1>9, <1>10, <1>11, CommitFileKeeps, CommitBaselineKeeps
     DEF MigrationsNext

-----------------------------------------------------------------------------
(* Theorems.                                                               *)

\* For any number of files and operators, the effects of a file are in the
\* database once if it is recorded or was executed by hand and else not at all,
\* and no file is recorded before one with a lower number (scripts/migrate.py).
THEOREM AppliedOnce == MigrationsSpec => []AppliedOnceInOrder
<1>1. MigrationsInit => MigrationsInv
  BY MigrationsInitFits
<1>2. MigrationsInv /\ [MigrationsNext]_migrationVars => MigrationsInv'
  BY MigrationsStepKeeps
<1>3. MigrationsInv => AppliedOnceInOrder
  BY DEF MigrationsInv
<1>4. QED
  BY <1>1, <1>2, <1>3, PTL DEF MigrationsSpec

-----------------------------------------------------------------------------
(* The repair of the schema.                                               *)

SchemaPlaces ==
  {"idle", "checks", "creates", "compares", "adds", "inspects", "clears", "copies", "fills",
   "renames", "commits", "repaired", "serves"}

Names == {"id", "note", "tier"}

Rows == [id : Nat, noted : BOOLEAN]

Tables == [columns : SUBSET Names, rows : SUBSET Rows]

SchemaTypeOK ==
  /\ file \in [table : Tables, copy : Tables]
  /\ draft \in [table : Tables, copy : Tables]
  /\ writer \in Openers \cup {Nobody}
  /\ ready \subseteq Processes
  /\ opener \in [Openers -> [at : SchemaPlaces, saw : SUBSET Names]]
  /\ written \subseteq Rows

\* From the columns it has added on, a repair finds those of the model and has
\* seen them; once it is done there are no others.
Sees(o) ==
  /\ opener[o].at \in {"inspects", "clears", "copies", "fills", "renames", "commits"} =>
       ModelColumns \subseteq file.table.columns
  /\ opener[o].at \in {"clears", "copies", "fills"} => ModelColumns \subseteq opener[o].saw
  /\ opener[o].at = "repaired" => file.table.columns = ModelColumns

\* The open transaction holds every row.
Holds(o) ==
  /\ opener[o].at \in {"renames", "commits"} <=> writer = o
  /\ opener[o].at = "renames" =>
       draft.copy.columns = ModelColumns /\ written \subseteq draft.copy.rows
  /\ opener[o].at = "commits" =>
       /\ draft.table.columns = ModelColumns /\ written \subseteq draft.table.rows
       /\ draft.copy = Missing

SchemaInv ==
  /\ SchemaTypeOK
  /\ RowsKept
  /\ ReadyIsComplete
  /\ file.copy.columns \in {{}, ModelColumns}
  /\ \A o \in Openers : Sees(o) /\ Holds(o)

LEMMA SchemaInitFits == SchemaInit => SchemaInv
<1>1. SUFFICES ASSUME SchemaInit PROVE SchemaInv
  OBVIOUS
<1>2. PICK table \in OldFiles : file = [table |-> table, copy |-> Missing]
  BY <1>1 DEF SchemaInit
<1>3. table \in Tables /\ Missing \in Tables
  <2>1. Row(0, FALSE) \in Rows
    BY DEF Row, Rows
  <2>2. Missing \in Tables
    BY DEF Missing, Tables
  <2>3. ASSUME NEW columns \in SUBSET Names
        PROVE  [columns |-> columns, rows |-> {Row(0, FALSE)}] \in Tables
    BY <2>1 DEF Tables
  <2>4. {"id", "note", "tier"} \in SUBSET Names /\ {"id", "tier"} \in SUBSET Names
        /\ {"id"} \in SUBSET Names
    BY DEF Names
  <2>5. QED
    BY <2>2, <2>3, <2>4 DEF OldFiles
<1>4. SchemaTypeOK
  <2>1. written = table.rows /\ table.rows \subseteq Rows
    BY <1>1, <1>2, <1>3 DEF SchemaInit, Tables
  <2>2. Unopened \in [at : SchemaPlaces, saw : SUBSET Names]
    BY DEF Unopened, SchemaPlaces
  <2>3. QED
    BY <1>1, <1>2, <1>3, <2>1, <2>2 DEF SchemaInit, SchemaTypeOK
<1>5. \A o \in Openers : Sees(o) /\ Holds(o)
  BY <1>1, SchemaAssumption DEF SchemaInit, Unopened, Sees, Holds, Nobody
<1>6. RowsKept /\ ReadyIsComplete /\ file.copy.columns \in {{}, ModelColumns}
  BY <1>1, <1>2 DEF SchemaInit, RowsKept, ReadyIsComplete, Missing
<1>7. QED
  BY <1>4, <1>5, <1>6 DEF SchemaInv

\* A thread that does not move sees and holds what it did, if columns are not lost
\* and its transaction is left alone.
LEMMA OtherOpenersStay ==
  ASSUME NEW s \in Openers, Sees(s), Holds(s), opener'[s] = opener[s],
         ModelColumns \subseteq file.table.columns => ModelColumns \subseteq file'.table.columns,
         file.table.columns = ModelColumns => file'.table.columns = ModelColumns,
         writer' = s <=> writer = s,
         writer = s => UNCHANGED <<draft, written>>
  PROVE  Sees(s)' /\ Holds(s)'
<1>1. Sees(s)'
  BY DEF Sees, ModelColumns
<1>2. Holds(s)'
  BY DEF Holds, ModelColumns, Missing
<1>3. QED
  BY <1>1, <1>2

\* A thread that goes on to a place, having seen some columns.
OpenerGoes(o, where, columns) ==
  /\ opener' \in [Openers -> [at : SchemaPlaces, saw : SUBSET Names]]
  /\ opener'[o] = [at |-> where, saw |-> columns]
  /\ \A s \in Openers \ {o} : opener'[s] = opener[s]

LEMMA GoesGoes ==
  ASSUME SchemaTypeOK, NEW o \in Openers, NEW where \in SchemaPlaces, Goes(o, where)
  PROVE  OpenerGoes(o, where, opener[o].saw)
<1>1. opener[o] = [at |-> opener[o].at, saw |-> opener[o].saw] /\ opener[o].saw \in SUBSET Names
  BY DEF SchemaTypeOK
<1>2. opener'[o] = [at |-> where, saw |-> opener[o].saw]
  BY <1>1 DEF SchemaTypeOK, Goes
<1>3. QED
  BY <1>2 DEF SchemaTypeOK, Goes, OpenerGoes

LEMMA SeesGoes ==
  ASSUME SchemaTypeOK, NEW o \in Openers, NEW where \in SchemaPlaces, NEW columns \in SUBSET Names,
         opener' = [opener EXCEPT ![o] = [at |-> where, saw |-> columns]]
  PROVE  OpenerGoes(o, where, columns)
  BY DEF SchemaTypeOK, OpenerGoes

\* A step of a thread outside a transaction, which reads or changes the file.
LEMMA FileStepKeeps ==
  ASSUME SchemaInv, NEW o \in Openers, NEW where \in SchemaPlaces \ {"renames", "commits"},
         NEW columns \in SUBSET Names, OpenerGoes(o, where, columns),
         writer # o, UNCHANGED <<draft, writer>>,
         UNCHANGED <<file, written>> \/ writer = Nobody,
         file' \in [table : Tables, copy : Tables], written' \subseteq Rows, RowsKept',
         ready' \subseteq Processes, ready' # {} => file'.table.columns = ModelColumns,
         file'.copy.columns \in {{}, ModelColumns},
         ModelColumns \subseteq file.table.columns => ModelColumns \subseteq file'.table.columns,
         file.table.columns = ModelColumns => file'.table.columns = ModelColumns,
         Sees(o)'
  PROVE  SchemaInv'
<1>1. SchemaTypeOK'
  BY DEF SchemaInv, SchemaTypeOK, OpenerGoes
<1>2. ReadyIsComplete'
  BY DEF ReadyIsComplete, ModelColumns
<1>3. Holds(o)'
  BY DEF OpenerGoes, Holds
<1>4. ASSUME NEW s \in Openers \ {o} PROVE Sees(s)' /\ Holds(s)'
  <2>1. Sees(s) /\ Holds(s) /\ opener'[s] = opener[s]
    BY DEF SchemaInv, OpenerGoes
  <2>2. s # Nobody
    BY SchemaAssumption DEF Nobody
  <2>3. QED
    BY <2>1, <2>2, OtherOpenersStay
<1>5. QED
  BY <1>1, <1>2, <1>3, <1>4 DEF SchemaInv, ModelColumns

\* No thread is in a transaction while the file may be written to.
LEMMA OutsideTransaction ==
  ASSUME SchemaInv, NEW o \in Openers, opener[o].at \notin {"renames", "commits"}
  PROVE  writer # o
  BY DEF SchemaInv, Holds

\* The steps outside a transaction.
LEMMA LookingKeeps ==
  ASSUME SchemaInv, NEW o \in Openers,
         OpenSession(o) \/ CheckFirst(o) \/ Compare(o) \/ Inspect(o) \/ Close(o)
  PROVE  SchemaInv'
<1> DEFINE Fine(where, columns) ==
             /\ OpenerGoes(o, where, columns) /\ writer # o
             /\ UNCHANGED <<file, draft, writer, ready, written>>
             /\ where \in SchemaPlaces \ {"renames", "commits"} /\ columns \in SUBSET Names
             /\ where = "inspects" => ModelColumns \subseteq file.table.columns
             /\ where = "clears" => /\ ModelColumns \subseteq file.table.columns
                                    /\ ModelColumns \subseteq columns
             /\ where = "repaired" => file.table.columns = ModelColumns
             /\ where \notin {"copies", "fills"}
<1>1. /\ SchemaTypeOK /\ RowsKept /\ ReadyIsComplete /\ file.copy.columns \in {{}, ModelColumns}
      /\ Sees(o) /\ opener[o].saw \in SUBSET Names /\ file.table.columns \in SUBSET Names
  BY DEF SchemaInv, SchemaTypeOK, Tables
<1>2. ASSUME NEW where, NEW columns, Fine(where, columns) PROVE SchemaInv'
  <2>1. Sees(o)'
    BY <1>2 DEF Sees, OpenerGoes, ModelColumns
  <2>2. RowsKept'
    BY <1>1, <1>2 DEF RowsKept
  <2>3. file' \in [table : Tables, copy : Tables] /\ written' \subseteq Rows /\ ready' \subseteq Processes
    BY <1>1, <1>2 DEF SchemaTypeOK
  <2>4. ready' # {} => file'.table.columns = ModelColumns
    BY <1>1, <1>2 DEF ReadyIsComplete
  <2>5. QED
    BY <1>1, <1>2, <2>1, <2>2, <2>3, <2>4, FileStepKeeps
<1>3. ASSUME OpenSession(o) \/ CheckFirst(o) PROVE SchemaInv'
  <2>1. /\ writer # o /\ UNCHANGED <<file, draft, writer, ready, written>>
        /\ \E where \in {"serves", "checks", "creates", "compares"} : Goes(o, where)
    BY <1>3, OutsideTransaction DEF OpenSession, CheckFirst, At
  <2>2. PICK where \in {"serves", "checks", "creates", "compares"} : Goes(o, where)
    BY <2>1
  <2>3. OpenerGoes(o, where, opener[o].saw)
    BY <1>1, <2>2, GoesGoes DEF SchemaPlaces
  <2>4. Fine(where, opener[o].saw)
    BY <1>1, <2>1, <2>3 DEF SchemaPlaces
  <2>5. QED
    BY <1>2, <2>4
<1>4. ASSUME Compare(o) \/ Inspect(o) PROVE SchemaInv'
  <2>1. /\ writer # o /\ UNCHANGED <<file, draft, writer, ready, written>>
    BY <1>4, OutsideTransaction DEF Compare, Inspect, At
  <2>2. PICK where \in {"inspects", "adds", "repaired", "clears"} :
          /\ opener' = [opener EXCEPT ![o] = [at |-> where, saw |-> file.table.columns]]
          /\ where = "inspects" => ModelColumns \subseteq file.table.columns
          /\ where = "repaired" => /\ file.table.columns \subseteq ModelColumns
                                   /\ opener[o].at = "inspects"
          /\ where = "clears" => opener[o].at = "inspects"
    BY <1>4 DEF Compare, Inspect, At
  <2>3. OpenerGoes(o, where, file.table.columns)
    BY <1>1, <2>2, SeesGoes DEF SchemaPlaces
  <2>4. opener[o].at = "inspects" => ModelColumns \subseteq file.table.columns
    BY <1>1 DEF Sees
  <2>5. Fine(where, file.table.columns)
    BY <1>1, <2>1, <2>2, <2>3, <2>4 DEF SchemaPlaces
  <2>6. QED
    BY <1>2, <2>5
<1>5. ASSUME Close(o) PROVE SchemaInv'
  <2>1. /\ writer # o /\ UNCHANGED <<file, draft, writer, ready, written>>
        /\ opener' = [opener EXCEPT ![o] = [at |-> "idle", saw |-> {}]]
    BY <1>5, OutsideTransaction DEF Close, At, Unopened
  <2>2. OpenerGoes(o, "idle", {})
    BY <1>1, <2>1, SeesGoes DEF SchemaPlaces
  <2>3. Fine("idle", {})
    BY <1>1, <2>1, <2>2 DEF SchemaPlaces
  <2>4. QED
    BY <1>2, <2>3
<1>6. QED
  BY <1>3, <1>4, <1>5

LEMMA ChangingKeeps ==
  ASSUME SchemaInv, NEW o \in Openers,
         \/ Create(o) \/ Add(o) \/ ClearCopy(o) \/ CreateCopy(o) \/ Mark(o) \/ Write(o)
  PROVE  SchemaInv'
<1>1. /\ SchemaTypeOK /\ RowsKept /\ ReadyIsComplete /\ file.copy.columns \in {{}, ModelColumns}
      /\ Sees(o) /\ opener[o].saw \in SUBSET Names
      /\ file.table \in Tables /\ file.copy \in Tables /\ written \subseteq Rows
      /\ file = [table |-> file.table, copy |-> file.copy] /\ ready \subseteq Processes
  BY DEF SchemaInv, SchemaTypeOK
<1>2. ModelColumns \subseteq Names /\ Missing \in Tables /\ Columns(ModelColumns) \in Tables
  BY DEF ModelColumns, Names, Missing, Columns, Tables
<1>3. writer # o /\ UNCHANGED <<draft, writer>>
  BY OutsideTransaction DEF Create, Add, ClearCopy, CreateCopy, Mark, Write, At
<1>4. CASE Create(o)
  <2>1. /\ writer = Nobody /\ file.table = Missing /\ UNCHANGED <<ready, written>>
        /\ file' = [table |-> Columns(ModelColumns), copy |-> file.copy]
        /\ Goes(o, "compares")
    BY <1>1, <1>4 DEF Create, Unlocked
  <2>2. OpenerGoes(o, "compares", opener[o].saw)
    BY <1>1, <2>1, GoesGoes DEF SchemaPlaces
  <2>3. file'.table.columns = ModelColumns /\ file'.copy = file.copy
    BY <2>1 DEF Columns
  <2>4. RowsKept'
    BY <1>1, <2>1 DEF RowsKept, Missing, Columns
  <2>5. Sees(o)'
    BY <2>2 DEF Sees, OpenerGoes
  <2>6. file' \in [table : Tables, copy : Tables]
    BY <1>1, <1>2, <2>1
  <2>7. "compares" \in SchemaPlaces \ {"renames", "commits"}
    BY DEF SchemaPlaces
  <2>8. QED
    BY <1>1, <1>3, <2>1, <2>2, <2>3, <2>4, <2>5, <2>6, <2>7, FileStepKeeps
<1>5. CASE Add(o)
  <2> DEFINE table == [columns |-> file.table.columns \cup ModelColumns, rows |-> file.table.rows]
  <2>1. /\ writer = Nobody /\ UNCHANGED <<ready, written>> /\ Goes(o, "inspects")
        /\ file' = [file EXCEPT !.table.columns = @ \cup ModelColumns]
    BY <1>5 DEF Add, Unlocked
  <2>2. table \in Tables
    BY <1>1, <1>2 DEF Tables
  <2>3. file' = [table |-> table, copy |-> file.copy]
    BY <1>1, <2>1 DEF Tables
  <2>4. OpenerGoes(o, "inspects", opener[o].saw)
    BY <1>1, <2>1, GoesGoes DEF SchemaPlaces
  <2>5. /\ file'.table.columns = file.table.columns \cup ModelColumns /\ file'.copy = file.copy
        /\ file'.table.rows = file.table.rows
    BY <2>3
  <2>6. RowsKept'
    BY <1>1, <2>1, <2>5 DEF RowsKept
  <2>7. Sees(o)'
    BY <2>4, <2>5 DEF Sees, OpenerGoes, ModelColumns
  <2>8. file' \in [table : Tables, copy : Tables]
    BY <1>1, <2>2, <2>3
  <2>9. "inspects" \in SchemaPlaces \ {"renames", "commits"}
    BY DEF SchemaPlaces
  <2> HIDE DEF table
  <2>10. ready' # {} => file'.table.columns = ModelColumns
    BY <1>1, <2>1, <2>5 DEF ReadyIsComplete
  <2>11. QED
    BY <1>1, <1>3, <2>1, <2>4, <2>5, <2>6, <2>7, <2>8, <2>9, <2>10, FileStepKeeps
<1>6. CASE ClearCopy(o) \/ CreateCopy(o)
  <2>1. /\ writer = Nobody /\ UNCHANGED <<ready, written>>
        /\ opener[o].at \in {"clears", "copies"}
    BY <1>6 DEF ClearCopy, CreateCopy, Unlocked, At
  <2>2. PICK where \in {"copies", "fills"}, copy \in {Missing, Columns(ModelColumns)} :
          Goes(o, where) /\ file' = [table |-> file.table, copy |-> copy]
    BY <1>1, <1>6 DEF ClearCopy, CreateCopy
  <2>3. OpenerGoes(o, where, opener[o].saw)
    BY <1>1, <2>2, GoesGoes DEF SchemaPlaces
  <2>4. file'.table = file.table /\ file'.copy = copy
    BY <2>2
  <2>5. copy.rows = {} /\ copy.columns \in {{}, ModelColumns}
    BY DEF Missing, Columns
  <2>6. RowsKept'
    BY <1>1, <2>1, <2>4, <2>5 DEF RowsKept
  <2>7. Sees(o)'
    BY <1>1, <2>1, <2>3, <2>4 DEF Sees, OpenerGoes, ModelColumns
  <2>8. file' \in [table : Tables, copy : Tables]
    BY <1>1, <1>2, <2>2
  <2>9. where \in SchemaPlaces \ {"renames", "commits"}
    BY DEF SchemaPlaces
  <2>10. ready' # {} => file'.table.columns = ModelColumns
    BY <1>1, <2>1, <2>4 DEF ReadyIsComplete
  <2>11. QED
    BY <1>1, <1>3, <2>1, <2>3, <2>4, <2>5, <2>6, <2>7, <2>8, <2>9, <2>10, FileStepKeeps
<1>7. CASE Mark(o)
  <2>1. /\ UNCHANGED <<file, written>> /\ ready' = ready \cup {HomeOf[o]} /\ Goes(o, "serves")
        /\ file.table.columns = ModelColumns
    BY <1>1, <1>7 DEF Mark, At, Sees
  <2>2. OpenerGoes(o, "serves", opener[o].saw)
    BY <1>1, <2>1, GoesGoes DEF SchemaPlaces
  <2>3. RowsKept' /\ file' \in [table : Tables, copy : Tables]
    BY <1>1, <2>1 DEF RowsKept
  <2>4. Sees(o)'
    BY <2>2 DEF Sees, OpenerGoes
  <2>5. ready' \subseteq Processes
    BY <1>1, <2>1, SchemaAssumption
  <2>6. "serves" \in SchemaPlaces \ {"renames", "commits"}
    BY DEF SchemaPlaces
  <2>7. QED
    BY <1>1, <1>3, <2>1, <2>2, <2>3, <2>4, <2>5, <2>6, FileStepKeeps
<1>8. CASE Write(o)
  <2>1. PICK id \in 1..MaxRows :
          /\ written' = written \cup {Row(id, TRUE)}
          /\ file' = [file EXCEPT !.table.rows = @ \cup {Row(id, TRUE)}]
    BY <1>8 DEF Write
  <2>2. /\ writer = Nobody /\ UNCHANGED ready
        /\ opener' = [opener EXCEPT ![o] = [at |-> "idle", saw |-> {}]]
    BY <1>8 DEF Write, Unlocked, Unopened
  <2> DEFINE table == [columns |-> file.table.columns, rows |-> file.table.rows \cup {Row(id, TRUE)}]
  <2>3. Row(id, TRUE) \in Rows
    BY SchemaAssumption DEF Row, Rows
  <2>4. table \in Tables
    BY <1>1, <2>3 DEF Tables
  <2>5. file' = [table |-> table, copy |-> file.copy]
    BY <1>1, <2>1 DEF Tables
  <2>6. /\ file'.table.columns = file.table.columns /\ file'.copy = file.copy
        /\ file'.table.rows = file.table.rows \cup {Row(id, TRUE)}
    BY <2>5
  <2>7. OpenerGoes(o, "idle", {})
    BY <1>1, <2>2, SeesGoes DEF SchemaPlaces
  <2>8. RowsKept'
    BY <1>1, <2>1, <2>6 DEF RowsKept
  <2>9. Sees(o)'
    BY <2>7 DEF Sees, OpenerGoes
  <2>10. file' \in [table : Tables, copy : Tables] /\ written' \subseteq Rows
    <3>1. file' \in [table : Tables, copy : Tables]
      BY <1>1, <2>4, <2>5
    <3>2. written' \subseteq Rows
      BY <1>1, <2>1, <2>3
    <3>3. QED
      BY <3>1, <3>2
  <2>11. "idle" \in SchemaPlaces \ {"renames", "commits"}
    BY DEF SchemaPlaces
  <2> HIDE DEF table
  <2>12. ready' # {} => file'.table.columns = ModelColumns
    BY <1>1, <2>2, <2>6 DEF ReadyIsComplete
  <2>13. QED
    BY <1>1, <1>3, <2>2, <2>6, <2>7, <2>8, <2>9, <2>10, <2>11, <2>12, FileStepKeeps
<1>9. QED
  BY <1>4, <1>5, <1>6, <1>7, <1>8

\* Every row is copied whole by a repair that has seen the model's columns.
LEMMA CopiesAll ==
  ASSUME NEW rows \in SUBSET Rows, NEW shared, "note" \in shared
  PROVE  Copied(rows, shared) = rows
<1>1. \A row \in rows : Row(row.id, row.noted /\ "note" \in shared) = row
  BY DEF Row, Rows
<1>2. QED
  BY <1>1 DEF Copied

\* A step within a transaction, or the one that opens it.
LEMMA FillKeeps ==
  ASSUME SchemaInv, NEW o \in Openers, Fill(o)
  PROVE  SchemaInv'
<1>1. /\ SchemaTypeOK /\ RowsKept /\ ReadyIsComplete /\ file.copy.columns \in {{}, ModelColumns}
      /\ Sees(o) /\ file.table \in Tables /\ file.copy \in Tables
  BY DEF SchemaInv, SchemaTypeOK
<1>2. /\ opener[o].at = "fills" /\ writer = Nobody /\ file.copy # Missing
      /\ writer' = o /\ UNCHANGED <<file, ready, written>> /\ Goes(o, "renames")
      /\ draft' = [copy |-> [file.copy EXCEPT !.rows =
                      @ \cup Copied(file.table.rows, opener[o].saw \cap ModelColumns)],
                   table |-> Missing]
  BY DEF Fill, At, Unlocked
<1>3. Copied(file.table.rows, opener[o].saw \cap ModelColumns) = file.table.rows
  <2>1. "note" \in opener[o].saw \cap ModelColumns
    BY <1>1, <1>2 DEF Sees, ModelColumns
  <2>2. QED
    BY <1>1, <2>1, CopiesAll DEF Tables
<1>4. file.copy = [columns |-> ModelColumns, rows |-> {}]
  BY <1>1, <1>2 DEF RowsKept, Tables, Missing
<1>5. draft' = [copy |-> [columns |-> ModelColumns, rows |-> file.table.rows], table |-> Missing]
  BY <1>2, <1>3, <1>4
<1>6. OpenerGoes(o, "renames", opener[o].saw)
  BY <1>1, <1>2, GoesGoes DEF SchemaPlaces
<1>7. SchemaTypeOK'
  <2>1. ModelColumns \subseteq Names /\ Missing \in Tables
    BY DEF ModelColumns, Names, Missing, Tables
  <2>2. draft' \in [table : Tables, copy : Tables]
    BY <1>1, <1>5, <2>1 DEF Tables
  <2>3. QED
    BY <1>1, <1>2, <1>6, <2>2 DEF SchemaTypeOK, OpenerGoes
<1>8. Sees(o)' /\ Holds(o)'
  <2>1. Sees(o)'
    BY <1>1, <1>2, <1>6 DEF Sees, OpenerGoes, ModelColumns
  <2>2. draft'.copy.rows = file.table.rows /\ draft'.copy.columns = ModelColumns
    BY <1>5
  <2>3. written' \subseteq draft'.copy.rows
    BY <1>1, <1>2, <2>2 DEF RowsKept
  <2>4. opener'[o].at = "renames" /\ writer' = o
    BY <1>2, <1>6 DEF OpenerGoes
  <2>5. Holds(o)'
    BY <2>2, <2>3, <2>4 DEF Holds, ModelColumns
  <2>6. QED
    BY <2>1, <2>5
<1>9. ASSUME NEW s \in Openers \ {o} PROVE Sees(s)' /\ Holds(s)'
  <2>1. Sees(s) /\ Holds(s) /\ opener'[s] = opener[s] /\ s # Nobody
    BY <1>6, SchemaAssumption DEF SchemaInv, OpenerGoes, Nobody
  <2>2. QED
    BY <1>2, <2>1, OtherOpenersStay
<1>10. RowsKept' /\ ReadyIsComplete'
  BY <1>1, <1>2 DEF RowsKept, ReadyIsComplete, ModelColumns
<1>11. QED
  BY <1>1, <1>2, <1>7, <1>8, <1>9, <1>10 DEF SchemaInv, ModelColumns

LEMMA RenameKeeps ==
  ASSUME SchemaInv, NEW o \in Openers, Rename(o)
  PROVE  SchemaInv'
<1>1. /\ SchemaTypeOK /\ RowsKept /\ ReadyIsComplete /\ file.copy.columns \in {{}, ModelColumns}
      /\ Sees(o) /\ Holds(o) /\ draft.copy \in Tables
  BY DEF SchemaInv, SchemaTypeOK
<1>2. /\ opener[o].at = "renames" /\ UNCHANGED <<file, writer, ready, written>>
      /\ draft' = [table |-> draft.copy, copy |-> Missing] /\ Goes(o, "commits")
  BY DEF Rename, At
<1>3. writer = o /\ draft.copy.columns = ModelColumns /\ written \subseteq draft.copy.rows
  BY <1>1, <1>2 DEF Holds
<1>4. OpenerGoes(o, "commits", opener[o].saw)
  BY <1>1, <1>2, GoesGoes DEF SchemaPlaces
<1>5. SchemaTypeOK'
  <2>1. Missing \in Tables
    BY DEF Missing, Tables
  <2>2. QED
    BY <1>1, <1>2, <1>4, <2>1 DEF SchemaTypeOK, OpenerGoes
<1>6. Sees(o)' /\ Holds(o)'
  <2>1. Sees(o)'
    BY <1>1, <1>2, <1>4 DEF Sees, OpenerGoes, ModelColumns
  <2>2. draft'.table = draft.copy /\ draft'.copy = Missing
    BY <1>2
  <2>3. Holds(o)'
    BY <1>2, <1>3, <1>4, <2>2 DEF Holds, OpenerGoes, ModelColumns, Missing
  <2>4. QED
    BY <2>1, <2>3
<1>7. ASSUME NEW s \in Openers \ {o} PROVE Sees(s)' /\ Holds(s)'
  <2>1. Sees(s) /\ Holds(s) /\ opener'[s] = opener[s]
    BY <1>4 DEF SchemaInv, OpenerGoes
  <2>2. QED
    BY <1>2, <1>3, <2>1, OtherOpenersStay
<1>8. RowsKept' /\ ReadyIsComplete'
  BY <1>1, <1>2 DEF RowsKept, ReadyIsComplete, ModelColumns
<1>9. QED
  BY <1>1, <1>2, <1>5, <1>6, <1>7, <1>8 DEF SchemaInv, ModelColumns

LEMMA CommitKeeps ==
  ASSUME SchemaInv, NEW o \in Openers, Commit(o)
  PROVE  SchemaInv'
<1>1. /\ SchemaTypeOK /\ Sees(o) /\ Holds(o) /\ draft \in [table : Tables, copy : Tables]
  BY DEF SchemaInv, SchemaTypeOK
<1>2. /\ opener[o].at = "commits" /\ UNCHANGED <<draft, ready, written>>
      /\ file' = draft /\ writer' = Nobody /\ Goes(o, "repaired")
  BY DEF Commit, At
<1>3. /\ writer = o /\ draft.table.columns = ModelColumns /\ written \subseteq draft.table.rows
      /\ draft.copy = Missing
  BY <1>1, <1>2 DEF Holds
<1>4. OpenerGoes(o, "repaired", opener[o].saw)
  BY <1>1, <1>2, GoesGoes DEF SchemaPlaces
<1>5. SchemaTypeOK'
  BY <1>1, <1>2, <1>4 DEF SchemaTypeOK, OpenerGoes
<1>6. o # Nobody
  BY SchemaAssumption DEF Nobody
<1>7. Sees(o)' /\ Holds(o)'
  BY <1>2, <1>3, <1>4, <1>6 DEF Sees, Holds, OpenerGoes, ModelColumns
<1>8. ASSUME NEW s \in Openers \ {o} PROVE Sees(s)' /\ Holds(s)'
  <2>1. Sees(s) /\ Holds(s) /\ opener'[s] = opener[s] /\ s # Nobody
    BY <1>4, SchemaAssumption DEF SchemaInv, OpenerGoes, Nobody
  <2>2. QED
    BY <1>2, <1>3, <2>1, OtherOpenersStay
<1>9. RowsKept' /\ ReadyIsComplete' /\ file'.copy.columns = {}
  BY <1>2, <1>3 DEF RowsKept, ReadyIsComplete, ModelColumns, Missing
<1>10. QED
  BY <1>5, <1>7, <1>8, <1>9 DEF SchemaInv, ModelColumns

\* A repair that fails, and a process that is killed, leave the file as it was.
LEMMA GivingUpKeeps ==
  ASSUME SchemaInv, NEW gone \in SUBSET Openers, UNCHANGED <<file, draft, written>>,
         opener' = [o \in Openers |-> IF o \in gone THEN Unopened ELSE opener[o]],
         writer' = IF writer \in gone THEN Nobody ELSE writer,
         ready' \subseteq ready
  PROVE  SchemaInv'
<1>1. /\ SchemaTypeOK /\ RowsKept /\ ReadyIsComplete /\ file.copy.columns \in {{}, ModelColumns}
      /\ \A s \in Openers : s # Nobody
  BY SchemaAssumption DEF SchemaInv, Nobody
<1>2. Unopened \in [at : SchemaPlaces, saw : SUBSET Names] /\ Unopened.at = "idle"
  BY DEF Unopened, SchemaPlaces
<1>3. SchemaTypeOK'
  BY <1>1, <1>2 DEF SchemaTypeOK
<1>4. ASSUME NEW s \in Openers PROVE Sees(s)' /\ Holds(s)'
  <2>1. CASE s \in gone
    <3>1. opener'[s] = Unopened /\ writer' # s
      BY <1>1, <2>1
    <3>2. QED
      BY <1>2, <3>1 DEF Sees, Holds
  <2>2. CASE s \notin gone
    <3>1. opener'[s] = opener[s] /\ (writer' = s <=> writer = s) /\ Sees(s) /\ Holds(s)
      BY <1>1, <2>2 DEF SchemaInv
    <3>2. QED
      BY <3>1, OtherOpenersStay
  <2>3. QED
    BY <2>1, <2>2
<1>5. RowsKept' /\ ReadyIsComplete'
  BY <1>1 DEF RowsKept, ReadyIsComplete, ModelColumns
<1>6. QED
  BY <1>1, <1>3, <1>4, <1>5 DEF SchemaInv, ModelColumns

LEMMA SchemaStepKeeps ==
  ASSUME SchemaInv, [SchemaNext]_schemaVars
  PROVE  SchemaInv'
<1>1. CASE UNCHANGED schemaVars
  <2>1. UNCHANGED <<file, draft, writer, ready, opener, written>>
    BY <1>1 DEF schemaVars
  <2>2. \A s \in Openers : Sees(s)' /\ Holds(s)'
    BY <2>1, OtherOpenersStay DEF SchemaInv
  <2>3. SchemaTypeOK' /\ RowsKept' /\ ReadyIsComplete'
    BY <2>1 DEF SchemaInv, SchemaTypeOK, RowsKept, ReadyIsComplete, ModelColumns
  <2>4. QED
    BY <2>1, <2>2, <2>3 DEF SchemaInv, ModelColumns
<1>2. ASSUME NEW o \in Openers, Fail(o) PROVE SchemaInv'
  <2>1. /\ UNCHANGED <<file, draft, written>> /\ ready' = ready
        /\ writer' = IF writer \in {o} THEN Nobody ELSE writer
        /\ opener' = [opener EXCEPT ![o] = Unopened]
    BY <1>2 DEF Fail, MarkedAfterFailure
  <2>2. opener' = [s \in Openers |-> IF s \in {o} THEN Unopened ELSE opener[s]]
    BY <2>1 DEF SchemaInv, SchemaTypeOK
  <2>3. QED
    BY <2>1, <2>2, GivingUpKeeps
<1>3. ASSUME NEW process \in Processes, Kill(process) PROVE SchemaInv'
  <2> DEFINE gone == {o \in Openers : HomeOf[o] = process}
  <2>1. /\ UNCHANGED <<file, draft, written>> /\ ready' \subseteq ready
        /\ opener' = [o \in Openers |-> IF o \in gone THEN Unopened ELSE opener[o]]
    BY <1>3 DEF Kill
  <2>2. writer' = IF writer \in gone THEN Nobody ELSE writer
    <3>1. writer \in Openers \cup {Nobody} /\ Nobody \notin Openers
      BY SchemaAssumption DEF SchemaInv, SchemaTypeOK, Nobody
    <3>2. QED
      BY <1>3, <3>1 DEF Kill
  <2>3. gone \in SUBSET Openers
    OBVIOUS
  <2> HIDE DEF gone
  <2>4. QED
    BY <2>1, <2>2, <2>3, GivingUpKeeps
<1>4. QED
  BY <1>1, <1>2, <1>3, LookingKeeps, ChangingKeeps, FillKeeps, RenameKeeps, CommitKeeps
     DEF SchemaNext

LEMMA SchemaInvHolds == SchemaSpec => []SchemaInv
<1>1. SchemaInit => SchemaInv
  BY SchemaInitFits
<1>2. SchemaInv /\ [SchemaNext]_schemaVars => SchemaInv'
  BY SchemaStepKeeps
<1>3. QED
  BY <1>1, <1>2, PTL DEF SchemaSpec

\* No repair of the schema, given up, killed or repeated by others at the same time,
\* loses a row that was there, or its note (session.py:172).
THEOREM RepairKeepsRows == SchemaSpec => []RowsKept
<1>1. SchemaInv => RowsKept
  BY DEF SchemaInv
<1>2. QED
  BY <1>1, SchemaInvHolds, PTL

\* Once a process holds the schema to be ready, its table has the columns of the
\* model, whatever slower threads go on to do (session.py:227).
THEOREM ReadySchemaIsComplete == SchemaSpec => []ReadyIsComplete
<1>1. SchemaInv => ReadyIsComplete
  BY DEF SchemaInv
<1>2. QED
  BY <1>1, SchemaInvHolds, PTL

-----------------------------------------------------------------------------
(* Accounts.                                                               *)

Tokens == [version : Int, secret : Nat, expires : Int, password : Int]

RowsOfUsers == [password : Int, version : Int]

DeviceRecords == [at : {"idle", "registered", "issues", "leaves"}, row : RowsOfUsers,
                  access : Tokens, refresh : Tokens]

Scripts == [resets : BOOLEAN, row : RowsOfUsers]

Mishaps == {"overwritten", "misread"}

AccountsTypeOK ==
  /\ accountTime \in Nat
  /\ secretKey \in Nat \ {0}
  /\ account \in RowsOfUsers
  /\ device \in [Devices -> DeviceRecords]
  /\ script \in Scripts
  /\ amiss \in SUBSET Mishaps

\* As long as no revocation is overwritten versions only go up, and one that the
\* account has had stands for the password it had then.
Known(version, password) ==
  "overwritten" \notin amiss =>
    /\ version \in 0..account.version
    /\ version = account.version /\ "misread" \notin amiss => password = account.password

TokenFits(token) ==
  /\ token.secret <= secretKey
  /\ token.secret # 0 => Known(token.version, token.password)

DeviceFits(record) ==
  /\ TokenFits(record.access) /\ TokenFits(record.refresh)
  /\ record.at = "registered" => ("overwritten" \notin amiss => account.version >= 0)
  /\ record.at = "issues" => Known(record.row.version, record.row.password)

AccountFits == "overwritten" \notin amiss => account.version >= 0 \/ account = NoAccount

AccountsInv ==
  /\ AccountsTypeOK
  /\ \A d \in Devices : DeviceFits(device[d])
  /\ AccountFits

\* What a step may do to the account, the clock and the secret.
Advances ==
  /\ accountTime' \in Nat /\ accountTime <= accountTime'
  /\ secretKey' \in Nat \ {0} /\ secretKey <= secretKey'
  /\ account' \in RowsOfUsers
  /\ amiss' \in SUBSET Mishaps /\ amiss \subseteq amiss'
  /\ "overwritten" \notin amiss' => account' = account \/ account'.version = account.version + 1

-----------------------------------------------------------------------------

LEMMA EmptyRows == NoToken \in Tokens /\ NoAccount \in RowsOfUsers /\ NotRunning \in Scripts
  BY DEF NoToken, Tokens, NoAccount, RowsOfUsers, NotRunning, Scripts

LEMMA AccountsInitFits == AccountInit => AccountsInv
<1>1. SUFFICES ASSUME AccountInit PROVE AccountsInv
  OBVIOUS
<1>2. SignedOut \in DeviceRecords
  BY EmptyRows DEF SignedOut, DeviceRecords
<1>3. AccountsTypeOK
  BY <1>1, <1>2, EmptyRows DEF AccountInit, AccountsTypeOK
<1>4. ASSUME NEW d \in Devices PROVE DeviceFits(device[d])
  BY <1>1 DEF AccountInit, SignedOut, DeviceFits, TokenFits, NoToken
<1>5. QED
  BY <1>1, <1>3, <1>4 DEF AccountsInv, AccountFits, AccountInit

\* A version once known stays known.
LEMMA StaysKnown ==
  ASSUME AccountsTypeOK, Advances, NEW version \in Int, NEW password \in Int,
         Known(version, password)
  PROVE  Known(version, password)'
<1>1. /\ account.version \in Int /\ account'.version \in Int
  BY DEF AccountsTypeOK, Advances, RowsOfUsers
<1>2. SUFFICES ASSUME "overwritten" \notin amiss'
               PROVE  /\ version \in 0..account'.version
                      /\ version = account'.version /\ "misread" \notin amiss'
                           => password = account'.password
  BY DEF Known
<1>3. /\ "overwritten" \notin amiss /\ ("misread" \notin amiss' => "misread" \notin amiss)
      /\ account' = account \/ account'.version = account.version + 1
  BY <1>2 DEF Advances
<1>4. /\ version \in 0..account.version
      /\ version = account.version /\ "misread" \notin amiss => password = account.password
  BY <1>3 DEF Known
<1>5. QED
  BY <1>1, <1>3, <1>4

LEMMA TokenStillFits ==
  ASSUME AccountsTypeOK, Advances, NEW token \in Tokens, TokenFits(token)
  PROVE  TokenFits(token)'
<1>1. token.secret \in Nat /\ token.version \in Int /\ token.password \in Int
  BY DEF Tokens
<1>2. token.secret <= secretKey'
  BY <1>1 DEF AccountsTypeOK, Advances, TokenFits
<1>3. ASSUME token.secret # 0 PROVE Known(token.version, token.password)'
  BY <1>1, <1>3, StaysKnown DEF TokenFits
<1>4. QED
  BY <1>2, <1>3 DEF TokenFits

\* What a step leaves of a device's request and tokens still fits.
LEMMA DeviceStillFits ==
  ASSUME AccountsTypeOK, Advances, NEW record \in DeviceRecords, DeviceFits(record)
  PROVE  DeviceFits(record)'
<1>1. /\ record.access \in Tokens /\ record.refresh \in Tokens /\ record.row \in RowsOfUsers
      /\ record.row.version \in Int /\ record.row.password \in Int
      /\ account.version \in Int /\ account'.version \in Int
  BY DEF DeviceRecords, RowsOfUsers, AccountsTypeOK, Advances
<1>2. TokenFits(record.access)' /\ TokenFits(record.refresh)'
  BY <1>1, TokenStillFits DEF DeviceFits
<1>3. ASSUME record.at = "registered", "overwritten" \notin amiss' PROVE account'.version >= 0
  BY <1>1, <1>3 DEF DeviceFits, Advances
<1>4. ASSUME record.at = "issues" PROVE Known(record.row.version, record.row.password)'
  BY <1>1, <1>4, StaysKnown DEF DeviceFits
<1>5. QED
  BY <1>2, <1>3, <1>4 DEF DeviceFits

LEMMA AccountStillFits ==
  ASSUME AccountsTypeOK, Advances, AccountFits
  PROVE  AccountFits'
<1>1. account.version \in Int /\ (account = NoAccount => account.version = -1)
  BY DEF AccountsTypeOK, RowsOfUsers, NoAccount
<1>2. QED
  BY <1>1 DEF AccountFits, Advances

-----------------------------------------------------------------------------
(* Steps.                                                                  *)

\* A step that takes one device on, or none.
LEMMA OneDeviceKeeps ==
  ASSUME AccountsInv, Advances, script' \in Scripts,
         NEW d \in Devices, NEW new \in DeviceRecords,
         device' = [device EXCEPT ![d] = new], DeviceFits(new)'
  PROVE  AccountsInv'
<1>1. /\ device \in [Devices -> DeviceRecords] /\ AccountsTypeOK
      /\ device' \in [Devices -> DeviceRecords] /\ device'[d] = new
      /\ \A e \in Devices \ {d} : device'[e] = device[e]
  BY DEF AccountsInv, AccountsTypeOK
<1>2. AccountsTypeOK'
  BY <1>1 DEF AccountsTypeOK, Advances
<1>3. ASSUME NEW e \in Devices PROVE DeviceFits(device[e])'
  <2>1. PICK old \in DeviceRecords : old = device[e]
    BY <1>1
  <2>2. CASE e = d
    BY <1>1, <2>2 DEF DeviceFits, TokenFits, Known
  <2>3. CASE e # d
    <3>1. DeviceFits(old)
      BY <2>1 DEF AccountsInv
    <3>2. DeviceFits(old)'
      BY <1>1, <3>1, DeviceStillFits
    <3>3. device'[e] = old
      BY <1>1, <2>1, <2>3
    <3>4. QED
      BY <3>2, <3>3 DEF DeviceFits, TokenFits, Known
  <2>4. QED
    BY <2>2, <2>3
<1>4. AccountFits'
  BY <1>1, AccountStillFits DEF AccountsInv
<1>5. QED
  BY <1>2, <1>3, <1>4 DEF AccountsInv

LEMMA NoDeviceKeeps ==
  ASSUME AccountsInv, Advances, script' \in Scripts,
         \A d \in Devices : /\ device'[d] \in DeviceRecords
                            /\ device'[d].access = device[d].access
                            /\ device'[d].refresh = device[d].refresh
                            /\ device'[d].at = "idle" \/ device'[d] = device[d],
         device' \in [Devices -> DeviceRecords]
  PROVE  AccountsInv'
<1>1. AccountsTypeOK /\ device \in [Devices -> DeviceRecords]
  BY DEF AccountsInv, AccountsTypeOK
<1>2. AccountsTypeOK'
  BY <1>1 DEF AccountsTypeOK, Advances
<1>3. ASSUME NEW e \in Devices PROVE DeviceFits(device[e])'
  <2>1. PICK old \in DeviceRecords : old = device[e]
    BY <1>1
  <2>2. DeviceFits(old)
    BY <2>1 DEF AccountsInv
  <2>3. DeviceFits(old)'
    BY <1>1, <2>2, DeviceStillFits
  <2>4. QED
    BY <2>1, <2>3 DEF DeviceFits, TokenFits, Known
<1>4. AccountFits'
  BY <1>1, AccountStillFits DEF AccountsInv
<1>5. QED
  BY <1>2, <1>3, <1>4 DEF AccountsInv

LEMMA MadeAdvances ==
  ASSUME AccountsTypeOK, Made
  PROVE  /\ account' \in RowsOfUsers /\ account'.version = account.version + 1
         /\ account'.version = 0
<1>1. account' = [password |-> 0, version |-> 0] /\ account.version = -1
  BY DEF Made, NoAccount
<1>2. QED
  BY <1>1 DEF RowsOfUsers

\* A revocation that has seen the row as it is gives it a version it never had.
LEMMA RevokesAdvances ==
  ASSUME AccountsTypeOK, NEW row \in RowsOfUsers, NEW resets \in BOOLEAN, Revokes(row, resets)
  PROVE  /\ account' \in RowsOfUsers
         /\ amiss' \in SUBSET Mishaps /\ amiss \subseteq amiss'
         /\ "overwritten" \notin amiss' => account'.version = account.version + 1
<1>1. /\ row.version \in Int /\ row.version + 1 \in Int
      /\ account \in RowsOfUsers /\ account.password \in Int /\ account.password + 1 \in Int
  BY DEF RowsOfUsers, AccountsTypeOK
<1>2. PICK version \in Int : version = row.version + 1
  BY <1>1
<1>3. PICK password \in Int : password = IF resets THEN account.password + 1 ELSE account.password
  BY <1>1
<1>4. account' = [account EXCEPT !.version = version, !.password = password]
  BY <1>2, <1>3 DEF Revokes, Changed
<1>5. account' \in RowsOfUsers /\ account'.version = version
  BY <1>1, <1>4 DEF RowsOfUsers
<1>6. /\ amiss' \in SUBSET Mishaps /\ amiss \subseteq amiss'
      /\ "overwritten" \notin amiss' => row = account
  BY DEF Revokes, AccountsTypeOK, Mishaps
<1>7. QED
  BY <1>2, <1>5, <1>6

LEMMA StepAdvances ==
  ASSUME AccountsTypeOK, [AccountNext]_accountVars
  PROVE  Advances
<1>1. /\ accountTime \in Nat /\ secretKey \in Nat \ {0} /\ account \in RowsOfUsers
      /\ amiss \in SUBSET Mishaps /\ accountTime <= accountTime /\ secretKey <= secretKey
  BY DEF AccountsTypeOK
<1>2. CASE AccountTick
  <2>1. accountTime' = accountTime + 1 /\ UNCHANGED <<secretKey, account, amiss>>
    BY <1>2 DEF AccountTick
  <2>2. accountTime' \in Nat /\ accountTime <= accountTime'
    BY <1>1, <2>1
  <2>3. QED
    BY <1>1, <2>1, <2>2 DEF Advances
<1>3. CASE Rekey
  <2>1. secretKey' = secretKey + 1 /\ UNCHANGED <<accountTime, account, amiss>>
    BY <1>3, Zenon DEF Rekey
  <2>2. secretKey' \in Nat \ {0} /\ secretKey <= secretKey'
    BY <1>1, <2>1
  <2>3. QED
    BY <1>1, <2>1, <2>2 DEF Advances
<1>4. ASSUME Made, UNCHANGED <<accountTime, secretKey, amiss>> PROVE Advances
  BY <1>1, <1>4, MadeAdvances DEF Advances
<1>5. ASSUME NEW d \in Devices, Register(d) PROVE Advances
  BY <1>4, <1>5 DEF Register, RouteOnly
<1>6. CASE CreateByScript
  BY <1>4, <1>6 DEF CreateByScript, ScriptOnly
<1>7. ASSUME NEW row \in RowsOfUsers, NEW resets \in BOOLEAN, Revokes(row, resets),
             UNCHANGED <<accountTime, secretKey>>
      PROVE  Advances
  BY <1>1, <1>7, RevokesAdvances DEF Advances
<1>8. ASSUME NEW d \in Devices, FinishLogOut(d) PROVE Advances
  <2>1. device[d].row \in RowsOfUsers
    BY DEF AccountsTypeOK, DeviceRecords
  <2>2. QED
    BY <1>7, <1>8, <2>1 DEF FinishLogOut, RouteOnly
<1>9. CASE WriteByScript
  <2>1. script.row \in RowsOfUsers /\ script.resets \in BOOLEAN
    BY DEF AccountsTypeOK, Scripts
  <2>2. QED
    BY <1>7, <1>9, <2>1 DEF WriteByScript, ScriptOnly
<1>10. ASSUME NEW d \in Devices, ReadBack(d) PROVE Advances
  <2>1. /\ UNCHANGED <<accountTime, secretKey, account>>
        /\ amiss' \in SUBSET Mishaps /\ amiss \subseteq amiss'
    BY <1>1, <1>10 DEF ReadBack, RouteOnly, Mishaps
  <2>2. QED
    BY <1>1, <2>1 DEF Advances
<1>11. ASSUME UNCHANGED <<accountTime, secretKey, account, amiss>> PROVE Advances
  BY <1>1, <1>11 DEF Advances
<1>12. ASSUME NEW d \in Devices,
              Login(d) \/ Refresh(d) \/ Issue(d) \/ LogOut(d) \/ StayLoggedIn(d)
       PROVE  Advances
  BY <1>11, <1>12 DEF Login, Refresh, Issue, LogOut, StayLoggedIn, RouteOnly
<1>13. CASE RunScript \/ GiveUpScript \/ UNCHANGED accountVars
  BY <1>11, <1>13 DEF RunScript, GiveUpScript, ScriptOnly, accountVars
<1>14. QED
  BY <1>2, <1>3, <1>5, <1>6, <1>8, <1>9, <1>10, <1>12, <1>13 DEF AccountNext

\* What a request that goes on with a row must know.
GoesOn(at, row) ==
  /\ at = "registered" => account.version >= 0
  /\ at = "issues" => Known(row.version, row.password)

LEMMA RequestKeeps ==
  ASSUME AccountsInv, Advances, UNCHANGED script, NEW d \in Devices,
         NEW at \in {"idle", "registered", "issues", "leaves"}, NEW row \in RowsOfUsers,
         device' = [device EXCEPT ![d].at = at, ![d].row = row],
         GoesOn(at, row)'
  PROVE  AccountsInv'
<1>1. PICK old \in DeviceRecords : old = device[d] /\ DeviceFits(old)
  BY DEF AccountsInv, AccountsTypeOK
<1>2. PICK new : new = [old EXCEPT !.at = at, !.row = row]
  OBVIOUS
<1>3. /\ new \in DeviceRecords /\ new.at = at /\ new.row = row
      /\ new.access = old.access /\ new.refresh = old.refresh
  BY <1>2 DEF DeviceRecords
<1>4. device' = [device EXCEPT ![d] = new]
  BY <1>1, <1>2
<1>5. DeviceFits(old)'
  BY <1>1, DeviceStillFits DEF AccountsInv
<1>6. TokenFits(new.access)' /\ TokenFits(new.refresh)'
  BY <1>3, <1>5 DEF DeviceFits
<1>7. DeviceFits(new)'
  BY <1>3, <1>6 DEF DeviceFits, GoesOn
<1>8. script' \in Scripts
  BY DEF AccountsInv, AccountsTypeOK
<1>9. QED
  BY <1>3, <1>4, <1>7, <1>8, OneDeviceKeeps

\* Who registers has the first row there is.
LEMMA RegisterKeeps ==
  ASSUME AccountsInv, Advances, NEW d \in Devices, Register(d)
  PROVE  AccountsInv'
<1>1. PICK row \in RowsOfUsers : row = device[d].row
  BY DEF AccountsInv, AccountsTypeOK, DeviceRecords
<1>2. /\ device' = [device EXCEPT ![d].at = "registered", ![d].row = row]
      /\ Made /\ UNCHANGED script
  BY <1>1 DEF Register, RouteOnly, AccountsInv, AccountsTypeOK, DeviceRecords
<1>3. account'.version = 0
  BY <1>2, MadeAdvances DEF AccountsInv
<1>4. GoesOn("registered", row)'
  BY <1>3 DEF GoesOn
<1>5. QED
  BY <1>2, <1>4, RequestKeeps

\* A request that has read the row, or a token that stands for it, knows it.
LEMMA ReadKeeps ==
  ASSUME AccountsInv, Advances, NEW d \in Devices, ReadBack(d) \/ Login(d) \/ Refresh(d)
  PROVE  AccountsInv'
<1>1. /\ UNCHANGED <<account, script, secretKey>> /\ account \in RowsOfUsers
      /\ account.version \in Int /\ account.password \in Int
      /\ device[d] \in DeviceRecords /\ DeviceFits(device[d])
  BY DEF ReadBack, Login, Refresh, RouteOnly, AccountsInv, AccountsTypeOK, RowsOfUsers
<1>2. PICK password \in Int :
        /\ device' = [device EXCEPT ![d].at = "issues",
                                    ![d].row = [account EXCEPT !.password = password]]
        /\ "overwritten" \notin amiss' =>
             /\ account.version >= 0
             /\ "misread" \notin amiss' => password = account.password
  <2>1. CASE ReadBack(d)
    <3>1. "overwritten" \notin amiss' => account.version >= 0
      BY <1>1, <2>1 DEF ReadBack, DeviceFits
    <3>2. "misread" \notin amiss' => account.password = 0
      BY <2>1 DEF ReadBack
    <3>3. device' = [device EXCEPT ![d].at = "issues",
                                   ![d].row = [account EXCEPT !.password = 0]]
      BY <2>1 DEF ReadBack
    <3>4. 0 \in Int
      OBVIOUS
    <3>5. QED
      BY <3>1, <3>2, <3>3, <3>4, Zenon
  <2>2. CASE Login(d)
    <3>1. [account EXCEPT !.password = account.password] = account
      BY <1>1 DEF RowsOfUsers
    <3>2. /\ device' = [device EXCEPT ![d].at = "issues", ![d].row = account]
          /\ account # NoAccount /\ amiss' = amiss
      BY <2>2 DEF Login
    <3>3. QED
      BY <1>1, <3>1, <3>2 DEF AccountsInv, AccountFits
  <2>3. CASE Refresh(d)
    <3>1. /\ device[d].refresh \in Tokens /\ device[d].refresh.password \in Int
          /\ secretKey # 0
      BY <1>1 DEF DeviceRecords, Tokens, AccountsInv, AccountsTypeOK
    <3>2. /\ device[d].refresh.secret # 0 /\ device[d].refresh.version = account.version
          /\ amiss' = amiss
          /\ device' = [device EXCEPT ![d].at = "issues",
                          ![d].row = [account EXCEPT !.password = device[d].refresh.password]]
      BY <2>3, <3>1 DEF Refresh, Accepted, Decodes
    <3>3. Known(account.version, device[d].refresh.password)
      BY <1>1, <3>2 DEF DeviceFits, TokenFits
    <3>4. "overwritten" \notin amiss =>
            /\ account.version >= 0
            /\ "misread" \notin amiss => device[d].refresh.password = account.password
      BY <1>1, <3>3 DEF Known
    <3>5. QED
      BY <3>1, <3>2, <3>4
  <2>4. QED
    BY <2>1, <2>2, <2>3
<1>3. PICK row : row = [account EXCEPT !.password = password]
  OBVIOUS
<1>4. row \in RowsOfUsers /\ row.version = account.version /\ row.password = password
  BY <1>1, <1>3 DEF RowsOfUsers
<1>5. GoesOn("issues", row)'
  BY <1>1, <1>2, <1>4 DEF Known, GoesOn
<1>6. QED
  BY <1>1, <1>2, <1>3, <1>4, <1>5, RequestKeeps

\* The tokens that are issued stand for what the request knows.
LEMMA IssueKeeps ==
  ASSUME AccountsInv, Advances, NEW d \in Devices, Issue(d)
  PROVE  AccountsInv'
<1> DEFINE row == device[d].row
           new == [at |-> "idle", row |-> NoAccount, access |-> Token(row, AccessTtl),
                   refresh |-> Token(row, RefreshTtl)]
<1>1. /\ device[d].at = "issues" /\ device' = [device EXCEPT ![d] = new]
      /\ UNCHANGED <<accountTime, secretKey, script, account, amiss>>
  BY DEF Issue, RouteOnly
<1>2. Known(row.version, row.password) /\ row \in RowsOfUsers
  BY <1>1 DEF AccountsInv, DeviceFits, AccountsTypeOK, DeviceRecords
<1>3. PICK one, two : one = Token(row, AccessTtl) /\ two = Token(row, RefreshTtl)
  OBVIOUS
<1>4. /\ one \in Tokens /\ two \in Tokens
      /\ one.secret = secretKey /\ one.version = row.version /\ one.password = row.password
      /\ two.secret = secretKey /\ two.version = row.version /\ two.password = row.password
  BY <1>2, <1>3, AccountAssumption DEF Token, Tokens, AccountsInv, AccountsTypeOK, RowsOfUsers
<1>5. PICK record \in DeviceRecords :
        record = new /\ record.at = "idle" /\ record.access = one /\ record.refresh = two
  <2>1. PICK record : record = [at |-> "idle", row |-> NoAccount, access |-> one, refresh |-> two]
    OBVIOUS
  <2>2. record \in DeviceRecords
    BY <1>4, <2>1, EmptyRows DEF DeviceRecords
  <2>3. QED
    BY <1>3, <2>1, <2>2
<1>6. secretKey <= secretKey
  BY DEF AccountsInv, AccountsTypeOK
<1>7. TokenFits(one)' /\ TokenFits(two)'
  BY <1>1, <1>2, <1>4, <1>6 DEF TokenFits, Known
<1>8. DeviceFits(record)'
  BY <1>5, <1>7 DEF DeviceFits
<1>9. script' \in Scripts
  BY <1>1 DEF AccountsInv, AccountsTypeOK
<1>10. QED
  BY <1>1, <1>5, <1>8, <1>9, OneDeviceKeeps

LEMMA AccountsStepKeeps ==
  ASSUME AccountsInv, [AccountNext]_accountVars
  PROVE  AccountsInv'
<1>1. Advances /\ script \in Scripts /\ account \in RowsOfUsers
      /\ device \in [Devices -> DeviceRecords]
  BY StepAdvances DEF AccountsInv, AccountsTypeOK
<1>2. ASSUME UNCHANGED device, script' \in Scripts PROVE AccountsInv'
  BY <1>1, <1>2, NoDeviceKeeps
<1>3. CASE UNCHANGED accountVars \/ AccountTick \/ CreateByScript
  BY <1>1, <1>2, <1>3 DEF accountVars, AccountTick, CreateByScript, ScriptOnly
<1>4. CASE RunScript \/ WriteByScript \/ GiveUpScript
  <2>1. script' \in Scripts
    BY <1>1, <1>4, EmptyRows DEF RunScript, WriteByScript, GiveUpScript, Scripts
  <2>2. QED
    BY <1>2, <1>4, <2>1 DEF RunScript, WriteByScript, GiveUpScript, ScriptOnly
<1>5. ASSUME NEW d \in Devices, LogOut(d) PROVE AccountsInv'
  <2>1. PICK row \in RowsOfUsers : row = account
    BY <1>1
  <2>2. GoesOn("leaves", row)'
    BY DEF GoesOn
  <2>3. device' = [device EXCEPT ![d].at = "leaves", ![d].row = row] /\ UNCHANGED script
    BY <1>5, <2>1 DEF LogOut, RouteOnly
  <2>4. QED
    BY <1>1, <2>2, <2>3, RequestKeeps, Zenon
<1>6. ASSUME NEW d \in Devices, FinishLogOut(d) \/ StayLoggedIn(d) PROVE AccountsInv'
  <2>1. GoesOn("idle", NoAccount)'
    BY DEF GoesOn
  <2>2. device' = [device EXCEPT ![d].at = "idle", ![d].row = NoAccount] /\ UNCHANGED script
    BY <1>6 DEF FinishLogOut, StayLoggedIn, RouteOnly
  <2>3. QED
    BY <1>1, <2>1, <2>2, EmptyRows, RequestKeeps, Zenon
<1>7. CASE Rekey
  <2>1. /\ UNCHANGED script
        /\ device' = [d \in Devices |-> [device[d] EXCEPT !.at = "idle", !.row = NoAccount]]
    BY <1>7, Zenon DEF Rekey
  <2>2. ASSUME NEW d \in Devices
        PROVE  /\ device'[d] \in DeviceRecords /\ device'[d].at = "idle"
               /\ device'[d].access = device[d].access /\ device'[d].refresh = device[d].refresh
    <3>1. PICK old \in DeviceRecords : old = device[d]
      BY <1>1
    <3>2. device'[d] = [old EXCEPT !.at = "idle", !.row = NoAccount]
      BY <2>1, <3>1, Zenon
    <3>3. QED
      BY <3>1, <3>2, EmptyRows DEF DeviceRecords
  <2>3. device' \in [Devices -> DeviceRecords]
    BY <2>1, <2>2, Zenon
  <2>4. QED
    BY <1>1, <2>1, <2>2, <2>3, NoDeviceKeeps, Zenon
<1>8. QED
  BY <1>1, <1>3, <1>4, <1>5, <1>6, <1>7, RegisterKeeps, ReadKeeps, IssueKeeps DEF AccountNext

\* A token's account, secret and clock only move away from it.
LEMMA StepRefuses ==
  ASSUME AccountsInv, Advances, "overwritten" \notin amiss',
         NEW token \in Tokens, TokenFits(token), ~Accepted(token)
  PROVE  ~(/\ token.secret = secretKey' /\ accountTime' < token.expires
           /\ token.version = account'.version)
<1>1. /\ accountTime \in Nat /\ secretKey \in Nat \ {0} /\ account.version \in Int
      /\ token.secret \in Nat /\ token.version \in Int /\ token.expires \in Int
  BY DEF AccountsInv, AccountsTypeOK, Tokens, RowsOfUsers
<1>2. /\ accountTime' \in Nat /\ accountTime <= accountTime'
      /\ secretKey' \in Nat /\ secretKey <= secretKey' /\ "overwritten" \notin amiss
      /\ account' = account \/ account'.version = account.version + 1
  BY DEF Advances
<1>3. CASE token.secret # secretKey
  BY <1>1, <1>2, <1>3 DEF TokenFits
<1>4. CASE accountTime >= token.expires
  BY <1>1, <1>2, <1>4
<1>5. CASE token.secret = secretKey /\ token.version # account.version
  <2>1. token.version < account.version
    BY <1>1, <1>2, <1>5 DEF TokenFits, Known
  <2>2. QED
    BY <1>1, <1>2, <2>1
<1>6. QED
  BY <1>1, <1>3, <1>4, <1>5 DEF Accepted, Decodes

-----------------------------------------------------------------------------
(* Theorems.                                                               *)

\* Every reachable state of the accounts is well typed.
THEOREM AccountsTypeCorrect == AccountSpec => []AccountsTypeOK
<1>1. AccountInit => AccountsInv
  BY AccountsInitFits
<1>2. AccountsInv /\ [AccountNext]_accountVars => AccountsInv'
  BY AccountsStepKeeps
<1>3. AccountsInv => AccountsTypeOK
  BY DEF AccountsInv
<1>4. QED
  BY <1>1, <1>2, <1>3, PTL DEF AccountSpec

\* However logins, refreshes, logouts and resets interleave, an accepted token goes
\* back to a login with the present password (scripts/create_user.py:9), unless a
\* revocation was overwritten or a registration read back another row.
THEOREM TokensKnowPassword == AccountSpec => []AcceptedKnowPassword
<1>1. AccountInit => AccountsInv
  BY AccountsInitFits
<1>2. AccountsInv /\ [AccountNext]_accountVars => AccountsInv'
  BY AccountsStepKeeps
<1>3. AccountsInv => AcceptedKnowPassword
  <2>1. SUFFICES ASSUME AccountsInv, amiss = {}, NEW d \in Devices,
                        NEW token \in {device[d].access, device[d].refresh}, Accepted(token)
                 PROVE  token.password = account.password
    BY DEF AcceptedKnowPassword
  <2>2. TokenFits(token) /\ token.secret # 0
    BY <2>1 DEF AccountsInv, AccountsTypeOK, DeviceFits, Accepted, Decodes
  <2>3. QED
    BY <2>1, <2>2 DEF TokenFits, Known, Accepted
<1>4. QED
  BY <1>1, <1>2, <1>3, PTL DEF AccountSpec

\* No token that was refused is accepted again, whatever happens to the account,
\* the clock and the secret (backend/api/auth.py:12), unless a revocation was
\* overwritten by one that had not seen it.
THEOREM RefusalsAreFinal == AccountSpec => RefusedForGood
<1>1. AccountInit => AccountsInv
  BY AccountsInitFits
<1>2. AccountsInv /\ [AccountNext]_accountVars => AccountsInv'
  BY AccountsStepKeeps
<1>3. AccountsInv /\ [AccountNext]_accountVars =>
        [\A d \in Devices : \A token \in {device[d].access, device[d].refresh} :
           ~Accepted(token) /\ "overwritten" \notin amiss' => ~Accepted(token)']_accountVars
  <2>1. SUFFICES ASSUME AccountsInv, [AccountNext]_accountVars, NEW d \in Devices,
                        NEW token \in {device[d].access, device[d].refresh},
                        ~Accepted(token), "overwritten" \notin amiss'
                 PROVE  ~Accepted(token)'
    OBVIOUS
  <2>2. token \in Tokens /\ TokenFits(token)
    BY <2>1 DEF AccountsInv, AccountsTypeOK, DeviceFits, DeviceRecords
  <2>3. Advances
    BY <2>1, StepAdvances DEF AccountsInv
  <2>4. QED
    BY <2>1, <2>2, <2>3, StepRefuses DEF Accepted, Decodes
<1>4. QED
  BY <1>1, <1>2, <1>3, PTL DEF AccountSpec, RefusedForGood

-----------------------------------------------------------------------------
(* Provider keys.                                                          *)

\* The row has been what a request has saved, before it is logged and after.
KeysInv ==
  /\ \A s \in Savers : saver[s].at = "audits" => saver[s].key \in replaced \cup {vault}
  /\ audited \subseteq replaced \cup {vault}
  /\ \A saved \in audited : saved # NoKey
  /\ saver \in [Savers -> [at : {"idle", "looks", "inserts", "updates", "audits", "done"},
                           key : [of : Savers \cup {"nobody"}, secret : Nat]]]
  /\ \A s \in Savers : saver[s].at \in {"looks", "inserts", "updates", "audits"} => saver[s].key # NoKey
  /\ keySecret \in Nat

LEMMA KeysStart == KeysInit => KeysInv
  BY DEF KeysInit, KeysInv, NoKey

LEMMA KeysKeep == KeysInv /\ [KeysNext]_keyVars => KeysInv'
<1> SUFFICES ASSUME KeysInv, [KeysNext]_keyVars PROVE KeysInv'
  OBVIOUS
<1> USE DEF KeysInv
<1>1. ASSUME NEW s \in Savers, AskToSave(s) PROVE KeysInv'
  <2>1. PICK key : key = [of |-> s, secret |-> keySecret]
    OBVIOUS
  <2>2. key \in [of : Savers \cup {"nobody"}, secret : Nat] /\ key # NoKey
    BY <2>1, SaverAssumption DEF NoKey
  <2>3. saver' = [saver EXCEPT ![s] = [at |-> "looks", key |-> key]]
        /\ UNCHANGED <<keySecret, vault, replaced, audited>>
    BY <1>1, <2>1 DEF AskToSave
  <2>4. QED
    BY <2>2, <2>3
<1>2. ASSUME NEW s \in Savers, LookForRow(s) PROVE KeysInv'
  BY <1>2 DEF LookForRow
<1>3. ASSUME NEW s \in Savers, Save(s) PROVE KeysInv'
  BY <1>3 DEF Save
<1>4. ASSUME NEW s \in Savers, SaveFails(s) PROVE KeysInv'
  BY <1>4 DEF SaveFails, Ends
<1>5. ASSUME NEW s \in Savers, AuditSave(s) PROVE KeysInv'
  BY <1>5 DEF AuditSave, Ends
<1>6. CASE Restart
  <2>1. keySecret' \in Nat
    BY <1>6, SaverAssumption DEF Restart
  <2>2. QED
    BY <1>6, <2>1 DEF Restart
<1>7. CASE UNCHANGED keyVars
  BY <1>7 DEF keyVars
<1>8. QED
  BY <1>1, <1>2, <1>3, <1>4, <1>5, <1>6, <1>7 DEF KeysNext

\* For any number of requests and in whatever order they commit and are logged, what
\* the audit log says was saved was in the row, and it can be used as long as it is
\* not replaced and SECRET_KEY stays what it was (save_provider_key).
THEOREM AuditTellsOfSaved == KeysSpec => []AuditedIsSaved
<1>1. KeysInv => AuditedIsSaved
  BY DEF KeysInv, AuditedIsSaved, KeyInUse
<1>2. QED
  BY <1>1, KeysStart, KeysKeep, PTL DEF KeysSpec

=============================================================================
