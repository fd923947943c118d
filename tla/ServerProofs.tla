---------------------------- MODULE ServerProofs ----------------------------
(***************************************************************************)
(* Proofs about Server and Schema, for any chats, market providers and     *)
(* requests, and any number of interrupted boots.                          *)
(***************************************************************************)
EXTENDS Server, SequenceTheorems, TLAPS

-----------------------------------------------------------------------------
(* Rows                                                                    *)

LEMMA RowFacts ==
  ASSUME NEW r \in Rows
  PROVE  /\ r.target \in TargetIDs \cup {Null}
         /\ r.provider \in MarketProviders \cup {Null}
         /\ \A s \in Rows :
              r.target = s.target /\ r.provider = s.provider => r = s
         /\ Upgraded(r) \in Keys
         /\ Upgraded(r).target =
              (IF r.target = Null THEN LegacyTarget ELSE r.target)
         /\ Upgraded(r).provider =
              (IF r.provider = Null THEN Binance ELSE r.provider)
BY SchemaAssumption DEF Rows, Keys, Upgraded, TargetIDs

LEMMA KeyFacts ==
  ASSUME NEW key \in Keys
  PROVE  /\ key \in Rows /\ Upgraded(key) = key
         /\ key.target # Null /\ key.provider # Null
         /\ key.target \in TargetIDs /\ key.provider \in MarketProviders
BY SchemaAssumption DEF Rows, Keys, Upgraded, TargetIDs

LEMMA FilledFacts ==
  /\ Filled("target") = LegacyTarget /\ Filled("provider") = Binance
  /\ LegacyTarget \in TargetIDs /\ Binance \in MarketProviders
  /\ LegacyTarget # Null /\ Binance # Null
BY SchemaAssumption DEF Filled, TargetIDs

(* What becomes of a row when a column is filled.                          *)
FillRow(r, c) == IF r[c] = Null THEN [r EXCEPT ![c] = Filled(c)] ELSE r

LEMMA FillRowFacts ==
  ASSUME NEW r \in Rows, NEW c \in Columns
  PROVE  /\ FillRow(r, c) \in Rows
         /\ FillRow(r, c)[c] # Null
         /\ \A d \in Columns : d # c => FillRow(r, c)[d] = r[d]
         /\ Upgraded(FillRow(r, c)) = Upgraded(r)
         /\ r[c] # Null => FillRow(r, c) = r
<1>1. CASE c = "target"
  BY <1>1, FilledFacts DEF FillRow, Rows, Columns, Upgraded
<1>2. CASE c = "provider"
  BY <1>2, FilledFacts DEF FillRow, Rows, Columns, Upgraded
<1> QED BY <1>1, <1>2 DEF Columns

(* The row that is filled to r, if it is not r itself.                     *)
Emptied(r, c) == [r EXCEPT ![c] = Null]

LEMMA EmptiedFacts ==
  ASSUME NEW r \in Rows, NEW c \in Columns, r[c] = Filled(c)
  PROVE  /\ Emptied(r, c) \in Rows /\ Emptied(r, c) # r
         /\ Emptied(r, c)[c] = Null
         /\ Upgraded(Emptied(r, c)) = Upgraded(r)
         /\ FillRow(Emptied(r, c), c) = r
         /\ \A x \in Rows : x[c] = Null /\ FillRow(x, c) = r =>
              x = Emptied(r, c)
<1>1. CASE c = "target"
  BY <1>1, FilledFacts DEF FillRow, Rows, Columns, Upgraded, Emptied
<1>2. CASE c = "provider"
  BY <1>2, FilledFacts DEF FillRow, Rows, Columns, Upgraded, Emptied
<1> QED BY <1>1, <1>2 DEF Columns

(* No two of these rows are the same job.                                  *)
Apart(t) ==
  /\ \A r \in Stored(t) : t.rows[r] = 1
  /\ \A r, s \in Stored(t) : Upgraded(r) = Upgraded(s) => r = s

LEMMA TableFacts ==
  ASSUME NEW t \in TableStates
  PROVE  /\ Stored(t) \subseteq Rows
         /\ \A r \in Rows : t.rows[r] \in Nat /\ t.rows[r] \in 0..MaxCopies
         /\ \A r \in Rows : r \notin Stored(t) <=> t.rows[r] = 0
BY SchemaAssumption DEF TableStates, Stored

LEMMA BackfillFacts ==
  ASSUME NEW t \in TableStates, NEW c \in Columns, Apart(t)
  PROVE  /\ Backfill(t, c) \in TableStates
         /\ Backfill(t, c).exists = t.exists
         /\ Backfill(t, c).indexes = t.indexes
         /\ Stored(Backfill(t, c)) = {FillRow(r, c) : r \in Stored(t)}
         /\ Apart(Backfill(t, c))
<1> DEFINE count(r) ==
             IF r[c] = Null THEN 0
             ELSE IF r[c] = Filled(c) THEN t.rows[r] + t.rows[Emptied(r, c)]
             ELSE t.rows[r]
           u == Backfill(t, c)
<1>1. /\ u = [t EXCEPT !.rows = [r \in Rows |-> count(r)]]
  BY DEF Backfill, Emptied
<1>2. /\ u.exists = t.exists /\ u.indexes = t.indexes
      /\ u.columns = t.columns /\ u.required = t.required
      /\ \A r \in Rows : u.rows[r] = count(r)
      /\ u.rows = [r \in Rows |-> count(r)]
      /\ DOMAIN u = DOMAIN t
  BY <1>1 DEF TableStates
<1>3. ASSUME NEW r \in Rows
      PROVE  /\ count(r) \in {0, 1}
             /\ count(r) = 1 <=> r \in {FillRow(x, c) : x \in Stored(t)}
  <2>1. CASE r[c] = Null
    BY <2>1, TableFacts, FillRowFacts
  <2>2. CASE r[c] # Null /\ r[c] # Filled(c)
    <3>1. ASSUME NEW x \in Stored(t), FillRow(x, c) = r PROVE x = r
      <4>1. x \in Rows
        BY TableFacts
      <4>2. CASE c = "target"
        BY <2>2, <3>1, <4>1, <4>2 DEF FillRow, Rows
      <4>3. CASE c = "provider"
        BY <2>2, <3>1, <4>1, <4>3 DEF FillRow, Rows
      <4> QED BY <4>2, <4>3 DEF Columns
    <3>2. FillRow(r, c) = r
      BY <2>2, FillRowFacts
    <3>3. count(r) = t.rows[r]
      BY <2>2
    <3>4. t.rows[r] \in {0, 1} /\ (t.rows[r] = 1 <=> r \in Stored(t))
      BY TableFacts DEF Apart
    <3> QED BY <3>1, <3>2, <3>3, <3>4
  <2>3. CASE r[c] # Null /\ r[c] = Filled(c)
    <3>1. /\ Emptied(r, c) \in Rows /\ Emptied(r, c) # r
          /\ Emptied(r, c)[c] = Null
          /\ Upgraded(Emptied(r, c)) = Upgraded(r)
          /\ FillRow(Emptied(r, c), c) = r
          /\ \A x \in Rows : x[c] = Null /\ FillRow(x, c) = r =>
               x = Emptied(r, c)
      BY <2>3, EmptiedFacts
    <3>2. FillRow(r, c) = r
      BY <2>3, FillRowFacts
    <3>3. ASSUME NEW x \in Stored(t), FillRow(x, c) = r
          PROVE  x = r \/ x = Emptied(r, c)
      BY <3>1, <3>3, TableFacts, FillRowFacts
    <3>4. /\ t.rows[r] \in {0, 1} /\ (t.rows[r] = 1 <=> r \in Stored(t))
          /\ t.rows[Emptied(r, c)] \in {0, 1}
          /\ t.rows[Emptied(r, c)] = 1 <=> Emptied(r, c) \in Stored(t)
      BY <3>1, TableFacts DEF Apart
    <3>5. ~(r \in Stored(t) /\ Emptied(r, c) \in Stored(t))
      BY <3>1 DEF Apart
    <3>6. count(r) = t.rows[r] + t.rows[Emptied(r, c)]
      BY <2>3
    <3> HIDE DEF count
    <3>7. /\ count(r) \in {0, 1}
          /\ count(r) = 1 <=> r \in Stored(t) \/ Emptied(r, c) \in Stored(t)
      BY <3>4, <3>5, <3>6
    <3> QED BY <3>1, <3>2, <3>3, <3>7
  <2> QED BY <2>1, <2>2, <2>3
<1> HIDE DEF count
<1>4. u.rows \in [Rows -> 0..MaxCopies]
  BY <1>2, <1>3, SchemaAssumption
<1>5. u \in TableStates
  BY <1>1, <1>2, <1>4 DEF TableStates
<1>6. Stored(u) = {FillRow(r, c) : r \in Stored(t)}
  <2>1. \A r \in Rows : r \in Stored(u) <=> count(r) = 1
    BY <1>2, <1>3 DEF Stored
  <2>2. \A r \in Stored(t) : FillRow(r, c) \in Rows
    BY TableFacts, FillRowFacts
  <2> QED BY <1>3, <2>1, <2>2 DEF Stored
<1>7. \A r \in Stored(u) : u.rows[r] = 1
  BY <1>2, <1>3, <1>6 DEF Stored
<1>8. ASSUME NEW r \in Stored(u), NEW s \in Stored(u),
             Upgraded(r) = Upgraded(s)
      PROVE  r = s
  <2>1. PICK x \in Stored(t) : r = FillRow(x, c)
    BY <1>6
  <2>2. PICK y \in Stored(t) : s = FillRow(y, c)
    BY <1>6
  <2>3. Upgraded(x) = Upgraded(y)
    BY <1>8, <2>1, <2>2, TableFacts, FillRowFacts
  <2> QED BY <2>1, <2>2, <2>3 DEF Apart
<1> QED BY <1>2, <1>5, <1>6, <1>7, <1>8 DEF Apart

-----------------------------------------------------------------------------
(* The statements                                                          *)

OfConfigs ==
  <<Add("provider"), Fill("provider"), Require("provider"),
    Create(PrimaryKey)>>

OfJobs ==
  <<Add("provider"), Fill("provider"), Require("provider"),
    Add("target"), Fill("target"), Require("target"),
    Drop(SymbolKey), Drop(TargetKey),
    Create(ProviderKey), CreateIndex(ProviderKey)>>

Statement(table, what) == [table |-> table, what |-> what]

LEMMA FunctionIsSeq ==
  ASSUME NEW S, NEW n \in Nat, NEW f \in [1..n -> S]
  PROVE  f \in Seq(S) /\ Len(f) = n
<1>1. [1..n -> S] \in {[1..m -> S] : m \in Nat}
  OBVIOUS
<1>2. f \in UNION {[1..m -> S] : m \in Nat}
  BY <1>1, Zenon
<1>3. f \in Seq(S)
  BY <1>2, SeqDef, Zenon
<1> DEFINE l == Len(f)
<1>4. l \in Nat /\ 1..l = 1..n
  <2>1. l \in Nat /\ DOMAIN f = 1..l
    BY <1>3, LenProperties
  <2>2. DOMAIN f = 1..n
    OBVIOUS
  <2> QED BY <2>1, <2>2
<1> HIDE DEF l
<1>5. l = n
  <2>1. \A i \in Nat : i \in 1..l <=> i \in 1..n
    BY <1>4
  <2>2. l > 0 => l <= n
    BY <1>4, <2>1
  <2>3. n > 0 => n <= l
    BY <1>4, <2>1
  <2> QED BY <1>4, <2>2, <2>3
<1> QED BY <1>3, <1>5 DEF l

LEMMA ConcatFacts ==
  ASSUME NEW S, NEW m \in Nat, NEW n \in Nat,
         NEW f \in [1..m -> S], NEW g \in [1..n -> S]
  PROVE  /\ Len(f \o g) = m + n
         /\ \A k \in 1..m + n :
              (f \o g)[k] = IF k <= m THEN f[k] ELSE g[k - m]
<1>1. f \in Seq(S) /\ Len(f) = m /\ g \in Seq(S) /\ Len(g) = n
  BY FunctionIsSeq
<1>2. /\ Len(f \o g) = Len(f) + Len(g)
      /\ \A k \in 1..Len(f) + Len(g) :
           (f \o g)[k] = IF k <= Len(f) THEN f[k] ELSE g[k - Len(f)]
  BY <1>1, ConcatProperties, Zenon
<1> QED BY <1>1, <1>2, Zenon

LEMMA MigrationFacts ==
  /\ Len(Migration) = 14
  /\ \A k \in 1..4 : Migration[k] = Statement("configs", OfConfigs[k])
  /\ \A k \in 5..14 : Migration[k] = Statement("jobs", OfJobs[k - 4])
<1> DEFINE a == On("configs", OfConfigs)
           b == On("jobs", OfJobs)
           S == {a[i] : i \in 1..4} \cup {b[i] : i \in 1..10}
<1>1. /\ a = [i \in 1..4 |-> Statement("configs", OfConfigs[i])]
      /\ b = [i \in 1..10 |-> Statement("jobs", OfJobs[i])]
  BY DEF On, OfConfigs, OfJobs, Statement
<1>2. Migration = a \o b
  BY DEF Migration, OfConfigs, OfJobs
<1> HIDE DEF a, b
<1>3. a \in [1..4 -> S] /\ b \in [1..10 -> S]
  <2>1. \A i \in 1..4 : a[i] \in S
    OBVIOUS
  <2>2. \A i \in 1..10 : b[i] \in S
    OBVIOUS
  <2> HIDE DEF S
  <2> QED BY <1>1, <2>1, <2>2
<1> HIDE DEF S
<1> DEFINE ab == a \o b
<1>4. /\ Len(ab) = 4 + 10
      /\ \A k \in 1..4 + 10 : ab[k] = IF k <= 4 THEN a[k] ELSE b[k - 4]
  <2>1. ASSUME NEW m \in Nat, NEW n \in Nat,
               a \in [1..m -> S], b \in [1..n -> S]
        PROVE  /\ Len(ab) = m + n
               /\ \A k \in 1..m + n :
                    ab[k] = IF k <= m THEN a[k] ELSE b[k - m]
    BY <2>1, ConcatFacts
  <2> HIDE DEF ab
  <2> QED BY <1>3, <2>1
<1> HIDE DEF ab
<1>5. /\ Len(ab) = 14
      /\ \A k \in 1..14 : ab[k] = IF k <= 4 THEN a[k] ELSE b[k - 4]
  BY <1>4
<1>6. /\ \A k \in 1..4 : ab[k] = Statement("configs", OfConfigs[k])
      /\ \A k \in 5..14 : ab[k] = Statement("jobs", OfJobs[k - 4])
  BY <1>1, <1>5
<1> QED BY <1>2, <1>5, <1>6 DEF ab

(* The statement is the next one, and this step executes it.               *)
Executes(table, what) ==
  /\ step \in 1..14 /\ step' = step + 1
  /\ Migration[step] = Statement(table, what)
  /\ db' = IF Applies(db[table], what)
           THEN [db EXCEPT ![table] = Effect(db[table], what)] ELSE db

LEMMA StatementCases ==
  ASSUME NEW k \in 1..14
  PROVE  \/ \E table \in Tables, c \in Columns :
              Migration[k] \in {Statement(table, Add(c)),
                               Statement(table, Fill(c)),
                               Statement(table, Require(c))}
         \/ Migration[k] = Statement("configs", Create(PrimaryKey))
         \/ Migration[k] = Statement("jobs", Drop(SymbolKey))
         \/ Migration[k] = Statement("jobs", Drop(TargetKey))
         \/ Migration[k] = Statement("jobs", Create(ProviderKey))
         \/ /\ k = 14
            /\ Migration[k] = Statement("jobs", CreateIndex(ProviderKey))
<1>1. CASE k \in 1..4
  <2>1. k = 1 \/ k = 2 \/ k = 3 \/ k = 4
    BY <1>1
  <2> QED BY <1>1, <2>1, MigrationFacts DEF OfConfigs, Tables, Columns
<1>2. CASE k \in 5..14
  <2>1. \/ k = 5 \/ k = 6 \/ k = 7 \/ k = 8 \/ k = 9 \/ k = 10
        \/ k = 11 \/ k = 12 \/ k = 13 \/ k = 14
    BY <1>2
  <2> QED BY <1>2, <2>1, MigrationFacts DEF OfJobs, Tables, Columns
<1> QED BY <1>1, <1>2

LEMMA ExecuteCases ==
  ASSUME TypeOK, MigrateStatement
  PROVE  \/ \E table \in Tables, c \in Columns :
              \/ Executes(table, Add(c)) \/ Executes(table, Fill(c))
              \/ Executes(table, Require(c))
         \/ Executes("configs", Create(PrimaryKey))
         \/ Executes("jobs", Drop(SymbolKey))
         \/ Executes("jobs", Drop(TargetKey))
         \/ Executes("jobs", Create(ProviderKey))
         \/ step = 14 /\ Executes("jobs", CreateIndex(ProviderKey))
<1>1. step \in 1..14
  BY MigrationFacts DEF TypeOK, MigrateStatement
<1>2. ASSUME NEW table, NEW what, Migration[step] = Statement(table, what)
      PROVE  Executes(table, what)
  <2>1. Migration[step].table = table /\ Migration[step].what = what
    BY <1>2 DEF Statement
  <2> QED BY <1>1, <1>2, <2>1
          DEF MigrateStatement, Exec, NoMishap, Executes
<1> QED BY <1>1, <1>2, StatementCases

(* What this boot has executed, after one more statement.                  *)
LEMMA DoneNext ==
  ASSUME NEW table, NEW what, Executes(table, what), NEW tb, NEW w
  PROVE  Done(tb, w)' <=> Done(tb, w) \/ (tb = table /\ w = what)
<1>1. /\ step \in 1..14 /\ Len(Migration) = 14 /\ step' = step + 1
      /\ Migration[step] = Statement(table, what)
  BY MigrationFacts DEF Executes
<1>2. Done(tb, w)' <=> \E k \in 1..14 :
        k < step + 1 /\ Migration[k] = Statement(tb, w)
  BY <1>1 DEF Done, Statement
<1>3. Done(tb, w) <=> \E k \in 1..14 :
        k < step /\ Migration[k] = Statement(tb, w)
  BY <1>1 DEF Done, Statement
<1>4. Statement(tb, w) = Statement(table, what) <=> tb = table /\ w = what
  BY DEF Statement
<1>5. \A k \in 1..14 : k < step + 1 <=> k < step \/ k = step
  BY <1>1
<1> QED BY <1>1, <1>2, <1>3, <1>4, <1>5

LEMMA DoneBy ==
  ASSUME step \in 1..15
  PROVE  /\ step > 2 => Done("configs", Fill("provider"))
         /\ step > 4 => Done("configs", Create(PrimaryKey))
         /\ step > 6 => Done("jobs", Fill("provider"))
         /\ step > 9 => Done("jobs", Fill("target"))
         /\ step > 11 => Done("jobs", Drop(SymbolKey))
         /\ step > 12 => Done("jobs", Drop(TargetKey))
         /\ step > 13 => Done("jobs", Create(ProviderKey))
         /\ step > 14 => Done("jobs", CreateIndex(ProviderKey))
<1>1. /\ Migration[2] = Statement("configs", Fill("provider"))
      /\ Migration[4] = Statement("configs", Create(PrimaryKey))
      /\ Migration[6] = Statement("jobs", Fill("provider"))
      /\ Migration[9] = Statement("jobs", Fill("target"))
      /\ Migration[11] = Statement("jobs", Drop(SymbolKey))
      /\ Migration[12] = Statement("jobs", Drop(TargetKey))
      /\ Migration[13] = Statement("jobs", Create(ProviderKey))
      /\ Migration[14] = Statement("jobs", CreateIndex(ProviderKey))
  BY MigrationFacts DEF OfConfigs, OfJobs
<1>2. ASSUME NEW k \in 1..14, NEW table, NEW what,
             Migration[k] = Statement(table, what), step > k
      PROVE  Done(table, what)
  BY <1>2, MigrationFacts DEF Done, Statement
<1> QED BY <1>1, <1>2

-----------------------------------------------------------------------------
(* What a statement leaves of the two tables                               *)

Content ==
  /\ SchemaTypeOK
  /\ JobsInv /\ ConfigsInv /\ FilledInv /\ IndexInv

(* A step that loses and invents nothing.                                  *)
RecordsKept == Announced' = Announced /\ Configured' = Configured

LEMMA RecordsSame ==
  ASSUME \A tb \in Tables : Stored(db'[tb]) = Stored(db[tb])
  PROVE  RecordsKept
BY DEF RecordsKept, Announced, Configured, Tables

SameTable(t, u) ==
  u.exists = t.exists /\ u.indexes = t.indexes /\ u.rows = t.rows

LEMMA DbFacts ==
  ASSUME SchemaTypeOK, NEW table \in Tables
  PROVE  /\ db[table] \in TableStates
         /\ \A u : u \in TableStates =>
              /\ [db EXCEPT ![table] = u] \in [Tables -> TableStates]
              /\ [db EXCEPT ![table] = u][table] = u
              /\ \A tb \in Tables \ {table} :
                   [db EXCEPT ![table] = u][tb] = db[tb]
BY DEF SchemaTypeOK

LEMMA Kinds ==
  ASSUME NEW c, NEW d, NEW i, NEW j
  PROVE  /\ Add(c) # Fill(d) /\ Add(c) # Drop(i) /\ Add(c) # Create(i)
         /\ Add(c) # CreateIndex(i)
         /\ Require(c) # Fill(d) /\ Require(c) # Drop(i)
         /\ Require(c) # Create(i) /\ Require(c) # CreateIndex(i)
         /\ Fill(c) # Drop(i) /\ Fill(c) # Create(i)
         /\ Fill(c) # CreateIndex(i)
         /\ Drop(i) # Create(j) /\ Drop(i) # CreateIndex(j)
         /\ Create(i) # CreateIndex(j)
         /\ Fill(c) = Fill(d) => c = d
         /\ Drop(i) = Drop(j) => i = j
         /\ Create(i) = Create(j) => i = j
<1>1. /\ Add(c).do = "add" /\ Require(c).do = "require"
      /\ Fill(c).do = "fill" /\ Fill(d).do = "fill"
      /\ Drop(i).do = "drop" /\ Create(i).do = "create"
      /\ CreateIndex(i).do = "index"
      /\ Create(j).do = "create" /\ CreateIndex(j).do = "index"
  BY DEF Add, Require, Fill, Drop, Create, CreateIndex
<1>2. /\ Fill(c).column = c /\ Fill(d).column = d
      /\ Drop(i).index = i /\ Drop(j).index = j
      /\ Create(i).index = i /\ Create(j).index = j
  BY DEF Fill, Drop, Create
<1> QED BY <1>1, <1>2, Zenon

(* ADD COLUMN and SET NOT NULL touch neither rows nor indexes.             *)
LEMMA ShapeStep ==
  ASSUME Content, NEW table \in Tables, NEW c \in Columns,
         Executes(table, Add(c)) \/ Executes(table, Require(c))
  PROVE  Content' /\ RecordsKept
<1>1. PICK what \in {Add(c), Require(c)} : Executes(table, what)
  BY Zenon
<1>2. db[table] \in TableStates
  BY DbFacts DEF Content
<1>3. /\ Effect(db[table], what) \in TableStates
      /\ SameTable(db[table], Effect(db[table], what))
  <2>1. CASE what = Add(c)
    BY <1>2, <2>1 DEF Add, Effect, TableStates, SameTable
  <2>2. CASE what = Require(c)
    BY <1>2, <2>2 DEF Require, Effect, TableStates, SameTable
  <2> QED BY <1>1, <2>1, <2>2
<1>4. /\ SchemaTypeOK'
      /\ \A tb \in Tables : SameTable(db[tb], db'[tb])
  BY <1>1, <1>3, DbFacts DEF Executes, Content, SchemaTypeOK, SameTable
<1>5. \A tb \in Tables : Stored(db'[tb]) = Stored(db[tb])
  BY <1>4 DEF SameTable, Stored
<1>6. /\ \A tb, d : Done(tb, Fill(d))' <=> Done(tb, Fill(d))
      /\ \A tb, i : Done(tb, Create(i))' <=> Done(tb, Create(i))
      /\ \A tb, i : Done(tb, Drop(i))' <=> Done(tb, Drop(i))
      /\ \A tb, i : Done(tb, CreateIndex(i))' <=> Done(tb, CreateIndex(i))
  BY <1>1, DoneNext, Kinds
<1>7. "jobs" \in Tables /\ "configs" \in Tables
  BY DEF Tables
<1>8. JobsInv' /\ ConfigsInv' /\ FilledInv' /\ IndexInv'
  BY <1>4, <1>5, <1>6, <1>7
     DEF Content, JobsInv, ConfigsInv, FilledInv, IndexInv, SameTable
<1> QED BY <1>4, <1>5, <1>8, RecordsSame DEF Content

LEMMA TablesApart ==
  ASSUME Content, NEW table \in Tables
  PROVE  Apart(db[table])
<1>1. CASE table = "jobs"
  BY <1>1 DEF Content, JobsInv, Apart
<1>2. CASE table = "configs"
  <2>1. Stored(db[table]) \subseteq Rows
    BY DbFacts, TableFacts DEF Content
  <2>2. ASSUME NEW r \in Stored(db[table]), NEW s \in Stored(db[table]),
               Upgraded(r) = Upgraded(s)
        PROVE  r = s
    <3>1. r.target # Null /\ s.target # Null
      BY <1>2 DEF Content, ConfigsInv
    <3>2. r.target = s.target
      BY <2>1, <2>2, <3>1, RowFacts
    <3> QED BY <1>2, <3>2 DEF Content, ConfigsInv
  <2> QED BY <1>2, <2>2 DEF Content, ConfigsInv, Apart
<1> QED BY <1>1, <1>2 DEF Tables

(* UPDATE ... WHERE ... IS NULL, on a table that is there or not.          *)
LEMMA FillStep ==
  ASSUME Content, NEW table \in Tables, NEW c \in Columns,
         Executes(table, Fill(c))
  PROVE  Content' /\ RecordsKept
<1> DEFINE t == db[table]
           u == db'[table]
<1>1. /\ t \in TableStates /\ Stored(t) \subseteq Rows /\ Apart(t)
  BY DbFacts, TableFacts, TablesApart DEF Content
<1>2. /\ Applies(t, Fill(c)) <=> t.exists
      /\ Effect(t, Fill(c)) = Backfill(t, c)
  BY DEF Applies, Effect, Fill
<1>3. t.exists \/ Stored(t) = {}
  BY DEF Content, JobsInv, ConfigsInv, Tables
<1>4. /\ SchemaTypeOK'
      /\ u.exists = t.exists /\ u.indexes = t.indexes
      /\ Stored(u) = {FillRow(r, c) : r \in Stored(t)}
      /\ Apart(u)
      /\ \A tb \in Tables \ {table} : db'[tb] = db[tb]
  <2>1. CASE t.exists
    <3>1. db' = [db EXCEPT ![table] = Backfill(t, c)]
      BY <1>2, <2>1 DEF Executes
    <3> QED BY <1>1, <3>1, BackfillFacts, DbFacts DEF Content, SchemaTypeOK
  <2>2. CASE ~t.exists
    <3>1. db' = db
      BY <1>2, <2>2 DEF Executes
    <3> QED BY <1>1, <1>3, <2>2, <3>1 DEF Content, SchemaTypeOK
  <2> QED BY <2>1, <2>2
<1>5. ASSUME NEW r \in Stored(u)
      PROVE  \E x \in Stored(t) :
               /\ r = FillRow(x, c) /\ r[c] # Null
               /\ \A d \in Columns : d # c => r[d] = x[d]
               /\ \A d \in Columns : x[d] # Null => r[d] = x[d]
               /\ Upgraded(r) = Upgraded(x)
  <2>1. PICK x \in Stored(t) : r = FillRow(x, c)
    BY <1>4
  <2> QED BY <1>1, <2>1, FillRowFacts
<1>6. /\ \A tb, d : Done(tb, Fill(d))' <=>
                       Done(tb, Fill(d)) \/ (tb = table /\ d = c)
      /\ \A tb, i : Done(tb, Create(i))' <=> Done(tb, Create(i))
      /\ \A tb, i : Done(tb, Drop(i))' <=> Done(tb, Drop(i))
      /\ \A tb, i : Done(tb, CreateIndex(i))' <=> Done(tb, CreateIndex(i))
  BY DoneNext, Kinds
<1>7. "target" \in Columns /\ "provider" \in Columns
  BY DEF Columns
<1> HIDE DEF t, u
<1>8. FilledInv'
  <2> SUFFICES ASSUME NEW tb \in Tables, NEW d \in Columns,
                      Done(tb, Fill(d))', NEW r \in Stored(db'[tb])
               PROVE  r[d] # Null
    BY DEF FilledInv
  <2>1. CASE tb # table
    BY <1>4, <1>6, <2>1 DEF Content, FilledInv
  <2>2. CASE tb = table
    BY <1>5, <1>6, <2>2 DEF Content, FilledInv, t, u
  <2> QED BY <2>1, <2>2
<1>9. CASE table = "jobs"
  <2>1. u = db'["jobs"] /\ t = db["jobs"] /\ db'["configs"] = db["configs"]
    BY <1>4, <1>9 DEF t, u, Tables
  <2>2. ConfigsInv'
    BY <1>6, <2>1 DEF Content, ConfigsInv
  <2>5. RecordsKept
    <3>1. \A x \in Stored(t) : Upgraded(FillRow(x, c)) = Upgraded(x)
      BY <1>1, FillRowFacts
    <3>2. {Upgraded(r) : r \in Stored(u)} = {Upgraded(x) : x \in Stored(t)}
      BY <1>4, <3>1
    <3> QED BY <2>1, <3>2 DEF RecordsKept, Announced, Configured
  <2>3. JobsInv'
    <3>1. u.exists \/ Stored(u) = {}
      BY <1>3, <1>4 DEF t
    <3> QED BY <1>4, <2>1, <3>1 DEF JobsInv, Apart
  <2>4. IndexInv'
    <3>1. SymbolKey \in u.indexes => \A r, s \in Stored(u) : r = s
      BY <1>4, <1>5, <2>1 DEF Content, IndexInv
    <3>2. TargetKey \in u.indexes =>
            /\ \A r \in Stored(u) : r.target # Null
            /\ \A r, s \in Stored(u) : r.target = s.target => r = s
      BY <1>4, <1>5, <1>7, <2>1 DEF Content, IndexInv
    <3>3. ProviderKey \in u.indexes =>
            \A r \in Stored(u) : r.target # Null /\ r.provider # Null
      BY <1>4, <1>5, <1>7, <2>1 DEF Content, IndexInv
    <3> QED BY <1>4, <1>6, <2>1, <3>1, <3>2, <3>3 DEF Content, IndexInv
  <2> QED BY <1>4, <1>8, <2>2, <2>3, <2>4, <2>5 DEF Content
<1>10. CASE table = "configs"
  <2>1. u = db'["configs"] /\ t = db["configs"] /\ db'["jobs"] = db["jobs"]
    BY <1>4, <1>10 DEF t, u, Tables
  <2>2. JobsInv' /\ IndexInv'
    BY <1>6, <1>7, <2>1 DEF Content, JobsInv, IndexInv
  <2>3. ASSUME NEW r \in Stored(u)
        PROVE  \E x \in Stored(t) :
                 r = FillRow(x, c) /\ r.target = x.target /\ r.target # Null
    BY <1>5, <1>7, <2>1 DEF Content, ConfigsInv
  <2>4. \A r, s \in Stored(u) : r.target = s.target => r = s
    BY <2>1, <2>3 DEF Content, ConfigsInv
  <2>5. u.exists \/ Stored(u) = {}
    BY <1>3, <1>4 DEF t
  <2>6. ConfigsInv'
    BY <1>4, <1>6, <2>1, <2>3, <2>4, <2>5
       DEF Content, ConfigsInv, Apart
  <2>7. RecordsKept
    <3>1. \A x \in Stored(t) : FillRow(x, c).target = x.target
      BY <1>1, <1>7, <2>1, FillRowFacts DEF Content, ConfigsInv
    <3>2. {r.target : r \in Stored(u)} = {x.target : x \in Stored(t)}
      BY <1>4, <3>1
    <3> QED BY <2>1, <3>2 DEF RecordsKept, Announced, Configured
  <2> QED BY <1>4, <1>8, <2>2, <2>6, <2>7 DEF Content
<1> QED BY <1>9, <1>10 DEF Tables

LEMMA IndexFacts ==
  /\ {SymbolKey, TargetKey, ProviderKey, PrimaryKey} \subseteq Indexes
  /\ SymbolKey # TargetKey /\ SymbolKey # ProviderKey
  /\ TargetKey # ProviderKey
  /\ SymbolKey.name # TargetKey.name /\ ProviderKey.name = TargetKey.name
  /\ PrimaryKey # ProviderKey
<1>1. {} \in SUBSET Columns /\ {"target"} \in SUBSET Columns
      /\ "provider" \in Columns /\ "provider" \notin {"target"}
  BY DEF Columns
<1>2. /\ SymbolKey.name = "idx_jobs_key"
      /\ TargetKey.name = "idx_jobs_target_key"
      /\ ProviderKey.name = "idx_jobs_target_key"
      /\ PrimaryKey.name = "configs_pkey"
      /\ TargetKey.on = {"target"} /\ ProviderKey.on = Columns
  BY DEF SymbolKey, TargetKey, ProviderKey, PrimaryKey
<1>3. {SymbolKey, TargetKey, ProviderKey, PrimaryKey} \subseteq Indexes
  BY <1>1 DEF Indexes, SymbolKey, TargetKey, ProviderKey, PrimaryKey
<1> QED BY <1>1, <1>2, <1>3

(* The index is created by the last statement.                             *)
LEMMA IndexLast ==
  ASSUME step \in 1..14
  PROVE  ~Done("jobs", CreateIndex(ProviderKey))
<1>1. ASSUME NEW k \in 1..14, k < step,
             Migration[k] = Statement("jobs", CreateIndex(ProviderKey))
      PROVE  FALSE
  <2>1. \A tb, w : Migration[k] = Statement(tb, w) =>
          w = CreateIndex(ProviderKey)
    BY <1>1 DEF Statement
  <2>2. k # 14
    BY <1>1
  <2> QED BY <2>1, <2>2, StatementCases, Kinds
<1> QED BY <1>1, MigrationFacts DEF Done, Statement

(* DROP INDEX IF EXISTS.                                                   *)
LEMMA DropStep ==
  ASSUME Content, NEW i \in {SymbolKey, TargetKey},
         Executes("jobs", Drop(i))
  PROVE  Content' /\ RecordsKept
<1> DEFINE t == db["jobs"]
           u == db'["jobs"]
<1>1. t \in TableStates /\ "jobs" \in Tables
  BY DbFacts DEF Content, Tables
<1>2. /\ Applies(t, Drop(i)) <=> t.exists
      /\ Effect(t, Drop(i)) =
           [t EXCEPT !.indexes = t.indexes \ Named(t, i.name)]
  BY DEF Applies, Effect, Drop
<1>3. i \in t.indexes => i \in Named(t, i.name)
  BY DEF Named
<1>4. /\ SchemaTypeOK'
      /\ u.exists = t.exists /\ u.rows = t.rows
      /\ u.indexes \subseteq t.indexes /\ i \notin u.indexes
      /\ db'["configs"] = db["configs"]
  <2>1. CASE t.exists
    <3>1. db' = [db EXCEPT !["jobs"] = Effect(t, Drop(i))]
      BY <1>2, <2>1 DEF Executes
    <3>2. /\ Effect(t, Drop(i)) \in TableStates
          /\ Effect(t, Drop(i)).exists = t.exists
          /\ Effect(t, Drop(i)).rows = t.rows
          /\ Effect(t, Drop(i)).indexes = t.indexes \ Named(t, i.name)
      BY <1>1, <1>2 DEF TableStates
    <3>3. /\ db' \in [Tables -> TableStates] /\ u = Effect(t, Drop(i))
          /\ db'["configs"] = db["configs"]
      BY <1>1, <3>1, <3>2, DbFacts DEF Content, Tables
    <3> QED BY <1>3, <3>2, <3>3 DEF SchemaTypeOK
  <2>2. CASE ~t.exists
    <3>1. db' = db
      BY <1>2, <2>2 DEF Executes
    <3> QED BY <2>2, <3>1 DEF Content, SchemaTypeOK, IndexInv
  <2> QED BY <2>1, <2>2
<1>5. /\ \A tb, d : Done(tb, Fill(d))' <=> Done(tb, Fill(d))
      /\ \A tb, j : Done(tb, Create(j))' <=> Done(tb, Create(j))
      /\ \A tb, j : Done(tb, Drop(j))' <=>
                       Done(tb, Drop(j)) \/ (tb = "jobs" /\ j = i)
      /\ \A tb, j : Done(tb, CreateIndex(j))' <=> Done(tb, CreateIndex(j))
  BY DoneNext, Kinds
<1>6. ~Done("jobs", CreateIndex(ProviderKey))
  BY IndexLast DEF Executes
<1>7. Stored(u) = Stored(t)
  BY <1>4 DEF Stored
<1> HIDE DEF t, u
<1>8. u = db'["jobs"] /\ t = db["jobs"]
  BY DEF t, u
<1>9. ConfigsInv' /\ FilledInv' /\ JobsInv'
  BY <1>4, <1>5, <1>7, <1>8
     DEF Content, ConfigsInv, FilledInv, JobsInv, Tables
<1>10. IndexInv'
  BY <1>4, <1>5, <1>6, <1>7, <1>8, IndexFacts DEF Content, IndexInv
<1> QED BY <1>4, <1>7, <1>8, <1>9, <1>10, RecordsSame DEF Content, Tables

(* CREATE TABLE, for a table that is not there.                            *)
LEMMA CreateStep ==
  ASSUME Content, NEW table \in Tables, NEW i \in {PrimaryKey, ProviderKey},
         table = "configs" <=> i = PrimaryKey,
         Executes(table, Create(i))
  PROVE  Content' /\ RecordsKept
<1> DEFINE t == db[table]
           u == db'[table]
           new == IF i = PrimaryKey THEN {PrimaryKey} ELSE {}
<1>1. t \in TableStates
  BY DbFacts DEF Content
<1>2. /\ Applies(t, Create(i)) <=> ~t.exists
      /\ Effect(t, Create(i)) = [Table(Columns, i) EXCEPT !.indexes = new]
  BY DEF Applies, Effect, Create
<1>3. /\ Effect(t, Create(i)) \in TableStates
      /\ Effect(t, Create(i)).exists
      /\ Effect(t, Create(i)).indexes = new
      /\ Stored(Effect(t, Create(i))) = {}
  <2>1. NoRows \in [Rows -> 0..MaxCopies]
    BY SchemaAssumption DEF NoRows
  <2>2. \A r \in Rows : ~(NoRows[r] > 0)
    BY DEF NoRows
  <2>3. /\ Columns \in SUBSET Columns
        /\ {i} \subseteq Indexes /\ new \subseteq Indexes
    BY IndexFacts
  <2>4. /\ Table(Columns, i) \in TableStates
        /\ Table(Columns, i).exists /\ Table(Columns, i).rows = NoRows
    BY <2>1, <2>3 DEF Table, TableStates
  <2>5. /\ Effect(t, Create(i)) \in TableStates
        /\ Effect(t, Create(i)).exists
        /\ Effect(t, Create(i)).indexes = new
        /\ Effect(t, Create(i)).rows = NoRows
    BY <1>2, <2>3, <2>4 DEF TableStates
  <2> QED BY <2>2, <2>5 DEF Stored
<1>4. t.exists \/ Stored(t) = {}
  BY DEF Content, JobsInv, ConfigsInv, Tables
<1>5. /\ SchemaTypeOK'
      /\ u.exists /\ Stored(u) = Stored(t)
      /\ t.exists => u = t
      /\ ~t.exists => u.indexes = new
      /\ \A tb \in Tables \ {table} : db'[tb] = db[tb]
  <2>1. CASE t.exists
    <3>1. db' = db
      BY <1>2, <2>1 DEF Executes
    <3> QED BY <2>1, <3>1 DEF Content, SchemaTypeOK
  <2>2. CASE ~t.exists
    <3>1. db' = [db EXCEPT ![table] = Effect(t, Create(i))]
      BY <1>2, <2>2 DEF Executes
    <3> HIDE DEF new
    <3>2. /\ db' \in [Tables -> TableStates] /\ u = Effect(t, Create(i))
          /\ \A tb \in Tables \ {table} : db'[tb] = db[tb]
      BY <1>3, <3>1, DbFacts DEF Content
    <3> QED BY <1>3, <1>4, <2>2, <3>2 DEF SchemaTypeOK
  <2> QED BY <2>1, <2>2
<1>6. /\ \A tb, d : Done(tb, Fill(d))' <=> Done(tb, Fill(d))
      /\ \A tb, j : Done(tb, Create(j))' <=>
                       Done(tb, Create(j)) \/ (tb = table /\ j = i)
      /\ \A tb, j : Done(tb, Drop(j))' <=> Done(tb, Drop(j))
      /\ \A tb, j : Done(tb, CreateIndex(j))' <=> Done(tb, CreateIndex(j))
  BY DoneNext, Kinds
<1>7. ~Done("jobs", CreateIndex(ProviderKey))
  BY IndexLast DEF Executes
<1> HIDE DEF t, u
<1>8. u = db'[table] /\ t = db[table]
  BY DEF t, u
<1>9. FilledInv'
  BY <1>5, <1>6, <1>8 DEF Content, FilledInv
<1>10. CASE table = "jobs"
  <2>1. db'["configs"] = db["configs"] /\ new = {}
    BY <1>5, <1>10 DEF Tables
  <2>2. ConfigsInv'
    BY <1>6, <1>10, <2>1, IndexFacts DEF Content, ConfigsInv
  <2>3. \A r \in Stored(t) : u.rows[r] = t.rows[r]
    BY <1>4, <1>5
  <2>4. JobsInv'
    BY <1>5, <1>7, <1>8, <1>10, <2>3 DEF Content, JobsInv
  <2>5. IndexInv'
    BY <1>5, <1>6, <1>7, <1>8, <1>10, <2>1 DEF Content, IndexInv
  <2> QED BY <1>5, <1>8, <1>9, <1>10, <2>1, <2>2, <2>4, <2>5, RecordsSame
          DEF Content, Tables
<1>11. CASE table = "configs"
  <2>1. db'["jobs"] = db["jobs"] /\ new = {PrimaryKey}
    BY <1>5, <1>11 DEF Tables
  <2>2. JobsInv' /\ IndexInv'
    BY <1>6, <1>7, <2>1 DEF Content, JobsInv, IndexInv
  <2>3. \A r \in Stored(t) : u.rows[r] = t.rows[r]
    BY <1>4, <1>5
  <2>4. ConfigsInv'
    BY <1>5, <1>6, <1>8, <1>11, <2>1, <2>3 DEF Content, ConfigsInv
  <2> QED BY <1>5, <1>8, <1>9, <1>11, <2>1, <2>2, <2>4, RecordsSame
          DEF Content, Tables
<1> QED BY <1>10, <1>11 DEF Tables

(* CREATE UNIQUE INDEX IF NOT EXISTS, the last statement.                  *)
LEMMA IndexStep ==
  ASSUME Content, step = 14, Executes("jobs", CreateIndex(ProviderKey))
  PROVE  Content' /\ RecordsKept
<1> DEFINE t == db["jobs"]
           u == db'["jobs"]
           i == ProviderKey
<1>1. t \in TableStates /\ "jobs" \in Tables /\ i \in Indexes
  BY DbFacts, IndexFacts DEF Content, Tables
<1>2. /\ Applies(t, CreateIndex(i)) <=> Named(t, i.name) = {}
      /\ Effect(t, CreateIndex(i)) = [t EXCEPT !.indexes = t.indexes \cup {i}]
  BY DEF Applies, Effect, CreateIndex
<1>3. /\ TargetKey \notin t.indexes /\ SymbolKey \notin t.indexes
      /\ t.indexes \subseteq {SymbolKey, TargetKey, ProviderKey}
      /\ \A r \in Stored(t) : r.target # Null /\ r.provider # Null
      /\ t.exists
  <2>1. /\ Done("jobs", Create(ProviderKey))
        /\ Done("jobs", Fill("provider")) /\ Done("jobs", Fill("target"))
        /\ Done("jobs", Drop(SymbolKey)) /\ Done("jobs", Drop(TargetKey))
    BY DoneBy
  <2> QED BY <2>1 DEF Content, FilledInv, IndexInv, Tables, Columns
<1>4. Named(t, i.name) = {} \/ i \in t.indexes
  BY <1>3 DEF Named
<1> HIDE DEF i
<1>5. /\ SchemaTypeOK'
      /\ u.exists = t.exists /\ u.rows = t.rows
      /\ u.indexes \subseteq t.indexes \cup {i} /\ i \in u.indexes
      /\ db'["configs"] = db["configs"]
  <2>1. CASE Named(t, i.name) = {}
    <3>1. db' = [db EXCEPT !["jobs"] = Effect(t, CreateIndex(i))]
      BY <1>2, <2>1 DEF Executes, i
    <3>2. /\ Effect(t, CreateIndex(i)) \in TableStates
          /\ Effect(t, CreateIndex(i)).exists = t.exists
          /\ Effect(t, CreateIndex(i)).rows = t.rows
          /\ Effect(t, CreateIndex(i)).indexes = t.indexes \cup {i}
      BY <1>1, <1>2 DEF TableStates
    <3>3. /\ db' \in [Tables -> TableStates] /\ u = Effect(t, CreateIndex(i))
          /\ db'["configs"] = db["configs"]
      BY <1>1, <3>1, <3>2, DbFacts DEF Content, Tables
    <3> QED BY <3>2, <3>3 DEF SchemaTypeOK
  <2>2. CASE Named(t, i.name) # {}
    <3>1. db' = db
      BY <1>2, <2>2 DEF Executes, i
    <3> QED BY <1>4, <2>2, <3>1 DEF Content, SchemaTypeOK
  <2> QED BY <2>1, <2>2
<1>6. /\ \A tb, d : Done(tb, Fill(d))' <=> Done(tb, Fill(d))
      /\ \A tb, j : Done(tb, Create(j))' <=> Done(tb, Create(j))
      /\ \A tb, j : Done(tb, Drop(j))' <=> Done(tb, Drop(j))
  BY DoneNext, Kinds
<1>7. Stored(u) = Stored(t)
  BY <1>5 DEF Stored
<1> HIDE DEF t, u
<1>8. u = db'["jobs"] /\ t = db["jobs"]
  BY DEF t, u
<1>9. ConfigsInv' /\ FilledInv'
  BY <1>5, <1>6, <1>7, <1>8 DEF Content, ConfigsInv, FilledInv, Tables
<1>10. JobsInv'
  BY <1>5, <1>7, <1>8 DEF Content, JobsInv
<1>11. IndexInv'
  BY <1>3, <1>5, <1>6, <1>7, <1>8, IndexFacts DEF Content, IndexInv, i
<1> QED BY <1>5, <1>7, <1>8, <1>9, <1>10, <1>11, RecordsSame
        DEF Content, Tables

-----------------------------------------------------------------------------
(* The rows refuse no statement                                            *)

LEMMA UniqueBy ==
  ASSUME NEW t \in TableStates, Apart(t), NEW i,
         \/ /\ i = SymbolKey
            /\ \A r, s \in Stored(t) : r = s
         \/ /\ i \in {TargetKey, PrimaryKey}
            /\ \A r, s \in Stored(t) : r.target = s.target => r = s
         \/ i = ProviderKey
  PROVE  Unique(t, i)
<1> SUFFICES ASSUME NEW r \in Stored(t), NEW s \in Stored(t), r # s
             PROVE  ~Clash(r, s, i.on)
  BY DEF Unique, Apart
<1>1. r \in Rows /\ s \in Rows
  BY TableFacts
<1>2. CASE i = SymbolKey
  BY <1>2, IndexFacts DEF TargetKey, PrimaryKey, SymbolKey
<1>3. CASE i \in {TargetKey, PrimaryKey}
  <2>1. i.on = {"target"} /\ i # SymbolKey /\ i # ProviderKey
    BY <1>3, IndexFacts
       DEF TargetKey, PrimaryKey, SymbolKey, ProviderKey
  <2>2. r.target # s.target
    BY <1>3, <2>1
  <2> QED BY <2>1, <2>2 DEF Clash
<1>4. CASE i = ProviderKey
  <2>1. i.on = Columns /\ "target" \in Columns /\ "provider" \in Columns
    BY <1>4 DEF ProviderKey, Columns
  <2>2. r.target # s.target \/ r.provider # s.provider
    BY <1>1, RowFacts
  <2> QED BY <2>1, <2>2 DEF Clash
<1> QED BY <1>2, <1>3, <1>4

(* A backfill hurts no index that is there.                                *)
LEMMA FillAcceptable ==
  ASSUME Content, NEW table \in Tables, NEW c \in Columns,
         NEW i \in db[table].indexes
  PROVE  Unique(Backfill(db[table], c), i)
<1> DEFINE t == db[table]
           u == Backfill(t, c)
<1>1. /\ t \in TableStates /\ Stored(t) \subseteq Rows
      /\ u \in TableStates /\ Apart(u)
      /\ Stored(u) = {FillRow(r, c) : r \in Stored(t)}
  BY DbFacts, TableFacts, TablesApart, BackfillFacts DEF Content
<1>2. \/ /\ i = SymbolKey
         /\ \A r, s \in Stored(t) : r = s
      \/ /\ i \in {TargetKey, PrimaryKey}
         /\ \A r \in Stored(t) : r.target # Null
         /\ \A r, s \in Stored(t) : r.target = s.target => r = s
      \/ i = ProviderKey
  <2>1. CASE table = "jobs"
    BY <2>1 DEF Content, IndexInv
  <2>2. CASE table = "configs"
    BY <2>2 DEF Content, ConfigsInv
  <2> QED BY <2>1, <2>2 DEF Tables
<1> HIDE DEF t, u
<1>3. CASE i = SymbolKey /\ \A r, s \in Stored(t) : r = s
  BY <1>1, <1>3, UniqueBy DEF t, u
<1>4. CASE /\ i \in {TargetKey, PrimaryKey}
           /\ \A r \in Stored(t) : r.target # Null
           /\ \A r, s \in Stored(t) : r.target = s.target => r = s
  <2>1. ASSUME NEW x \in Stored(t)
        PROVE  FillRow(x, c).target = x.target
    BY <1>1, <1>4, <2>1, FillRowFacts DEF Columns
  <2>2. \A r, s \in Stored(u) : r.target = s.target => r = s
    BY <1>1, <1>4, <2>1
  <2> QED BY <1>1, <1>4, <2>2, UniqueBy DEF t, u
<1>5. CASE i = ProviderKey
  BY <1>1, <1>5, UniqueBy DEF t, u
<1> QED BY <1>2, <1>3, <1>4, <1>5

LEMMA RequireAfterFill ==
  ASSUME NEW k \in 1..14, NEW table, NEW c,
         Migration[k] = Statement(table, Require(c))
  PROVE  k > 1 /\ Migration[k - 1] = Statement(table, Fill(c))
<1>1. ASSUME NEW tb, NEW d, Migration[k] = Statement(tb, Require(d))
      PROVE  tb = table /\ d = c
  BY <1>1 DEF Statement, Require
<1>2. /\ Migration[2] = Statement("configs", Fill("provider"))
      /\ Migration[3] = Statement("configs", Require("provider"))
      /\ Migration[6] = Statement("jobs", Fill("provider"))
      /\ Migration[7] = Statement("jobs", Require("provider"))
      /\ Migration[9] = Statement("jobs", Fill("target"))
      /\ Migration[10] = Statement("jobs", Require("target"))
  BY MigrationFacts DEF OfConfigs, OfJobs
<1>3. Migration[k].what.do = "require"
  BY DEF Statement, Require
<1>4. /\ Migration[1].what.do = "add" /\ Migration[2].what.do = "fill"
      /\ Migration[4].what.do = "create" /\ Migration[5].what.do = "add"
      /\ Migration[6].what.do = "fill" /\ Migration[8].what.do = "add"
      /\ Migration[9].what.do = "fill" /\ Migration[11].what.do = "drop"
      /\ Migration[12].what.do = "drop" /\ Migration[13].what.do = "create"
      /\ Migration[14].what.do = "index"
  BY MigrationFacts
     DEF OfConfigs, OfJobs, Statement, Add, Fill, Drop, Create, CreateIndex
<1>5. k = 3 \/ k = 7 \/ k = 10
  BY <1>3, <1>4
<1> QED BY <1>1, <1>2, <1>5

LEMMA NotRefused ==
  ASSUME TypeOK, Content
  PROVE  NeverRefused
<1> SUFFICES ASSUME step \in 1..14 PROVE Succeeds(step)
  BY MigrationFacts DEF NeverRefused, Refused, TypeOK
<1>1. ASSUME NEW table, NEW what, Migration[step] = Statement(table, what),
             Applies(db[table], what) => Acceptable(db[table], what)
      PROVE  Succeeds(step)
  <2>1. Migration[step].table = table /\ Migration[step].what = what
    BY <1>1 DEF Statement
  <2> QED BY <1>1, <2>1 DEF Succeeds
<1>2. ASSUME NEW table \in Tables, NEW c \in Columns
      PROVE  /\ Acceptable(db[table], Add(c))
             /\ Acceptable(db[table], Fill(c))
             /\ Done(table, Fill(c)) => Acceptable(db[table], Require(c))
  <2>1. Acceptable(db[table], Add(c))
    BY DEF Acceptable, Add
  <2>2. Acceptable(db[table], Fill(c))
    BY FillAcceptable DEF Acceptable, Fill
  <2>3. Done(table, Fill(c)) => Acceptable(db[table], Require(c))
    BY DEF Acceptable, Require, Content, FilledInv
  <2> QED BY <2>1, <2>2, <2>3
<1>3. ASSUME NEW table, NEW i
      PROVE  /\ Acceptable(db[table], Drop(i))
             /\ Acceptable(db[table], Create(i))
  BY DEF Acceptable, Drop, Create
<1>4. Acceptable(db["jobs"], CreateIndex(ProviderKey))
  <2>1. /\ db["jobs"] \in TableStates /\ Apart(db["jobs"])
    BY DbFacts, TablesApart DEF Content, Tables
  <2> QED BY <2>1, UniqueBy DEF Acceptable, CreateIndex
<1>5. ASSUME NEW table, NEW c, Migration[step] = Statement(table, Require(c))
      PROVE  Done(table, Fill(c))
  BY <1>5, RequireAfterFill, MigrationFacts DEF Done, Statement
<1> QED BY <1>1, <1>2, <1>3, <1>4, <1>5, StatementCases

-----------------------------------------------------------------------------
(* The other steps                                                         *)

LEMMA MigrateStep ==
  ASSUME TypeOK, Content, MigrateStatement
  PROVE  Content' /\ RecordsKept
<1>1. /\ "configs" \in Tables /\ "jobs" \in Tables /\ "configs" # "jobs"
      /\ PrimaryKey # ProviderKey
  BY IndexFacts DEF Tables
<1> QED BY <1>1, ExecuteCases, ShapeStep, FillStep, DropStep, CreateStep,
           IndexStep

(* A step beside the database, or a process that ends or begins: nothing   *)
(* has been executed by a boot that has yet to begin.                      *)
LEMMA BesideStep ==
  ASSUME Content, UNCHANGED db, step' = step \/ step' = 1
  PROVE  Content' /\ RecordsKept
<1>1. RecordsKept
  BY RecordsSame
<1>2. ASSUME NEW tb, NEW w
      PROVE  Done(tb, w)' => Done(tb, w)
  <2>1. CASE step' = step
    BY <2>1 DEF Done
  <2>2. CASE step' = 1
    <3>1. \A k \in 1..14 : ~(k < 1)
      OBVIOUS
    <3> QED BY <2>2, <3>1, MigrationFacts DEF Done
  <2> QED BY <2>1, <2>2
<1>3. ConfigsInv' /\ FilledInv' /\ JobsInv' /\ IndexInv'
  BY <1>2 DEF Content, ConfigsInv, FilledInv, JobsInv, IndexInv
<1> QED BY <1>1, <1>3 DEF Content, SchemaTypeOK

(* After the migration the index of today is the only one, and the rows    *)
(* are keys.                                                               *)
LEMMA AfterMigration ==
  ASSUME Content, step = 15
  PROVE  /\ db["jobs"].indexes = {ProviderKey}
         /\ db["jobs"].exists /\ db["configs"].exists
         /\ \A r \in Stored(db["jobs"]) : r.target # Null /\ r.provider # Null
         /\ \A r \in Stored(db["configs"]) : r.provider # Null
         /\ \A key \in Keys : Blocked(key) <=> key \in Stored(db["jobs"])
<1> DEFINE t == db["jobs"]
<1>1. /\ Done("jobs", Create(ProviderKey))
      /\ Done("jobs", Fill("provider")) /\ Done("jobs", Fill("target"))
      /\ Done("jobs", Drop(SymbolKey)) /\ Done("jobs", Drop(TargetKey))
      /\ Done("jobs", CreateIndex(ProviderKey))
      /\ Done("configs", Create(PrimaryKey))
      /\ Done("configs", Fill("provider"))
  BY DoneBy
<1>2. /\ t.indexes = {ProviderKey} /\ t.exists /\ db["configs"].exists
      /\ \A r \in Stored(t) : r.target # Null /\ r.provider # Null
      /\ \A r \in Stored(db["configs"]) : r.provider # Null
  BY <1>1 DEF Content, ConfigsInv, FilledInv, IndexInv, Tables, Columns
<1>3. ASSUME NEW key \in Keys
      PROVE  Blocked(key) <=> key \in Stored(t)
  <2>1. Stored(t) \subseteq Rows
    BY DbFacts, TableFacts DEF Content, Tables
  <2>2. ASSUME NEW r \in Stored(t)
        PROVE  Clash(key, r, Columns) <=> r = key
    BY <2>1, KeyFacts, RowFacts DEF Clash, Columns
  <2>3. ProviderKey.on = Columns
    BY DEF ProviderKey
  <2> QED BY <1>2, <2>2, <2>3 DEF Blocked
<1> QED BY <1>2, <1>3

LEMMA InsertJobStep ==
  ASSUME Content, step = 15, NEW key \in Keys, InsertJob(key),
         UNCHANGED step
  PROVE  /\ Content'
         /\ Announced' = Announced \cup {key} /\ Configured' = Configured
<1> DEFINE t == db["jobs"]
           u == db'["jobs"]
<1>1. /\ t \in TableStates /\ Stored(t) \subseteq Rows /\ "jobs" \in Tables
      /\ key \in Rows /\ Upgraded(key) = key
  BY DbFacts, TableFacts, KeyFacts DEF Content, Tables
<1>2. CASE Blocked(key)
  <2>1. Content' /\ RecordsKept
    BY <1>2, BesideStep DEF InsertJob
  <2>2. key \in Announced
    BY <1>1, <1>2, AfterMigration DEF Announced
  <2> QED BY <2>1, <2>2 DEF RecordsKept
<1>3. CASE ~Blocked(key)
  <2>1. key \notin Stored(t) /\ t.rows[key] = 0
    BY <1>1, <1>3, AfterMigration, TableFacts
  <2> DEFINE v == [t EXCEPT !.rows = [t.rows EXCEPT ![key] = 1]]
  <2>2. db' = [db EXCEPT !["jobs"] = v]
    BY <1>1, <1>3, <2>1 DEF InsertJob, Content, SchemaTypeOK, TableStates
  <2>3. /\ v \in TableStates /\ v.exists = t.exists /\ v.indexes = t.indexes
        /\ v.rows = [t.rows EXCEPT ![key] = 1]
    BY <1>1, SchemaAssumption DEF TableStates
  <2> HIDE DEF v
  <2>4. /\ SchemaTypeOK' /\ u = v /\ db'["configs"] = db["configs"]
    BY <1>1, <2>2, <2>3, DbFacts DEF Content, SchemaTypeOK, Tables
  <2>5. /\ Stored(u) = Stored(t) \cup {key} /\ u.rows[key] = 1
        /\ \A r \in Stored(t) : u.rows[r] = t.rows[r]
    BY <1>1, <2>1, <2>3, <2>4 DEF Stored, TableStates
  <2>6. \A tb, w : Done(tb, w)' <=> Done(tb, w)
    BY DEF Done
  <2>7. /\ \A r \in Stored(t) : r.target # Null /\ r.provider # Null
        /\ t.indexes = {ProviderKey} /\ t.exists
    BY AfterMigration
  <2>8. ASSUME NEW r \in Stored(t) PROVE Upgraded(r) = r
    <3>1. r \in Rows /\ r.target # Null /\ r.provider # Null
      BY <1>1, <2>7
    <3>2. r \in Keys
      BY <3>1 DEF Rows, Keys
    <3> QED BY <3>2, KeyFacts
  <2> HIDE DEF t, u
  <2>9. ConfigsInv' /\ FilledInv'
    <3>1. ConfigsInv'
      BY <2>4, <2>6 DEF Content, ConfigsInv
    <3>2. \A c \in Columns : \A r \in Stored(u) : r[c] # Null
      BY <2>5, <2>7, KeyFacts DEF Columns
    <3>3. FilledInv'
      BY <2>4, <2>6, <3>2 DEF Content, FilledInv, u, Tables
    <3> QED BY <3>1, <3>3
  <2>10. JobsInv'
    <3>1. \A r \in Stored(t) : t.rows[r] = 1
      BY DEF Content, JobsInv, t
    <3>2. \A r \in Stored(u) : u.rows[r] = 1
      BY <2>5, <3>1
    <3>3. \A r \in Stored(u) : Upgraded(r) = r
      BY <1>1, <2>5, <2>8
    <3>4. \A r, s \in Stored(u) : Upgraded(r) = Upgraded(s) => r = s
      BY <3>3
    <3>5. u.exists
      BY <2>3, <2>4, <2>7
    <3> QED BY <3>2, <3>4, <3>5 DEF JobsInv, u
  <2>11. IndexInv'
    BY <2>3, <2>4, <2>5, <2>6, <2>7, KeyFacts, IndexFacts
       DEF Content, IndexInv, t, u
  <2>12. {Upgraded(r) : r \in Stored(u)} =
           {Upgraded(r) : r \in Stored(t)} \cup {key}
    BY <1>1, <2>5
  <2>13. /\ Announced' = Announced \cup {key}
         /\ Configured' = Configured
    BY <2>4, <2>12 DEF Announced, Configured, t, u
  <2> QED BY <2>4, <2>9, <2>10, <2>11, <2>13 DEF Content
<1> QED BY <1>2, <1>3

LEMMA InsertConfigStep ==
  ASSUME Content, step = 15, NEW key \in Keys, InsertConfig(key),
         UNCHANGED step
  PROVE  /\ Content'
         /\ Announced' = Announced
         /\ key.target \notin Configured
         /\ Configured' = Configured \cup {key.target}
<1> DEFINE t == db["configs"]
           u == db'["configs"]
           v == [t EXCEPT !.rows = [t.rows EXCEPT ![key] = 1]]
<1>1. /\ t \in TableStates /\ Stored(t) \subseteq Rows
      /\ "configs" \in Tables /\ key \in Rows
  BY DbFacts, TableFacts, KeyFacts DEF Content, Tables
<1>2. db' = [db EXCEPT !["configs"] = v]
  BY <1>1 DEF InsertConfig, Content, SchemaTypeOK, TableStates
<1>3. /\ v \in TableStates /\ v.exists = t.exists /\ v.indexes = t.indexes
      /\ v.rows = [t.rows EXCEPT ![key] = 1]
  BY <1>1, SchemaAssumption DEF TableStates
<1> HIDE DEF v
<1>4. /\ SchemaTypeOK' /\ u = v /\ db'["jobs"] = db["jobs"]
  BY <1>1, <1>2, <1>3, DbFacts DEF Content, SchemaTypeOK, Tables
<1>5. /\ Stored(u) = Stored(t) \cup {key} /\ u.rows[key] = 1
      /\ \A r \in Stored(t) : r = key \/ u.rows[r] = t.rows[r]
  BY <1>1, <1>3, <1>4 DEF Stored, TableStates
<1>6. \A tb, w : Done(tb, w)' <=> Done(tb, w)
  BY DEF Done
<1>7. \A r \in Stored(t) : r.target # key.target
  BY KeyFacts DEF InsertConfig, Clash
<1>8. t.exists
  BY AfterMigration
<1> HIDE DEF t, u
<1>9. JobsInv' /\ IndexInv'
  BY <1>4, <1>6 DEF Content, JobsInv, IndexInv
<1>10. ConfigsInv'
  BY <1>3, <1>4, <1>5, <1>6, <1>7, <1>8, KeyFacts
     DEF Content, ConfigsInv, t, u
<1>11. FilledInv'
  BY <1>4, <1>5, <1>6, KeyFacts
     DEF Content, FilledInv, t, u, Tables, Columns
<1>12. {r.target : r \in Stored(u)} =
         {r.target : r \in Stored(t)} \cup {key.target}
  BY <1>5
<1>13. /\ Announced' = Announced
       /\ key.target \notin Configured
       /\ Configured' = Configured \cup {key.target}
  BY <1>4, <1>7, <1>12 DEF Announced, Configured, t, u
<1> QED BY <1>4, <1>9, <1>10, <1>11, <1>13 DEF Content

-----------------------------------------------------------------------------
(* The steps of the process                                                *)

(* Where main and its goroutines are: what TypeOK says beside the database.*)
ProcessTypeOK ==
  /\ phase \in {"down", "serving", "draining"} \cup Starting \cup Stopping
  /\ step \in 1..15
  /\ on \subseteq Crons /\ busy \subseteq Crons
  /\ requests \subseteq Requests /\ workers \subseteq Requests
  /\ listening \in BOOLEAN /\ dbOpen \in BOOLEAN /\ hurried \in BOOLEAN
  /\ mishaps \in 0..MaxMishaps
  /\ phase = "exit" => on = {}
  /\ phase = "down" =>
       /\ on \cup busy = {} /\ requests \cup workers = {}
       /\ ~listening /\ ~dbOpen

LEMMA TypeParts == TypeOK <=> SchemaTypeOK /\ ProcessTypeOK
<1>1. Len(Migration) + 1 = 15
  BY MigrationFacts
<1> QED BY <1>1 DEF TypeOK, ProcessTypeOK

LEMMA Numbers ==
  /\ Len(Migration) = 14 /\ 1 \in 1..15
  /\ \A k \in 1..15 : /\ k <= 14 => k + 1 \in 1..15
                      /\ k > 14 <=> k = 15
  /\ 0 \in 0..MaxMishaps
  /\ \A k \in 0..MaxMishaps : k < MaxMishaps => k + 1 \in 0..MaxMishaps
BY MigrationFacts, ServerAssumption

LEMMA MainStep ==
  ASSUME ProcessTypeOK, PhaseInv, Main
  PROVE  ProcessTypeOK' /\ PhaseInv'
<1> USE DEF ProcessTypeOK, PhaseInv, Starting, Stopping, processVars, NoMishap
<1>1. CASE MigrateStatement
  BY Numbers, <1>1 DEF MigrateStatement
<1>2. CASE Migrated
  BY Numbers, <1>2 DEF Migrated, Advance
<1>3. CASE StartSweeper
  BY Numbers, <1>3 DEF StartSweeper, Advance
<1>4. CASE BuildClients
  BY Numbers, <1>4 DEF BuildClients, Advance
<1>5. CASE StartScheduler
  BY Numbers, <1>5, ServerAssumption DEF StartScheduler, Advance
<1>6. CASE BuildChats
  BY Numbers, <1>6 DEF BuildChats, Advance
<1>7. CASE Listen
  BY Numbers, <1>7 DEF Listen, Advance
<1>8. CASE Serve
  BY Numbers, <1>8 DEF Serve, Advance
<1>9. CASE Drained
  BY Numbers, <1>9 DEF Drained, Advance
<1>10. CASE GraceEnds
  BY Numbers, <1>10 DEF GraceEnds, Advance
<1>11. CASE StopRounds
  BY Numbers, <1>11 DEF StopRounds, Advance
<1>12. CASE StopSweeper
  <2>1. on' = {}
    BY <1>12, ServerAssumption DEF StopSweeper, Advance
  <2> QED BY Numbers, <1>12, <2>1 DEF StopSweeper, Advance
<1>13. CASE CloseDatabase
  BY Numbers, <1>13 DEF CloseDatabase, Advance
<1>14. CASE Exit
  BY Numbers, <1>14 DEF Exit, Down
<1> QED BY <1>1, <1>2, <1>3, <1>4, <1>5, <1>6, <1>7, <1>8, <1>9, <1>10,
           <1>11, <1>12, <1>13, <1>14 DEF Main

(* The steps of main that are not its own choice.                          *)
LEMMA TurnStep ==
  ASSUME ProcessTypeOK, PhaseInv, Boot \/ Die \/ Signal \/ ServerFails
  PROVE  ProcessTypeOK' /\ PhaseInv'
<1> USE DEF ProcessTypeOK, PhaseInv, Starting, Stopping
<1>1. CASE Boot
  BY Numbers, <1>1 DEF Boot, NoMishap
<1>2. CASE Die
  BY Numbers, <1>2 DEF Die, Down
<1>3. CASE Signal
  BY Numbers, <1>3 DEF Signal, Mishap
<1>4. CASE ServerFails
  BY Numbers, <1>4 DEF ServerFails, Mishap
<1> QED BY <1>1, <1>2, <1>3, <1>4

(* The goroutines beside main.                                             *)
Goroutines ==
  \/ \E j \in Crons : Fire(j) \/ JobEnds(j)
  \/ \E key \in Keys : RoundInserts(key)
  \/ \E r \in Requests :
       \/ Accept(r) \/ Answer(r) \/ AnswerAhead(r) \/ WorkerEnds(r)
       \/ \E key \in Keys : Configure(r, key)

LEMMA GoroutineStep ==
  ASSUME ProcessTypeOK, PhaseInv, Goroutines
  PROVE  ProcessTypeOK' /\ PhaseInv'
<1> USE DEF ProcessTypeOK, PhaseInv, Starting, Stopping, Beside, NoMishap
<1>1. ASSUME NEW j \in Crons, Fire(j) PROVE ProcessTypeOK' /\ PhaseInv'
  BY Numbers, <1>1 DEF Fire
<1>2. ASSUME NEW j \in Crons, JobEnds(j) PROVE ProcessTypeOK' /\ PhaseInv'
  BY Numbers, <1>2 DEF JobEnds
<1>3. ASSUME NEW key \in Keys, RoundInserts(key)
      PROVE  ProcessTypeOK' /\ PhaseInv'
  BY Numbers, <1>3 DEF RoundInserts
<1>4. ASSUME NEW r \in Requests, Accept(r) PROVE ProcessTypeOK' /\ PhaseInv'
  BY Numbers, <1>4 DEF Accept
<1>5. ASSUME NEW r \in Requests, Answer(r) PROVE ProcessTypeOK' /\ PhaseInv'
  BY Numbers, <1>5 DEF Answer
<1>6. ASSUME NEW r \in Requests, AnswerAhead(r)
      PROVE  ProcessTypeOK' /\ PhaseInv'
  BY Numbers, <1>6 DEF AnswerAhead
<1>7. ASSUME NEW r \in Requests, WorkerEnds(r)
      PROVE  ProcessTypeOK' /\ PhaseInv'
  BY Numbers, <1>7 DEF WorkerEnds
<1>8. ASSUME NEW r \in Requests, NEW key \in Keys, Configure(r, key)
      PROVE  ProcessTypeOK' /\ PhaseInv'
  BY Numbers, <1>8 DEF Configure
<1> QED BY <1>1, <1>2, <1>3, <1>4, <1>5, <1>6, <1>7, <1>8 DEF Goroutines

LEMMA ProcessStep ==
  ASSUME ProcessTypeOK, PhaseInv, [Next]_vars
  PROVE  ProcessTypeOK' /\ PhaseInv'
<1>1. CASE UNCHANGED vars
  BY <1>1 DEF ProcessTypeOK, PhaseInv, vars, processVars
<1> QED BY <1>1, MainStep, TurnStep, GoroutineStep DEF Next, Goroutines

-----------------------------------------------------------------------------
(* What the steps of the process do to the database                        *)

(* A step of the process as a step of AlertHistory.                        *)
HistoryStep ==
  \/ RecordsKept
  \/ \E key \in Keys :
       /\ "round" \in busy /\ UNCHANGED <<busy, requests, workers>>
       /\ Announced' = Announced \cup {key} /\ Configured' = Configured
  \/ \E c \in TargetIDs :
       /\ requests \cup workers # {} /\ UNCHANGED <<busy, requests, workers>>
       /\ c \notin Configured
       /\ Configured' = Configured \cup {c} /\ Announced' = Announced

LEMMA ContentStep ==
  ASSUME IInv, [Next]_vars
  PROVE  Content' /\ HistoryStep
<1>1. TypeOK /\ ProcessTypeOK /\ PhaseInv /\ Content
  BY TypeParts DEF IInv, Content, TypeOK
<1> DEFINE Idle == /\ UNCHANGED db
                   /\ step' = step \/ step' = 1
<1>2. Idle => Content' /\ HistoryStep
  BY <1>1, BesideStep DEF HistoryStep
<1>3. Main \/ Boot \/ Die \/ Signal \/ ServerFails => MigrateStatement \/ Idle
  BY DEF Main, Migrated, StartSweeper, BuildClients, StartScheduler,
         BuildChats, Listen, Serve, Drained, GraceEnds, StopRounds,
         StopSweeper, CloseDatabase, Exit, Down, Advance, NoMishap, Boot, Die,
         Signal, ServerFails, Mishap
<1>4. ASSUME NEW j \in Crons, Fire(j) \/ JobEnds(j) PROVE Idle
  BY <1>4 DEF Fire, JobEnds, Beside, NoMishap
<1>5. ASSUME NEW r \in Requests,
             Accept(r) \/ Answer(r) \/ AnswerAhead(r) \/ WorkerEnds(r)
      PROVE  Idle
  BY <1>5 DEF Accept, Answer, AnswerAhead, WorkerEnds, Beside, NoMishap
<1>6. ASSUME NEW key \in Keys, RoundInserts(key) PROVE Content' /\ HistoryStep
  <2>1. busy # {} /\ on \cup busy # {}
    BY <1>6 DEF RoundInserts
  <2>2. step = 15
    BY <1>1, <1>6, <2>1, Numbers
       DEF RoundInserts, PhaseInv, ProcessTypeOK
  <2>3. /\ Content'
        /\ Announced' = Announced \cup {key} /\ Configured' = Configured
    BY <1>1, <1>6, <2>2, InsertJobStep DEF RoundInserts, Beside, NoMishap
  <2> QED BY <1>6, <2>3 DEF RoundInserts, HistoryStep
<1>7. ASSUME NEW r \in Requests, NEW key \in Keys, Configure(r, key)
      PROVE  Content' /\ HistoryStep
  <2>1. requests \cup workers # {}
    BY <1>7 DEF Configure
  <2>2. step = 15
    BY <1>1, <1>7, <2>1, Numbers
       DEF Configure, PhaseInv, ProcessTypeOK, Starting
  <2>3. /\ Content'
        /\ Announced' = Announced
        /\ key.target \notin Configured
        /\ Configured' = Configured \cup {key.target}
    BY <1>1, <1>7, <2>2, InsertConfigStep DEF Configure, Beside, NoMishap
  <2> QED BY <1>7, <2>1, <2>3, KeyFacts DEF Configure, HistoryStep
<1>8. CASE UNCHANGED vars
  BY <1>2, <1>8 DEF vars
<1>9. MigrateStatement => Content' /\ HistoryStep
  BY <1>1, MigrateStep DEF HistoryStep
<1> HIDE DEF Idle
<1> QED BY <1>2, <1>3, <1>4, <1>5, <1>6, <1>7, <1>8, <1>9 DEF Next

(* A table that an earlier release left, and the rows it holds.            *)
LEMMA HeldFacts ==
  ASSUME NEW columns \in SUBSET Columns, NEW i \in Indexes,
         NEW S \in SUBSET Rows
  PROVE  LET t == Holding(Table(columns, i), S)
         IN /\ t \in TableStates /\ Stored(t) = S
            /\ \A r \in S : t.rows[r] = 1
            /\ t.exists /\ t.indexes = {i}
<1> DEFINE held == [r \in Rows |-> IF r \in S THEN 1 ELSE 0]
           t == [Table(columns, i) EXCEPT !.rows = held]
<1>1. /\ held \in [Rows -> 0..MaxCopies]
      /\ \A r \in Rows : held[r] = IF r \in S THEN 1 ELSE 0
  BY SchemaAssumption
<1>2. Holding(Table(columns, i), S) = t
  BY DEF Holding
<1> HIDE DEF held
<1>3. /\ Table(columns, i) \in TableStates /\ Table(columns, i).exists
      /\ Table(columns, i).indexes = {i}
  BY SchemaAssumption DEF Table, TableStates, NoRows
<1>4. t \in TableStates /\ t.exists /\ t.indexes = {i} /\ t.rows = held
  BY <1>1, <1>3 DEF TableStates
<1> HIDE DEF t
<1>5. Stored(t) = S
  BY <1>1, <1>4 DEF Stored
<1>6. \A r \in S : t.rows[r] = 1
  BY <1>1, <1>4
<1> QED BY <1>2, <1>4, <1>5, <1>6

(* What the releases left: every job once, and no statement executed yet.  *)
LEMMA InitContent ==
  ASSUME Init
  PROVE  Content
<1>1. step = 1
  BY DEF Init
<1>2. \A tb, w : ~Done(tb, w)
  <2>1. \A k \in 1..14 : ~(k < 1)
    OBVIOUS
  <2> QED BY <1>1, <2>1, MigrationFacts DEF Done
<1>3. FilledInv
  BY <1>2 DEF FilledInv
<1>4. \A t \in TargetIDs : Old(t) \in Rows /\ Old(Null) \in Rows
  BY DEF Old, Rows
<1>5. /\ PrimaryKey \in Indexes /\ SymbolKey \in Indexes
      /\ TargetKey \in Indexes /\ 0 \in 0..MaxCopies /\ 1 \in 0..MaxCopies
  BY SchemaAssumption
     DEF PrimaryKey, SymbolKey, TargetKey, Indexes, Columns
<1>6. PICK S \in SUBSET Rows :
        \/ db = [configs |-> Absent, jobs |-> Absent]
        \/ /\ S \subseteq {Old(Null)}
           /\ db = [configs |-> Absent,
                    jobs |-> Holding(Table({}, SymbolKey), S)]
        \/ /\ S \subseteq {Old(t) : t \in TargetIDs}
           /\ db = [configs |-> Holding(Table({"target"}, PrimaryKey), S),
                    jobs |-> Holding(Table({"target"}, TargetKey), S)]
  BY <1>4, KeyFacts DEF Init, SchemaInit, Fresh, MVP, Chats, TargetIDs
<1>7. /\ SymbolKey # TargetKey /\ SymbolKey # PrimaryKey
      /\ SymbolKey # ProviderKey /\ TargetKey # ProviderKey
  BY IndexFacts DEF PrimaryKey, SymbolKey, TargetKey, ProviderKey, Columns
<1> DEFINE Held(i) ==
      Holding(Table(IF i = SymbolKey THEN {} ELSE {"target"}, i), S)
<1>8. /\ Holding(Table({}, SymbolKey), S) = Held(SymbolKey)
      /\ Holding(Table({"target"}, PrimaryKey), S) = Held(PrimaryKey)
      /\ Holding(Table({"target"}, TargetKey), S) = Held(TargetKey)
  BY <1>7
<1>9. ASSUME NEW i \in Indexes
      PROVE  /\ Held(i) \in TableStates /\ Stored(Held(i)) = S
             /\ \A r \in S : Held(i).rows[r] = 1
             /\ Held(i).exists /\ Held(i).indexes = {i}
  <2> DEFINE columns == IF i = SymbolKey THEN {} ELSE {"target"}
  <2>1. columns \in SUBSET Columns
    BY DEF Columns
  <2> HIDE DEF columns
  <2>2. LET t == Holding(Table(columns, i), S)
        IN /\ t \in TableStates /\ Stored(t) = S
           /\ \A r \in S : t.rows[r] = 1
           /\ t.exists /\ t.indexes = {i}
    BY <2>1, HeldFacts
  <2> QED BY <2>2 DEF columns
<1> HIDE DEF Held
<1>10. /\ Absent \in TableStates /\ Stored(Absent) = {}
       /\ ~Absent.exists /\ Absent.indexes = {}
  BY <1>5 DEF Absent, NoRows, TableStates, Stored
<1>11. SchemaTypeOK
  BY <1>5, <1>6, <1>8, <1>9, <1>10 DEF SchemaTypeOK, Tables
<1>12. \/ db["configs"] = Absent /\ db["jobs"] = Absent
       \/ /\ S \subseteq {Old(Null)}
          /\ db["configs"] = Absent /\ db["jobs"] = Held(SymbolKey)
       \/ /\ S \subseteq {Old(t) : t \in TargetIDs}
          /\ db["configs"] = Held(PrimaryKey) /\ db["jobs"] = Held(TargetKey)
  BY <1>6, <1>8
<1>13. ASSUME S \subseteq {Old(Null)}
       PROVE  \A r, s \in S : r = s
  BY <1>13
<1>14. ASSUME S \subseteq {Old(t) : t \in TargetIDs}
       PROVE  /\ \A r \in S : r.target # Null
              /\ \A r, s \in S : r.target = s.target => r = s
              /\ \A r, s \in S : Upgraded(r) = Upgraded(s) => r = s
  BY <1>14, SchemaAssumption DEF Old, Upgraded
<1>15. ConfigsInv
  BY <1>2, <1>5, <1>9, <1>10, <1>12, <1>14 DEF ConfigsInv
<1>16. JobsInv
  BY <1>1, <1>2, <1>5, <1>9, <1>10, <1>12, <1>13, <1>14 DEF JobsInv
<1>17. IndexInv
  BY <1>2, <1>5, <1>7, <1>9, <1>10, <1>12, <1>13, <1>14 DEF IndexInv
<1> QED BY <1>3, <1>11, <1>15, <1>16, <1>17 DEF Content

LEMMA InitInv == Init => IInv
<1> SUFFICES ASSUME Init PROVE IInv
  OBVIOUS
<1>1. Content
  BY InitContent
<1>2. ProcessTypeOK /\ PhaseInv
  BY Numbers DEF Init, ProcessTypeOK, PhaseInv, Starting, Stopping
<1> QED BY <1>1, <1>2, TypeParts DEF IInv, Content

LEMMA InvStep == IInv /\ [Next]_vars => IInv'
<1> SUFFICES ASSUME IInv, [Next]_vars PROVE IInv'
  OBVIOUS
<1>1. ProcessTypeOK /\ PhaseInv
  BY TypeParts DEF IInv
<1>2. ProcessTypeOK' /\ PhaseInv'
  BY <1>1, ProcessStep
<1>3. Content'
  BY ContentStep
<1>4. TypeOK'
  BY <1>2, <1>3, Numbers DEF TypeOK, ProcessTypeOK, Content
<1> QED BY <1>2, <1>3, <1>4 DEF IInv, Content

-----------------------------------------------------------------------------
(* The theorems                                                            *)

(* The inductive invariant holds in every state of the process and of the  *)
(* databases that any sequence of boots leaves.                            *)
THEOREM Invariance == Spec => []IInv
<1>1. Init => IInv
  BY InitInv
<1>2. IInv /\ [Next]_vars => IInv'
  BY InvStep
<1> QED BY <1>1, <1>2, PTL DEF Spec

(* Each variable keeps to its type: main is at one of its places, a        *)
(* process that is down keeps nothing running, and one that exits starts   *)
(* no job.                                                                 *)
THEOREM TypeCorrect == Spec => []TypeOK
<1>1. IInv => TypeOK
  BY DEF IInv
<1> QED BY <1>1, Invariance, PTL

(* What each part of main's start leaves behind for the rounds.            *)
LEMMA Started ==
  ASSUME IInv, on # {}
  PROVE  Content /\ step = 15
<1>1. ProcessTypeOK /\ PhaseInv /\ Content
  BY TypeParts DEF IInv, Content
<1>2. on \cup busy # {}
  OBVIOUS
<1> QED BY <1>1, <1>2, Numbers DEF ProcessTypeOK, PhaseInv

(* An upgraded row is a key, and is its own upgrade.                       *)
LEMMA UpgradedKey ==
  ASSUME NEW r \in Rows, r.target # Null, r.provider # Null
  PROVE  r \in Keys /\ Upgraded(r) = r
<1>1. r \in Keys
  BY DEF Rows, Keys
<1> QED BY <1>1, KeyFacts

(* While rounds run, every alert of every release is in one row under the  *)
(* key that a round looks for, and CreateIfNotExists refuses that key and  *)
(* no other: no index of an earlier release is left to refuse a            *)
(* neighbour's row, and none is missing that would let a key in twice.     *)
THEOREM RoundsCorrect == Spec => []RoundsFindHistory
<1>1. IInv => RoundsFindHistory
  <2> SUFFICES ASSUME IInv, on # {}
               PROVE  /\ \A key \in Keys :
                           /\ db["jobs"].rows[key] =
                                IF key \in Announced THEN 1 ELSE 0
                           /\ Blocked(key) <=> key \in Announced
                      /\ \A r \in Stored(db["configs"]) :
                           r.provider \in MarketProviders
    BY DEF RoundsFindHistory
  <2>1. Content /\ step = 15
    BY Started
  <2>2. /\ \A r \in Stored(db["jobs"]) : r.target # Null /\ r.provider # Null
        /\ \A r \in Stored(db["configs"]) : r.provider # Null
        /\ \A key \in Keys : Blocked(key) <=> key \in Stored(db["jobs"])
    BY <2>1, AfterMigration
  <2>3. /\ Stored(db["jobs"]) \subseteq Rows
        /\ Stored(db["configs"]) \subseteq Rows
    BY DEF Stored
  <2>4. Announced = Stored(db["jobs"])
    <3>1. \A r \in Stored(db["jobs"]) : Upgraded(r) = r
      BY <2>2, <2>3, UpgradedKey
    <3> QED BY <3>1 DEF Announced
  <2>5. ASSUME NEW key \in Keys
        PROVE  db["jobs"].rows[key] = IF key \in Announced THEN 1 ELSE 0
    <3>1. key \in Rows /\ db["jobs"] \in TableStates
      BY <2>1, DbFacts, KeyFacts DEF Content, Tables
    <3>2. db["jobs"].rows[key] \in Nat
      BY <3>1, TableFacts, SchemaAssumption DEF TableStates
    <3>3. key \in Stored(db["jobs"]) => db["jobs"].rows[key] = 1
      BY <2>1 DEF Content, JobsInv
    <3>4. key \in Stored(db["jobs"]) <=> db["jobs"].rows[key] > 0
      BY <3>1 DEF Stored
    <3> QED BY <2>4, <3>2, <3>3, <3>4
  <2>6. \A r \in Stored(db["configs"]) : r.provider \in MarketProviders
    BY <2>2, <2>3 DEF Rows
  <2> QED BY <2>2, <2>4, <2>5, <2>6
<1> QED BY <1>1, Invariance, PTL

(* The deferred closing of the database comes after the listener's end,    *)
(* and so after the last handler, unless the grace was over or the         *)
(* listener had failed.                                                    *)
THEOREM RequestsCorrect == Spec => []RequestsKeepDatabase
<1>1. IInv => RequestsKeepDatabase
  BY TypeParts DEF IInv, PhaseInv, ProcessTypeOK, RequestsKeepDatabase,
                   Starting, Stopping
<1> QED BY <1>1, Invariance, PTL

(* No statement of Migrate is ever refused by the rows it finds, on the    *)
(* first boot of a release, on a later one and on an interrupted one.      *)
THEOREM RefusedCorrect == Spec => []NeverRefused
<1>1. IInv => NeverRefused
  BY NotRefused DEF IInv, Content, TypeOK
<1> QED BY <1>1, Invariance, PTL

(* The steps of the process are steps of AlertHistory.                     *)
LEMMA HistoryTurn ==
  ASSUME IInv, [Next]_vars
  PROVE  History!Next \/ UNCHANGED History!history
<1>1. HistoryStep
  BY ContentStep
<1>2. CASE RecordsKept
  BY <1>2 DEF RecordsKept, History!Next, History!Turn
<1>3. ASSUME NEW key \in Keys,
             "round" \in busy, UNCHANGED <<busy, requests, workers>>,
             Announced' = Announced \cup {key}, Configured' = Configured
      PROVE  History!Next
  BY <1>3 DEF History!Next, History!Announce
<1>4. ASSUME NEW c \in TargetIDs,
             requests \cup workers # {}, UNCHANGED <<busy, requests, workers>>,
             c \notin Configured, Configured' = Configured \cup {c},
             Announced' = Announced
      PROVE  History!Next
  BY <1>4 DEF History!Next, History!Configure
<1> QED BY <1>1, <1>2, <1>3, <1>4 DEF HistoryStep

(* The database of any sequence of upgrades, boots, kills and shutdowns    *)
(* behaves as one history of alerts and configured chats: no statement     *)
(* that fills a column, merges rows, drops an index or makes a table loses *)
(* or invents any, and rounds and requests add theirs, one at a time.      *)
THEOREM HistoryRefinement == Spec => ImplementsHistory
<1>1. Init => History!Init
  <2> SUFFICES ASSUME Init PROVE History!Init
    OBVIOUS
  <2>1. Content
    BY InitContent
  <2>2. /\ Stored(db["jobs"]) \subseteq Rows
        /\ Stored(db["configs"]) \subseteq Rows
    BY DEF Stored
  <2>3. Announced \subseteq Keys
    BY <2>2, RowFacts DEF Announced
  <2>4. Configured \subseteq TargetIDs
    BY <2>1, <2>2, RowFacts DEF Configured, Content, ConfigsInv
  <2> QED BY <2>3, <2>4 DEF Init, History!Init
<1>2. IInv /\ [Next]_vars => [History!Next]_(History!history)
  BY HistoryTurn
<1> QED BY <1>1, <1>2, Invariance, PTL
        DEF Spec, ImplementsHistory, History!Spec

=============================================================================
