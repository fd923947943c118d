------------------------------- MODULE Schema -------------------------------
(***************************************************************************)
(* The database that InitDatabase prepares for the server, and Migrate,    *)
(* statement by statement.                                                 *)
(*                                                                         *)
(* Two tables carry what Migrate changes: "jobs" (notification_jobs) and   *)
(* "configs" (alert_configs).  Of a row of "jobs" only the target and the  *)
(* market provider are kept: all of them are of one symbol, interval and   *)
(* period, which every unique index of the table contains.  The other      *)
(* tables are created once and never changed.  SQL and GORM's AutoMigrate  *)
(* are external.                                                           *)
(***************************************************************************)
EXTENDS Naturals, Sequences, FiniteSets

CONSTANTS
  Targets,         (* the chats' alert targets                             *)
  LegacyTarget,    (* LegacyTargetID                                       *)
  MarketProviders,
  Binance,         (* domain.MarketProviderBinance                         *)
  Null,
  MaxCopies        (* bound: equal rows that are told apart                *)

TargetIDs == Targets \cup {LegacyTarget}

ASSUME SchemaAssumption ==
  /\ LegacyTarget \notin Targets /\ Binance \in MarketProviders
  /\ Null \notin TargetIDs \cup MarketProviders
  /\ MaxCopies \in Nat \ {0, 1}

VARIABLE db

Tables == {"configs", "jobs"}
Columns == {"target", "provider"}

Keys == [target : TargetIDs, provider : MarketProviders]
Rows ==
  [target : TargetIDs \cup {Null}, provider : MarketProviders \cup {Null}]

Indexes ==
  [name : {"configs_pkey", "idx_jobs_key", "idx_jobs_target_key"},
   on : SUBSET Columns]

TableStates ==
  [exists : BOOLEAN, columns : SUBSET Columns, required : SUBSET Columns,
   indexes : SUBSET Indexes, rows : [Rows -> 0..MaxCopies]]

SchemaTypeOK == db \in [Tables -> TableStates]

Stored(t) == {r \in Rows : t.rows[r] > 0}

(* Two rows that an index on these columns does not admit together: NULLs  *)
(* are never equal.                                                        *)
Clash(r, s, columns) == \A c \in columns : r[c] = s[c] /\ r[c] # Null

Unique(t, index) ==
  \A r \in Stored(t) :
    /\ Clash(r, r, index.on) => t.rows[r] = 1
    /\ \A s \in Stored(t) \ {r} : ~Clash(r, s, index.on)

Named(t, name) == {i \in t.indexes : i.name = name}

-----------------------------------------------------------------------------
(* What the earlier releases left behind: no tables at all, the MVP's rows *)
(* without a target, the chats' rows without a provider, or today's.       *)

NoRows == [r \in Rows |-> 0]

Absent ==
  [exists |-> FALSE, columns |-> {}, required |-> {}, indexes |-> {},
   rows |-> NoRows]

Holding(t, stored) ==
  [t EXCEPT !.rows = [r \in Rows |-> IF r \in stored THEN 1 ELSE 0]]

PrimaryKey == [name |-> "configs_pkey", on |-> {"target"}]
SymbolKey == [name |-> "idx_jobs_key", on |-> {}]
TargetKey == [name |-> "idx_jobs_target_key", on |-> {"target"}]

(* The unique index of today: struct tags and last statement alike.        *)
ProviderKey == [name |-> "idx_jobs_target_key", on |-> Columns]

Table(columns, index) ==
  [exists |-> TRUE, columns |-> columns, required |-> columns,
   indexes |-> {index}, rows |-> NoRows]

Old(target) == [target |-> target, provider |-> Null]

Fresh == {[configs |-> Absent, jobs |-> Absent]}

MVP ==
  {[configs |-> Absent, jobs |-> Holding(Table({}, SymbolKey), stored)] :
     stored \in SUBSET {Old(Null)}}

Chats ==
  {[configs |-> Holding(Table({"target"}, PrimaryKey), stored),
    jobs |-> Holding(Table({"target"}, TargetKey), stored)] :
     stored \in SUBSET {Old(t) : t \in TargetIDs}}

SchemaInit == db \in Fresh \cup MVP \cup Chats

-----------------------------------------------------------------------------
(* The statements.  One that fails changes nothing and ends Migrate.       *)

Add(c) == [do |-> "add", column |-> c]
Fill(c) == [do |-> "fill", column |-> c]
Require(c) == [do |-> "require", column |-> c]
Drop(i) == [do |-> "drop", index |-> i]
Create(i) == [do |-> "create", index |-> i]
CreateIndex(i) == [do |-> "index", index |-> i]

On(table, statements) ==
  [i \in DOMAIN statements |-> [table |-> table, what |-> statements[i]]]

(* Mutant: the index of the same name is taken for today's.                *)
MigrationKeepingIndex ==
  On("configs", <<Add("provider"), Fill("provider"), Require("provider"),
                  Create(PrimaryKey)>>)
  \o On("jobs", <<Add("provider"), Fill("provider"), Require("provider"),
                  Add("target"), Fill("target"), Require("target"),
                  Drop(SymbolKey),
                  Create(ProviderKey), CreateIndex(ProviderKey)>>)

(* AutoMigrate creates the table of the jobs and then its index; on an old *)
(* table it creates the index that was just dropped.                       *)
Migration ==
  On("configs", <<Add("provider"), Fill("provider"), Require("provider"),
                  Create(PrimaryKey)>>)
  \o On("jobs", <<Add("provider"), Fill("provider"), Require("provider"),
                  Add("target"), Fill("target"), Require("target"),
                  Drop(SymbolKey), Drop(TargetKey),
                  Create(ProviderKey), CreateIndex(ProviderKey)>>)

(* Mutant: the rows get the chat's default provider.                       *)
FilledWithDefault(c) ==
  IF c = "target" THEN LegacyTarget
  ELSE CHOOSE p \in MarketProviders : p # Binance

(* What a column of an old row is filled with.                             *)
Filled(c) == IF c = "target" THEN LegacyTarget ELSE Binance

Backfill(t, c) ==
  [t EXCEPT !.rows = [r \in Rows |->
     IF r[c] = Null THEN 0
     ELSE IF r[c] = Filled(c) THEN @[r] + @[[r EXCEPT ![c] = Null]]
     ELSE @[r]]]

(* The block of a table is skipped when HasTable does not find it; CREATE  *)
(* takes effect when nothing of the name is there.                         *)
Applies(t, s) ==
  CASE s.do = "create" -> ~t.exists
    [] s.do = "index" -> Named(t, s.index.name) = {}
    [] OTHER -> t.exists

(* Mutant: a column is added without IF NOT EXISTS.                        *)
AcceptableOnce(t, s) ==
  CASE s.do = "add" -> s.column \notin t.columns
    [] s.do = "fill" -> \A i \in t.indexes : Unique(Backfill(t, s.column), i)
    [] s.do = "require" -> \A r \in Stored(t) : r[s.column] # Null
    [] s.do = "index" -> Unique(t, s.index)
    [] OTHER -> TRUE

(* The rows let the statement succeed.                                     *)
Acceptable(t, s) ==
  CASE s.do = "fill" -> \A i \in t.indexes : Unique(Backfill(t, s.column), i)
    [] s.do = "require" -> \A r \in Stored(t) : r[s.column] # Null
    [] s.do = "index" -> Unique(t, s.index)
    [] OTHER -> TRUE

Effect(t, s) ==
  CASE s.do = "add" -> [t EXCEPT !.columns = @ \cup {s.column}]
    [] s.do = "fill" -> Backfill(t, s.column)
    [] s.do = "require" -> [t EXCEPT !.required = @ \cup {s.column}]
    [] s.do = "drop" -> [t EXCEPT !.indexes = @ \ Named(t, s.index.name)]
    [] s.do = "create" -> [Table(Columns, s.index) EXCEPT !.indexes =
                             IF s.index = PrimaryKey THEN {PrimaryKey} ELSE {}]
    [] s.do = "index" -> [t EXCEPT !.indexes = @ \cup {s.index}]

Succeeds(k) ==
  LET t == db[Migration[k].table]
      s == Migration[k].what
  IN Applies(t, s) => Acceptable(t, s)

Exec(k) ==
  LET t == db[Migration[k].table]
      s == Migration[k].what
  IN db' = IF Applies(t, s)
           THEN [db EXCEPT ![Migration[k].table] = Effect(t, s)] ELSE db

(* CreateIfNotExists: INSERT ... ON CONFLICT DO NOTHING names no index, so *)
(* a row that any unique index does not admit is not added.                *)
Blocked(key) ==
  \E i \in db["jobs"].indexes, r \in Stored(db["jobs"]) : Clash(key, r, i.on)

InsertJob(key) ==
  /\ db["jobs"].exists
  /\ Blocked(key) \/ db["jobs"].rows[key] < MaxCopies
  /\ db' = IF Blocked(key) THEN db
           ELSE [db EXCEPT !["jobs"].rows[key] = @ + 1]

(* The first configuration of a chat.                                      *)
InsertConfig(key) ==
  LET t == db["configs"]
  IN /\ \A r \in Stored(t) : ~Clash(key, r, {"target"})
     /\ db' = [db EXCEPT !["configs"].rows[key] = 1]
=============================================================================
