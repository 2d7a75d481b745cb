------------------------------- MODULE Schema -------------------------------
(***************************************************************************)
(* The database's schema and the migrations that bring it forward at every   *)
(* start (store.Open, Migrate and the fifty migrations of internal/store).   *)
(*                                                                           *)
(* A database may be new or come from any earlier release: one that had made  *)
(* the columns it knew of, by its create statements or by the migrations up   *)
(* to its own.  Each migration is a transaction with the row that records it; *)
(* the process may die between two of them, or one may fail and end it.       *)
(* Plain indexes are left out, a column stands for those added with it, and    *)
(* of the rows only what a migration repairs is kept.                         *)
(***************************************************************************)
EXTENDS Integers, Sequences

CONSTANTS
  Releases,     \* the schema versions of the releases a database may come from; 0 is none
  MaxCrashes, MaxFaults

Nothing == [create |-> {}, add |-> {}, drop |-> {}, index |-> {}, repair |-> {}, widen |-> FALSE, group |-> FALSE]
Create(tables) == [Nothing EXCEPT !.create = tables]
Add(table, columns) == [Nothing EXCEPT !.add = {table} \X columns]
Drop(table, columns) == [Nothing EXCEPT !.drop = {table} \X columns]
Index(names) == [Nothing EXCEPT !.index = names]
Repair(rows) == [Nothing EXCEPT !.repair = rows]

CreateInitialTables ==
  Create({"users", "groups", "images", "group_images", "audit_logs", "stacks", "settings",
          "resource_samples", "netdisk_shares"})
CreateIndexes == Index({"feishu_open_id"})
WidenRoleConstraint == [Nothing EXCEPT !.widen = TRUE]
CreateMCPTokens == Create({"mcp_tokens"})
AddPortPrefixUniqueIndex == Index({"port_prefix"})
AddUserDisplayName == [Add("users", {"display_name"}) EXCEPT !.repair = {"name in comment"}]
CreateNotifications == Create({"notifications"})
DeleteOrphanedMCPTokens == Repair({"orphaned token"})
CreateBackupSchedule == Create({"backup_schedule"})
RevokeFeishuDerivedPasswords == Repair({"derived password"})
CreateGroupNetworks == Create({"group_networks"})
CreatePortForwards == Create({"port_forwards"})
CreateAccessLogs == Create({"access_logs"})
ExtendAccessLogs == Add("access_logs", {"vpn", "client"})
CreateMCPUsageLogs == Create({"mcp_usage_logs"})
CreateMCPAttackLogs == Create({"mcp_attack_logs"})
WidenMCPUsageLogs == Add("mcp_usage_logs", {"geo"})
WidenMCPLogs == [Nothing EXCEPT !.add = {"mcp_usage_logs", "mcp_attack_logs"} \X {"timezone", "source_kind", "device"}]
AddFeishuProfileColumns == Add("users", {"feishu_profile"})
AddUserPinyinName == [Add("users", {"pinyin_name"}) EXCEPT !.repair = {"no pinyin"}]
CreateProcessWatches == Create({"process_watches"})
CreateErrorEvents == Create({"error_events"})
CreateFeishuMessages == Create({"feishu_messages"})
UserSingleGroup == [Add("users", {"group_id"}) EXCEPT !.group = TRUE]
AddLogFilterIndexes == Nothing
DropMCPTokenPlaintext == Drop("mcp_tokens", {"token_plaintext", "external_key_plaintext"})

(* The list, ten to a row.                                                    *)
MigrationsTo26 ==
  <<CreateInitialTables, Add("users", {"feishu_open_id"}), Add("users", {"port_prefix"}),
    Add("groups", {"netdisk_path"}), Add("netdisk_shares", {"expires_at"}), Add("netdisk_shares", {"permanent"}),
    Add("users", {"comment"}), Add("images", {"preset_json"}), CreateIndexes, WidenRoleConstraint>> \o
  <<Create({"schema_version"}), Add("users", {"netdisk_quota_bytes"}), Add("netdisk_shares", {"password_hash"}),
    CreateMCPTokens, Add("mcp_tokens", {"token_plaintext"}), AddPortPrefixUniqueIndex, AddUserDisplayName,
    CreateNotifications, DeleteOrphanedMCPTokens, Add("netdisk_shares", {"password"})>> \o
  <<Add("groups", {"backup_path"}), CreateBackupSchedule, Add("users", {"language"}), Add("groups", {"language"}),
    RevokeFeishuDerivedPasswords, CreateGroupNetworks>>

MigrationsTo33 ==
  <<CreateAccessLogs, ExtendAccessLogs, CreateMCPUsageLogs, CreateMCPAttackLogs, WidenMCPUsageLogs,
    Add("port_forwards", {"require_login"})>>

MigrationsTo50 ==
  <<Add("images", {"env_seq"}), Add("access_logs", {"public_ip"}), WidenMCPLogs, AddFeishuProfileColumns,
    AddUserPinyinName, Add("groups", {"shared_disk_path"}), Add("users", {"shared_disk_read_write"})>> \o
  <<Add("mcp_tokens", {"external_key_hash"}), CreateProcessWatches, CreateErrorEvents,
    Drop("users", {"feishu_webhook"}), CreateFeishuMessages, UserSingleGroup, Add("users", {"session_epoch"}),
    AddLogFilterIndexes, DropMCPTokenPlaintext, Drop("netdisk_shares", {"password"})>>

(* Mutant: port_forwards is created after the migration that alters it.       *)
MigrationsMisordered == MigrationsTo26 \o MigrationsTo33 \o <<CreatePortForwards>> \o MigrationsTo50

Migrations == MigrationsTo26 \o <<CreatePortForwards>> \o MigrationsTo33 \o MigrationsTo50

Latest == Len(Migrations)

(* What the create statements already have of the columns that migrations add. *)
CreatedWith ==
  ({"users"} \X {"netdisk_quota_bytes", "port_prefix", "feishu_open_id", "feishu_profile", "comment", "display_name"})
  \cup ({"groups"} \X {"netdisk_path", "backup_path"})
  \cup {<<"images", "preset_json">>, <<"port_forwards", "require_login">>}
  \cup ({"netdisk_shares"} \X {"expires_at", "permanent", "password_hash", "password"})

Referring == {"stacks", "netdisk_shares", "mcp_tokens", "notifications"}  \* whose rows refer to users

ASSUME SchemaAssumption ==
  /\ Releases \subseteq 0 .. Latest
  /\ MaxCrashes \in Nat /\ MaxFaults \in Nat

VARIABLES
  db,        \* the database: what is recorded, its tables, columns, unique keys, references, rows
  pc,        \* the process: off, migrating, seeding, serving
  origin,    \* history: the database as the earlier release left it, and that release
  crashes, faults

vars == <<db, pc, origin, crashes, faults>>

-----------------------------------------------------------------------------
(* One migration.  A create finds its tables there or makes them; a column    *)
(* that is there already is not added again, one that is gone is not dropped. *)

Created(m, d) ==
  LET new == m.create \ d.tables IN
  [d EXCEPT !.tables = @ \cup new,
            !.columns = @ \cup {c \in CreatedWith : c[1] \in new},
            !.refs = @ \cup ((new \cap Referring) \X {"users"}),
            !.unique = @ \cup (IF "users" \in new THEN {"username"} ELSE {})]

(* migrateWidenRoleConstraint: the table is renamed, and SQLite renames it in  *)
(* the references of other tables; a new one is made of the columns' names and *)
(* types, the rows go over, and the old one is dropped with its indexes.       *)
Widened(d) ==
  IF d.narrow
  THEN [d EXCEPT !.narrow = FALSE, !.unique = {},
                 !.refs = {<<r[1], IF r[2] = "users" THEN "users_old" ELSE r[2]>> : r \in @}]
  ELSE d

(* Mutant: the join table stays.                                              *)
GroupedKeepingTable(d) == [d EXCEPT !.repairs = @ \ {"many groups"}]

(* migrateUserSingleGroup: the join table goes, each user keeps one group.     *)
Grouped(d) == [d EXCEPT !.tables = @ \ {"user_groups"}, !.repairs = @ \ {"many groups"}]

Applied(m, d) ==
  LET c == Created(m, d)
      w == IF m.widen THEN Widened(c) ELSE c
      g == IF m.group THEN Grouped(w) ELSE w
  IN [g EXCEPT !.columns = (@ \cup m.add) \ m.drop, !.unique = @ \cup m.index, !.repairs = @ \ m.repair]

(* A column needs its table; a unique index needs rows that are.              *)
Applicable(m, d) ==
  /\ \A c \in m.add \cup m.drop : c[1] \in d.tables
  /\ "port_prefix" \in m.index => "twin prefixes" \notin d.repairs

-----------------------------------------------------------------------------
(* Databases. *)

Empty == [version |-> 0, tables |-> {}, columns |-> {}, unique |-> {}, refs |-> {}, repairs |-> {}, narrow |-> FALSE]

Upto[n \in 0 .. Latest] ==
  IF n = 0 THEN Empty ELSE [Applied(Migrations[n], Upto[n - 1]) EXCEPT !.version = n]

(* Columns that a later migration adds were not in an earlier release's create *)
(* statements.                                                               *)
Later(k) == UNION {Migrations[n].add : n \in k + 1 .. Latest}

(* What may await a migration in the rows that release k left.                *)
Awaits(k) ==
  (IF k < 38 THEN {"no pinyin"} ELSE {}) \cup (IF k < 46 THEN {"many groups"} ELSE {}) \cup (IF k < 25 THEN {"derived password"} ELSE {})
    \cup (IF k \in 14 .. 18 THEN {"orphaned token"} ELSE {}) \cup (IF k < 17 THEN {"name in comment"} ELSE {})
    \cup (IF k < 16 THEN {"twin prefixes"} ELSE {})

(* The earliest releases recorded no version.                                 *)
LeftBy(k, v, narrow, repairs) ==
  [Upto[k] EXCEPT
     !.version = v, !.narrow = narrow, !.repairs = repairs,
     !.tables = @ \cup (IF k < 46 THEN {"user_groups"} ELSE {}),
     !.columns = (@ \ Later(k)) \cup (IF k \in 41 .. 48 THEN {<<"mcp_tokens", "external_key_plaintext">>} ELSE {})]

Init ==
  /\ \/ db = Empty /\ origin = [release |-> 0, narrow |-> FALSE, twins |-> FALSE]
     \/ \E k \in Releases \ {0}, narrow \in BOOLEAN : \E repairs \in SUBSET Awaits(k) :
          /\ narrow => k < 10
          /\ \E v \in {k} \cup (IF k < 11 THEN {0} ELSE {}) : db = LeftBy(k, v, narrow, repairs)
          /\ origin = [release |-> k, narrow |-> narrow, twins |-> "twin prefixes" \in repairs]
  /\ pc = "off"
  /\ crashes = 0 /\ faults = 0

-----------------------------------------------------------------------------
(* The process: Open, Migrate, and then the server.                           *)

Start ==
  /\ pc = "off" /\ pc' = "migrating"
  /\ db' = [db EXCEPT !.tables = @ \cup {"schema_version"}]
  /\ UNCHANGED <<origin, crashes, faults>>

(* runMigrations: one migration and its record, or neither and the end.       *)
MigrateOne ==
  LET n == db.version + 1 IN
  /\ pc = "migrating" /\ n <= Latest
  /\ \/ /\ Applicable(Migrations[n], db)
        /\ db' = [Applied(Migrations[n], db) EXCEPT !.version = n]
        /\ UNCHANGED <<pc, faults>>
     \/ /\ ~Applicable(Migrations[n], db)
        /\ pc' = "off" /\ UNCHANGED <<db, faults>>
     \/ /\ faults < MaxFaults /\ faults' = faults + 1
        /\ pc' = "off" /\ UNCHANGED db
  /\ UNCHANGED <<origin, crashes>>

(* The administrator that the environment names, and the default groups.      *)
Seed ==
  /\ pc = "migrating" /\ db.version = Latest
  /\ pc' = "serving"
  /\ UNCHANGED <<db, origin, crashes, faults>>

Crash ==
  /\ pc # "off" /\ pc' = "off"
  /\ crashes < MaxCrashes /\ crashes' = crashes + 1
  /\ UNCHANGED <<db, origin, faults>>

Next == Start \/ MigrateOne \/ Seed \/ Crash

(* A service manager starts the process again.                                *)
Spec == Init /\ [][Next]_vars /\ WF_vars(Start \/ MigrateOne \/ Seed)

-----------------------------------------------------------------------------
(* Whatever died and wherever, the schema has what the recorded version says:  *)
(* all that the migrations up to it create, add and repair.                    *)
Dropped(v) == UNION {Migrations[n].drop : n \in 1 .. v}
AsRecorded ==
  \A n \in 1 .. db.version :
    /\ Migrations[n].create \subseteq db.tables
    /\ Migrations[n].add \ Dropped(db.version) \subseteq db.columns
    /\ Migrations[n].drop \cap db.columns = {}
    /\ n > origin.release => Migrations[n].repair \cap db.repairs = {}

(* A database that was brought forward is one that was made anew: the same      *)
(* tables, columns and unique keys, references that lead somewhere, and nothing *)
(* left to repair; no secret that a release kept in clear stays behind.         *)
Alike ==
  /\ db.tables = Upto[Latest].tables /\ db.columns = Upto[Latest].columns
  /\ db.unique = Upto[Latest].unique /\ db.refs = Upto[Latest].refs
  /\ db.repairs = {}
ServesAlike == pc = "serving" /\ ~origin.narrow => Alike

(* The references hold for every database: "the FK never actually dangles".    *)
NeverDangles == pc = "serving" => \A r \in db.refs : r[2] \in db.tables

(* The server comes up in the end, whatever crashed or failed on the way, other *)
(* than on a database where two users already share a port prefix.             *)
Migrated == ~origin.twins => <>[](pc = "serving")

(* The same of every database.                                                *)
MigratedAlways == <>[](pc = "serving")
=============================================================================
