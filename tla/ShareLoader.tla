----------------------------- MODULE ShareLoader -----------------------------
(***************************************************************************)
(* _load_shares (src/aird/utils/util.py): reads the shares table, whose   *)
(* columns depend on the schema version the database was created with.    *)
(* PRAGMA table_info tells which optional columns exist; an elif chain     *)
(* picks the SELECT for one of five schema versions; each row becomes a    *)
(* share, its JSON columns parsed under their own try/except; any other    *)
(* exception (the connection, the SQL) is caught outside and yields {}.    *)
(*                                                                         *)
(* Column values are abstracted to what the code tells apart: a JSON       *)
(* column holds NULL or '' (falsy), a JSON list, or text json.loads        *)
(* rejects; another column holds NULL or a value.  'id' is the key of      *)
(* table and 'created', copied verbatim, is left out.                      *)
(***************************************************************************)
EXTENDS Naturals

CONSTANTS
    ShareIds,   \* share ids the table may hold
    Rows,       \* the rows the table may hold (a subset of Row)
    Schemas,    \* the sets of optional columns the table may have
    NoRow,      \* marker: no row with this id
    NoShare     \* marker: this id is not a key of the result

OptionalColumns ==
    {"allowed_users", "secret_token", "share_type", "allow_list",
     "avoid_list", "expiry_date"}

ShareFields == OptionalColumns \cup {"paths"}

JsonColumns == {"paths", "allowed_users", "allow_list", "avoid_list"}

JsonValues == {"null", "list", "garbage"}

ScalarValues == {"null", "value"}

Row == [paths : JsonValues, allowed_users : JsonValues,
        secret_token : ScalarValues, share_type : ScalarValues,
        allow_list : JsonValues, avoid_list : JsonValues,
        expiry_date : ScalarValues]


VARIABLES
    table,      \* the shares table: id -> row or NoRow
    schema,     \* its optional columns
    dbFails,    \* the connection raises on execute (e.g. it is closed)
    branch,     \* the elif branch taken (0 before the PRAGMA)
    pending,    \* ids of the fetched rows the for loop has not reached
    loaded,     \* the dict 'loaded' being filled
    pc          \* "pragma", "select", "loop", "done"

vars == <<table, schema, dbFails, branch, pending, loaded, pc>>

\* The values a share's fields take: the stored list or value, or a default.
Share == [ShareFields -> {"list", "value", "[]", "None", "static"}]

NoShares == [s \in ShareIds |-> NoShare]

ASSUME ShareLoaderAssumption ==
    /\ Rows \subseteq Row
    /\ Schemas \subseteq SUBSET OptionalColumns
    /\ NoRow \notin Row
    /\ NoShare \notin Share

\* The fallback share of the oldest schema: the defaults of every field.
Default ==
    [paths |-> "[]", allowed_users |-> "None", secret_token |-> "None",
     share_type |-> "static", allow_list |-> "[]", avoid_list |-> "[]",
     expiry_date |-> "None"]

\* Mutant: json.loads outside its try, so malformed text raises.
JsonLoadsUnguarded(x, default) ==
    CASE x = "list" -> "list"
      [] x = "null" -> default
      [] OTHER      -> "raise"

\* try: v = json.loads(x) if x else default
\* except Exception: v = default
JsonLoads(x, default) == IF x = "list" THEN "list" ELSE default

\* A selected column's value as the share keeps it: JSON columns parsed,
\* share_type or "static", secret_token and expiry_date verbatim (NULL is
\* None).
Interp(c, x) ==
    CASE c \in JsonColumns    -> JsonLoads(x, Default[c])
      [] c = "share_type"     -> IF x = "value" THEN "value" ELSE "static"
      [] OTHER                -> IF x = "value" THEN "value" ELSE "None"

\* The optional columns each branch's SELECT names ('id', 'created' and
\* 'paths' are always selected).
Selected ==
    << OptionalColumns,
       {"allowed_users", "secret_token", "share_type"},
       {"allowed_users", "secret_token"},
       {"allowed_users"},
       {} >>

\* The columns each if/elif tests for ('else' tests nothing).
Conditions == Selected

\* The schema versions the elif chain names, one per branch.
SchemaVersions == {Selected[i] : i \in 1..5}

\* The first branch whose condition the columns satisfy.
Branch(cols) ==
    CHOOSE i \in 1..5 : /\ Conditions[i] \subseteq cols
                        /\ \A j \in 1..(i - 1) : ~(Conditions[j] \subseteq cols)

\* Mutant: the second SELECT forgets share_type.
SelectedNoShareType(b) ==
    IF b = 2 THEN {"allowed_users", "secret_token"} ELSE Selected[b]

SelectedBy(b) == Selected[b]

\* The dict branch b builds for a row: the selected columns interpreted,
\* the others at their defaults.
ShareOf(b, r) ==
    [c \in ShareFields |->
        IF c = "paths" \/ c \in SelectedBy(b) THEN Interp(c, r[c])
        ELSE Default[c]]

\* An exception escaped the inner try blocks.
Raises(sh) == \E c \in ShareFields : sh[c] = "raise"

Init ==
    /\ table \in [ShareIds -> Rows \cup {NoRow}]
    /\ schema \in Schemas
    /\ dbFails \in BOOLEAN
    /\ branch = 0
    /\ pending = {}
    /\ loaded = NoShares
    /\ pc = "pragma"

\* except Exception: ... return {}
Fail ==
    /\ loaded' = NoShares
    /\ pc' = "done"

\* PRAGMA table_info(shares), then the if/elif chain.
Pragma ==
    /\ pc = "pragma"
    /\ IF dbFails
       THEN Fail /\ UNCHANGED branch
       ELSE /\ branch' = Branch(schema)
            /\ pc' = "select"
            /\ UNCHANGED loaded
    /\ UNCHANGED <<table, schema, dbFails, pending>>

\* conn.execute(SELECT ...).fetchall(): sqlite raises on a column the
\* table does not have.
Select ==
    /\ pc = "select"
    /\ IF SelectedBy(branch) \subseteq schema
       THEN /\ pending' = {s \in ShareIds : table[s] # NoRow}
            /\ pc' = "loop"
            /\ UNCHANGED loaded
       ELSE Fail /\ UNCHANGED pending
    /\ UNCHANGED <<table, schema, dbFails, branch>>

\* One iteration of the for loop: loaded[sid] = {...}.
LoadRow ==
    /\ pc = "loop"
    /\ \E sid \in pending :
          LET sh == ShareOf(branch, table[sid])
          IN  IF Raises(sh)
              THEN Fail /\ UNCHANGED pending
              ELSE /\ loaded' = [loaded EXCEPT ![sid] = sh]
                   /\ pending' = pending \ {sid}
                   /\ UNCHANGED pc
    /\ UNCHANGED <<table, schema, dbFails, branch>>

\* return loaded
Return ==
    /\ pc = "loop"
    /\ pending = {}
    /\ pc' = "done"
    /\ UNCHANGED <<table, schema, dbFails, branch, pending, loaded>>

Next == Pragma \/ Select \/ LoadRow \/ Return

Spec == Init /\ [][Next]_vars

-----------------------------------------------------------------------------

TypeOK ==
    /\ table \in [ShareIds -> Rows \cup {NoRow}]
    /\ schema \in Schemas
    /\ dbFails \in BOOLEAN
    /\ branch \in 0..5
    /\ pending \subseteq ShareIds
    /\ loaded \in [ShareIds -> Share \cup {NoShare}]
    /\ pc \in {"pragma", "select", "loop", "done"}

\* A malformed value costs nothing beyond its own field: when the connection
\* works, _load_shares returns a share for every row of the table (the
\* per-field try/except of the loop keeps json.loads errors from reaching
\* the outer except, which would return {}).
RowsKept ==
    pc = "done" /\ ~dbFails =>
        \A s \in ShareIds : (loaded[s] # NoShare) <=> (table[s] # NoRow)

\* What a share should hold, stated per column: a well-formed value of a
\* column the table has is kept, anything else (a missing column, NULL or
\* '', text json.loads rejects) gives the field's default.
Expected(r) ==
    [c \in ShareFields |->
        IF (c = "paths" \/ c \in schema) /\ r[c] \in {"list", "value"}
        THEN r[c] ELSE Default[c]]

\* On every schema version the elif chain knows, the loaded share honours
\* every column the table has: no branch drops a column it could read.
ColumnsHonoured ==
    pc = "done" /\ ~dbFails =>
        \A s \in ShareIds : table[s] # NoRow => loaded[s] = Expected(table[s])

=============================================================================
