------------------------- MODULE ShareLoaderProofs -------------------------
(***************************************************************************)
(* Proofs about _load_shares for every set of share ids, every table and   *)
(* every schema: with a working connection the loader returns a share for  *)
(* every row, and on the schema versions its elif chain names, every share *)
(* holds what the table's columns say.                                     *)
(***************************************************************************)
EXTENDS ShareLoader, TLAPS

\* The share the loader builds for a row of the table, under the branch the
\* elif chain picks for the schema.
LoadedShare(s) == ShareOf(Branch(schema), table[s])

\* The inductive invariant.  Before the loop the dict is empty and the branch
\* is not yet chosen; in the loop every row the for statement has passed has
\* its share and no other id has one; once done with a working connection,
\* every row has its share.
LInv ==
    /\ TypeOK
    /\ pc = "pragma" => loaded = NoShares /\ pending = {}
    /\ pc \in {"select", "loop"} => ~dbFails /\ branch = Branch(schema)
    /\ pc = "select" => loaded = NoShares
    /\ pc = "loop" =>
         /\ pending \subseteq {s \in ShareIds : table[s] # NoRow}
         /\ \A s \in ShareIds :
              loaded[s] = IF table[s] # NoRow /\ s \notin pending
                          THEN LoadedShare(s) ELSE NoShare
    /\ pc = "done" /\ ~dbFails =>
         \A s \in ShareIds :
            loaded[s] = IF table[s] # NoRow THEN LoadedShare(s) ELSE NoShare

USE ShareLoaderAssumption

\* The elif chain always takes a branch: the first one whose columns the
\* table has, the bare 'else' at the latest.
LEMMA BranchChosen ==
    ASSUME NEW cols
    PROVE  /\ Branch(cols) \in 1..5
           /\ Selected[Branch(cols)] \subseteq cols
           /\ \A j \in 1..(Branch(cols) - 1) : ~(Selected[j] \subseteq cols)
  <1> DEFINE Fst(i) == /\ Conditions[i] \subseteq cols
                       /\ \A j \in 1..(i - 1) : ~(Conditions[j] \subseteq cols)
  <1>1. \E i \in 1..5 : Fst(i)
    <2>1. CASE Selected[1] \subseteq cols
      BY <2>1 DEF Conditions
    <2>2. CASE ~(Selected[1] \subseteq cols) /\ Selected[2] \subseteq cols
      <3>1. Fst(2)
        BY <2>2 DEF Conditions
      <3>2. QED
        BY <3>1
    <2>3. CASE ~(Selected[1] \subseteq cols) /\ ~(Selected[2] \subseteq cols)
               /\ Selected[3] \subseteq cols
      <3>1. Fst(3)
        BY <2>3 DEF Conditions
      <3>2. QED
        BY <3>1
    <2>4. CASE ~(Selected[1] \subseteq cols) /\ ~(Selected[2] \subseteq cols)
               /\ ~(Selected[3] \subseteq cols) /\ Selected[4] \subseteq cols
      <3>1. Fst(4)
        BY <2>4 DEF Conditions
      <3>2. QED
        BY <3>1
    <2>5. CASE ~(Selected[1] \subseteq cols) /\ ~(Selected[2] \subseteq cols)
               /\ ~(Selected[3] \subseteq cols) /\ ~(Selected[4] \subseteq cols)
      <3>1. Selected[5] \subseteq cols
        BY DEF Selected
      <3>2. Fst(5)
        BY <2>5, <3>1 DEF Conditions
      <3>3. QED
        BY <3>2
    <2>6. QED
      BY <2>1, <2>2, <2>3, <2>4, <2>5
  <1>2. Fst(Branch(cols))
    BY <1>1 DEF Branch
  <1>3. QED
    BY <1>1, <1>2 DEF Branch, Conditions

\* On a schema version the chain names, it takes that version's branch.
LEMMA BranchOfVersion ==
    ASSUME NEW k \in 1..5
    PROVE  Branch(Selected[k]) = k
  <1> DEFINE b == Branch(Selected[k])
  <1>1. b \in 1..5 /\ Selected[b] \subseteq Selected[k]
        /\ \A j \in 1..(b - 1) : ~(Selected[j] \subseteq Selected[k])
    BY BranchChosen
  <1>2. \A i, j \in 1..5 : Selected[i] \subseteq Selected[j] => j <= i
    BY DEF Selected, OptionalColumns
  <1>3. k <= b
    BY <1>1, <1>2
  <1>4. ~(k < b)
    BY <1>1
  <1>5. QED
    BY <1>3, <1>4, <1>1

\* A selected column keeps a well-formed value and falls back to the
\* field's default otherwise: every json.loads is under its own try.
LEMMA InterpKeeps ==
    ASSUME NEW r \in Row, NEW c \in ShareFields
    PROVE  Interp(c, r[c]) = IF r[c] \in {"list", "value"} THEN r[c]
                             ELSE Default[c]
  BY DEF Interp, JsonLoads, JsonColumns, Default, Row, ShareFields,
         OptionalColumns, JsonValues, ScalarValues

\* Whichever branch builds it, a row's share is a share and has no field
\* that raised.
LEMMA ShareOfShare ==
    ASSUME NEW b \in 1..5, NEW r \in Row
    PROVE  ShareOf(b, r) \in Share /\ ~Raises(ShareOf(b, r))
  <1>1. \A c \in ShareFields :
          ShareOf(b, r)[c] \in {"list", "value", "[]", "None", "static"}
    <2> SUFFICES ASSUME NEW c \in ShareFields
                 PROVE  ShareOf(b, r)[c] \in {"list", "value", "[]", "None", "static"}
      OBVIOUS
    <2>1. Interp(c, r[c]) = IF r[c] \in {"list", "value"} THEN r[c]
                            ELSE Default[c]
      BY InterpKeeps
    <2>2. Default[c] \in {"[]", "None", "static"}
      BY DEF Default, ShareFields, OptionalColumns
    <2>3. QED
      BY <2>1, <2>2 DEF ShareOf
  <1>2. QED
    BY <1>1 DEF Share, ShareOf, Raises

\* On the schema version of branch k, the share branch k builds for a row is
\* the one Expected states column by column.
LEMMA ShareOfVersion ==
    ASSUME NEW k \in 1..5, NEW r \in Row, schema = Selected[k]
    PROVE  ShareOf(k, r) = Expected(r)
  <1> SUFFICES ASSUME NEW c \in ShareFields
               PROVE  ShareOf(k, r)[c] = Expected(r)[c]
    BY DEF ShareOf, Expected
  <1>1. Interp(c, r[c]) = IF r[c] \in {"list", "value"} THEN r[c]
                          ELSE Default[c]
    BY InterpKeeps
  <1>2. QED
    BY <1>1 DEF ShareOf, Expected, SelectedBy

LEMMA LInvInit == Init => LInv
  BY DEF Init, LInv, TypeOK, NoShares

LEMMA LInvStep == LInv /\ [Next]_vars => LInv'
  <1> SUFFICES ASSUME LInv, [Next]_vars PROVE LInv'
    OBVIOUS
  <1> USE DEF LInv, TypeOK
  <1>1. CASE Pragma
    <2>1. CASE dbFails
      <3>1. loaded' = NoShares /\ pc' = "done"
            /\ UNCHANGED <<table, schema, dbFails, branch, pending>>
        BY <1>1, <2>1 DEF Pragma, Fail
      <3>2. QED
        BY <3>1, <2>1 DEF NoShares
    <2>2. CASE ~dbFails
      <3>1. branch' = Branch(schema) /\ pc' = "select"
            /\ UNCHANGED <<table, schema, dbFails, pending, loaded>>
        BY <1>1, <2>2 DEF Pragma
      <3>2. Branch(schema) \in 1..5
        BY BranchChosen
      <3>3. QED
        BY <3>1, <3>2, <2>2, <1>1 DEF Pragma
    <2>3. QED
      BY <2>1, <2>2
  <1>2. CASE Select
    <2>1. SelectedBy(branch) \subseteq schema
      BY <1>2, BranchChosen DEF Select, SelectedBy
    <2>2. pending' = {s \in ShareIds : table[s] # NoRow} /\ pc' = "loop"
          /\ UNCHANGED <<table, schema, dbFails, branch, loaded>>
      BY <1>2, <2>1 DEF Select
    <2>3. QED
      BY <1>2, <2>2 DEF Select, NoShares
  <1>3. CASE LoadRow
    <2>1. PICK sid \in pending :
            LET sh == ShareOf(branch, table[sid])
            IN  IF Raises(sh)
                THEN Fail /\ UNCHANGED pending
                ELSE /\ loaded' = [loaded EXCEPT ![sid] = sh]
                     /\ pending' = pending \ {sid}
                     /\ UNCHANGED pc
      BY <1>3 DEF LoadRow
    <2>2. table[sid] \in Row
      BY <1>3 DEF LoadRow
    <2>3. branch \in 1..5
      BY <1>3, BranchChosen DEF LoadRow
    <2>4. ShareOf(branch, table[sid]) \in Share
          /\ ~Raises(ShareOf(branch, table[sid]))
      BY <2>2, <2>3, ShareOfShare
    <2>5. /\ loaded' = [loaded EXCEPT ![sid] = ShareOf(branch, table[sid])]
          /\ pending' = pending \ {sid}
          /\ UNCHANGED <<pc, table, schema, dbFails, branch>>
      BY <2>1, <2>4, <1>3 DEF LoadRow
    <2>6. QED
      BY <2>5, <2>4, <1>3 DEF LoadRow, LoadedShare
  <1>4. CASE Return
    <2>1. pc = "loop" /\ pending = {} /\ pc' = "done"
          /\ UNCHANGED <<table, schema, dbFails, branch, pending, loaded>>
      BY <1>4 DEF Return
    <2>2. \A s \in ShareIds :
            loaded[s] = IF table[s] # NoRow THEN LoadedShare(s) ELSE NoShare
      BY <2>1
    <2>3. TypeOK'
      BY <2>1
    <2>4. QED
      BY <2>1, <2>2, <2>3 DEF LoadedShare
  <1>5. CASE UNCHANGED vars
    BY <1>5 DEF vars, LoadedShare
  <1>6. QED
    BY <1>1, <1>2, <1>3, <1>4, <1>5 DEF Next

LEMMA LInvRowsKept == LInv => RowsKept
  <1> SUFFICES ASSUME LInv, pc = "done", ~dbFails, NEW s \in ShareIds
               PROVE  (loaded[s] # NoShare) <=> (table[s] # NoRow)
    BY DEF RowsKept
  <1>1. CASE table[s] # NoRow
    <2>1. table[s] \in Row /\ Branch(schema) \in 1..5
      BY <1>1, BranchChosen DEF LInv, TypeOK
    <2>2. LoadedShare(s) \in Share
      BY <2>1, ShareOfShare DEF LoadedShare
    <2>3. QED
      BY <1>1, <2>2 DEF LInv
  <1>2. CASE table[s] = NoRow
    BY <1>2 DEF LInv
  <1>3. QED
    BY <1>1, <1>2

\* For every set of share ids, every table and every schema (not only the
\* versions the elif chain names): when the connection works, _load_shares
\* returns a share for every row.  The branch the chain picks selects only
\* columns the table has, so the SELECT cannot raise, and every json.loads
\* sits in its own try, so the row loop cannot reach the outer except.
THEOREM LoadsEveryRow == Spec => []RowsKept
  <1>1. Init => LInv
    BY LInvInit
  <1>2. LInv /\ [Next]_vars => LInv'
    BY LInvStep
  <1>3. LInv => RowsKept
    BY LInvRowsKept
  <1>4. QED
    BY <1>1, <1>2, <1>3, PTL DEF Spec

LEMMA LInvColumnsHonoured ==
    ASSUME Schemas \subseteq SchemaVersions
    PROVE  LInv => ColumnsHonoured
  <1> SUFFICES ASSUME LInv, pc = "done", ~dbFails, NEW s \in ShareIds,
                      table[s] # NoRow
               PROVE  loaded[s] = Expected(table[s])
    BY DEF ColumnsHonoured
  <1>1. PICK k \in 1..5 : schema = Selected[k]
    BY DEF LInv, TypeOK, SchemaVersions
  <1>2. Branch(schema) = k
    BY <1>1, BranchOfVersion
  <1>3. table[s] \in Row
    BY DEF LInv, TypeOK
  <1>4. ShareOf(k, table[s]) = Expected(table[s])
    BY <1>1, <1>3, ShareOfVersion
  <1>5. QED
    BY <1>2, <1>4 DEF LInv, LoadedShare

\* On each schema version the elif chain of _load_shares names, every share
\* it returns holds exactly what the table's columns say: a well-formed
\* value of a column the table has, and the field's default otherwise.  The
\* hypothesis is needed: on a schema outside the chain (share_type without
\* allowed_users, say) the chain falls back to a branch that ignores a
\* column the table has.
THEOREM HonoursColumns ==
    ASSUME Schemas \subseteq SchemaVersions
    PROVE  Spec => []ColumnsHonoured
  <1>1. Init => LInv
    BY LInvInit
  <1>2. LInv /\ [Next]_vars => LInv'
    BY LInvStep
  <1>3. LInv => ColumnsHonoured
    BY LInvColumnsHonoured
  <1>4. QED
    BY <1>1, <1>2, <1>3, PTL DEF Spec

=============================================================================
