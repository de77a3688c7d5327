------------------------ MODULE ProcessOrdersProofs ------------------------
(***************************************************************************)
(* Theorems about the report, for any ids and any transactions of the      *)
(* other clients.                                                          *)
(***************************************************************************)
EXTENDS MCProcessOrders, FiniteSetTheorems, SequenceTheorems, TLAPS

Kinds == {"orders", "users"}

\* The kind of the ids of a table.
Kind(table) == IF table = "orders" THEN "orders" ELSE "users"

\* What the other clients keep: ids come from issued, and users have profiles.
DatabaseInv ==
    /\ tables \in [Tables -> SUBSET Row]
    /\ issued \in [Kinds -> SUBSET Ids]
    /\ \A table \in Tables : IsFiniteSet(tables[table])
    /\ \A table \in Tables : \A row \in tables[table] : row.id \in issued[Kind(table)]
    /\ \A user \in tables["users"] : \E profile \in tables["profiles"] : profile.id = user.id

ProcessType ==
    /\ stage \in {"connection", "query", "rows"}
    /\ section \in 1..3
    /\ rows \in Seq(Row)
    /\ report \in Seq(Tables \X Row)
    /\ exit \in {"running", "database", "row", "success"}
    /\ before \in [Tables -> SUBSET Row]

\* Whatever the process has seen has an id that is not given out again.
SeenIsIssued ==
    /\ \A table \in Tables : \A row \in before[table] : row.id \in issued[Kind(table)]
    /\ \A i \in DOMAIN report : report[i][2].id \in issued[Kind(report[i][1])]

\* Lines belong to the sections that were reached, and rows to no line yet.
Printing ==
    /\ stage = "connection" => section = 1
    /\ stage # "rows" => rows = << >>
    /\ \A i \in DOMAIN report : \E k \in 1..section : report[i][1] = Sections[k]
    /\ stage # "rows" => \A i \in DOMAIN report : report[i][1] # Sections[section]
    /\ \A i, j \in DOMAIN report : report[i] = report[j] => i = j
    /\ \A i, j \in DOMAIN rows : rows[i] = rows[j] => i = j
    /\ \A i \in DOMAIN report, j \in DOMAIN rows : report[i] # <<Sections[section], rows[j]>>

\* What stays in its table is printed or about to be.
Completing ==
    /\ \A k \in 1..3 : k < section =>
           before[Sections[k]] \cap tables[Sections[k]] \subseteq Lines(Sections[k])
    /\ stage = "rows" =>
           before[Sections[section]] \cap tables[Sections[section]]
               \subseteq Lines(Sections[section]) \cup ToSet(rows)
    /\ exit = "success" => section = 3 /\ stage = "rows" /\ rows = << >>

\* So is the profile of a user that was printed.
Whole ==
    section = 3 /\ stage = "rows" =>
        \A user \in Lines("users") \cap tables["users"] :
            \E profile \in Lines("profiles") \cup ToSet(rows) : profile.id = user.id

\* The ids of the rows of a result were given out, too.
RowsIssued == \A j \in DOMAIN rows : rows[j].id \in issued[Kind(Sections[section])]

ReportInv ==
    /\ DatabaseInv /\ ProcessType /\ SeenIsIssued /\ RowsIssued
    /\ Printing /\ Completing /\ Whole

-----------------------------------------------------------------------------

LEMMA SectionTables ==
    /\ Sections[1] = "orders" /\ Sections[2] = "users" /\ Sections[3] = "profiles"
    /\ Len(Sections) = 3 /\ DOMAIN Sections = 1..3
    /\ \A k \in 1..3 : Sections[k] \in Tables
    /\ \A k, l \in 1..3 : k # l => Sections[k] # Sections[l]
<1>1. /\ Sections[1] = "orders" /\ Sections[2] = "users" /\ Sections[3] = "profiles"
      /\ Len(Sections) = 3 /\ DOMAIN Sections = 1..3
  BY DEF Sections
<1>2. \A k \in 1..3 : k = 1 \/ k = 2 \/ k = 3
  OBVIOUS
<1> QED BY <1>1, <1>2 DEF Tables

\* The result of a query is its table, every row once.
LEMMA ResultIsTable ==
    ASSUME NEW S \in SUBSET Row, IsFiniteSet(S), NEW result \in SetToSeqs(S)
    PROVE  /\ result \in Seq(Row)
           /\ ToSet(result) = S
           /\ \A i, j \in DOMAIN result : result[i] = result[j] => i = j
<1>1. PICK n \in Nat : n = Cardinality(S)
  BY FS_CardinalityType
<1>2. /\ result \in [1..n -> S]
      /\ \A i, j \in 1..n : i # j => result[i] # result[j]
  BY <1>1 DEF SetToSeqs
<1>3. result \in Injection(1..n, S)
  BY <1>2, Zenon DEF Injection, IsInjective
<1>4. Cardinality(1..n) = n
  BY FS_Interval
<1>5. result \in Surjection(1..n, S)
  BY <1>1, <1>3, <1>4, FS_Injection
<1>6. \A x \in S : \E i \in 1..n : result[i] = x
  BY <1>5 DEF Surjection
<1>7. DOMAIN result = 1..n /\ result \in Seq(Row)
  BY <1>2
<1> QED BY <1>2, <1>6, <1>7 DEF ToSet

LEMMA CommitKeeps ==
    ASSUME DatabaseInv, Commit
    PROVE  /\ DatabaseInv'
           /\ \A kind \in Kinds : issued[kind] \subseteq issued'[kind]
           /\ \A table \in Tables : \A row \in tables'[table] :
                  row \in tables[table] \/ row.id \notin issued[Kind(table)]
<1>1. CASE \E order \in Row : PlaceOrder(order)
  <2>1. PICK order \in Row : PlaceOrder(order)
    BY <1>1
  <2>2. /\ order.id \notin issued["orders"] /\ order.id \in Ids
        /\ issued' = [issued EXCEPT !["orders"] = @ \cup {order.id}]
        /\ tables' = [tables EXCEPT !["orders"] = @ \cup {order}]
    BY <2>1 DEF PlaceOrder, Place, Row
  <2>3. IsFiniteSet(tables["orders"] \cup {order})
    BY FS_AddElement DEF DatabaseInv, Tables
  <2>4. /\ tables'["orders"] = tables["orders"] \cup {order}
        /\ tables'["users"] = tables["users"] /\ tables'["profiles"] = tables["profiles"]
        /\ issued'["orders"] = issued["orders"] \cup {order.id}
        /\ issued'["users"] = issued["users"]
        /\ tables' \in [Tables -> SUBSET Row] /\ issued' \in [Kinds -> SUBSET Ids]
    BY <2>2 DEF DatabaseInv, Tables, Kinds
  <2> QED BY <2>2, <2>3, <2>4 DEF DatabaseInv, Tables, Kinds, Kind
<1>2. CASE \E user, profile \in Row : Register(user, profile)
  <2>1. PICK user \in Row, profile \in Row : Register(user, profile)
    BY <1>2
  <2>2. /\ user.id = profile.id /\ user.id \notin issued["users"] /\ user.id \in Ids
        /\ issued' = [issued EXCEPT !["users"] = @ \cup {user.id}]
        /\ tables' = [tables EXCEPT !["users"] = @ \cup {user}, !["profiles"] = @ \cup {profile}]
    BY <2>1 DEF Register, Place, Row
  <2>3. /\ IsFiniteSet(tables["users"] \cup {user})
        /\ IsFiniteSet(tables["profiles"] \cup {profile})
    BY FS_AddElement DEF DatabaseInv, Tables
  <2>4. /\ tables'["orders"] = tables["orders"]
        /\ tables'["users"] = tables["users"] \cup {user}
        /\ tables'["profiles"] = tables["profiles"] \cup {profile}
        /\ issued'["orders"] = issued["orders"]
        /\ issued'["users"] = issued["users"] \cup {user.id}
        /\ tables' \in [Tables -> SUBSET Row] /\ issued' \in [Kinds -> SUBSET Ids]
    BY <2>2 DEF DatabaseInv, Tables, Kinds
  <2> QED BY <2>2, <2>3, <2>4 DEF DatabaseInv, Tables, Kinds, Kind
<1>3. CASE \E table \in {"orders", "users"}, id \in Ids : Delete(table, id)
  <2>1. PICK removed \in {{"orders"}, {"users", "profiles"}}, id \in Ids :
            /\ tables' = [t \in Tables |-> IF t \in removed
                                           THEN {row \in tables[t] : row.id # id} ELSE tables[t]]
            /\ issued' = issued
    BY <1>3 DEF Delete
  <2>2. \A t \in Tables :
            tables'[t] = IF t \in removed THEN {row \in tables[t] : row.id # id} ELSE tables[t]
    BY <2>1
  <2>3. \A t \in Tables : tables'[t] \subseteq tables[t]
    BY <2>2
  <2>4. \A t \in Tables : IsFiniteSet(tables'[t])
    BY <2>3, FS_Subset DEF DatabaseInv
  <2>5. tables' \in [Tables -> SUBSET Row]
    BY <2>1, <2>3 DEF DatabaseInv
  <2>6. \A user \in tables'["users"] : \E profile \in tables'["profiles"] : profile.id = user.id
    <3>1. "users" \in Tables /\ "profiles" \in Tables /\ ("users" \in removed <=> "profiles" \in removed)
      BY DEF Tables
    <3> SUFFICES ASSUME NEW user \in tables'["users"]
                 PROVE  \E profile \in tables'["profiles"] : profile.id = user.id
      OBVIOUS
    <3>2. user \in tables["users"] /\ ("users" \in removed => user.id # id)
      BY <2>2, <3>1
    <3>3. PICK profile \in tables["profiles"] : profile.id = user.id
      BY <3>2 DEF DatabaseInv
    <3>4. profile \in tables'["profiles"]
      BY <2>2, <3>1, <3>2, <3>3
    <3> QED BY <3>3, <3>4
  <2>7. \A t \in Tables : \A row \in tables'[t] : row.id \in issued'[Kind(t)]
    BY <2>1, <2>3 DEF DatabaseInv
  <2> QED BY <2>1, <2>3, <2>4, <2>5, <2>6, <2>7 DEF DatabaseInv
<1> QED BY <1>1, <1>2, <1>3 DEF Commit

-----------------------------------------------------------------------------
(* The steps.  before is the tables until the process is connected, and does *)
(* not change afterwards.                                                    *)

Keeping == before' = IF stage = "connection" THEN tables' ELSE before

LEMMA CommitStep ==
    ASSUME ReportInv, Commit, Keeping
    PROVE  ReportInv'
<1>1. /\ DatabaseInv' /\ \A kind \in Kinds : issued[kind] \subseteq issued'[kind]
      /\ \A table \in Tables : \A row \in tables'[table] :
             row \in tables[table] \/ row.id \notin issued[Kind(table)]
  BY CommitKeeps DEF ReportInv
<1>2. /\ stage' = stage /\ section' = section /\ rows' = rows /\ report' = report
      /\ exit' = exit
  BY DEF Commit, processVars
<1>3. \A table : Lines(table)' = Lines(table)
  BY <1>2 DEF Lines
<1>4. /\ ProcessType /\ SeenIsIssued /\ RowsIssued /\ Printing /\ Completing /\ Whole
      /\ section \in 1..3 /\ report \in Seq(Tables \X Row)
  BY DEF ReportInv, ProcessType
<1>5. \A table : Kind(table) \in Kinds
  BY DEF Kind, Kinds
<1>6. ProcessType'
  BY <1>1, <1>2, <1>4 DEF ProcessType, DatabaseInv, Keeping
<1>7. SeenIsIssued'
  <2>1. \A table \in Tables : \A row \in before'[table] : row.id \in issued'[Kind(table)]
    <3>1. CASE stage = "connection"
      BY <1>1, <3>1 DEF DatabaseInv, Keeping
    <3>2. CASE stage # "connection"
      BY <1>1, <1>4, <1>5, <3>2 DEF SeenIsIssued, Keeping
    <3> QED BY <3>1, <3>2
  <2>2. \A i \in DOMAIN report : report[i][2].id \in issued'[Kind(report[i][1])]
    BY <1>1, <1>4, <1>5 DEF SeenIsIssued
  <2> QED BY <1>2, <2>1, <2>2 DEF SeenIsIssued
<1>8. RowsIssued'
  BY <1>1, <1>2, <1>4, <1>5 DEF RowsIssued
<1>9. Printing'
  BY <1>2, <1>4 DEF Printing
<1>10. Completing'
  <2>1. CASE stage = "connection"
    <3>1. section = 1 /\ exit # "success"
      BY <1>4, <2>1 DEF Printing, Completing
    <3> QED BY <1>2, <1>4, <2>1, <3>1 DEF Completing
  <2>2. CASE stage # "connection"
    <3>1. before' = before
      BY <2>2 DEF Keeping
    <3>2. ASSUME NEW table \in Tables
          PROVE  before'[table] \cap tables'[table] \subseteq before[table] \cap tables[table]
      BY <1>1, <1>4, <3>1 DEF SeenIsIssued
    <3>3. ASSUME NEW k \in 1..3, k < section
          PROVE  before'[Sections[k]] \cap tables'[Sections[k]] \subseteq Lines(Sections[k])
      BY <1>4, <3>2, <3>3, SectionTables DEF Completing
    <3>4. stage = "rows" =>
              before'[Sections[section]] \cap tables'[Sections[section]]
                  \subseteq Lines(Sections[section]) \cup ToSet(rows)
      BY <1>4, <3>2, SectionTables DEF Completing
    <3> QED BY <1>2, <1>3, <1>4, <3>3, <3>4 DEF Completing
  <2> QED BY <2>1, <2>2
<1>11. Whole'
  <2> SUFFICES ASSUME section = 3 /\ stage = "rows",
                      NEW user \in Lines("users") \cap tables'["users"]
               PROVE  \E profile \in Lines("profiles") \cup ToSet(rows) : profile.id = user.id
    BY <1>2, <1>3 DEF Whole
  <2>1. PICK i \in DOMAIN report : report[i][1] = "users" /\ report[i][2] = user
    BY DEF Lines
  <2>2. user.id \in issued[Kind("users")]
    BY <1>4, <2>1 DEF SeenIsIssued
  <2>3. user \in tables["users"]
    BY <1>1, <2>2 DEF Tables
  <2> QED BY <1>4, <2>3 DEF Whole
<1> QED BY <1>1, <1>6, <1>7, <1>8, <1>9, <1>10, <1>11 DEF ReportInv

\* The process has stopped, and what it has seen and printed stays.
LEMMA EndStep ==
    ASSUME ReportInv, Keeping, NEW code \in {"database", "row", "success"}, Ends(code),
           UNCHANGED databaseVars,
           code = "success" => section = 3 /\ stage = "rows" /\ rows = << >>
    PROVE  ReportInv'
<1>1. /\ stage' = stage /\ section' = section /\ rows' = rows /\ report' = report
      /\ exit' = code /\ tables' = tables /\ issued' = issued
  BY DEF Ends, databaseVars
<1>2. \A table : Lines(table)' = Lines(table)
  BY <1>1 DEF Lines
<1>3. /\ DatabaseInv /\ ProcessType /\ SeenIsIssued /\ RowsIssued /\ Printing /\ Completing
      /\ Whole
  BY DEF ReportInv
<1>4. before' = before \/ (before' = tables /\ section = 1 /\ stage = "connection")
  BY <1>1, <1>3 DEF Keeping, Printing
<1>5. DatabaseInv' /\ RowsIssued' /\ Printing'
  BY <1>1, <1>3 DEF DatabaseInv, RowsIssued, Printing
<1>6. ProcessType' /\ SeenIsIssued'
  BY <1>1, <1>3, <1>4 DEF ProcessType, SeenIsIssued, DatabaseInv
<1>7. Completing'
  <2>1. CASE before' = before
    BY <1>1, <1>2, <1>3, <2>1 DEF Completing
  <2>2. CASE section = 1 /\ stage = "connection"
    BY <1>1, <1>3, <2>2 DEF Completing, Printing
  <2> QED BY <1>4, <2>1, <2>2
<1>8. Whole'
  BY <1>1, <1>2, <1>3 DEF Whole
<1> QED BY <1>5, <1>6, <1>7, <1>8 DEF ReportInv

LEMMA ConnectStep ==
    ASSUME ReportInv, Keeping, Connect, UNCHANGED databaseVars
    PROVE  ReportInv'
<1>1. /\ stage = "connection" /\ stage' = "query" /\ section' = section /\ rows' = rows
      /\ report' = report /\ exit' = exit /\ tables' = tables /\ issued' = issued
      /\ before' = tables
  BY DEF Connect, databaseVars, Keeping
<1>2. /\ DatabaseInv /\ ProcessType /\ SeenIsIssued /\ RowsIssued /\ Printing /\ Completing
      /\ section = 1 /\ exit # "success"
  BY <1>1 DEF ReportInv, Printing, Completing
<1>3. DatabaseInv' /\ RowsIssued' /\ Printing'
  BY <1>1, <1>2 DEF DatabaseInv, RowsIssued, Printing
<1>4. ProcessType' /\ SeenIsIssued'
  BY <1>1, <1>2 DEF ProcessType, SeenIsIssued, DatabaseInv
<1>5. Completing' /\ Whole'
  BY <1>1, <1>2 DEF Completing, Whole
<1> QED BY <1>3, <1>4, <1>5 DEF ReportInv

LEMMA QueryStep ==
    ASSUME ReportInv, Keeping, Query, UNCHANGED databaseVars
    PROVE  ReportInv'
<1> DEFINE table == Sections[section]
<1>1. /\ stage = "query" /\ stage' = "rows" /\ section' = section
      /\ rows' \in SetToSeqs(tables[table])
      /\ report' = report /\ exit' = exit /\ tables' = tables /\ issued' = issued
      /\ before' = before
  BY DEF Query, databaseVars, Keeping
<1>2. /\ DatabaseInv /\ ProcessType /\ SeenIsIssued /\ Printing /\ Completing
      /\ section \in 1..3 /\ report \in Seq(Tables \X Row)
  BY DEF ReportInv, ProcessType
<1>3. table \in Tables
  BY <1>2, SectionTables
<1>4. /\ rows' \in Seq(Row) /\ ToSet(rows') = tables[table]
      /\ \A i, j \in DOMAIN rows' : rows'[i] = rows'[j] => i = j
  <2>1. tables[table] \in SUBSET Row /\ IsFiniteSet(tables[table])
    BY <1>2, <1>3 DEF DatabaseInv
  <2> HIDE DEF table
  <2> QED BY <1>1, <2>1, ResultIsTable
<1>5. \A t : Lines(t)' = Lines(t)
  BY <1>1 DEF Lines
<1>6. DatabaseInv' /\ SeenIsIssued'
  BY <1>1, <1>2 DEF DatabaseInv, SeenIsIssued
<1>7. ProcessType'
  BY <1>1, <1>2, <1>4 DEF ProcessType
<1>8. RowsIssued'
  <2>1. \A j \in DOMAIN rows' : rows'[j] \in tables[table]
    BY <1>4 DEF ToSet
  <2> QED BY <1>1, <1>2, <1>3, <2>1 DEF RowsIssued, DatabaseInv
<1>9. Printing'
  <2>1. \A i \in DOMAIN report : report[i][1] # table
    BY <1>1, <1>2 DEF Printing
  <2> QED BY <1>1, <1>2, <1>4, <2>1 DEF Printing
<1>10. Completing'
  <2>1. exit # "success"
    BY <1>1, <1>2 DEF Completing
  <2> QED BY <1>1, <1>2, <1>4, <1>5, <2>1 DEF Completing
<1>11. Whole'
  <2> SUFFICES ASSUME section = 3, NEW user \in tables["users"]
               PROVE  \E profile \in ToSet(rows') : profile.id = user.id
    BY <1>1 DEF Whole
  <2>1. table = "profiles"
    BY SectionTables
  <2> QED BY <1>2, <1>4, <2>1 DEF DatabaseInv
<1> QED BY <1>6, <1>7, <1>8, <1>9, <1>10, <1>11 DEF ReportInv

LEMMA PrintRowStep ==
    ASSUME ReportInv, Keeping, PrintRow, UNCHANGED databaseVars
    PROVE  ReportInv'
<1> DEFINE row == Head(rows)
<1>0. PICK table \in Tables : table = Sections[section]
  BY SectionTables DEF ReportInv, ProcessType
<1>1. /\ stage = "rows" /\ stage' = stage /\ section' = section /\ rows # << >>
      /\ report' = Append(report, <<table, row>>) /\ rows' = Tail(rows)
      /\ exit' = exit /\ tables' = tables /\ issued' = issued /\ before' = before
  BY <1>0 DEF PrintRow, databaseVars, Keeping
<1>2. /\ DatabaseInv /\ ProcessType /\ SeenIsIssued /\ RowsIssued /\ Printing /\ Completing
      /\ Whole /\ section \in 1..3 /\ report \in Seq(Tables \X Row) /\ rows \in Seq(Row)
  BY DEF ReportInv, ProcessType
<1>4. PICK n \in Nat, m \in Nat : n = Len(report) /\ Len(rows) = m + 1
  <2>1. Len(rows) \in Nat /\ Len(rows) # 0 /\ Len(report) \in Nat
    BY <1>1, <1>2
  <2>2. (Len(rows) - 1) \in Nat /\ Len(rows) = (Len(rows) - 1) + 1
    BY <2>1
  <2> QED BY <2>1, <2>2
<1>5. /\ row \in Row /\ row = rows[1] /\ 1 \in DOMAIN rows /\ DOMAIN rows = 1..(m + 1)
      /\ rows' \in Seq(Row) /\ DOMAIN rows' = 1..m /\ \A j \in 1..m : rows'[j] = rows[j + 1]
  BY <1>1, <1>2, <1>4
<1>6. /\ report' \in Seq(Tables \X Row) /\ DOMAIN report = 1..n /\ DOMAIN report' = 1..(n + 1)
      /\ report'[n + 1] = <<table, row>> /\ \A i \in 1..n : report'[i] = report[i]
  BY <1>1, <1>0, <1>2, <1>4, <1>5
<1> HIDE DEF row
<1>7. \A i \in 1..(n + 1) : i \in 1..n \/ i = n + 1
  OBVIOUS
<1>8. ASSUME NEW t, NEW x
      PROVE  x \in Lines(t)' <=> x \in Lines(t) \/ (t = table /\ x = row)
  <2>1. \A i \in DOMAIN report' : \/ i \in DOMAIN report /\ report'[i] = report[i]
                                  \/ i = n + 1 /\ report'[i] = <<table, row>>
    BY <1>6, <1>7
  <2>2. /\ \A i \in DOMAIN report : i \in DOMAIN report' /\ report'[i] = report[i]
        /\ n + 1 \in DOMAIN report' /\ report'[n + 1] = <<table, row>>
    BY <1>6
  <2>3. <<table, row>>[1] = table /\ <<table, row>>[2] = row
    OBVIOUS
  <2>4. x \in Lines(t)' <=> \E i \in DOMAIN report' : report'[i][1] = t /\ report'[i][2] = x
    BY DEF Lines
  <2>5. x \in Lines(t) <=> \E i \in DOMAIN report : report[i][1] = t /\ report[i][2] = x
    BY DEF Lines
  <2>6. CASE \E i \in DOMAIN report' : report'[i][1] = t /\ report'[i][2] = x
    BY <2>1, <2>3, <2>4, <2>5, <2>6
  <2>7. CASE x \in Lines(t)
    BY <2>2, <2>4, <2>5, <2>7
  <2>8. CASE t = table /\ x = row
    BY <2>2, <2>3, <2>4, <2>8
  <2> QED BY <2>4, <2>6, <2>7, <2>8
<1>9. ToSet(rows) = {row} \cup ToSet(rows')
  <2>1. \A j \in 1..(m + 1) : j = 1 \/ \E k \in 1..m : j = k + 1
    <3> SUFFICES ASSUME NEW j \in 1..(m + 1), j # 1
                 PROVE  \E k \in 1..m : j = k + 1
      OBVIOUS
    <3>1. (j - 1) \in 1..m /\ j = (j - 1) + 1
      OBVIOUS
    <3> QED BY <3>1
  <2>2. \A k \in 1..m : k + 1 \in 1..(m + 1)
    OBVIOUS
  <2>3. \A x : x \in ToSet(rows') => x \in ToSet(rows)
    BY <1>5, <2>2 DEF ToSet
  <2>4. \A x : x \in ToSet(rows) => x = row \/ x \in ToSet(rows')
    <3> SUFFICES ASSUME NEW j \in 1..(m + 1)
                 PROVE  rows[j] = row \/ rows[j] \in ToSet(rows')
      BY <1>5 DEF ToSet
    <3>1. CASE j = 1
      BY <1>5, <3>1
    <3>2. CASE \E k \in 1..m : j = k + 1
      BY <1>5, <3>2 DEF ToSet
    <3> QED BY <2>1, <3>1, <3>2
  <2>5. row \in ToSet(rows)
    BY <1>5 DEF ToSet
  <2> QED BY <2>3, <2>4, <2>5
<1>10. DatabaseInv' /\ ProcessType'
  BY <1>1, <1>2, <1>5, <1>6 DEF DatabaseInv, ProcessType
<1>11. row.id \in issued[Kind(table)]
  BY <1>0, <1>2, <1>5 DEF RowsIssued
<1>12. SeenIsIssued'
  <2>1. \A i \in DOMAIN report' : report'[i][2].id \in issued[Kind(report'[i][1])]
    BY <1>2, <1>6, <1>7, <1>11 DEF SeenIsIssued
  <2> QED BY <1>1, <1>2, <2>1 DEF SeenIsIssued
<1>13. RowsIssued'
  BY <1>1, <1>2, <1>5 DEF RowsIssued
<1>14. Printing'
  <2>1. \A i \in DOMAIN report' : \E k \in 1..section : report'[i][1] = Sections[k]
    <3>1. section \in 1..section
      BY <1>2
    <3> SUFFICES ASSUME NEW i \in DOMAIN report'
                 PROVE  \E k \in 1..section : report'[i][1] = Sections[k]
      OBVIOUS
    <3>2. CASE i = n + 1
      BY <1>0, <1>6, <3>1, <3>2
    <3>3. CASE i \in 1..n
      <4>1. i \in DOMAIN report /\ report'[i] = report[i]
        BY <1>6, <3>3
      <4> QED BY <1>2, <4>1 DEF Printing
    <3> QED BY <1>6, <1>7, <3>2, <3>3
  <2>2. \A i \in 1..n : report[i] # <<table, row>>
    BY <1>0, <1>2, <1>5, <1>6 DEF Printing
  <2>3. \A i, j \in DOMAIN report' : report'[i] = report'[j] => i = j
    BY <1>2, <1>6, <1>7, <2>2 DEF Printing
  <2>4. \A i, j \in DOMAIN rows' : rows'[i] = rows'[j] => i = j
    <3> SUFFICES ASSUME NEW i \in 1..m, NEW j \in 1..m, rows'[i] = rows'[j]
                 PROVE  i = j
      BY <1>5
    <3>1. i + 1 \in DOMAIN rows /\ j + 1 \in DOMAIN rows /\ rows[i + 1] = rows[j + 1]
      BY <1>5
    <3>2. i + 1 = j + 1
      BY <1>2, <3>1 DEF Printing
    <3> QED BY <3>2
  <2>5. \A i \in DOMAIN report', j \in DOMAIN rows' : report'[i] # <<table, rows'[j]>>
    <3> SUFFICES ASSUME NEW i \in DOMAIN report', NEW j \in DOMAIN rows'
                 PROVE  report'[i] # <<table, rows'[j]>>
      OBVIOUS
    <3>1. PICK k \in DOMAIN rows : k # 1 /\ rows'[j] = rows[k]
      <4>1. j \in 1..m /\ j + 1 \in 1..(m + 1) /\ j + 1 # 1
        BY <1>5
      <4> QED BY <1>5, <4>1
    <3>2. rows[k] # row
      BY <1>2, <1>5, <3>1 DEF Printing
    <3>3. CASE i \in 1..n
      <4>1. i \in DOMAIN report /\ report'[i] = report[i]
        BY <1>6, <3>3
      <4>2. report[i] # <<table, rows[k]>>
        BY <1>0, <1>2, <4>1 DEF Printing
      <4> QED BY <3>1, <4>1, <4>2
    <3>4. CASE i = n + 1
      BY <1>6, <3>1, <3>2, <3>4
    <3> QED BY <1>6, <1>7, <3>3, <3>4
  <2> QED BY <1>0, <1>1, <1>2, <2>1, <2>3, <2>4, <2>5 DEF Printing
<1>15. ASSUME NEW t
       PROVE  Lines(t) \subseteq Lines(t)'
  <2>1. \A x : x \in Lines(t) => x \in Lines(t)'
    BY <1>8, Zenon
  <2> QED BY <2>1, Zenon
<1>16. Completing'
  <2>1. \A k \in 1..3 : k < section =>
            before[Sections[k]] \cap tables[Sections[k]] \subseteq Lines(Sections[k])'
    BY <1>2, <1>15 DEF Completing
  <2>2. before[table] \cap tables[table] \subseteq Lines(table)' \cup ToSet(rows')
    <3>1. before[table] \cap tables[table] \subseteq Lines(table) \cup {row} \cup ToSet(rows')
      BY <1>0, <1>1, <1>2, <1>9 DEF Completing
    <3>2. row \in Lines(table)'
      BY <1>8, Zenon
    <3>3. Lines(table) \subseteq Lines(table)'
      BY <1>15, Zenon
    <3> QED BY <3>1, <3>2, <3>3, Zenon
  <2>3. exit # "success"
    BY <1>1, <1>2 DEF Completing
  <2> QED BY <1>0, <1>1, <2>1, <2>2, <2>3 DEF Completing
<1>17. Whole'
  <2> SUFFICES ASSUME section = 3, NEW user \in Lines("users")' \cap tables["users"]
               PROVE  \E profile \in Lines("profiles")' \cup ToSet(rows') : profile.id = user.id
    BY <1>1 DEF Whole
  <2>1. table = "profiles"
    BY <1>0, SectionTables
  <2>2. user \in Lines("users")
    <3>1. table # "users"
      BY <2>1
    <3> QED BY <1>8, <3>1, Zenon
  <2>3. PICK profile \in Lines("profiles") \cup ToSet(rows) : profile.id = user.id
    BY <1>1, <1>2, <2>2 DEF Whole
  <2>4. profile \in Lines(table) \/ profile = row \/ profile \in ToSet(rows')
    BY <1>9, <2>1, <2>3
  <2>5. profile \in Lines("profiles")' \/ profile \in ToSet(rows')
    BY <1>8, <2>1, <2>4, Zenon
  <2> QED BY <2>3, <2>5
<1> QED BY <1>10, <1>12, <1>13, <1>14, <1>16, <1>17 DEF ReportInv

LEMMA NextSectionStep ==
    ASSUME ReportInv, Keeping, NextSection, UNCHANGED databaseVars
    PROVE  ReportInv'
<1>1. /\ stage = "rows" /\ rows = << >> /\ tables' = tables /\ issued' = issued
      /\ before' = before
  BY DEF NextSection, databaseVars, Keeping
<1>2. /\ DatabaseInv /\ ProcessType /\ SeenIsIssued /\ Printing /\ Completing /\ Whole
      /\ section \in 1..3 /\ report \in Seq(Tables \X Row)
  BY DEF ReportInv, ProcessType
<1>3. CASE section < 3
  <2>1. /\ stage' = "query" /\ section' = section + 1 /\ rows' = rows /\ report' = report
        /\ exit' = exit
    BY <1>3, SectionTables DEF NextSection
  <2>2. section + 1 \in 1..3 /\ section + 1 # section
    BY <1>2, <1>3
  <2>3. \A t : Lines(t)' = Lines(t)
    BY <2>1 DEF Lines
  <2>4. DatabaseInv' /\ ProcessType' /\ SeenIsIssued'
    BY <1>1, <1>2, <2>1, <2>2 DEF DatabaseInv, ProcessType, SeenIsIssued
  <2>5. RowsIssued'
    BY <1>1, <2>1 DEF RowsIssued
  <2>6. Printing'
    <3>1. \A i \in DOMAIN report : \E k \in 1..section : report[i][1] = Sections[k]
      BY <1>2 DEF Printing
    <3>2. \A k \in 1..section : k \in 1..3 /\ k \in 1..(section + 1) /\ k # section + 1
      BY <1>2
    <3>3. \A i \in DOMAIN report : /\ \E k \in 1..(section + 1) : report[i][1] = Sections[k]
                                   /\ report[i][1] # Sections[section + 1]
      BY <2>2, <3>1, <3>2, SectionTables
    <3>4. DOMAIN rows = {}
      BY <1>1
    <3> QED BY <1>1, <1>2, <2>1, <3>3, <3>4 DEF Printing
  <2>7. Completing'
    <3>1. ToSet(rows) = {}
      BY <1>1 DEF ToSet
    <3>2. \A k \in 1..3 : k < section + 1 => k < section \/ k = section
      BY <1>2
    <3>3. \A k \in 1..3 : k < section + 1 =>
              before[Sections[k]] \cap tables[Sections[k]] \subseteq Lines(Sections[k])
      BY <1>1, <1>2, <3>1, <3>2 DEF Completing
    <3>4. exit # "success"
      BY <1>2, <1>3 DEF Completing
    <3> QED BY <1>1, <2>1, <2>3, <3>3, <3>4 DEF Completing
  <2>8. Whole'
    BY <2>1 DEF Whole
  <2> QED BY <2>4, <2>5, <2>6, <2>7, <2>8 DEF ReportInv
<1>4. CASE ~(section < 3)
  <2>1. Ends("success") /\ section = 3
    BY <1>2, <1>4, SectionTables DEF NextSection
  <2> QED BY <1>1, <2>1, EndStep
<1> QED BY <1>3, <1>4

-----------------------------------------------------------------------------
(* The theorems. *)

\* What the process has seen of the tables, and how its report relates to them,
\* at every moment between the other clients' transactions (main.cpp:132-194).
THEOREM ReportInvariant == MCSpec => []ReportInv
<1>1. MCInit => ReportInv
  <2> SUFFICES ASSUME MCInit
               PROVE  ReportInv
    OBVIOUS
  <2>1. /\ tables = [table \in Tables |-> {}] /\ issued = [kind \in Kinds |-> {}]
        /\ stage = "connection" /\ section = 1 /\ rows = << >>
        /\ report = << >> /\ exit = "running" /\ before = tables
    BY DEF MCInit, ReportInit, Kinds
  <2>2. \A table \in Tables : tables[table] = {} /\ before[table] = {}
    BY <2>1
  <2>3. "users" \in Tables /\ IsFiniteSet({})
    BY FS_EmptySet DEF Tables
  <2>4. DatabaseInv
    BY <2>1, <2>2, <2>3 DEF DatabaseInv
  <2>5. ProcessType
    BY <2>1 DEF ProcessType
  <2>6. DOMAIN rows = {} /\ DOMAIN report = {}
    BY <2>1
  <2>7. SeenIsIssued /\ RowsIssued
    BY <2>2, <2>6 DEF SeenIsIssued, RowsIssued
  <2>8. Printing /\ Completing /\ Whole
    BY <2>1, <2>6 DEF Printing, Completing, Whole
  <2> QED BY <2>4, <2>5, <2>7, <2>8 DEF ReportInv
<1>2. ReportInv /\ [MCNext]_<<reportVars, before>> => ReportInv'
  <2> SUFFICES ASSUME ReportInv, [MCNext]_<<reportVars, before>>
               PROVE  ReportInv'
    OBVIOUS
  <2>1. CASE MCNext
    <3>1. Keeping
      BY <2>1 DEF MCNext, Keeping
    <3>2. CASE Commit
      BY <3>1, <3>2, CommitStep
    <3>3. CASE Process
      <4>1. UNCHANGED databaseVars
        BY <3>3 DEF Process
      <4>2. CASE DatabaseFails
        BY <3>1, <4>1, <4>2, EndStep DEF DatabaseFails
      <4>3. CASE RowFails
        BY <3>1, <4>1, <4>3, EndStep DEF RowFails
      <4>4. CASE Connect \/ Query \/ PrintRow \/ NextSection
        BY <3>1, <4>1, <4>4, ConnectStep, QueryStep, PrintRowStep, NextSectionStep
      <4> QED BY <3>3, <4>2, <4>3, <4>4 DEF Process
    <3> QED BY <2>1, <3>2, <3>3 DEF MCNext, ReportNext
  <2>2. CASE UNCHANGED <<reportVars, before>>
    <3>1. /\ tables' = tables /\ issued' = issued /\ stage' = stage /\ section' = section
          /\ rows' = rows /\ report' = report /\ exit' = exit /\ before' = before
      BY <2>2 DEF reportVars, databaseVars, processVars
    <3>2. \A table : Lines(table)' = Lines(table)
      BY <3>1 DEF Lines
    <3> QED BY <3>1, <3>2 DEF ReportInv, DatabaseInv, ProcessType, SeenIsIssued, RowsIssued,
               Printing, Completing, Whole
  <2> QED BY <2>1, <2>2
<1> QED BY <1>1, <1>2, PTL DEF MCSpec

\* For any transactions of the other clients, every section that is finished has
\* every row that was there throughout, no row has two lines, and an exit without
\* an error means that all three are finished (main.cpp:132-194).
THEOREM SectionsComplete == MCSpec => []FinishedSectionsAreComplete
<1>1. ReportInv => FinishedSectionsAreComplete
  <2> SUFFICES ASSUME ReportInv
               PROVE  FinishedSectionsAreComplete
    OBVIOUS
  <2>1. Completing /\ Printing /\ section \in 1..3
    BY DEF ReportInv, ProcessType
  <2>2. exit = "success" => Finished = Tables
    BY SectionTables DEF Finished, Tables
  <2>3. ASSUME NEW table \in Finished
        PROVE  before[table] \cap tables[table] \subseteq Lines(table)
    <3>1. PICK k \in 1..3 : table = Sections[k] /\ (k < section \/ exit = "success")
      BY <2>3, SectionTables DEF Finished
    <3>2. CASE k < section
      BY <2>1, <3>1, <3>2 DEF Completing
    <3>3. CASE ~(k < section)
      <4>1. section = 3 /\ k = section /\ stage = "rows" /\ ToSet(rows) = {}
        BY <2>1, <3>1, <3>3 DEF Completing, ToSet
      <4> QED BY <2>1, <3>1, <4>1 DEF Completing
    <3> QED BY <3>2, <3>3
  <2> QED BY <2>1, <2>2, <2>3 DEF FinishedSectionsAreComplete, Printing
<1> QED BY <1>1, ReportInvariant, PTL

\* For any transactions of the other clients, a report that was finished has the
\* profile of every user it names who still has an account (main.cpp:182-188).
THEOREM AccountsWhole == MCSpec => []AccountsAreWhole
<1>1. ReportInv => AccountsAreWhole
  <2> SUFFICES ASSUME ReportInv, exit = "success",
                      NEW user \in Lines("users") \cap tables["users"]
               PROVE  \E profile \in Lines("profiles") : profile.id = user.id
    BY DEF AccountsAreWhole
  <2>1. section = 3 /\ stage = "rows" /\ ToSet(rows) = {}
    BY DEF ReportInv, Completing, ToSet
  <2> QED BY <2>1 DEF ReportInv, Whole
<1> QED BY <1>1, ReportInvariant, PTL
=============================================================================
