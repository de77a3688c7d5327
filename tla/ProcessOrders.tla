---------------------------- MODULE ProcessOrders ----------------------------
(***************************************************************************)
(* The process ProcessOrdersService (main.cpp): three queries in one       *)
(* transaction and a line of output for every row, while other clients of  *)
(* the database commit transactions of their own.  pqxx::work reads what   *)
(* is committed when a query runs, so every query sees another moment.     *)
(* The Kafka functions of the file are never called.                       *)
(***************************************************************************)
EXTENDS Integers, SequencesExt

CONSTANT
    Ids             \* of orders and of users; an id is given out once

VARIABLES
    tables,         \* the committed rows of the database
    issued,         \* the ids that were given out, per kind
    stage,          \* where main() is: at its connection, a query, or the rows of one
    section,        \* the number of the query
    rows,           \* what is left of its result
    report,         \* what was printed
    exit            \* how main() ended

databaseVars == <<tables, issued>>
processVars == <<stage, section, rows, report, exit>>
reportVars == <<databaseVars, processVars>>

Tables == {"orders", "users", "profiles"}

\* null: a column of the row that is no key holds NULL.
Row == [id : Ids, null : BOOLEAN]

-----------------------------------------------------------------------------
(* The other clients: an account is a user and its profile. *)

Place(kind, id) == id \notin issued[kind] /\ issued' = [issued EXCEPT ![kind] = @ \cup {id}]

PlaceOrder(order) ==
    /\ Place("orders", order.id)
    /\ tables' = [tables EXCEPT !["orders"] = @ \cup {order}]

Register(user, profile) ==
    /\ user.id = profile.id
    /\ Place("users", user.id)
    /\ tables' = [tables EXCEPT !["users"] = @ \cup {user}, !["profiles"] = @ \cup {profile}]

Delete(table, id) ==
    LET removed == IF table = "orders" THEN {"orders"} ELSE {"users", "profiles"}
    IN  /\ \E row \in tables[table] : row.id = id
        /\ tables' = [t \in Tables |-> IF t \in removed
                                       THEN {row \in tables[t] : row.id # id} ELSE tables[t]]
        /\ UNCHANGED issued

Commit ==
    /\ \/ \E order \in Row : PlaceOrder(order)
       \/ \E user, profile \in Row : Register(user, profile)
       \/ \E table \in {"orders", "users"}, id \in Ids : Delete(table, id)
    /\ UNCHANGED processVars

-----------------------------------------------------------------------------
(* The process. *)

\* The profiles come before the users.
SlipSections == <<"orders", "profiles", "users">>

\* CalculateOrderPrice, GetAllUsers, GetAllUserProfiles
Sections == <<"orders", "users", "profiles">>

\* MapRowTo: a member that is no std::optional takes no NULL.
Maps(table, row) == row.null => table = "profiles"

Ends(code) == exit' = code /\ UNCHANGED <<stage, section, rows, report>>

Connect ==
    /\ stage = "connection" /\ stage' = "query"
    /\ UNCHANGED <<section, rows, report, exit>>

\* The connection is lost, or a table has other columns than the code expects.
DatabaseFails == stage # "rows" /\ Ends("database")

\* exec: the whole result, in any order.
Query ==
    /\ stage = "query" /\ stage' = "rows"
    /\ rows' \in SetToSeqs(tables[Sections[section]])
    /\ UNCHANGED <<section, report, exit>>

PrintRow ==
    /\ stage = "rows" /\ rows # << >>
    /\ Maps(Sections[section], Head(rows))
    /\ report' = Append(report, <<Sections[section], Head(rows)>>)
    /\ rows' = Tail(rows)
    /\ UNCHANGED <<stage, section, exit>>

\* The exception ends the section, not the process.
SlipRowFails ==
    /\ stage = "rows" /\ rows # << >>
    /\ ~Maps(Sections[section], Head(rows))
    /\ rows' = << >>
    /\ UNCHANGED <<stage, section, report, exit>>

\* The exception of a row leaves main() too.
RowFails ==
    /\ stage = "rows" /\ rows # << >>
    /\ ~Maps(Sections[section], Head(rows))
    /\ Ends("row")

NextSection ==
    /\ stage = "rows" /\ rows = << >>
    /\ IF section < Len(Sections)
       THEN stage' = "query" /\ section' = section + 1 /\ UNCHANGED <<rows, report, exit>>
       ELSE Ends("success")

Process ==
    /\ exit = "running"
    /\ Connect \/ DatabaseFails \/ Query \/ PrintRow \/ RowFails \/ NextSection
    /\ UNCHANGED databaseVars

ReportInit ==
    /\ tables = [table \in Tables |-> {}]
    /\ issued = [kind \in {"orders", "users"} |-> {}]
    /\ stage = "connection" /\ section = 1 /\ rows = << >>
    /\ report = << >> /\ exit = "running"

ReportNext == Commit \/ Process

ReportSpec == ReportInit /\ [][ReportNext]_reportVars
=============================================================================
