-------------------------- MODULE MCProcessOrders --------------------------
(***************************************************************************)
(* The report against the transactions of other clients.  before is an     *)
(* auxiliary variable: the tables when the process was connected.          *)
(***************************************************************************)
EXTENDS ProcessOrders

VARIABLE before

MCInit == ReportInit /\ before = tables
MCNext == ReportNext /\ before' = IF stage = "connection" THEN tables' ELSE before
MCSpec == MCInit /\ [][MCNext]_<<reportVars, before>>

Lines(table) == {report[i][2] : i \in {i \in DOMAIN report : report[i][1] = table}}

\* The sections whose loop has ended.
Finished ==
    {Sections[k] : k \in {k \in DOMAIN Sections : k < section \/ exit = "success"}}

\* A section that is finished has a line for every row that was there throughout,
\* no row ever has two, and an exit without an error means that all three are
\* finished (main.cpp:132-194).
FinishedSectionsAreComplete ==
    /\ exit = "success" => Finished = Tables
    /\ \A table \in Finished : before[table] \cap tables[table] \subseteq Lines(table)
    /\ \A i, j \in DOMAIN report : report[i] = report[j] => i = j

\* The sections are not of one moment, but of later and later ones.  Provided that
\* a user and its profile are always committed together, the profile of a user that
\* was printed is printed too, unless the account was removed meanwhile, however
\* the transaction that made it met the queries (main.cpp:182-188).
AccountsAreWhole ==
    exit = "success" =>
        \A user \in Lines("users") \cap tables["users"] :
            \E profile \in Lines("profiles") : profile.id = user.id
=============================================================================
