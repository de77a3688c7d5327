----------------------------- MODULE MCOrdersApi -----------------------------
(***************************************************************************)
(* The API with 3-bit ints and 4-bit int64s: every call of the client, and *)
(* every request of up to four segments that starts with "orders".  Beside *)
(* it, and before anything is registered, the texts that parameters may be *)
(* spelled with.                                                           *)
(***************************************************************************)
EXTENDS OrdersApi, ValueText

\* One number beyond int64 on either side, one of each kind within.
MCNumbers == {-9, -8, -5, -4, -1, 0, 1, 3, 4, 7, 8}

MCWords ==
    {Text(t) : t \in {"orders", "remove_all", "name", "gift"}} \cup {Number(n) : n \in -9..8}
MCIntWords == {w \in MCWords : MatchInt(w)}
MCFloatWords == {w \in MCWords : MatchFloat(w)}

MCTexts == {<< >>, << Text("gift") >>, << Number(1) >>, << Text("gift"), Text("name") >>}

\* What may follow "orders": an id or a word, then up to two segments more.
Tails ==
    LET ids == {<< Number(n) >> : n \in MCNumbers}
                   \cup {<< Text("remove_all") >>, << Text("gift") >>}
        ends == {<< >>, << Text("name") >>, << Text("gift") >>,
                 << Text("name"), Text("gift") >>, << Text("name"), Number(1) >>}
    IN  {<< >>} \cup {id \o end : id \in ids, end \in ends}

MCMethods == {"get", "post", "put", "delete"}

MCRequests ==
    {ClientRequest(call) : call \in ClientCalls}
        \cup {Request(method, OrdersPath(tail), NoQuery, body) :
                 method \in MCMethods, tail \in Tails, body \in Bodies}
        \cup {Request("get", OrdersPath(<< Number(1), Text("name") >>),
                      [random |-> word], "none") :
                 word \in {Text("true"), Number(0), Number(3), Text("gift")}}

MCPaths == {request.path : request \in MCRequests}

MCRoutes == [c \in {"orders"} |-> OrdersRoutes]
MCPatterns == {OrdersRoutes[i].path : i \in DOMAIN OrdersRoutes}
\* 4 is an int64 and no int, -4 both, 8 neither.
MCTokens ==
    {"-", "0", "1", "4", "8", ".", "e", "inf", "INF", "inity", "nan", "True", "false"}

\* 880 is the last double, and what an exponent above 1 or below -1 makes of a
\* number other than 0 is none.
MCExtremes ==
    {s \in UNION {[1..n -> MCTokens] : n \in 3..MaxLength} :
        /\ IsFloat(s)
        /\ \E k \in DOMAIN s :
              /\ s[k] = "e" /\ NumberOf(SubSeq(s, k + 1, Len(s))) \notin -1..1
              /\ ToSet(SubSeq(s, 1, k - 1)) \cap {"1", "4", "8"} # {}}

MCInit == ApiInit /\ TextInit

MCNext ==
    \/ text = << >> /\ ApiNext /\ UNCHANGED text
    \/ calls = 0 /\ registering = << >> /\ TextNext /\ UNCHANGED apiVars

MCSpec == MCInit /\ [][MCNext]_<<apiVars, text>>
=============================================================================
