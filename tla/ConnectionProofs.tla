-------------------------- MODULE ConnectionProofs --------------------------
(***************************************************************************)
(* Theorems about a connection, for any requests, any scripts of them, any *)
(* number of connections and every request limit.                          *)
(***************************************************************************)
EXTENDS MCConnection, SessionProofs, WellFoundedInduction

-----------------------------------------------------------------------------
(* What is under way in a session: an operation, or the handler that waits *)
(* on its strand to carry the chain on.                                    *)

InFlight(r) == r.ops \cup {r.strand[i] : i \in Pending(r)}

ChainNames == {"Run", "read_ok", "read_timeout", "read_eof", "read_error",
               "write_ok", "write_error"}

LEMMA ChainIsNamed == Chain = ChainNames
BY DEF Chain, Completions, ReadOutcomes, WriteOutcomes, ChainNames

LEMMA OneInFlight ==
    ASSUME NEW r, RecordInv(r)
    PROVE  /\ InFlight(r) \subseteq {"read", "write"} \cup ChainNames
           /\ \A x, y \in InFlight(r) : x = y
           /\ \A op \in {"read", "write"} : op \in r.ops <=> op \in InFlight(r)
           /\ Quiet(r) <=> InFlight(r) = {}
<1>1. r \in SessionRecord /\ OneChain(r)
  BY DEF RecordInv
<1>2. r.ops \subseteq {"read", "write"} /\ \A i \in Pending(r) : r.strand[i] \in ChainNames
  BY <1>1, ChainIsNamed DEF SessionRecord, Pending
<1>3. "read" \notin ChainNames /\ "write" \notin ChainNames
  BY DEF ChainNames
<1>4. \A x, y \in r.ops : x = y
  BY <1>1, <1>2 DEF OneChain
<1>5. \A x, y \in InFlight(r) : x = y
  BY <1>1, <1>4 DEF OneChain, InFlight
<1> QED BY <1>2, <1>3, <1>5 DEF InFlight, Quiet

LEMMA PostFlow ==
    ASSUME NEW r \in SessionRecord, NEW h \in Handlers
    PROVE  /\ Post(r, h) \in SessionRecord /\ Carries(Post(r, h), r)
           /\ InFlight(Post(r, h)) = InFlight(r) \cup (IF h \in ChainNames THEN {h} ELSE {})
<1> DEFINE s == Post(r, h)
           n == Len(r.strand) + 1
<1>1. /\ s \in SessionRecord /\ Carries(s, r) /\ s.ops = r.ops
      /\ Pending(s) = Pending(r) \cup (IF h \in ChainNames THEN {n} ELSE {})
      /\ s.strand[n] = h
      /\ \A i \in Pending(r) : s.strand[i] = r.strand[i]
  BY PostPending, ChainIsNamed
<1> HIDE DEF s, n
<1>2. InFlight(s) = InFlight(r) \cup (IF h \in ChainNames THEN {h} ELSE {})
  BY <1>1 DEF InFlight
<1> QED BY <1>1, <1>2 DEF s

\* A call is taken from the strand, or a handler of the chain, which is then all
\* that was under way.
LEMMA PopFlow ==
    ASSUME NEW r, RecordInv(r), r.strand # << >>
    PROVE  /\ Pop(r) \in SessionRecord /\ Carries(Pop(r), r)
           /\ Head(r.strand) \notin ChainNames => InFlight(Pop(r)) = InFlight(r)
           /\ Head(r.strand) \in ChainNames => /\ InFlight(r) = {Head(r.strand)}
                                               /\ AtRest(Pop(r))
<1> DEFINE s == Pop(r)
<1>1. r \in SessionRecord
  BY DEF RecordInv
<1>2. /\ s \in SessionRecord /\ Carries(s, r) /\ s.ops = r.ops
      /\ 1 \in Pending(r) <=> Head(r.strand) \in ChainNames
      /\ r.strand[1] = Head(r.strand)
      /\ \A i \in Pending(s) : i + 1 \in Pending(r) /\ i \in Nat /\ s.strand[i] = r.strand[i + 1]
      /\ \A i \in Pending(r) : i # 1 => i - 1 \in Pending(s)
  BY <1>1, PopPending, ChainIsNamed
<1>3. ASSUME Head(r.strand) \in ChainNames
      PROVE  InFlight(r) = {Head(r.strand)} /\ AtRest(s)
  <2>1. Head(r.strand) \in InFlight(r)
    BY <1>2, <1>3 DEF InFlight
  <2> QED BY <1>3, <2>1, OneInFlight, PopChain, ChainIsNamed
<1>4. ASSUME Head(r.strand) \notin ChainNames
      PROVE  InFlight(s) = InFlight(r)
  <2>1. \A i \in Pending(s) : r.strand[i + 1] = s.strand[i] /\ i + 1 \in Pending(r)
    BY <1>2
  <2>2. \A i \in Pending(r) : i - 1 \in Pending(s) /\ i \in Nat /\ (i - 1) + 1 = i
    BY <1>1, <1>2, <1>4 DEF Pending, SessionRecord
  <2>3. \A i \in Pending(r) : \E j \in Pending(s) : s.strand[j] = r.strand[i]
    BY <2>1, <2>2
  <2> HIDE DEF s
  <2> QED BY <1>2, <2>1, <2>3 DEF InFlight
<1> QED BY <1>2, <1>3, <1>4

LEMMA DoneFlow ==
    ASSUME NEW r, RecordInv(r), NEW op \in {"read", "write"}, op \in r.ops,
           NEW ec \in Completions
    PROVE  /\ InFlight(r) = {op}
           /\ InFlight(Post(Done(r, op), ec)) = {ec}
           /\ Carries(Post(Done(r, op), ec), r)
<1> DEFINE q == Done(r, op)
<1>1. r \in SessionRecord /\ OneChain(r)
  BY DEF RecordInv
<1>2. q \in SessionRecord /\ Carries(q, r) /\ q.ops = r.ops \ {op} /\ q.strand = r.strand
  BY <1>1 DEF Done, SessionRecord, Carries
<1>3. r.ops = {op} /\ Pending(r) = {}
  BY <1>1 DEF OneChain, SessionRecord
<1> HIDE DEF q
<1>4. InFlight(q) = {} /\ InFlight(r) = {op}
  BY <1>2, <1>3 DEF InFlight, Pending
<1>5. ec \in Handlers /\ ec \in ChainNames
  BY DEF Handlers, Completions, ReadOutcomes, WriteOutcomes, ChainNames
<1>6. Carries(Post(q, ec), q) /\ InFlight(Post(q, ec)) = {ec}
  BY <1>2, <1>4, <1>5, PostFlow
<1> QED BY <1>2, <1>4, <1>6 DEF q, Carries

LEMMA InitiateFlow ==
    ASSUME NEW r \in SessionRecord, Quiet(r),
           NEW op \in {"read", "write"}, NEW failure \in {"read_error", "write_error"}
    PROVE  /\ InFlight(Initiate(r, op, failure)) = IF r.open THEN {op} ELSE {failure}
           /\ Carries(Initiate(r, op, failure), r)
<1> DEFINE s == Initiate(r, op, failure)
<1>0. InFlight(r) = {} /\ failure \in Handlers /\ failure \in ChainNames
  BY DEF Quiet, InFlight, Handlers, Completions, ReadOutcomes, WriteOutcomes, ChainNames
<1>1. CASE r.open
  <2>1. s.ops = r.ops \cup {op} /\ s.strand = r.strand /\ Carries(s, r)
    BY <1>1 DEF Initiate, SessionRecord, Carries
  <2> HIDE DEF s
  <2>2. InFlight(s) = {op}
    BY <2>1 DEF Quiet, InFlight, Pending
  <2> QED BY <1>1, <2>1, <2>2 DEF s
<1>2. CASE ~r.open
  <2>1. s = Post(r, failure)
    BY <1>2 DEF Initiate
  <2> QED BY <1>0, <1>2, <2>1, PostFlow
<1> QED BY <1>1, <1>2

LEMMA DoReadFlow ==
    ASSUME NEW r, AtRest(r)
    PROVE  /\ InFlight(DoRead(r)) = IF r.open THEN {"read"} ELSE {"read_error"}
           /\ Carries(DoRead(r), r)
BY InitiateFlow DEF AtRest, DoRead

\* A response that keeps the connection is not written in a session that closes.
LEMMA DoWriteFlow ==
    ASSUME NEW r, AtRest(r), NEW keepAlive \in BOOLEAN
    PROVE  LET s == DoWrite(r, keepAlive)
           IN  /\ InFlight(s) = IF r.open THEN {"write"} ELSE {"write_error"}
               /\ s.open = r.open /\ s.requests = r.requests
               /\ s.keepAlive = (keepAlive /\ s.state # "kClosing")
               /\ s.state # r.state => r.state = "kOpen" /\ s.state = "kClosing"
<1> DEFINE limited == IF r.requests >= MaxRequests THEN RequestClose(r) ELSE r
           started == [limited EXCEPT
                          !.keepAlive = keepAlive /\ limited.state # "kClosing"]
           s == Initiate(started, "write", "write_error")
<1>1. s = DoWrite(r, keepAlive)
  BY DEF DoWrite
<1>2. r \in SessionRecord /\ Quiet(r)
  BY DEF AtRest
<1>3. /\ limited \in SessionRecord /\ limited.ops = r.ops /\ limited.strand = r.strand
      /\ limited.requests = r.requests /\ limited.open = r.open
      /\ limited.state # r.state => r.state = "kOpen" /\ limited.state = "kClosing"
  BY <1>2 DEF RequestClose, SessionRecord, States
<1> HIDE DEF limited
<1>4. /\ started \in SessionRecord /\ started.ops = r.ops /\ started.strand = r.strand
      /\ started.requests = r.requests /\ started.open = r.open
      /\ started.state = limited.state
      /\ started.keepAlive = (keepAlive /\ limited.state # "kClosing")
  BY <1>3 DEF SessionRecord
<1> HIDE DEF started
<1>5. Quiet(started)
  BY <1>2, <1>4 DEF Quiet, Pending
<1>6. InFlight(s) = (IF started.open THEN {"write"} ELSE {"write_error"}) /\ Carries(s, started)
  BY <1>4, <1>5, InitiateFlow
<1> HIDE DEF s
<1>7. /\ InFlight(s) = IF r.open THEN {"write"} ELSE {"write_error"}
      /\ s.open = r.open /\ s.requests = r.requests
      /\ s.keepAlive = (keepAlive /\ s.state # "kClosing")
      /\ s.state # r.state => r.state = "kOpen" /\ s.state = "kClosing"
  BY <1>3, <1>4, <1>6 DEF Carries
<1> QED BY <1>1, <1>7

LEMMA CloseFlow ==
    ASSUME NEW r \in SessionRecord, NEW force \in BOOLEAN
    PROVE  LET s == Close(r, force)
           IN  /\ InFlight(s) = InFlight(r)
               /\ s.requests = r.requests /\ s.keepAlive = r.keepAlive
               /\ s.state = "kClosed"
               /\ s.open => r.open
               /\ ~force => s.open = r.open
               /\ force /\ s.open => r.state = "kClosed"
<1> DEFINE s == Close(r, force)
<1>1. /\ s.ops = r.ops /\ s.strand = r.strand /\ s.requests = r.requests
      /\ s.keepAlive = r.keepAlive /\ s.state = "kClosed"
      /\ (s.open => r.open) /\ (~force => s.open = r.open)
      /\ (force /\ s.open => r.state = "kClosed")
  BY DEF Close, SessionRecord
<1> HIDE DEF s
<1>2. InFlight(s) = InFlight(r)
  BY <1>1 DEF InFlight, Pending
<1> QED BY <1>1, <1>2 DEF s

LEMMA RequestCloseFlow ==
    ASSUME NEW r \in SessionRecord
    PROVE  LET s == RequestClose(r)
           IN  /\ InFlight(s) = InFlight(r)
               /\ s.requests = r.requests /\ s.keepAlive = r.keepAlive /\ s.open = r.open
               /\ s.state # r.state => r.state = "kOpen" /\ s.state = "kClosing"
<1> DEFINE s == RequestClose(r)
<1>1. /\ s.ops = r.ops /\ s.strand = r.strand /\ s.requests = r.requests
      /\ s.keepAlive = r.keepAlive /\ s.open = r.open
      /\ s.state # r.state => r.state = "kOpen" /\ s.state = "kClosing"
  BY DEF RequestClose, SessionRecord
<1> HIDE DEF s
<1>2. InFlight(s) = InFlight(r)
  BY <1>1 DEF InFlight, Pending
<1> QED BY <1>1, <1>2 DEF s

-----------------------------------------------------------------------------
(* What each handler makes of what is under way. *)

LEMMA CompletionFlow ==
    ASSUME NEW r, RecordInv(r), NEW op \in {"read", "write"}, op \in r.ops,
           NEW ec \in IF op = "read" THEN ReadOutcomes ELSE WriteOutcomes
    PROVE  /\ RecordInv(Post(Done(r, op), ec)) /\ Carries(Post(Done(r, op), ec), r)
           /\ InFlight(r) = {op} /\ InFlight(Post(Done(r, op), ec)) = {ec}
<1>1. ec \in Completions /\ (op = "read" <=> ec \in ReadOutcomes)
  BY DEF Completions, ReadOutcomes, WriteOutcomes
<1> QED BY <1>1, CompleteKeepsInv, DoneFlow

LEMMA RunFlow ==
    ASSUME NEW r, RecordInv(r), r.strand # << >>, Head(r.strand) = "Run"
    PROVE  /\ RecordInv(DoRead(Pop(r))) /\ Carries(DoRead(Pop(r)), r)
           /\ InFlight(r) = {"Run"}
           /\ InFlight(DoRead(Pop(r))) = IF r.open THEN {"read"} ELSE {"read_error"}
<1>1. "Run" \in ChainNames /\ "Run" \in Chain /\ "Run" \in ReadOutcomes \cup {"Run"}
  BY DEF ChainNames, Chain
<1>2. /\ AtRest(Pop(r)) /\ Carries(Pop(r), r) /\ InFlight(r) = {"Run"}
      /\ r.requests < RequestLimit
  BY <1>1, PopFlow, PopChain
<1>3. RecordInv(DoRead(Pop(r)))
  BY <1>2, ReadKeepsInv DEF Carries
<1>4. /\ InFlight(DoRead(Pop(r))) = IF Pop(r).open THEN {"read"} ELSE {"read_error"}
      /\ Carries(DoRead(Pop(r)), Pop(r))
  BY <1>2, DoReadFlow
<1> QED BY <1>2, <1>3, <1>4 DEF Carries

\* s.state = r.state, but a session that was open may be asked to close.
Closer(s, r) == s.state # r.state => r.state = "kOpen" /\ s.state = "kClosing"

LEMMA ReadOkFlow ==
    ASSUME NEW r, RecordInv(r), r.strand # << >>, Head(r.strand) = "read_ok",
           NEW keepAlive \in BOOLEAN
    PROVE  LET s == HandleReadSuccess(Pop(r), keepAlive)
           IN  /\ RecordInv(s) /\ Closer(s, r) /\ s.open = r.open
               /\ s.requests = r.requests + 1
               /\ s.keepAlive = (keepAlive /\ s.state # "kClosing")
               /\ InFlight(r) = {"read_ok"}
               /\ InFlight(s) = IF r.open THEN {"write"} ELSE {"write_error"}
<1> DEFINE q == Pop(r)
           counted == [q EXCEPT !.requests = q.requests + 1]
           s == HandleReadSuccess(q, keepAlive)
<1>1. /\ "read_ok" \in ChainNames /\ "read_ok" \in Chain
      /\ "read_ok" \in ReadOutcomes \cup {"Run"}
  BY DEF ChainNames, Chain, Completions, ReadOutcomes
<1>2. AtRest(q) /\ Carries(q, r) /\ InFlight(r) = {"read_ok"} /\ r.requests < RequestLimit
  BY <1>1, PopFlow, PopChain
<1> HIDE DEF q
<1>3. RecordInv(s)
  BY <1>2, ReadHandled DEF Carries
<1>4. q \in SessionRecord /\ Quiet(q)
  BY <1>2 DEF AtRest
<1>5. /\ counted \in SessionRecord /\ counted.requests = q.requests + 1
      /\ counted.ops = q.ops /\ counted.strand = q.strand
      /\ counted.state = q.state /\ counted.open = q.open
  BY <1>4 DEF SessionRecord
<1>6. s = DoWrite(counted, keepAlive)
  BY DEF HandleReadSuccess
<1> HIDE DEF counted
<1>7. Quiet(counted)
  BY <1>4, <1>5 DEF Quiet, Pending
<1>8. counted.requests <= RequestLimit
  BY <1>2, <1>4, <1>5, LimitType DEF Carries, SessionRecord
<1>9. AtRest(counted)
  BY <1>2, <1>5, <1>7, <1>8 DEF AtRest
<1>10. /\ InFlight(s) = IF counted.open THEN {"write"} ELSE {"write_error"}
       /\ s.open = counted.open /\ s.requests = counted.requests
       /\ s.keepAlive = (keepAlive /\ s.state # "kClosing")
       /\ s.state # counted.state => counted.state = "kOpen" /\ s.state = "kClosing"
  BY <1>6, <1>9, DoWriteFlow
<1> HIDE DEF s
<1>11. /\ Closer(s, r) /\ s.open = r.open /\ s.requests = r.requests + 1
       /\ InFlight(s) = IF r.open THEN {"write"} ELSE {"write_error"}
  BY <1>2, <1>5, <1>10 DEF Carries, Closer
<1> QED BY <1>2, <1>3, <1>10, <1>11 DEF s, q

LEMMA ReadFailedFlow ==
    ASSUME NEW r, RecordInv(r), r.strand # << >>,
           NEW ec \in ReadOutcomes \ {"read_ok"}, Head(r.strand) = ec
    PROVE  LET s == HandleReadError(Pop(r), ec)
           IN  /\ RecordInv(s) /\ s.open = r.open /\ s.requests = r.requests
               /\ InFlight(r) = {ec}
               /\ \/ /\ ec = "read_error" /\ s.keepAlive = FALSE /\ Closer(s, r)
                     /\ InFlight(s) = IF r.open THEN {"write"} ELSE {"write_error"}
                  \/ ec # "read_error" /\ s.state = "kClosed" /\ InFlight(s) = {}
<1> DEFINE q == Pop(r)
           s == HandleReadError(q, ec)
<1>1. ec \in ChainNames /\ ec \in Chain /\ ec \in ReadOutcomes
      /\ ec \in {"read_timeout", "read_eof", "read_error"}
  BY DEF ChainNames, Chain, Completions, ReadOutcomes
<1>2. AtRest(q) /\ Carries(q, r) /\ InFlight(r) = {ec}
  BY <1>1, PopFlow, PopChain
<1> HIDE DEF q
<1>3. RecordInv(s)
  BY <1>1, <1>2, ReadHandled
<1>4. CASE ec = "read_error"
  <2>1. s = DoWrite(q, FALSE)
    BY <1>4 DEF HandleReadError
  <2>2. /\ InFlight(s) = IF q.open THEN {"write"} ELSE {"write_error"}
        /\ s.open = q.open /\ s.requests = q.requests
        /\ s.keepAlive = (FALSE /\ s.state # "kClosing")
        /\ s.state # q.state => q.state = "kOpen" /\ s.state = "kClosing"
    <3> HIDE DEF s
    <3>1. FALSE \in BOOLEAN
      OBVIOUS
    <3> QED BY <1>2, <2>1, <3>1, DoWriteFlow
  <2> HIDE DEF s
  <2>3. /\ s.open = r.open /\ s.requests = r.requests /\ s.keepAlive = FALSE /\ Closer(s, r)
        /\ InFlight(s) = IF r.open THEN {"write"} ELSE {"write_error"}
    BY <1>2, <2>2 DEF Carries, Closer
  <2> QED BY <1>2, <1>3, <1>4, <2>3 DEF s, q
<1>5. CASE ec # "read_error"
  <2>1. s = Close(q, FALSE)
    BY <1>1, <1>5 DEF HandleReadError
  <2>2. /\ InFlight(s) = InFlight(q) /\ s.requests = q.requests /\ s.state = "kClosed"
        /\ s.open = q.open
    BY <1>2, <2>1, CloseFlow DEF AtRest
  <2>3. InFlight(q) = {}
    BY <1>2 DEF AtRest, Quiet, InFlight
  <2> HIDE DEF s
  <2>4. /\ s.open = r.open /\ s.requests = r.requests /\ s.state = "kClosed"
        /\ InFlight(s) = {}
    BY <1>2, <2>2, <2>3 DEF Carries
  <2> QED BY <1>2, <1>3, <1>5, <2>4 DEF s, q
<1> QED BY <1>4, <1>5

LEMMA WrittenFlow ==
    ASSUME NEW r, RecordInv(r), r.strand # << >>,
           NEW ec \in WriteOutcomes, Head(r.strand) = ec
    PROVE  LET s == HandleWritten(Pop(r), ec)
           IN  /\ RecordInv(s) /\ s.open = r.open /\ s.requests = r.requests
               /\ s.keepAlive = r.keepAlive
               /\ InFlight(r) = {ec}
               /\ \/ /\ ec = "write_ok" /\ r.keepAlive /\ s.state = r.state
                     /\ InFlight(s) = IF r.open THEN {"read"} ELSE {"read_error"}
                  \/ /\ ec = "write_error" \/ ~r.keepAlive
                     /\ s.state = "kClosed" /\ InFlight(s) = {}
<1> DEFINE q == Pop(r)
           s == HandleWritten(q, ec)
<1>1. ec \in ChainNames /\ ec \in Chain /\ ec \in {"write_ok", "write_error"}
  BY DEF ChainNames, Chain, Completions, WriteOutcomes
<1>2. /\ AtRest(q) /\ Carries(q, r) /\ InFlight(r) = {ec}
      /\ ec = "write_ok" /\ r.keepAlive => r.requests < RequestLimit
  BY <1>1, PopFlow, PopChain
<1> HIDE DEF q
<1>3. RecordInv(s)
  BY <1>2, WrittenHandled DEF Carries
<1>4. q.keepAlive = r.keepAlive
  BY <1>2 DEF Carries
<1>5. CASE ec = "write_ok" /\ r.keepAlive
  <2>1. s = DoRead(q)
    BY <1>4, <1>5 DEF HandleWritten
  <2>2. /\ InFlight(s) = IF q.open THEN {"read"} ELSE {"read_error"}
        /\ Carries(s, q)
    BY <1>2, <2>1, DoReadFlow
  <2> HIDE DEF s
  <2>3. /\ s.open = r.open /\ s.requests = r.requests /\ s.keepAlive = r.keepAlive
        /\ s.state = r.state
        /\ InFlight(s) = IF r.open THEN {"read"} ELSE {"read_error"}
    BY <1>2, <2>2 DEF Carries
  <2> QED BY <1>2, <1>3, <1>5, <2>3 DEF s, q
<1>6. CASE ~(ec = "write_ok" /\ r.keepAlive)
  <2>0. ec = "write_error" \/ ~r.keepAlive
    BY <1>1, <1>6
  <2>1. s = Close(q, FALSE)
    BY <1>4, <2>0 DEF HandleWritten
  <2>2. /\ InFlight(s) = InFlight(q) /\ s.requests = q.requests /\ s.state = "kClosed"
        /\ s.open = q.open /\ s.keepAlive = q.keepAlive
    BY <1>2, <2>1, CloseFlow DEF AtRest
  <2>3. InFlight(q) = {}
    BY <1>2 DEF AtRest, Quiet, InFlight
  <2> HIDE DEF s
  <2>4. /\ s.open = r.open /\ s.requests = r.requests /\ s.state = "kClosed"
        /\ s.keepAlive = r.keepAlive /\ InFlight(s) = {}
    BY <1>2, <2>2, <2>3 DEF Carries
  <2> QED BY <1>2, <1>3, <2>0, <2>4 DEF s, q
<1> QED BY <1>5, <1>6

\* What a call leaves as it is: all but the state, and the socket, which it closes
\* when it closes the session.
Beside(s, r) ==
    /\ InFlight(s) = InFlight(r)
    /\ s.requests = r.requests /\ s.keepAlive = r.keepAlive
    /\ s.open => r.open
    /\ s.state # r.state => s.state \in {"kClosing", "kClosed"}
    /\ r.state = "kClosed" => s.state = "kClosed"
    /\ s.state = "kClosed" /\ s.open => r.state = "kClosed"

LEMMA CallsFlow ==
    ASSUME NEW r, RecordInv(r), r.state # "absent"
    PROVE  /\ RecordInv(RequestClose(r)) /\ Beside(RequestClose(r), r)
           /\ RecordInv(Close(r, TRUE)) /\ Beside(Close(r, TRUE), r)
<1>1. r \in SessionRecord
  BY DEF RecordInv
<1>2. /\ InFlight(RequestClose(r)) = InFlight(r)
      /\ RequestClose(r).requests = r.requests
      /\ RequestClose(r).keepAlive = r.keepAlive /\ RequestClose(r).open = r.open
      /\ RequestClose(r).state # r.state
             => r.state = "kOpen" /\ RequestClose(r).state = "kClosing"
  BY <1>1, RequestCloseFlow
<1>3. Beside(RequestClose(r), r)
  BY <1>2 DEF Beside
<1>4. /\ InFlight(Close(r, TRUE)) = InFlight(r)
      /\ Close(r, TRUE).requests = r.requests /\ Close(r, TRUE).keepAlive = r.keepAlive
      /\ Close(r, TRUE).state = "kClosed"
      /\ Close(r, TRUE).open => r.open /\ r.state = "kClosed"
  BY <1>1, CloseFlow
<1>5. Beside(Close(r, TRUE), r)
  BY <1>4 DEF Beside
<1> QED BY <1>3, <1>5, CallsKeepInv

LEMMA HandledCallFlow ==
    ASSUME NEW r, RecordInv(r), r.strand # << >>
    PROVE  /\ Head(r.strand) = "RequestClose"
                  => RecordInv(RequestClose(Pop(r))) /\ Beside(RequestClose(Pop(r)), r)
           /\ Head(r.strand) = "ForceClose"
                  => RecordInv(Close(Pop(r), TRUE)) /\ Beside(Close(Pop(r), TRUE), r)
<1> SUFFICES ASSUME Head(r.strand) \in {"RequestClose", "ForceClose"}
             PROVE  /\ RecordInv(RequestClose(Pop(r))) /\ Beside(RequestClose(Pop(r)), r)
                    /\ RecordInv(Close(Pop(r), TRUE)) /\ Beside(Close(Pop(r), TRUE), r)
  OBVIOUS
<1>1. Head(r.strand) \notin ChainNames
  BY DEF ChainNames
<1>2. RecordInv(Pop(r)) /\ Carries(Pop(r), r) /\ InFlight(Pop(r)) = InFlight(r)
  BY <1>1, PopFlow, CallsBesideChain
<1>3. r.state # "absent"
  BY DEF RecordInv
<1>4. /\ RecordInv(RequestClose(Pop(r))) /\ Beside(RequestClose(Pop(r)), Pop(r))
      /\ RecordInv(Close(Pop(r), TRUE)) /\ Beside(Close(Pop(r), TRUE), Pop(r))
  BY <1>2, <1>3, CallsFlow DEF Carries
<1> QED BY <1>2, <1>4 DEF Beside, Carries

LEMMA DispatchFlow ==
    ASSUME NEW r, RecordInv(r), r.state # "absent",
           NEW handler \in {"RequestClose", "ForceClose"}, NEW inPlace \in BOOLEAN
    PROVE  /\ RecordInv(Dispatch(r, handler, inPlace))
           /\ Beside(Dispatch(r, handler, inPlace), r)
<1>1. RecordInv(Dispatch(r, handler, inPlace))
  BY DispatchKeepsInv
<1>2. CASE ~inPlace
  <2>1. /\ r \in SessionRecord /\ handler \in Handlers /\ handler \notin ChainNames
        /\ Dispatch(r, handler, inPlace) = Post(r, handler)
    BY <1>2 DEF RecordInv, Handlers, ChainNames, Dispatch
  <2>2. InFlight(Post(r, handler)) = InFlight(r) /\ Carries(Post(r, handler), r)
    BY <2>1, PostFlow
  <2> QED BY <1>1, <2>1, <2>2 DEF Beside, Carries
<1>3. CASE inPlace
  <2>1. Dispatch(r, handler, inPlace) = IF handler = "RequestClose" THEN RequestClose(r)
                                        ELSE Close(r, TRUE)
    BY <1>3 DEF Dispatch, Execute
  <2> QED BY <1>1, <2>1, CallsFlow
<1> QED BY <1>2, <1>3

LEMMA OpenFlow ==
    ASSUME NEW inPlace \in BOOLEAN
    PROVE  LET s == Dispatch(NewSession, "Run", inPlace)
           IN  /\ RecordInv(s) /\ s.state = "kOpen" /\ s.requests = 0 /\ s.open
               /\ InFlight(s) = IF inPlace THEN {"read"} ELSE {"Run"}
<1>1. /\ NewSession \in SessionRecord /\ NewSession.state = "kOpen" /\ NewSession.requests = 0
      /\ NewSession.open /\ NewSession.ops = {} /\ NewSession.strand = << >>
  BY NewSessionType DEF NewSession
<1>2. Quiet(NewSession) /\ InFlight(NewSession) = {}
  BY <1>1 DEF Quiet, Pending, InFlight
<1>3. AtRest(NewSession)
  BY <1>1, <1>2, LimitType DEF AtRest
<1>4. CASE inPlace
  <2>1. Dispatch(NewSession, "Run", inPlace) = DoRead(NewSession)
    BY <1>4 DEF Dispatch, Execute
  <2>2. InFlight(DoRead(NewSession)) = {"read"} /\ Carries(DoRead(NewSession), NewSession)
    BY <1>1, <1>3, DoReadFlow
  <2> QED BY <1>1, <1>4, <2>1, <2>2, OpenKeepsInv DEF Carries
<1>5. CASE ~inPlace
  <2>1. /\ Dispatch(NewSession, "Run", inPlace) = Post(NewSession, "Run")
        /\ "Run" \in Handlers /\ "Run" \in ChainNames
    BY <1>5 DEF Dispatch, Handlers, ChainNames
  <2>2. /\ InFlight(Post(NewSession, "Run")) = {"Run"}
        /\ Carries(Post(NewSession, "Run"), NewSession)
    BY <1>1, <1>2, <2>1, PostFlow
  <2> QED BY <1>1, <1>5, <2>1, <2>2, OpenKeepsInv DEF Carries
<1> QED BY <1>4, <1>5

-----------------------------------------------------------------------------
(* FlattenSeq is recursive.  That the recursion has a solution, and only one, *)
(* is proved by induction, from the least number at which it would fail.   *)

LEMMA LeastNatural ==
    ASSUME NEW S \in SUBSET Nat, S # {}
    PROVE  \E n \in S : \A m \in S : n <= m
<1> DEFINE R == OpToRel(<, Nat)
<1>1. IsWellFoundedOn(R, Nat)
  BY NatLessThanWellFounded
<1>2. \A m, n \in Nat : <<m, n>> \in R <=> m < n
  BY DEF OpToRel
<1> HIDE DEF R
<1>3. PICK n \in S : \A m \in S : ~(<<m, n>> \in R)
  BY <1>1, WFMin
<1>4. ASSUME NEW m \in S
      PROVE  n <= m
  <2>1. ~(<<m, n>> \in R) /\ m \in Nat /\ n \in Nat
    BY <1>3
  <2>2. ~(m < n)
    BY <1>2, <2>1
  <2> QED BY <2>1, <2>2
<1> QED BY <1>4

Flattens(f, parts, n) ==
    f = [i \in 1..n |-> IF i = 1 THEN parts[i] ELSE f[i - 1] \o parts[i]]

LEMMA FlattenExists ==
    ASSUME NEW parts, NEW n \in Nat
    PROVE  \E f : Flattens(f, parts, n)
<1> DEFINE bad == {m \in Nat : ~\E f : Flattens(f, parts, m)}
<1> SUFFICES ASSUME bad # {} PROVE FALSE
  OBVIOUS
<1>1. PICK m \in bad : \A k \in bad : m <= k
  <2>1. bad \in SUBSET Nat
    OBVIOUS
  <2> HIDE DEF bad
  <2> QED BY <2>1, LeastNatural
<1>2. m \in Nat /\ ~\E f : Flattens(f, parts, m)
  OBVIOUS
<1>3. CASE m = 0
  <2> DEFINE f == [i \in 1..0 |-> parts[i]]
  <2>1. f = [i \in 1..0 |-> IF i = 1 THEN parts[i] ELSE f[i - 1] \o parts[i]]
    OBVIOUS
  <2>2. Flattens(f, parts, 0)
    BY <2>1 DEF Flattens
  <2> QED BY <1>2, <1>3, <2>2
<1>4. CASE m # 0
  <2>1. m - 1 \in Nat /\ m - 1 \notin bad
    BY <1>1, <1>2, <1>4
  <2>2. PICK g : Flattens(g, parts, m - 1)
    BY <2>1
  <2> DEFINE last == IF m = 1 THEN parts[m] ELSE g[m - 1] \o parts[m]
             f == [i \in 1..m |-> IF i = m THEN last ELSE g[i]]
  <2>3. \A i \in 1..(m - 1) : g[i] = IF i = 1 THEN parts[i] ELSE g[i - 1] \o parts[i]
    BY <2>2 DEF Flattens
  <2> HIDE DEF last
  <2>4. /\ f[m] = last
        /\ \A i \in 1..(m - 1) : f[i] = g[i]
    <3>1. m \in 1..m /\ \A i \in 1..(m - 1) : i \in 1..m /\ i # m
      BY <1>2, <1>4
    <3> QED BY <3>1
  <2>5. ASSUME NEW i \in 1..m
        PROVE  f[i] = IF i = 1 THEN parts[i] ELSE f[i - 1] \o parts[i]
    <3>1. CASE i = m
      <4>1. i # 1 => i - 1 \in 1..(m - 1)
        BY <1>2, <1>4, <3>1
      <4> QED BY <2>4, <3>1, <4>1 DEF last
    <3>2. CASE i # m
      <4>1. i \in 1..(m - 1) /\ (i # 1 => i - 1 \in 1..(m - 1))
        BY <1>2, <1>4, <3>2
      <4> QED BY <2>3, <2>4, <4>1
    <3> QED BY <3>1, <3>2
  <2>6. f = [i \in 1..m |-> f[i]]
    OBVIOUS
  <2> HIDE DEF f
  <2>7. Flattens(f, parts, m)
    BY <2>5, <2>6 DEF Flattens
  <2> QED BY <1>2, <2>7
<1> QED BY <1>3, <1>4

\* What a beginning is flattened to does not depend on what follows.
LEMMA FlattenUnique ==
    ASSUME NEW s, NEW t, NEW m \in Nat, NEW n \in Nat, m <= n,
           \A i \in 1..m : s[i] = t[i],
           NEW f, Flattens(f, s, m), NEW g, Flattens(g, t, n)
    PROVE  \A i \in 1..m : f[i] = g[i]
<1> DEFINE bad == {i \in 1..m : f[i] # g[i]}
<1> SUFFICES ASSUME bad # {} PROVE FALSE
  OBVIOUS
<1>1. PICK i \in bad : \A k \in bad : i <= k
  <2>1. bad \in SUBSET Nat
    OBVIOUS
  <2> HIDE DEF bad
  <2> QED BY <2>1, LeastNatural
<1>2. i \in 1..m /\ i \in 1..n /\ f[i] # g[i]
  OBVIOUS
<1>3. /\ f[i] = IF i = 1 THEN s[i] ELSE f[i - 1] \o s[i]
      /\ g[i] = IF i = 1 THEN t[i] ELSE g[i - 1] \o t[i]
  BY <1>2 DEF Flattens
<1>4. CASE i = 1
  BY <1>2, <1>3, <1>4
<1>5. CASE i # 1
  <2>1. i - 1 \in 1..m /\ i - 1 \notin bad
    BY <1>1, <1>2, <1>5
  <2> QED BY <1>2, <1>3, <1>5, <2>1
<1> QED BY <1>4, <1>5

LEMMA FlattenAppend ==
    ASSUME NEW T, NEW parts \in Seq(Seq(T)), NEW part \in Seq(T)
    PROVE  FlattenSeq(Append(parts, part)) = FlattenSeq(parts) \o part
<1>10. PICK longer : longer = Append(parts, part)
  OBVIOUS
<1>9. PICK n \in Nat : n = Len(parts)
  OBVIOUS
<1>1. /\ longer \in Seq(Seq(T)) /\ Len(longer) = n + 1 /\ longer[n + 1] = part
      /\ \A i \in 1..n : parts[i] = longer[i]
      /\ n \in Nat /\ n + 1 \in Nat /\ n + 1 # 0
      /\ n = 0 => parts = << >>
  BY <1>9, <1>10, AppendProperties
<1>2. FlattenSeq(longer) = (CHOOSE h : Flattens(h, longer, n + 1))[n + 1]
  BY <1>1 DEF FlattenSeq, Flattens
<1>3. FlattenSeq(parts)
        = IF n = 0 THEN parts ELSE (CHOOSE h : Flattens(h, parts, n))[n]
  BY <1>9 DEF FlattenSeq, Flattens
<1>4. PICK g : g = (CHOOSE h : Flattens(h, longer, n + 1)) /\ Flattens(g, longer, n + 1)
  <2>1. \E h : Flattens(h, longer, n + 1)
    BY <1>1, FlattenExists
  <2> QED BY <2>1, Zenon
<1>5. PICK f : f = (CHOOSE h : Flattens(h, parts, n)) /\ Flattens(f, parts, n)
  <2>1. \E h : Flattens(h, parts, n)
    BY <1>1, FlattenExists
  <2> QED BY <2>1, Zenon
<1>6. g[n + 1] = IF n = 0 THEN longer[1] ELSE f[n] \o longer[n + 1]
  <2>1. Flattens(f, parts, n) /\ Flattens(g, longer, n + 1)
    BY <1>4, <1>5
  <2>2. n \in Nat /\ \A i \in 1..n : parts[i] = longer[i]
    BY <1>1
  <2>3. n + 1 \in 1..(n + 1) /\ n + 1 \in Nat /\ n <= n + 1 /\ (n + 1) - 1 = n
        /\ (n + 1 = 1 <=> n = 0) /\ (n # 0 => n \in 1..n)
    BY <2>2
  <2>4. g[n + 1] = IF n + 1 = 1 THEN longer[n + 1] ELSE g[(n + 1) - 1] \o longer[n + 1]
    BY <2>1, <2>3 DEF Flattens
  <2>5. \A i \in 1..n : f[i] = g[i]
    <3>1. PICK k \in Nat : k = n + 1
      BY <2>3
    <3>2. /\ n \in Nat /\ k \in Nat /\ n <= k /\ \A i \in 1..n : parts[i] = longer[i]
          /\ Flattens(f, parts, n) /\ Flattens(g, longer, k)
      BY <2>1, <2>2, <2>3, <3>1
    <3> QED BY <3>2, FlattenUnique
  <2> QED BY <2>3, <2>4, <2>5
<1>7. CASE n = 0
  <2>1. FlattenSeq(parts) = << >> /\ << >> \o part = part
    BY <1>1, <1>3, <1>7
  <2>2. FlattenSeq(longer) = longer[1] /\ longer[1] = part
    BY <1>1, <1>2, <1>4, <1>6, <1>7
  <2> QED BY <2>1, <2>2, <1>10
<1>8. CASE n # 0
  BY <1>1, <1>2, <1>3, <1>4, <1>5, <1>6, <1>8, <1>10
<1> QED BY <1>7, <1>8

-----------------------------------------------------------------------------
(* The units of a script. *)

UnitType == {"head", "body"} \X Nat

\* The units of the request at one place of a script.
UnitsAt(request, i) ==
    IF request.body THEN <<<<"head", i>>, <<"body", i>>>> ELSE <<<<"head", i>>>>

LEMMA UnitsAtType ==
    ASSUME NEW request \in Requests, NEW i \in Nat
    PROVE  /\ UnitsAt(request, i) \in Seq(UnitType)
           /\ UnitsAt(request, i)[1] = <<"head", i>>
           /\ \/ Len(UnitsAt(request, i)) = 1
              \/ /\ Len(UnitsAt(request, i)) = 2
                 /\ UnitsAt(request, i)[2] = <<"body", i>> /\ request.body
<1> DEFINE head == <<"head", i>>
           body == <<"body", i>>
<1>1. head \in UnitType /\ body \in UnitType
  BY DEF UnitType
<1> HIDE DEF head, body
<1>2. UnitsAt(request, i) = IF request.body THEN <<head, body>> ELSE <<head>>
  BY DEF UnitsAt, head, body
<1>3. CASE request.body
  <2>1. <<head, body>> \in Seq(UnitType)
    BY <1>1
  <2> QED BY <1>2, <1>3, <2>1 DEF head, body
<1>4. CASE ~request.body
  <2>1. <<head>> \in Seq(UnitType)
    BY <1>1
  <2> QED BY <1>2, <1>4, <2>1 DEF head
<1> QED BY <1>3, <1>4

\* The beginning of a script has the beginning of its units, and the last request
\* the last of them.
LEMMA UnitsGrow ==
    ASSUME NEW script \in Seq(Requests), NEW request \in Requests
    PROVE  Units(Append(script, request))
             = Units(script) \o UnitsAt(request, Len(script) + 1)
<1> DEFINE n == Len(script)
           longer == Append(script, request)
           parts(s) == [i \in DOMAIN s |-> UnitsAt(s[i], i)]
<1>1. /\ longer \in Seq(Requests) /\ Len(longer) = n + 1 /\ longer[n + 1] = request
      /\ \A i \in 1..n : longer[i] = script[i]
      /\ DOMAIN longer = 1..(n + 1) /\ DOMAIN script = 1..n /\ n \in Nat
  BY AppendProperties
<1>2. ASSUME NEW i \in Nat, NEW r \in Requests
      PROVE  UnitsAt(r, i) \in Seq(UnitType)
  BY UnitsAtType
<1>3. /\ Units(script) = FlattenSeq(parts(script))
      /\ Units(longer) = FlattenSeq(parts(longer))
  BY DEF Units, UnitsAt
<1> HIDE DEF longer
<1>4. parts(script) \in Seq(Seq(UnitType)) /\ Len(parts(script)) = n
  <2>1. parts(script) \in [1..n -> Seq(UnitType)]
    BY <1>1, <1>2
  <2> QED BY <1>1, <2>1
<1>5. parts(longer) = Append(parts(script), UnitsAt(request, n + 1))
  <2> DEFINE a == Append(parts(script), UnitsAt(request, n + 1))
  <2>1. UnitsAt(request, n + 1) \in Seq(UnitType)
    BY <1>1, <1>2
  <2>2. /\ a \in Seq(Seq(UnitType)) /\ Len(a) = n + 1 /\ a[n + 1] = UnitsAt(request, n + 1)
        /\ \A i \in 1..n : a[i] = parts(script)[i]
    BY <1>4, <2>1, AppendProperties
  <2>3. parts(longer) \in Seq(Seq(UnitType)) /\ Len(parts(longer)) = n + 1
    <3>1. parts(longer) \in [1..(n + 1) -> Seq(UnitType)]
      BY <1>1, <1>2
    <3> QED BY <1>1, <3>1
  <2>4. \A i \in 1..(n + 1) : parts(longer)[i] = a[i]
    <3>1. \A i \in 1..n : parts(longer)[i] = parts(script)[i]
      BY <1>1
    <3>2. parts(longer)[n + 1] = a[n + 1]
      BY <1>1, <2>2
    <3> HIDE DEF a, parts
    <3>3. \A i \in 1..(n + 1) : i \in 1..n \/ i = n + 1
      BY <1>1
    <3> HIDE DEF n
    <3> QED BY <2>2, <3>1, <3>2, <3>3
  <2> HIDE DEF a, parts
  <2>5. parts(longer) = a
    BY <2>2, <2>3, <2>4, SeqEqual
  <2> QED BY <2>5 DEF a
<1>6. UnitsAt(request, n + 1) \in Seq(UnitType)
  BY <1>1, <1>2
<1> HIDE DEF parts
<1>7. FlattenSeq(parts(longer)) = FlattenSeq(parts(script)) \o UnitsAt(request, n + 1)
  BY <1>4, <1>5, <1>6, FlattenAppend
<1> QED BY <1>3, <1>7 DEF longer, n

LEMMA NoUnits == Units(<< >>) = << >>
BY DEF Units, FlattenSeq

\* The units come in the order of the requests, a body behind its head.
StreamOK(script) ==
    LET stream == Units(script)
    IN  /\ stream \in Seq(UnitType)
        /\ \A j \in DOMAIN stream : stream[j][2] \in 1..Len(script)
        /\ \A j, k \in DOMAIN stream :
               j < k => \/ stream[j][2] < stream[k][2]
                        \/ /\ stream[j][2] = stream[k][2]
                           /\ stream[j][1] = "head" /\ stream[k][1] = "body"
        /\ \A j \in DOMAIN stream : stream[j][1] = "body" => script[stream[j][2]].body

LEMMA StreamGrows ==
    ASSUME NEW script \in Seq(Requests), StreamOK(script), NEW request \in Requests
    PROVE  LET longer == Append(script, request)
           IN  /\ StreamOK(longer)
               /\ Len(Units(longer)) > Len(Units(script))
               /\ \A j \in DOMAIN Units(script) : Units(longer)[j] = Units(script)[j]
               /\ \A j \in DOMAIN Units(longer) \ DOMAIN Units(script) :
                     Units(longer)[j][2] = Len(script) + 1
<1> DEFINE n == Len(script)
           longer == Append(script, request)
           old == Units(script)
           new == UnitsAt(request, n + 1)
           all == old \o new
           L == Len(old)
<1>1. /\ longer \in Seq(Requests) /\ Len(longer) = n + 1 /\ longer[n + 1] = request
      /\ \A i \in 1..n : longer[i] = script[i]
      /\ n \in Nat
  BY AppendProperties
<1>2. Units(longer) = all
  BY UnitsGrow
<1>3. /\ old \in Seq(UnitType) /\ \A j \in 1..L : old[j][2] \in 1..n
      /\ \A j, k \in 1..L : j < k => \/ old[j][2] < old[k][2]
                                     \/ /\ old[j][2] = old[k][2]
                                        /\ old[j][1] = "head" /\ old[k][1] = "body"
      /\ \A j \in 1..L : old[j][1] = "body" => script[old[j][2]].body
      /\ L \in Nat
  BY DEF StreamOK
<1>4. /\ new \in Seq(UnitType) /\ new[1] = <<"head", n + 1>>
      /\ \/ Len(new) = 1
         \/ Len(new) = 2 /\ new[2] = <<"body", n + 1>> /\ request.body
  <2>1. n + 1 \in Nat
    BY <1>1
  <2> HIDE DEF n
  <2> QED BY <2>1, UnitsAtType DEF new
<1> HIDE DEF longer, old, new
<1>5. /\ all \in Seq(UnitType) /\ Len(all) = L + Len(new)
      /\ \A j \in 1..L : all[j] = old[j]
      /\ \A j \in 1..Len(new) : all[L + j] = new[j]
  BY <1>3, <1>4, ConcatProperties
<1> HIDE DEF all, L
<1>6. /\ all[L + 1] = <<"head", n + 1>> /\ L \in Nat
      /\ \A j \in 1..Len(all) : \/ j \in 1..L /\ all[j] = old[j]
                                \/ j = L + 1
                                \/ j = L + 2 /\ all[j] = <<"body", n + 1>> /\ request.body
  <2>1. PICK m \in {1, 2} : m = Len(new)
    BY <1>4
  <2>2. L \in Nat /\ Len(all) = L + m
    BY <1>3, <1>5, <2>1
  <2>3. 1 \in 1..m /\ (m = 2 => 2 \in 1..m)
    OBVIOUS
  <2>4. all[L + 1] = new[1] /\ (m = 2 => all[L + 2] = new[2])
    BY <1>5, <2>1, <2>3
  <2>5. \A j \in 1..(L + m) : j \in 1..L \/ j = L + 1 \/ (j = L + 2 /\ m = 2)
    BY <2>2
  <2> HIDE DEF n
  <2> QED BY <1>4, <1>5, <2>1, <2>2, <2>4, <2>5
<1> DEFINE last == n + 1
<1>13. last \in Nat /\ last = n + 1 /\ \A i \in 1..n : i \in 1..last /\ i < last
  BY <1>1
<1>14. /\ all[L + 1] = <<"head", last>>
       /\ \A j \in 1..Len(all) : \/ j \in 1..L /\ all[j] = old[j]
                                 \/ j = L + 1
                                 \/ j = L + 2 /\ all[j] = <<"body", last>> /\ request.body
       /\ longer[last] = request
  BY <1>1, <1>6
<1>15. last \in 1..last
  BY <1>13
<1> HIDE DEF last, n
<1>16. \A j \in 1..Len(all) : \/ j \in 1..L /\ all[j] = old[j]
                              \/ j \notin 1..L /\ all[j][2] = last /\ j = L + 1 /\ all[j][1] = "head"
                              \/ j \notin 1..L /\ all[j][2] = last /\ j = L + 2 /\ all[j][1] = "body" /\ request.body
  BY <1>14, <1>6
<1>7. \A j \in 1..Len(all) : all[j][2] \in 1..last
  BY <1>3, <1>13, <1>15, <1>16
<1>17. ASSUME NEW j \in 1..Len(all), all[j][1] = "body"
       PROVE  longer[all[j][2]].body
  <2>1. CASE j \in 1..L
    <3>1. all[j] = old[j] /\ old[j][1] = "body"
      BY <1>17, <1>5, <2>1
    <3>2. old[j][2] \in 1..n /\ script[old[j][2]].body
      BY <1>3, <2>1, <3>1
    <3>3. longer[old[j][2]] = script[old[j][2]]
      BY <1>1, <3>2
    <3> QED BY <3>1, <3>2, <3>3
  <2>2. CASE j \notin 1..L
    <3>1. all[j][2] = last /\ request.body
      BY <1>16, <1>17, <2>2
    <3> QED BY <1>14, <3>1
  <2> QED BY <2>1, <2>2
<1>8. \A j \in 1..Len(all) : all[j][1] = "body" => longer[all[j][2]].body
  BY <1>17
<1>9. ASSUME NEW j \in 1..Len(all), NEW k \in 1..Len(all), j < k
      PROVE  \/ all[j][2] < all[k][2]
             \/ all[j][2] = all[k][2] /\ all[j][1] = "head" /\ all[k][1] = "body"
  <2>1. CASE k \in 1..L
    <3>1. j \in 1..L
      BY <1>6, <1>9, <2>1
    <3>2. all[j] = old[j] /\ all[k] = old[k]
      BY <1>5, <2>1, <3>1
    <3> QED BY <1>3, <1>9, <2>1, <3>1, <3>2
  <2>2. CASE k \notin 1..L /\ j \in 1..L
    <3>1. all[k][2] = last /\ all[j][2] \in 1..n
      BY <1>3, <1>16, <1>5, <2>2
    <3> QED BY <1>13, <3>1
  <2>3. CASE k \notin 1..L /\ j \notin 1..L
    <3>1. j = L + 1 /\ k = L + 2
      BY <1>6, <1>9, <1>16, <2>3
    <3> QED BY <1>16, <2>3, <3>1, <1>6
  <2> QED BY <2>1, <2>2, <2>3
<1>10. StreamOK(longer)
  <2>1. DOMAIN all = 1..Len(all) /\ Len(longer) = last
    BY <1>1, <1>5, <1>13
  <2> QED BY <1>2, <1>5, <1>7, <1>8, <1>9, <2>1 DEF StreamOK
<1>11. Len(all) > L /\ \A j \in (1..Len(all)) \ (1..L) : all[j][2] = n + 1
  <2>1. Len(all) > L
    BY <1>3, <1>4, <1>5
  <2> QED BY <2>1, <1>16, <1>13
<1>12. DOMAIN all = 1..Len(all) /\ DOMAIN old = 1..L
  BY <1>3, <1>5 DEF L
<1> QED BY <1>2, <1>5, <1>10, <1>11, <1>12 DEF longer, old, L, n

-----------------------------------------------------------------------------
(* The invariant of a connection, of its session r, its network state n and *)
(* its client k.                                                           *)

ReadPhase == {"Run", "read", "read_ok", "read_timeout", "read_eof", "read_error"}

\* The session reads, or is about to when its response is written.
MayRead(r) ==
    \/ \E x \in ReadPhase : x \in InFlight(r)
    \/ r.keepAlive /\ \E x \in {"write", "write_ok"} : x \in InFlight(r)

\* The counters stay in their order, and within the stream.
ConnType(r, n, k) ==
    /\ n \in NetRecord /\ k \in ClientRecord
    /\ StreamOK(k.script)
    /\ n.used <= n.pulled /\ n.pulled <= n.sent /\ n.sent <= Len(Units(k.script))
    /\ n.parsing <= Len(k.script)
    /\ "read_ok" \in InFlight(r) => n.parsing # 0
    /\ k.stage = "idle" => r.state = "absent" /\ n = NewNet /\ k = NewClient

\* The responses on their way to the client, and those it has read.
Responses(n, k) == ToSet(k.answers) \cup ToSet(n.toClient)

\* y may follow x on a connection.
Before(x, y) == x.keepAlive /\ (x.request < y.request \/ y.code = "cut")

InSequence(answers) == \A i, j \in DOMAIN answers : i < j => Before(answers[i], answers[j])

InOrder(answers) == InSequence(answers) /\ \A a \in ToSet(answers) : a.code # "cut"

\* What arrives can be taken in as it comes.
Arriving(n, k) ==
    /\ InSequence(n.toClient)
    /\ \A a \in ToSet(k.answers), b \in ToSet(n.toClient) : Before(a, b)

\* No unit that is left belongs to a request up to this one.
Left(request, n, k) ==
    LET stream == Units(k.script)
    IN  \A j \in DOMAIN stream : j > n.used => request < stream[j][2]

\* A session that reads on has kept every response's promise to, and what it has
\* left to read is behind what it has answered.
ReadsOn(r, n, k) ==
    MayRead(r) => \A a \in Responses(n, k) : a.keepAlive /\ Left(a.request, n, k)

\* The request that is parsed is behind every response, and is the last but for
\* what is left.
Parsing(r, n, k) ==
    /\ (\E x \in {"read", "read_ok", "read_error"} : x \in InFlight(r)) /\ n.parsing # 0
           => \A a \in Responses(n, k) : a.request < n.parsing
    /\ "read_ok" \in InFlight(r) => Left(n.parsing, n, k)
    /\ "read_error" \in InFlight(r) /\ r.open => n.parsing # 0

\* So is the response that is being written.
Replying(r, n, k) ==
    "write" \in InFlight(r) =>
        /\ n.reply.keepAlive = r.keepAlive
        /\ r.keepAlive => Left(n.reply.request, n, k)
        /\ \A a \in Responses(n, k) :
               a.keepAlive /\ (r.open => a.request < n.reply.request)

Numbers(n, k) ==
    /\ n.reply.request <= Len(k.script)
    /\ \A a \in Responses(n, k) : a.request <= Len(k.script)

OrderInv(r, n, k) ==
    /\ InOrder(k.answers)
    /\ k.stage = "connected" =>
           Numbers(n, k) /\ Arriving(n, k) /\ ReadsOn(r, n, k) /\ Parsing(r, n, k)
               /\ Replying(r, n, k)

\* A connection in a state that can be reached.
Good(r, n, k) == RecordInv(r) /\ ConnType(r, n, k) /\ OrderInv(r, n, k)

ConnInv ==
    /\ SessionTypeOK
    /\ net \in [Conns -> NetRecord] /\ client \in [Conns -> ClientRecord]
    /\ \A c \in Conns : Good(sess[c], net[c], client[c])

\* A session that closes counts one more request at most, and none if a read can
\* still come.
ClosingInv ==
    /\ closingAt \in [Conns -> Nat]
    /\ \A c \in Conns :
           sess[c].state \in {"kClosing", "kClosed"} =>
               /\ sess[c].requests <= closingAt[c] + 1
               /\ MayRead(sess[c]) => sess[c].requests <= closingAt[c]

-----------------------------------------------------------------------------
(* A session that closes winds down. *)

LEMMA ReadsByPhase ==
    ASSUME NEW r, NEW x
    PROVE  /\ InFlight(r) = {} => ~MayRead(r)
           /\ InFlight(r) = {x} =>
                 (MayRead(r) <=> x \in ReadPhase \/ (r.keepAlive /\ x \in {"write", "write_ok"}))
<1>1. InFlight(r) = {} => ~MayRead(r)
  BY DEF MayRead
<1>2. InFlight(r) = {x} =>
          (MayRead(r) <=> x \in ReadPhase \/ (r.keepAlive /\ x \in {"write", "write_ok"}))
  BY DEF MayRead
<1> QED BY <1>1, <1>2, Zenon

ClosingStates == {"kClosing", "kClosed"}

\* A session that closes goes on closing; if it counts another request, it reads
\* no further.
Winds(s, r) ==
    r.state \in ClosingStates =>
        /\ s.state \in ClosingStates
        /\ \/ s.requests = r.requests /\ (MayRead(s) => MayRead(r))
           \/ s.requests = r.requests + 1 /\ MayRead(r) /\ ~MayRead(s)

LEMMA BesideWinds ==
    ASSUME NEW r, NEW s, Beside(s, r)
    PROVE  Winds(s, r)
BY DEF Beside, Winds, ClosingStates, MayRead

LEMMA CompleteWinds ==
    ASSUME ChainInv, NEW c \in Conns, Complete(c)
    PROVE  Winds(sess'[c], sess[c])
<1> DEFINE r == sess[c]
           s == sess'[c]
<1>1. RecordInv(r) /\ sess \in [Conns -> SessionRecord]
  BY DEF ChainInv, SessionTypeOK
<1>2. CASE CompleteRead(c)
  <2>1. PICK ec \in ReadOutcomes : "read" \in r.ops /\ s = Post(Done(r, "read"), ec)
    BY <1>1, <1>2 DEF CompleteRead
  <2> HIDE DEF r, s
  <2>2. Carries(s, r) /\ InFlight(r) = {"read"} /\ InFlight(s) = {ec}
    BY <1>1, <2>1, CompletionFlow
  <2>3. "read" \in ReadPhase
    BY DEF ReadPhase
  <2>4. MayRead(r)
    BY <2>2, <2>3 DEF MayRead
  <2> QED BY <2>2, <2>4 DEF Carries, Winds, r, s
<1>3. CASE CompleteWrite(c)
  <2>1. PICK ec \in WriteOutcomes : "write" \in r.ops /\ s = Post(Done(r, "write"), ec)
    BY <1>1, <1>3 DEF CompleteWrite
  <2> HIDE DEF r, s
  <2>2. Carries(s, r) /\ InFlight(r) = {"write"} /\ InFlight(s) = {ec}
    BY <1>1, <2>1, CompletionFlow
  <2>3. ec \notin ReadPhase
    BY DEF ReadPhase, WriteOutcomes
  <2>4. MayRead(s) => MayRead(r)
    BY <2>2, <2>3, ReadsByPhase DEF Carries
  <2> QED BY <2>2, <2>4 DEF Carries, Winds, r, s
<1> QED BY <1>2, <1>3 DEF Complete

LEMMA HandlerWinds ==
    ASSUME ChainInv, NEW c \in Conns, RunHandler(c)
    PROVE  Winds(sess'[c], sess[c])
<1> DEFINE r == sess[c]
           s == sess'[c]
<1>1. RecordInv(r) /\ sess \in [Conns -> SessionRecord]
  BY DEF ChainInv, SessionTypeOK
<1>2. r.strand # << >>
  BY DEF RunHandler, OnRun, OnRequestClose, OnForceClose, OnReadOk, OnReadFailed,
         OnWritten, RunHead
<1>3. CASE OnRun(c)
  <2>1. Head(r.strand) = "Run" /\ s = DoRead(Pop(r))
    BY <1>1, <1>3 DEF OnRun, RunHead
  <2> HIDE DEF r, s
  <2>2. Carries(s, r) /\ InFlight(r) = {"Run"}
    BY <1>1, <1>2, <2>1, RunFlow
  <2>3. "Run" \in ReadPhase
    BY DEF ReadPhase
  <2>4. MayRead(r)
    BY <2>2, <2>3 DEF MayRead
  <2> QED BY <2>2, <2>4 DEF Carries, Winds, r, s
<1>4. CASE OnRequestClose(c)
  <2>1. Head(r.strand) = "RequestClose" /\ s = RequestClose(Pop(r))
    BY <1>1, <1>4 DEF OnRequestClose, RunHead
  <2> HIDE DEF r, s
  <2>2. Beside(s, r)
    BY <1>1, <1>2, <2>1, HandledCallFlow
  <2> QED BY <2>2, BesideWinds DEF r, s
<1>5. CASE OnForceClose(c)
  <2>1. Head(r.strand) = "ForceClose" /\ s = Close(Pop(r), TRUE)
    BY <1>1, <1>5 DEF OnForceClose, RunHead
  <2> HIDE DEF r, s
  <2>2. Beside(s, r)
    BY <1>1, <1>2, <2>1, HandledCallFlow
  <2> QED BY <2>2, BesideWinds DEF r, s
<1>6. CASE OnReadOk(c)
  <2>1. PICK keepAlive \in BOOLEAN :
            Head(r.strand) = "read_ok" /\ s = HandleReadSuccess(Pop(r), keepAlive)
    BY <1>1, <1>6 DEF OnReadOk, RunHead
  <2> HIDE DEF r, s
  <2>2. /\ Closer(s, r) /\ s.requests = r.requests + 1
        /\ s.keepAlive = (keepAlive /\ s.state # "kClosing")
        /\ InFlight(r) = {"read_ok"}
        /\ InFlight(s) = IF r.open THEN {"write"} ELSE {"write_error"}
    BY <1>1, <1>2, <2>1, ReadOkFlow
  <2>3. /\ "read_ok" \in ReadPhase /\ "write" \notin ReadPhase
        /\ "write_error" \notin ReadPhase
    BY DEF ReadPhase
  <2>4. MayRead(r) /\ ~Quiet(r)
    <3>1. ~Quiet(r)
      BY <1>1, <2>2, OneInFlight
    <3> QED BY <2>2, <2>3, <3>1 DEF MayRead
  <2>5. r.state = "kClosed" => ~r.open
    BY <1>1, <2>4 DEF RecordInv
  <2>6. r.state = "kClosing" => s.state = "kClosing" /\ ~s.keepAlive
    BY <2>2 DEF Closer
  <2>7. r.state \in ClosingStates => s.state \in ClosingStates /\ ~MayRead(s)
    BY <2>2, <2>3, <2>5, <2>6, ReadsByPhase DEF ClosingStates, Closer
  <2> QED BY <2>2, <2>4, <2>7 DEF Winds, r, s
<1>7. CASE OnReadFailed(c)
  <2>1. PICK ec \in ReadOutcomes \ {"read_ok"} :
            Head(r.strand) = ec /\ s = HandleReadError(Pop(r), ec)
    BY <1>1, <1>7 DEF OnReadFailed, RunHead
  <2> HIDE DEF r, s
  <2>2. /\ s.requests = r.requests /\ InFlight(r) = {ec}
        /\ \/ /\ ec = "read_error" /\ s.keepAlive = FALSE /\ Closer(s, r)
              /\ InFlight(s) = IF r.open THEN {"write"} ELSE {"write_error"}
           \/ ec # "read_error" /\ s.state = "kClosed" /\ InFlight(s) = {}
    BY <1>1, <1>2, <2>1, ReadFailedFlow
  <2>3. "write" \notin ReadPhase /\ "write_error" \notin ReadPhase
    BY DEF ReadPhase
  <2>4. ~MayRead(s) /\ (r.state \in ClosingStates => s.state \in ClosingStates)
    BY <2>2, <2>3, ReadsByPhase DEF Closer, ClosingStates
  <2> QED BY <2>2, <2>4 DEF Winds, r, s
<1>8. CASE OnWritten(c)
  <2>1. PICK ec \in WriteOutcomes :
            Head(r.strand) = ec /\ s = HandleWritten(Pop(r), ec)
    BY <1>1, <1>8 DEF OnWritten, RunHead
  <2> HIDE DEF r, s
  <2>2. /\ s.requests = r.requests /\ InFlight(r) = {ec}
        /\ \/ ec = "write_ok" /\ r.keepAlive /\ s.state = r.state
           \/ s.state = "kClosed" /\ InFlight(s) = {}
    BY <1>1, <1>2, <2>1, WrittenFlow
  <2>3. MayRead(s) => MayRead(r)
    BY <2>2, ReadsByPhase
  <2>4. r.state \in ClosingStates => s.state \in ClosingStates
    BY <2>2 DEF ClosingStates
  <2> QED BY <2>2, <2>3, <2>4 DEF Winds, r, s
<1> QED BY <1>3, <1>4, <1>5, <1>6, <1>7, <1>8 DEF RunHandler

LEMMA SessionWinds ==
    ASSUME ChainInv, [SessionNext]_sess, NEW c \in Conns
    PROVE  Winds(sess'[c], sess[c])
<1>1. CASE sess'[c] = sess[c]
  BY <1>1 DEF Winds
<1>2. ASSUME NEW d \in Conns, Open(d) \/ Call(d) \/ Complete(d) \/ RunHandler(d)
      PROVE  d # c => sess'[c] = sess[c]
  <2>1. \E s : sess' = [sess EXCEPT ![d] = s]
    BY <1>2 DEF Open, Call, Complete, CompleteRead, CompleteWrite, RunHandler, RunHead, OnRun,
       OnRequestClose, OnForceClose, OnReadOk, OnReadFailed, OnWritten
  <2> QED BY <2>1 DEF ChainInv, SessionTypeOK
<1>3. CASE Open(c)
  BY <1>3 DEF Open, Winds, ClosingStates
<1>4. CASE Call(c)
  <2>1. PICK handler \in {"RequestClose", "ForceClose"}, inPlace \in BOOLEAN :
            /\ Live(sess[c])
            /\ sess' = [sess EXCEPT ![c] = Dispatch(sess[c], handler, inPlace)]
    BY <1>4 DEF Call
  <2>2. RecordInv(sess[c]) /\ sess[c].state # "absent"
    BY <2>1 DEF ChainInv, Live
  <2>3. sess'[c] = Dispatch(sess[c], handler, inPlace)
    BY <2>1 DEF ChainInv, SessionTypeOK
  <2> QED BY <2>2, <2>3, DispatchFlow, BesideWinds
<1>5. CASE Complete(c)
  BY <1>5, CompleteWinds
<1>6. CASE RunHandler(c)
  BY <1>6, HandlerWinds
<1> QED BY <1>1, <1>2, <1>3, <1>4, <1>5, <1>6 DEF SessionNext

LEMMA ClosingStep ==
    ASSUME ChainInv, ClosingInv, [SessionNext]_sess,
           closingAt' = [c \in Conns |->
               IF sess'[c].state \in {"absent", "kOpen"} THEN 0
               ELSE IF sess[c].state \in {"absent", "kOpen"} THEN sess'[c].requests
               ELSE closingAt[c]]
    PROVE  ClosingInv'
<1>4. ASSUME NEW c \in Conns
      PROVE  sess[c].requests \in Nat /\ sess'[c].requests \in Nat
  <2>1. ChainInv'
    BY ChainInvNext
  <2> QED BY <2>1 DEF ChainInv, SessionTypeOK, SessionRecord
<1>5. closingAt' \in [Conns -> Nat] /\ closingAt \in [Conns -> Nat]
  BY <1>4 DEF ClosingInv
<1> SUFFICES ASSUME NEW c \in Conns, sess'[c].state \in {"kClosing", "kClosed"}
             PROVE  /\ sess'[c].requests <= closingAt'[c] + 1
                    /\ MayRead(sess'[c]) => sess'[c].requests <= closingAt'[c]
  BY <1>5 DEF ClosingInv, MayRead, InFlight, Pending
<1>1. /\ sess[c].requests \in Nat /\ sess'[c].requests \in Nat
      /\ closingAt[c] \in Nat /\ closingAt'[c] \in Nat
  BY <1>4, <1>5
<1>2. CASE sess[c].state \in {"absent", "kOpen"}
  BY <1>1, <1>2
<1>3. CASE sess[c].state \notin {"absent", "kOpen"}
  <2>1. sess[c].state \in {"kClosing", "kClosed"}
    BY <1>3 DEF ChainInv, SessionTypeOK, SessionRecord, States
  <2>2. closingAt'[c] = closingAt[c]
    BY <1>3
  <2>3. Winds(sess'[c], sess[c])
    BY SessionWinds
  <2>4. /\ sess[c].requests <= closingAt[c] + 1
        /\ MayRead(sess[c]) => sess[c].requests <= closingAt[c]
    BY <2>1 DEF ClosingInv
  <2> QED BY <1>1, <2>1, <2>2, <2>3, <2>4 DEF Winds, ClosingStates
<1> QED BY <1>2, <1>3

-----------------------------------------------------------------------------
(* What a read takes from the stream. *)

\* The parser has got further, to a request that belongs to the last unit it used.
Further(m, n, k) ==
    LET stream == Units(k.script)
    IN  /\ m \in NetRecord
        /\ n.used < m.used /\ m.used <= m.pulled /\ m.pulled <= m.sent
        /\ n.pulled <= m.pulled
        /\ m.sent = n.sent /\ m.reply = n.reply /\ m.toClient = n.toClient
        /\ m.deadline = n.deadline /\ m.reset = n.reset
        /\ m.used \in DOMAIN stream /\ m.parsing = stream[m.used][2]
        /\ m.parsing \in 1..Len(k.script)

LEMMA ParseFurther ==
    ASSUME NEW c \in Conns, NEW k, k = client[c], k \in ClientRecord, StreamOK(k.script),
           NEW n \in NetRecord, n.used < n.pulled, n.pulled <= n.sent,
           n.sent <= Len(Units(k.script))
    PROVE  Further(Parse(c, n), n, k) /\ Parse(c, n).pulled = n.pulled
              /\ Parse(c, n).used = n.used + 1
<1> DEFINE stream == Units(k.script)
           m == Parse(c, n)
           unit == stream[n.used + 1]
           request == k.script[unit[2]]
           fault == IF unit[1] = "body" /\ n.parsing = 0 THEN "malformed"
                    ELSE IF unit[1] = "head" THEN request.fault ELSE "none"
<1>1. /\ n.used \in Nat /\ n.pulled \in Nat /\ n.sent \in Nat
      /\ k.script \in Seq(Requests)
  BY DEF NetRecord, ClientRecord
<1>2. stream \in Seq(UnitType) /\ \A j \in DOMAIN stream : stream[j][2] \in 1..Len(k.script)
  BY DEF StreamOK
<1>3. m = [n EXCEPT !.used = n.used + 1, !.parsing = unit[2], !.fault = fault]
  BY DEF Parse, NextUnit, Stream
<1> HIDE DEF stream, m
<1>4. n.used + 1 \in DOMAIN stream
  BY <1>1, <1>2 DEF stream
<1>5. unit \in UnitType /\ unit[2] \in 1..Len(k.script) /\ unit[2] \in Nat
  BY <1>2, <1>4
<1>6. request \in Requests
  BY <1>1, <1>5
<1> HIDE DEF unit, request
<1>7. fault \in Faults
  BY <1>6 DEF Requests, Faults
<1> HIDE DEF fault
<1>8. m \in NetRecord
  <2> DEFINE number == unit[2]
             next == n.used + 1
  <2>1. number \in Nat /\ next \in Nat
    BY <1>1, <1>5
  <2>2. m = [n EXCEPT !.used = next, !.parsing = number, !.fault = fault]
    BY <1>3
  <2> HIDE DEF number, next
  <2> QED BY <1>7, <2>1, <2>2 DEF NetRecord
<1>9. /\ m.used = n.used + 1 /\ m.parsing = unit[2] /\ m.pulled = n.pulled
      /\ m.sent = n.sent /\ m.reply = n.reply /\ m.toClient = n.toClient
      /\ m.deadline = n.deadline /\ m.reset = n.reset
  BY <1>3 DEF NetRecord
<1>10. n.used < m.used /\ m.used <= m.pulled /\ m.pulled <= m.sent /\ n.pulled <= m.pulled
  BY <1>1, <1>9
<1> HIDE DEF m
<1>11. m.parsing = stream[m.used][2] /\ m.used \in DOMAIN stream
  BY <1>4, <1>9 DEF unit
<1> QED BY <1>5, <1>8, <1>9, <1>10, <1>11 DEF Further, stream, m

LEMMA FurtherYet ==
    ASSUME NEW l, NEW m, NEW n \in NetRecord, NEW k, Further(l, m, k), Further(m, n, k)
    PROVE  Further(l, n, k)
<1>1. /\ l.used \in Nat /\ m.used \in Nat /\ n.used \in Nat
      /\ l.pulled \in Nat /\ m.pulled \in Nat /\ n.pulled \in Nat
  BY DEF Further, NetRecord
<1> QED BY <1>1 DEF Further

\* A request that is complete leaves nothing of itself behind.
LEMMA CompleteLeaves ==
    ASSUME NEW c \in Conns, NEW k, k = client[c], StreamOK(k.script),
           NEW m, NEW n, Further(m, n, k), RequestComplete(c, m)
    PROVE  Left(m.parsing, m, k)
<1> DEFINE stream == Units(k.script)
<1> SUFFICES ASSUME NEW j \in DOMAIN stream, j > m.used
             PROVE  m.parsing < stream[j][2]
  BY DEF Left
<1>1. /\ m.used \in DOMAIN stream /\ m.parsing = stream[m.used][2] /\ m.used < j
      /\ \/ ~k.script[m.parsing].body
         \/ stream[m.used][1] = "body"
  BY DEF Further, RequestComplete, Stream, StreamOK
<1>2. /\ \A i, l \in DOMAIN stream :
               i < l => \/ stream[i][2] < stream[l][2]
                        \/ /\ stream[i][2] = stream[l][2]
                           /\ stream[i][1] = "head" /\ stream[l][1] = "body"
      /\ \A i \in DOMAIN stream : stream[i][1] = "body" => k.script[stream[i][2]].body
  BY DEF StreamOK
<1> HIDE DEF stream
<1>3. \/ stream[m.used][2] < stream[j][2]
      \/ /\ stream[m.used][2] = stream[j][2]
         /\ stream[m.used][1] = "head" /\ stream[j][1] = "body"
  BY <1>1, <1>2
<1>4. CASE /\ stream[m.used][2] = stream[j][2]
           /\ stream[m.used][1] = "head" /\ stream[j][1] = "body"
  <2>1. k.script[m.parsing].body
    BY <1>1, <1>2, <1>4
  <2>2. stream[m.used][1] # "body"
    BY <1>4
  <2> QED BY <1>1, <2>1, <2>2
<1> QED BY <1>1, <1>3, <1>4

\* The outcomes of a read.
LEMMA ReadSomeFlow ==
    ASSUME NEW c \in Conns, NEW r, r = sess[c], NEW n, n = net[c], NEW k, k = client[c],
           sess \in [Conns -> SessionRecord], net \in [Conns -> NetRecord],
           RecordInv(r), ConnType(r, n, k), ReadSome(c)
    PROVE  \E m, s :
               /\ net' = [net EXCEPT ![c] = m] /\ sess' = [sess EXCEPT ![c] = s]
               /\ Further(m, n, k) /\ RecordInv(s) /\ Carries(s, r)
               /\ InFlight(r) = {"read"}
               /\ \/ s = r
                  \/ InFlight(s) = {"read_error"}
                  \/ InFlight(s) = {"read_ok"} /\ Left(m.parsing, m, k)
<1>1. "read" \in r.ops /\ InFlight(r) = {"read"}
  <2>1. "read" \in r.ops
    BY DEF ReadSome
  <2>2. "read_error" \in ReadOutcomes
    BY DEF ReadOutcomes
  <2> QED BY <2>1, <2>2, CompletionFlow
<1>2. /\ n \in NetRecord /\ k \in ClientRecord /\ StreamOK(k.script)
      /\ n.used <= n.pulled /\ n.pulled <= n.sent /\ n.sent <= Len(Units(k.script))
      /\ n.used \in Nat /\ n.pulled \in Nat /\ n.sent \in Nat
  BY DEF ConnType, NetRecord
<1>3. PICK taken \in IF n.used < n.pulled THEN {n.pulled} ELSE (n.pulled + 1)..n.sent :
        LET one == Parse(c, [n EXCEPT !.pulled = taken])
            more == one.fault = "none" /\ ~RequestComplete(c, one) /\ one.used < taken
            m == IF more THEN Parse(c, one) ELSE one
        IN  /\ net' = [net EXCEPT ![c] = m]
            /\ IF m.fault # "none" THEN Finish(c, "read", "read_error")
               ELSE IF RequestComplete(c, m) THEN Finish(c, "read", "read_ok")
               ELSE UNCHANGED sess
  BY DEF ReadSome
<1>4. taken \in Nat /\ n.used < taken /\ taken <= n.sent /\ n.pulled <= taken
  BY <1>2
<1> DEFINE full == [n EXCEPT !.pulled = taken]
           one == Parse(c, full)
           more == one.fault = "none" /\ ~RequestComplete(c, one) /\ one.used < taken
           m == IF more THEN Parse(c, one) ELSE one
<1>5. /\ full \in NetRecord /\ full.pulled = taken /\ full.used = n.used /\ full.sent = n.sent
      /\ full.reply = n.reply /\ full.toClient = n.toClient
      /\ full.deadline = n.deadline /\ full.reset = n.reset
  BY <1>2, <1>4 DEF NetRecord
<1> HIDE DEF full
<1>6. Further(one, full, k) /\ one.pulled = taken /\ one.used = n.used + 1
  BY <1>2, <1>4, <1>5, ParseFurther
<1> HIDE DEF one
<1>7. Further(m, full, k)
  <2>1. CASE more
    <3>1. /\ one \in NetRecord /\ one.used < one.pulled /\ one.pulled <= one.sent
          /\ one.sent <= Len(Units(k.script))
      BY <1>2, <1>5, <1>6, <2>1 DEF Further
    <3>2. Further(Parse(c, one), one, k)
      BY <1>2, <3>1, ParseFurther
    <3>3. m = Parse(c, one)
      BY <2>1
    <3> HIDE DEF m
    <3>4. Further(m, one, k)
      BY <3>2, <3>3
    <3> QED BY <1>5, <1>6, <3>4, FurtherYet
  <2>2. CASE ~more
    BY <1>6, <2>2
  <2> QED BY <2>1, <2>2
<1>8. /\ net' = [net EXCEPT ![c] = m]
      /\ IF m.fault # "none" THEN Finish(c, "read", "read_error")
         ELSE IF RequestComplete(c, m) THEN Finish(c, "read", "read_ok")
         ELSE UNCHANGED sess
  BY <1>3 DEF one, full
<1> HIDE DEF m
<1>9. Further(m, n, k)
  <2>1. m.pulled \in Nat /\ taken <= m.pulled
    BY <1>5, <1>7 DEF Further, NetRecord
  <2>2. n.pulled <= m.pulled
    BY <1>2, <1>4, <2>1
  <2> QED BY <1>5, <1>7, <2>2 DEF Further
<1>10. CASE m.fault # "none"
  <2> DEFINE s == Post(Done(r, "read"), "read_error")
  <2>1. sess' = [sess EXCEPT ![c] = s]
    BY <1>8, <1>10 DEF Finish
  <2>2. RecordInv(s) /\ Carries(s, r) /\ InFlight(s) = {"read_error"}
    BY <1>1, CompletionFlow DEF ReadOutcomes
  <2> HIDE DEF s
  <2> QED BY <1>1, <1>8, <1>9, <2>1, <2>2
<1>11. CASE m.fault = "none" /\ RequestComplete(c, m)
  <2> DEFINE s == Post(Done(r, "read"), "read_ok")
  <2>1. sess' = [sess EXCEPT ![c] = s]
    BY <1>8, <1>11 DEF Finish
  <2>2. RecordInv(s) /\ Carries(s, r) /\ InFlight(s) = {"read_ok"}
    BY <1>1, CompletionFlow DEF ReadOutcomes
  <2>3. Left(m.parsing, m, k)
    BY <1>2, <1>9, <1>11, CompleteLeaves
  <2> HIDE DEF s
  <2> QED BY <1>1, <1>8, <1>9, <2>1, <2>2, <2>3
<1>12. CASE m.fault = "none" /\ ~RequestComplete(c, m)
  <2>1. sess' = [sess EXCEPT ![c] = r] /\ Carries(r, r)
    BY <1>8, <1>12 DEF Carries
  <2> QED BY <1>1, <1>8, <1>9, <2>1
<1> QED BY <1>10, <1>11, <1>12

-----------------------------------------------------------------------------
(* The order of the answers: sequences of them. *)

LEMMA AppendSequence ==
    ASSUME NEW T, NEW s \in Seq(T), NEW e \in T
    PROVE  /\ Append(s, e) \in Seq(T)
           /\ ToSet(Append(s, e)) = ToSet(s) \cup {e}
           /\ InSequence(s) /\ (\A a \in ToSet(s) : Before(a, e)) => InSequence(Append(s, e))
<1> DEFINE t == Append(s, e)
           n == Len(s) + 1
<1>1. /\ t \in Seq(T) /\ DOMAIN t = DOMAIN s \cup {n} /\ t[n] = e
      /\ \A i \in DOMAIN s : t[i] = s[i] /\ i < n /\ i \in Nat
      /\ n \in Nat /\ \A i \in DOMAIN t : i <= n /\ i \in Nat
  OBVIOUS
<1> HIDE DEF t, n
<1>2. ToSet(t) = ToSet(s) \cup {e}
  BY <1>1 DEF ToSet
<1>3. ASSUME InSequence(s), \A a \in ToSet(s) : Before(a, e),
             NEW i \in DOMAIN t, NEW j \in DOMAIN t, i < j
      PROVE  Before(t[i], t[j])
  <2>1. i \in DOMAIN s /\ t[i] = s[i]
    BY <1>1, <1>3
  <2>2. CASE j = n
    <3>1. s[i] \in ToSet(s)
      BY <2>1 DEF ToSet
    <3> QED BY <1>1, <1>3, <2>1, <2>2, <3>1
  <2>3. CASE j # n
    <3>1. j \in DOMAIN s /\ t[j] = s[j]
      BY <1>1, <2>3
    <3> QED BY <1>3, <2>1, <3>1 DEF InSequence
  <2> QED BY <2>2, <2>3
<1> QED BY <1>1, <1>2, <1>3 DEF InSequence, t

LEMMA TailSequence ==
    ASSUME NEW T, NEW s \in Seq(T), s # << >>
    PROVE  /\ Head(s) \in T /\ Tail(s) \in Seq(T)
           /\ Head(s) \in ToSet(s) /\ ToSet(Tail(s)) \subseteq ToSet(s)
           /\ InSequence(s) => /\ InSequence(Tail(s))
                               /\ \A b \in ToSet(Tail(s)) : Before(Head(s), b)
<1> DEFINE t == Tail(s)
<1>1. /\ t \in Seq(T) /\ Head(s) = s[1] /\ 1 \in DOMAIN s /\ Head(s) \in T
      /\ \A i \in DOMAIN t : /\ i + 1 \in DOMAIN s /\ t[i] = s[i + 1]
                             /\ i \in Nat /\ 1 < i + 1
  OBVIOUS
<1> HIDE DEF t
<1>2. Head(s) \in ToSet(s) /\ ToSet(t) \subseteq ToSet(s)
  BY <1>1 DEF ToSet
<1>3. ASSUME InSequence(s)
      PROVE  InSequence(t) /\ \A b \in ToSet(t) : Before(Head(s), b)
  <2>1. \A i \in DOMAIN t : Before(s[1], t[i])
    BY <1>1, <1>3 DEF InSequence
  <2>2. ASSUME NEW i \in DOMAIN t, NEW j \in DOMAIN t, i < j
        PROVE  Before(t[i], t[j])
    <3>1. i + 1 < j + 1
      BY <1>1, <2>2
    <3> QED BY <1>1, <1>3, <3>1 DEF InSequence
  <2> QED BY <1>1, <2>1, <2>2 DEF InSequence, ToSet
<1> QED BY <1>1, <1>2, <1>3 DEF t

LEMMA PrefixSequence ==
    ASSUME NEW T, NEW s \in Seq(T), NEW kept \in 0..Len(s)
    PROVE  /\ SubSeq(s, 1, kept) \in Seq(T)
           /\ ToSet(SubSeq(s, 1, kept)) \subseteq ToSet(s)
           /\ InSequence(s) => InSequence(SubSeq(s, 1, kept))
<1> DEFINE t == SubSeq(s, 1, kept)
<1>1. t \in Seq(T) /\ \A i \in DOMAIN t : i \in DOMAIN s /\ t[i] = s[i]
  OBVIOUS
<1> HIDE DEF t
<1>2. ToSet(t) \subseteq ToSet(s)
  BY <1>1 DEF ToSet
<1>3. InSequence(s) => InSequence(t)
  BY <1>1 DEF InSequence
<1> QED BY <1>1, <1>2, <1>3 DEF t

Reply == [request : Nat, code : Codes, keepAlive : BOOLEAN]

LEMMA ResponseTypes ==
    ASSUME NEW r, NEW n, NEW k, ConnType(r, n, k)
    PROVE  /\ n \in NetRecord /\ k \in ClientRecord /\ StreamOK(k.script)
           /\ k.script \in Seq(Requests) /\ Len(k.script) \in Nat
           /\ n.toClient \in Seq(Reply) /\ k.answers \in Seq(Reply) /\ n.reply \in Reply
           /\ n.used \in Nat /\ n.pulled \in Nat /\ n.sent \in Nat /\ n.parsing \in Nat
           /\ Len(Units(k.script)) \in Nat
           /\ n.used <= n.pulled /\ n.pulled <= n.sent /\ n.sent <= Len(Units(k.script))
           /\ \A a \in Responses(n, k) : a \in Reply
<1>1. /\ n \in NetRecord /\ k \in ClientRecord /\ StreamOK(k.script)
      /\ n.used <= n.pulled /\ n.pulled <= n.sent /\ n.sent <= Len(Units(k.script))
  BY DEF ConnType
<1>2. /\ k.script \in Seq(Requests) /\ k.answers \in Seq(Reply)
  BY <1>1 DEF ClientRecord, Reply
<1>3. /\ n.toClient \in Seq(Reply) /\ n.reply \in Reply
      /\ n.used \in Nat /\ n.pulled \in Nat /\ n.sent \in Nat /\ n.parsing \in Nat
  BY <1>1 DEF NetRecord, Reply
<1>4. Len(Units(k.script)) \in Nat
  BY <1>1 DEF StreamOK
<1> HIDE DEF Reply
<1>5. \A a \in Responses(n, k) : a \in Reply
  BY <1>2, <1>3 DEF Responses, ToSet
<1>6. Len(k.script) \in Nat
  BY <1>2
<1> QED BY <1>1, <1>2, <1>3, <1>4, <1>5, <1>6

\* What is left stays so, when more of the stream is used.
LEMMA LeftStays ==
    ASSUME NEW x, NEW n, NEW m, NEW k, StreamOK(k.script), n.used \in Nat, m.used \in Nat,
           n.used <= m.used, Left(x, n, k)
    PROVE  Left(x, m, k)
BY DEF Left, StreamOK

-----------------------------------------------------------------------------
(* The steps of the session, on a connection. *)

\* What an idle client's connection is rules out everything but a connect.
LEMMA IdleIsStill ==
    ASSUME NEW r, NEW n, NEW k, Good(r, n, k), InFlight(r) # {} \/ r.strand # << >>
    PROVE  k.stage # "idle"
<1>1. r.state = "absent" => r.ops = {} /\ r.strand = << >>
  BY DEF Good, RecordInv
<1>2. r.ops = {} /\ r.strand = << >> => InFlight(r) = {}
  BY DEF InFlight, Pending
<1> QED BY <1>1, <1>2 DEF Good, ConnType

LEMMA ReadSomeKeeps ==
    ASSUME NEW r, NEW n, NEW k, Good(r, n, k), NEW s, NEW m,
           Further(m, n, k), RecordInv(s), Carries(s, r), InFlight(r) = {"read"},
           \/ s = r
           \/ InFlight(s) = {"read_error"}
           \/ InFlight(s) = {"read_ok"} /\ Left(m.parsing, m, k)
    PROVE  Good(s, m, k)
<1>1. k.stage # "idle"
  BY IdleIsStill
<1>2. /\ n.used \in Nat /\ m.used \in Nat /\ n.used < m.used /\ n.used <= m.used
      /\ m.parsing \in Nat /\ m.parsing # 0 /\ m.parsing <= Len(k.script)
      /\ m.reply = n.reply /\ m.toClient = n.toClient
      /\ Len(Units(k.script)) \in Nat /\ StreamOK(k.script)
  BY ResponseTypes DEF Good, Further
<1>3. ConnType(s, m, k)
  <2>1. m.pulled <= m.sent /\ m.sent = n.sent /\ m.used <= m.pulled /\ m \in NetRecord
    BY DEF Further
  <2> QED BY <1>1, <1>2, <2>1 DEF Good, ConnType
<1>4. Responses(m, k) = Responses(n, k)
  BY <1>2 DEF Responses
<1>5. InOrder(k.answers)
  BY DEF Good, OrderInv
<1>6. ASSUME k.stage = "connected"
      PROVE  /\ Numbers(m, k) /\ Arriving(m, k) /\ ReadsOn(s, m, k) /\ Parsing(s, m, k)
             /\ Replying(s, m, k)
  <2>1. /\ Numbers(n, k) /\ Arriving(n, k) /\ ReadsOn(r, n, k)
    BY <1>6 DEF Good, OrderInv
  <2>2. MayRead(r)
    BY DEF MayRead, ReadPhase
  <2>3. \A a \in Responses(n, k) : a.keepAlive /\ Left(a.request, n, k)
    BY <2>1, <2>2 DEF ReadsOn
  <2>4. \A a \in Responses(n, k) : a.request < m.parsing
    BY <1>2, <2>3 DEF Further, Left
  <2>5. \A a \in Responses(m, k) : a.keepAlive /\ Left(a.request, m, k)
    BY <1>2, <1>4, <2>3, LeftStays
  <2>6. "write" \notin InFlight(s)
    OBVIOUS
  <2>7. "read_ok" \in InFlight(s) => Left(m.parsing, m, k)
    OBVIOUS
  <2>8. Numbers(m, k) /\ Arriving(m, k)
    BY <1>2, <1>4, <2>1 DEF Numbers, Arriving
  <2>9. ReadsOn(s, m, k) /\ Replying(s, m, k)
    BY <2>5, <2>6 DEF ReadsOn, Replying
  <2>10. Parsing(s, m, k)
    BY <1>2, <1>4, <2>4, <2>7 DEF Parsing
  <2> QED BY <2>8, <2>9, <2>10
<1> QED BY <1>3, <1>5, <1>6 DEF Good, OrderInv

\* A read that ends without having parsed any more.
LEMMA ReadEndsKeeps ==
    ASSUME NEW r, NEW n, NEW k, Good(r, n, k), NEW s,
           RecordInv(s), Carries(s, r), InFlight(r) = {"read"},
           NEW ec \in {"read_timeout", "read_eof", "read_error"}, InFlight(s) = {ec},
           ec = "read_error" => k.stage # "connected" \/ ~r.open
    PROVE  Good(s, n, k)
<1>1. k.stage # "idle"
  BY IdleIsStill
<1>2. ec # "read_ok" /\ ec # "write" /\ ec \in ReadPhase
  BY DEF ReadPhase
<1>3. ConnType(s, n, k)
  BY <1>1, <1>2 DEF Good, ConnType
<1>4. ASSUME k.stage = "connected"
      PROVE  /\ Numbers(n, k) /\ Arriving(n, k) /\ ReadsOn(s, n, k) /\ Parsing(s, n, k)
             /\ Replying(s, n, k)
  <2>1. /\ Numbers(n, k) /\ Arriving(n, k) /\ ReadsOn(r, n, k) /\ Parsing(r, n, k)
    BY <1>4 DEF Good, OrderInv
  <2>2. MayRead(r)
    BY DEF MayRead, ReadPhase
  <2>3. ReadsOn(s, n, k)
    BY <2>1, <2>2 DEF ReadsOn
  <2>4. Parsing(s, n, k)
    BY <1>2, <1>4, <2>1 DEF Parsing, Carries
  <2>5. Replying(s, n, k)
    BY <1>2 DEF Replying
  <2> QED BY <2>1, <2>3, <2>4, <2>5
<1> QED BY <1>3, <1>4 DEF Good, OrderInv

\* A response that is added to those on their way.
LEMMA ResponseAdded ==
    ASSUME NEW r, NEW n, NEW k, ConnType(r, n, k), Arriving(n, k),
           NEW reply \in Reply, NEW m, m.toClient = Append(n.toClient, reply),
           \A a \in Responses(n, k) : Before(a, reply)
    PROVE  /\ Arriving(m, k) /\ m.toClient \in Seq(Reply)
           /\ Responses(m, k) = Responses(n, k) \cup {reply}
<1>1. n.toClient \in Seq(Reply)
  BY ResponseTypes
<1> HIDE DEF Reply
<1>2. /\ m.toClient \in Seq(Reply)
      /\ ToSet(m.toClient) = ToSet(n.toClient) \cup {reply}
      /\ InSequence(m.toClient)
  BY <1>1, AppendSequence DEF Arriving, Responses
<1> QED BY <1>2 DEF Arriving, Responses

\* m is n but for the responses on their way.
Carried(m, n) ==
    /\ m \in NetRecord
    /\ m.used = n.used /\ m.pulled = n.pulled /\ m.sent = n.sent /\ m.reply = n.reply
    /\ m.parsing = n.parsing /\ m.fault = n.fault

LEMMA NetWithResponses ==
    ASSUME NEW n \in NetRecord, NEW answers \in Seq(Reply)
    PROVE  LET m == [n EXCEPT !.toClient = answers]
           IN  /\ Carried(m, n) /\ m.toClient = answers
               /\ m.deadline = n.deadline /\ m.reset = n.reset
BY DEF NetRecord, Reply, Carried

LEMMA WriteDoneKeeps ==
    ASSUME NEW r, NEW n, NEW k, Good(r, n, k), NEW s, NEW m,
           Carried(m, n), m.toClient = Append(n.toClient, n.reply),
           RecordInv(s), Carries(s, r), InFlight(r) = {"write"}, InFlight(s) = {"write_ok"},
           r.open
    PROVE  Good(s, m, k)
<1>1. k.stage # "idle"
  BY IdleIsStill
<1>2. /\ n \in NetRecord /\ n.toClient \in Seq(Reply) /\ n.reply \in Reply /\ StreamOK(k.script)
  BY ResponseTypes DEF Good
<1>3. /\ m \in NetRecord /\ m.toClient = Append(n.toClient, n.reply)
      /\ m.used = n.used /\ m.pulled = n.pulled /\ m.sent = n.sent /\ m.reply = n.reply
      /\ m.parsing = n.parsing
  BY DEF Carried
<1>4. ConnType(s, m, k)
  BY <1>1, <1>3 DEF Good, ConnType
<1>5. ASSUME k.stage = "connected"
      PROVE  /\ Numbers(m, k) /\ Arriving(m, k) /\ ReadsOn(s, m, k) /\ Parsing(s, m, k)
             /\ Replying(s, m, k)
  <2>1. /\ Numbers(n, k) /\ Arriving(n, k) /\ ReadsOn(r, n, k) /\ Replying(r, n, k)
    BY <1>5 DEF Good, OrderInv
  <2>2. /\ n.reply.keepAlive = r.keepAlive
        /\ r.keepAlive => Left(n.reply.request, n, k)
        /\ \A a \in Responses(n, k) : a.keepAlive /\ a.request < n.reply.request
    BY <2>1 DEF Replying
  <2>3. \A a \in Responses(n, k) : Before(a, n.reply)
    BY <2>2 DEF Before
  <2>4. Arriving(m, k) /\ Responses(m, k) = Responses(n, k) \cup {n.reply}
    <3>1. PICK reply \in Reply : reply = n.reply
      BY <1>2
    <3>2. /\ ConnType(r, n, k) /\ m.toClient = Append(n.toClient, reply)
          /\ \A a \in Responses(n, k) : Before(a, reply)
      BY <1>3, <2>3, <3>1 DEF Good
    <3> QED BY <2>1, <3>1, <3>2, ResponseAdded
  <2>5. Numbers(m, k)
    BY <1>3, <2>1, <2>4 DEF Numbers
  <2>6. ReadsOn(s, m, k)
    <3> SUFFICES ASSUME MayRead(s)
                 PROVE  \A a \in Responses(m, k) : a.keepAlive /\ Left(a.request, m, k)
      BY DEF ReadsOn
    <3>1. r.keepAlive
      BY ReadsByPhase DEF ReadPhase, Carries
    <3>2. MayRead(r)
      BY <3>1 DEF MayRead
    <3>3. \A a \in Responses(n, k) : Left(a.request, n, k)
      BY <2>1, <3>2 DEF ReadsOn
    <3>4. \A a \in Responses(m, k) : a.keepAlive /\ Left(a.request, n, k)
      BY <2>2, <2>4, <3>1, <3>3
    <3> QED BY <1>3, <3>4 DEF Left
  <2>7. Parsing(s, m, k) /\ Replying(s, m, k)
    BY DEF Parsing, Replying
  <2> QED BY <2>4, <2>5, <2>6, <2>7
<1> QED BY <1>4, <1>5 DEF Good, OrderInv

LEMMA WriteFailsKeeps ==
    ASSUME NEW r, NEW n, NEW k, Good(r, n, k), NEW s, NEW m,
           Carried(m, n), m.toClient \in {n.toClient, Append(n.toClient, NoReply)},
           RecordInv(s), Carries(s, r), InFlight(r) = {"write"}, InFlight(s) = {"write_error"}
    PROVE  Good(s, m, k)
<1>1. k.stage # "idle"
  BY IdleIsStill
<1>2. /\ n \in NetRecord /\ n.toClient \in Seq(Reply) /\ NoReply \in Reply
  BY ResponseTypes DEF Good, NoReply, Reply, Codes
<1>3. /\ m \in NetRecord
      /\ m.toClient = n.toClient \/ m.toClient = Append(n.toClient, NoReply)
      /\ m.used = n.used /\ m.pulled = n.pulled /\ m.sent = n.sent /\ m.reply = n.reply
      /\ m.parsing = n.parsing
  BY DEF Carried
<1>4. ConnType(s, m, k)
  BY <1>1, <1>3 DEF Good, ConnType
<1>5. ASSUME k.stage = "connected"
      PROVE  /\ Numbers(m, k) /\ Arriving(m, k) /\ ReadsOn(s, m, k) /\ Parsing(s, m, k)
             /\ Replying(s, m, k)
  <2>1. /\ Numbers(n, k) /\ Arriving(n, k) /\ Replying(r, n, k)
    BY <1>5 DEF Good, OrderInv
  <2>2. \A a \in Responses(n, k) : Before(a, NoReply)
    BY <2>1 DEF Replying, Before, NoReply
  <2>3. /\ Arriving(m, k)
        /\ Responses(m, k) \subseteq Responses(n, k) \cup {NoReply}
    <3>1. CASE m.toClient = n.toClient
      BY <2>1, <3>1 DEF Arriving, Responses
    <3>2. CASE m.toClient = Append(n.toClient, NoReply)
      BY <1>2, <2>1, <2>2, <3>2, ResponseAdded DEF Good
    <3> QED BY <1>3, <3>1, <3>2
  <2>4. NoReply.request <= Len(k.script)
    BY ResponseTypes DEF Good, NoReply
  <2>5. Numbers(m, k)
    BY <1>3, <2>1, <2>3, <2>4 DEF Numbers
  <2>6. ~MayRead(s)
    BY ReadsByPhase DEF ReadPhase
  <2>7. ReadsOn(s, m, k) /\ Parsing(s, m, k) /\ Replying(s, m, k)
    BY <2>6 DEF ReadsOn, Parsing, Replying
  <2> QED BY <2>3, <2>5, <2>7
<1> QED BY <1>4, <1>5 DEF Good, OrderInv

\* A read begins: from the beginning of the stream, or after a response.
LEMMA NextReadKeeps ==
    ASSUME NEW r, NEW n, NEW k, Good(r, n, k), NEW s, NEW m,
           m \in NetRecord, m.parsing = 0, m.used \in {n.used, n.pulled},
           m.pulled = n.pulled, m.sent = n.sent, m.reply = n.reply, m.toClient = n.toClient,
           RecordInv(s), s.open = r.open, MayRead(r), InFlight(r) # {},
           InFlight(s) = IF r.open THEN {"read"} ELSE {"read_error"}
    PROVE  Good(s, m, k)
<1>1. k.stage # "idle"
  BY IdleIsStill
<1>2. /\ n.used \in Nat /\ m.used \in Nat /\ n.used <= m.used /\ m.used <= m.pulled
      /\ Len(Units(k.script)) \in Nat /\ StreamOK(k.script) /\ Len(k.script) \in Nat
  BY ResponseTypes DEF Good
<1>3. ConnType(s, m, k)
  BY <1>1, <1>2 DEF Good, ConnType
<1>4. Responses(m, k) = Responses(n, k)
  BY DEF Responses
<1>5. ASSUME k.stage = "connected"
      PROVE  /\ Numbers(m, k) /\ Arriving(m, k) /\ ReadsOn(s, m, k) /\ Parsing(s, m, k)
             /\ Replying(s, m, k)
  <2>1. /\ Numbers(n, k) /\ Arriving(n, k)
        /\ \A a \in Responses(n, k) : a.keepAlive /\ Left(a.request, n, k)
    BY <1>5 DEF Good, OrderInv, ReadsOn
  <2>2. \A a \in Responses(m, k) : a.keepAlive /\ Left(a.request, m, k)
    BY <1>2, <1>4, <2>1, LeftStays
  <2>3. Numbers(m, k) /\ Arriving(m, k)
    BY <1>4, <2>1 DEF Numbers, Arriving
  <2>4. ReadsOn(s, m, k) /\ Replying(s, m, k)
    BY <2>2 DEF ReadsOn, Replying
  <2>5. Parsing(s, m, k)
    BY DEF Parsing
  <2> QED BY <2>3, <2>4, <2>5
<1> QED BY <1>3, <1>5 DEF Good, OrderInv

\* Nothing more is read, or written.
LEMMA NothingMoreKeeps ==
    ASSUME NEW r, NEW n, NEW k, Good(r, n, k), NEW s, NEW m,
           m \in NetRecord, m.used \in {n.used, n.pulled}, m.parsing = n.parsing,
           m.pulled = n.pulled, m.sent = n.sent, m.toClient = n.toClient,
           m.reply.request \in {n.reply.request, n.parsing},
           RecordInv(s), InFlight(r) # {}, InFlight(s) \subseteq {"write_error"}
    PROVE  Good(s, m, k)
<1>1. k.stage # "idle"
  BY IdleIsStill
<1>2. m.used <= m.pulled
  BY ResponseTypes DEF Good
<1>3. ConnType(s, m, k)
  BY <1>1, <1>2 DEF Good, ConnType
<1>4. Responses(m, k) = Responses(n, k)
  BY DEF Responses
<1>5. ASSUME k.stage = "connected"
      PROVE  /\ Numbers(m, k) /\ Arriving(m, k) /\ ReadsOn(s, m, k) /\ Parsing(s, m, k)
             /\ Replying(s, m, k)
  <2>1. Numbers(n, k) /\ Arriving(n, k)
    BY <1>5 DEF Good, OrderInv
  <2>2. n.parsing <= Len(k.script)
    BY DEF Good, ConnType
  <2>3. Numbers(m, k) /\ Arriving(m, k)
    BY <1>4, <2>1, <2>2 DEF Numbers, Arriving
  <2>4. ReadsOn(s, m, k) /\ Parsing(s, m, k) /\ Replying(s, m, k)
    BY DEF ReadsOn, MayRead, ReadPhase, Parsing, Replying
  <2> QED BY <2>3, <2>4
<1> QED BY <1>3, <1>5 DEF Good, OrderInv

\* What was read is answered.
LEMMA AnswerKeeps ==
    ASSUME NEW r, NEW n, NEW k, Good(r, n, k), NEW s, NEW m,
           m \in NetRecord, m.used = n.used, m.parsing = n.parsing,
           m.pulled = n.pulled, m.sent = n.sent, m.toClient = n.toClient,
           m.reply.request = n.parsing, m.reply.keepAlive = s.keepAlive,
           RecordInv(s), r.open, InFlight(s) = {"write"},
           \/ InFlight(r) = {"read_ok"}
           \/ InFlight(r) = {"read_error"} /\ s.keepAlive = FALSE
    PROVE  Good(s, m, k)
<1>1. k.stage # "idle"
  BY IdleIsStill
<1>2. ConnType(s, m, k)
  BY <1>1 DEF Good, ConnType
<1>3. Responses(m, k) = Responses(n, k)
  BY DEF Responses
<1>4. ASSUME k.stage = "connected"
      PROVE  /\ Numbers(m, k) /\ Arriving(m, k) /\ ReadsOn(s, m, k) /\ Parsing(s, m, k)
             /\ Replying(s, m, k)
  <2>1. Numbers(n, k) /\ Arriving(n, k) /\ ReadsOn(r, n, k) /\ Parsing(r, n, k)
    BY <1>4 DEF Good, OrderInv
  <2>2. n.parsing <= Len(k.script) /\ ("read_ok" \in InFlight(r) => n.parsing # 0)
    BY DEF Good, ConnType
  <2>3. MayRead(r)
    BY DEF MayRead, ReadPhase
  <2>4. \A a \in Responses(m, k) : a.keepAlive /\ Left(a.request, m, k)
    BY <1>3, <2>1, <2>3 DEF ReadsOn, Left
  <2>5. \A a \in Responses(m, k) : a.request < m.reply.request
    BY <1>3, <2>1, <2>2 DEF Parsing
  <2>6. s.keepAlive => Left(m.reply.request, m, k)
    BY <2>1 DEF Parsing, Left
  <2>7. Numbers(m, k) /\ Arriving(m, k)
    BY <1>3, <2>1, <2>2 DEF Numbers, Arriving
  <2>8. ReadsOn(s, m, k) /\ Replying(s, m, k)
    BY <2>4, <2>5, <2>6 DEF ReadsOn, Replying
  <2>9. Parsing(s, m, k)
    BY DEF Parsing
  <2> QED BY <2>7, <2>8, <2>9
<1> QED BY <1>2, <1>4 DEF Good, OrderInv

\* A call of the owner.
LEMMA BesideKeeps ==
    ASSUME NEW r, NEW n, NEW k, Good(r, n, k), NEW s, RecordInv(s), Beside(s, r),
           r.state # "absent"
    PROVE  Good(s, n, k)
<1>1. ConnType(s, n, k)
  BY DEF Good, ConnType, Beside
<1>2. MayRead(s) => MayRead(r)
  BY DEF MayRead, Beside
<1>3. ASSUME k.stage = "connected"
      PROVE  ReadsOn(s, n, k) /\ Parsing(s, n, k) /\ Replying(s, n, k)
  <2>1. ReadsOn(r, n, k) /\ Parsing(r, n, k) /\ Replying(r, n, k)
    BY <1>3 DEF Good, OrderInv
  <2>2. ReadsOn(s, n, k)
    BY <1>2, <2>1 DEF ReadsOn
  <2>3. Parsing(s, n, k)
    BY <2>1 DEF Parsing, Beside
  <2>4. Replying(s, n, k)
    BY <2>1 DEF Replying, Beside
  <2> QED BY <2>2, <2>3, <2>4
<1> QED BY <1>1, <1>3 DEF Good, OrderInv

-----------------------------------------------------------------------------
(* The steps of the client, and of the connection. *)

\* Responses that are lost behind others, or nothing that these invariants tell.
LEMMA FewerKeeps ==
    ASSUME NEW r, NEW n, NEW k, Good(r, n, k), NEW m, Carried(m, n), r.state # "absent",
           NEW kept \in 0..Len(n.toClient),
           m.toClient \in {n.toClient, SubSeq(n.toClient, 1, kept)}
    PROVE  Good(r, m, k)
<1>1. k.stage # "idle" /\ n.toClient \in Seq(Reply)
  BY ResponseTypes DEF Good, ConnType
<1>2. ConnType(r, m, k)
  BY <1>1 DEF Good, ConnType, Carried
<1>3. /\ ToSet(m.toClient) \subseteq ToSet(n.toClient)
      /\ InSequence(n.toClient) => InSequence(m.toClient)
  <2> HIDE DEF Reply
  <2>1. CASE m.toClient = n.toClient
    BY <2>1
  <2>2. CASE m.toClient = SubSeq(n.toClient, 1, kept)
    BY <1>1, <2>2, PrefixSequence
  <2> QED BY <2>1, <2>2
<1>4. Responses(m, k) \subseteq Responses(n, k)
  BY <1>3 DEF Responses
<1>5. ASSUME k.stage = "connected"
      PROVE  /\ Numbers(m, k) /\ Arriving(m, k) /\ ReadsOn(r, m, k) /\ Parsing(r, m, k)
             /\ Replying(r, m, k)
  <2>1. /\ Numbers(n, k) /\ Arriving(n, k) /\ ReadsOn(r, n, k) /\ Parsing(r, n, k)
        /\ Replying(r, n, k)
    BY <1>5 DEF Good, OrderInv
  <2>2. Numbers(m, k) /\ Arriving(m, k)
    BY <1>3, <1>4, <2>1 DEF Numbers, Arriving, Carried
  <2>3. \A x : Left(x, m, k) <=> Left(x, n, k)
    BY DEF Left, Carried
  <2>4. ReadsOn(r, m, k)
    BY <1>4, <2>1, <2>3 DEF ReadsOn
  <2>5. Parsing(r, m, k)
    BY <1>4, <2>1, <2>3 DEF Parsing, Carried
  <2>6. Replying(r, m, k)
    BY <1>4, <2>1, <2>3 DEF Replying, Carried
  <2> QED BY <2>2, <2>4, <2>5, <2>6
<1> QED BY <1>2, <1>5 DEF Good, OrderInv

\* A client that reads no further.
LEMMA EndedKeeps ==
    ASSUME NEW r, NEW n, NEW k, Good(r, n, k), NEW m, NEW j, Carried(m, n),
           k.stage = "connected",
           j \in ClientRecord, j.stage \in {"ended", "left"}, j.script = k.script,
           j.answers = k.answers
    PROVE  Good(r, m, j)
<1>1. ConnType(r, m, j)
  BY DEF Good, ConnType, Carried
<1> QED BY <1>1 DEF Good, OrderInv

LEMMA ConnectKeeps ==
    ASSUME NEW r, NEW n, NEW k, Good(r, n, k), k.stage = "idle", NEW s, NEW m, NEW j,
           RecordInv(s), s.open, InFlight(s) \in {{"read"}, {"Run"}},
           m \in NetRecord, m.used = 0, m.pulled = 0, m.sent = 0, m.parsing = 0,
           m.toClient = << >>, m.reply = NoReply,
           j \in ClientRecord, j.stage = "connected", j.script = << >>, j.answers = << >>
    PROVE  Good(s, m, j)
<1>1. n = NewNet /\ k = NewClient /\ StreamOK(<< >>) /\ Len(Units(<< >>)) = 0
  <2>1. n = NewNet /\ k = NewClient /\ StreamOK(k.script)
    BY DEF Good, ConnType
  <2> QED BY <2>1, NoUnits DEF NewClient
<1>2. ConnType(s, m, j)
  BY <1>1 DEF ConnType
<1>3. Responses(m, j) = {} /\ ToSet(j.answers) = {} /\ ToSet(m.toClient) = {}
  BY DEF Responses, ToSet
<1>4. InOrder(j.answers) /\ InSequence(m.toClient)
  BY <1>3 DEF InOrder, InSequence
<1>5. /\ Numbers(m, j) /\ Arriving(m, j) /\ ReadsOn(s, m, j) /\ Replying(s, m, j)
  <2>1. m.reply.request = 0 /\ Len(j.script) = 0
    BY DEF NoReply
  <2>2. Numbers(m, j)
    BY <1>3, <2>1 DEF Numbers
  <2>3. Arriving(m, j)
    BY <1>3, <1>4 DEF Arriving
  <2>4. ReadsOn(s, m, j) /\ Replying(s, m, j)
    BY <1>3 DEF ReadsOn, Replying
  <2> QED BY <2>2, <2>3, <2>4
<1>6. Parsing(s, m, j)
  BY DEF Parsing
<1> QED BY <1>2, <1>4, <1>5, <1>6 DEF Good, OrderInv

\* The stream grows at its end.
LEMMA SendKeeps ==
    ASSUME NEW r, NEW n, NEW k, Good(r, n, k), k.stage = "connected", NEW m, NEW j,
           Good(r, n, k), m \in NetRecord, m.used = n.used, m.pulled = n.pulled,
           m.sent = n.sent + 1, m.reply = n.reply, m.parsing = n.parsing,
           m.toClient = n.toClient,
           NEW request \in Requests,
           j \in ClientRecord, j.stage = k.stage, j.answers = k.answers,
           \/ j.script = k.script /\ n.sent < Len(Units(k.script))
           \/ j.script = Append(k.script, request)
    PROVE  Good(r, m, j)
<1> DEFINE stream == Units(k.script)
           longer == Units(j.script)
<1>1. /\ n.used \in Nat /\ n.pulled \in Nat /\ n.sent \in Nat /\ n.parsing \in Nat
      /\ Len(stream) \in Nat /\ StreamOK(k.script) /\ Len(k.script) \in Nat
      /\ k.script \in Seq(Requests) /\ n.reply \in Reply
      /\ n.sent <= Len(stream) /\ n.pulled <= n.sent /\ n.used <= n.pulled
      /\ n.parsing <= Len(k.script)
      /\ \A a \in Responses(n, k) : a \in Reply
  BY ResponseTypes DEF Good, ConnType
<1>2. /\ StreamOK(j.script) /\ Len(j.script) \in Nat /\ Len(k.script) <= Len(j.script)
      /\ m.sent <= Len(longer)
      /\ \A i \in DOMAIN longer : \/ i \in DOMAIN stream /\ longer[i] = stream[i]
                                  \/ longer[i][2] > Len(k.script)
  <2>1. CASE j.script = k.script /\ n.sent < Len(stream)
    BY <1>1, <2>1
  <2>2. CASE j.script = Append(k.script, request)
    <3>1. /\ StreamOK(j.script) /\ Len(longer) > Len(stream)
          /\ \A i \in DOMAIN stream : longer[i] = stream[i]
          /\ \A i \in DOMAIN longer \ DOMAIN stream : longer[i][2] = Len(k.script) + 1
      BY <1>1, <2>2, StreamGrows
    <3>2. Len(j.script) = Len(k.script) + 1
      BY <1>1, <2>2
    <3>3. Len(longer) \in Nat
      BY <3>1 DEF StreamOK
    <3> HIDE DEF stream, longer
    <3>4. \A i \in DOMAIN longer : \/ i \in DOMAIN stream /\ longer[i] = stream[i]
                                   \/ longer[i][2] > Len(k.script)
      BY <1>1, <3>1
    <3>5. m.sent <= Len(longer)
      BY <1>1, <3>1, <3>3
    <3> QED BY <1>1, <3>1, <3>2, <3>4, <3>5
  <2> QED BY <2>1, <2>2
<1>3. ConnType(r, m, j)
  <2>1. "read_ok" \in InFlight(r) => n.parsing # 0
    BY DEF Good, ConnType
  <2> QED BY <1>1, <1>2, <2>1 DEF ConnType
<1>4. Responses(m, j) = Responses(n, k)
  BY DEF Responses
<1>5. /\ Numbers(n, k) /\ Arriving(n, k) /\ ReadsOn(r, n, k) /\ Parsing(r, n, k)
      /\ Replying(r, n, k) /\ InOrder(k.answers)
  BY DEF Good, OrderInv
<1>6. ASSUME NEW x \in Nat, x <= Len(k.script), Left(x, n, k)
      PROVE  Left(x, m, j)
  <2> SUFFICES ASSUME NEW i \in DOMAIN longer, i > n.used
               PROVE  x < longer[i][2]
    BY DEF Left
  <2>1. CASE i \in DOMAIN stream /\ longer[i] = stream[i]
    BY <1>6, <2>1 DEF Left
  <2>2. CASE longer[i][2] > Len(k.script)
    <3>1. longer[i][2] \in Nat
      BY <1>2 DEF StreamOK
    <3> HIDE DEF longer
    <3> QED BY <1>1, <1>6, <2>2, <3>1
  <2> QED BY <1>2, <2>1, <2>2
<1>7. /\ n.reply.request \in Nat /\ n.reply.request <= Len(k.script)
      /\ \A a \in Responses(n, k) : a.request \in Nat /\ a.request <= Len(k.script)
  BY <1>1, <1>5 DEF Numbers, Reply
<1>8. Numbers(m, j)
  BY <1>1, <1>2, <1>4, <1>7 DEF Numbers
<1>9. Arriving(m, j)
  BY <1>5 DEF Arriving
<1>10. ReadsOn(r, m, j)
  BY <1>4, <1>5, <1>6, <1>7 DEF ReadsOn
<1>11. Parsing(r, m, j)
  BY <1>1, <1>4, <1>5, <1>6 DEF Parsing
<1>12. Replying(r, m, j)
  BY <1>4, <1>5, <1>6, <1>7 DEF Replying
<1> QED BY <1>3, <1>5, <1>8, <1>9, <1>10, <1>11, <1>12 DEF Good, OrderInv

\* A response that is no part of one is taken in.
LEMMA ReceiveKeeps ==
    ASSUME NEW r, NEW n, NEW k, Good(r, n, k), k.stage = "connected", NEW m, NEW j,
           Carried(m, n), n.toClient # << >>, m.toClient = Tail(n.toClient),
           Head(n.toClient).code # "cut",
           j \in ClientRecord, j.stage = k.stage, j.script = k.script,
           j.answers = Append(k.answers, Head(n.toClient))
    PROVE  Good(r, m, j)
<1>1. n.toClient \in Seq(Reply) /\ k.answers \in Seq(Reply)
  BY ResponseTypes DEF Good
<1>2. /\ Numbers(n, k) /\ Arriving(n, k) /\ ReadsOn(r, n, k) /\ Parsing(r, n, k)
      /\ Replying(r, n, k) /\ InOrder(k.answers)
  BY DEF Good, OrderInv
<1> HIDE DEF Reply
<1>3. PICK answer \in Reply : answer = Head(n.toClient)
  BY <1>1, TailSequence
<1>4. /\ answer \in ToSet(n.toClient) /\ ToSet(m.toClient) \subseteq ToSet(n.toClient)
      /\ InSequence(m.toClient)
      /\ \A b \in ToSet(m.toClient) : Before(answer, b)
  BY <1>1, <1>2, <1>3, TailSequence DEF Arriving
<1>5. \A a \in ToSet(k.answers) : Before(a, answer)
  BY <1>2, <1>4 DEF Arriving
<1>6. ToSet(j.answers) = ToSet(k.answers) \cup {answer} /\ InSequence(j.answers)
  <2>1. j.answers = Append(k.answers, answer) /\ InSequence(k.answers)
    BY <1>2, <1>3 DEF InOrder
  <2> QED BY <1>1, <1>5, <2>1, AppendSequence
<1>7. InOrder(j.answers)
  BY <1>2, <1>3, <1>6 DEF InOrder
<1>8. Arriving(m, j)
  BY <1>2, <1>4, <1>6 DEF Arriving
<1>9. Responses(m, j) \subseteq Responses(n, k)
  BY <1>4, <1>6 DEF Responses
<1>10. \A x : Left(x, m, j) <=> Left(x, n, k)
  BY DEF Left, Carried
<1>11. Numbers(m, j)
  BY <1>2, <1>9 DEF Numbers, Carried
<1>12. ReadsOn(r, m, j)
  BY <1>2, <1>9, <1>10 DEF ReadsOn
<1>13. Parsing(r, m, j)
  BY <1>2, <1>9, <1>10 DEF Parsing, Carried
<1>14. Replying(r, m, j)
  BY <1>2, <1>9, <1>10 DEF Replying, Carried
<1>15. ConnType(r, m, j)
  BY DEF Good, ConnType, Carried
<1> QED BY <1>7, <1>8, <1>11, <1>12, <1>13, <1>14, <1>15 DEF Good, OrderInv

-----------------------------------------------------------------------------
(* The actions. *)

\* A step of one connection: what becomes of its session, its network state and
\* its client.
Moves(c, s, m, j) ==
    /\ sess' = [sess EXCEPT ![c] = s] /\ net' = [net EXCEPT ![c] = m]
    /\ client' = [client EXCEPT ![c] = j]

\* What the actions of one connection keep is kept for all of them.
LEMMA OneConnectionStep ==
    ASSUME ConnInv, NEW c \in Conns, NEW s, NEW m, NEW j, Good(s, m, j), Moves(c, s, m, j)
    PROVE  ConnInv'
<1>1. /\ sess \in [Conns -> SessionRecord] /\ net \in [Conns -> NetRecord]
      /\ client \in [Conns -> ClientRecord]
  BY DEF ConnInv, SessionTypeOK
<1> USE DEF Moves
<1>2. s \in SessionRecord /\ m \in NetRecord /\ j \in ClientRecord
  BY DEF Good, RecordInv, ConnType
<1>3. /\ sess' \in [Conns -> SessionRecord] /\ net' \in [Conns -> NetRecord]
      /\ client' \in [Conns -> ClientRecord]
  BY <1>1, <1>2
<1>4. ASSUME NEW d \in Conns PROVE Good(sess'[d], net'[d], client'[d])
  <2>1. CASE d = c
    <3>1. sess'[d] = s /\ net'[d] = m /\ client'[d] = j
      BY <1>1, <2>1
    <3> QED BY <3>1
  <2>2. CASE d # c
    <3>1. sess'[d] = sess[d] /\ net'[d] = net[d] /\ client'[d] = client[d]
      BY <1>1, <2>2
    <3>2. Good(sess[d], net[d], client[d])
      BY DEF ConnInv
    <3> QED BY <3>1, <3>2
  <2> QED BY <2>1, <2>2
<1>5. SessionTypeOK'
  BY <1>3 DEF SessionTypeOK
<1> QED BY <1>3, <1>4, <1>5 DEF ConnInv

LEMMA ConnInvParts ==
    ASSUME ConnInv, NEW c \in Conns
    PROVE  /\ sess \in [Conns -> SessionRecord] /\ net \in [Conns -> NetRecord]
           /\ client \in [Conns -> ClientRecord]
           /\ Good(sess[c], net[c], client[c]) /\ RecordInv(sess[c])
           /\ ConnType(sess[c], net[c], client[c])
           /\ net[c] \in NetRecord /\ client[c] \in ClientRecord
           /\ sess = [sess EXCEPT ![c] = sess[c]] /\ net = [net EXCEPT ![c] = net[c]]
           /\ client = [client EXCEPT ![c] = client[c]]
BY DEF ConnInv, SessionTypeOK, Good

LEMMA ConnImpliesChain == ConnInv => ChainInv
BY DEF ConnInv, ChainInv, Good

LEMMA ReadSomeStep ==
    ASSUME ConnInv, NEW c \in Conns, ReadSome(c)
    PROVE  ConnInv'
<1>1. PICK m, s :
          /\ net' = [net EXCEPT ![c] = m] /\ sess' = [sess EXCEPT ![c] = s]
          /\ Further(m, net[c], client[c]) /\ RecordInv(s) /\ Carries(s, sess[c])
          /\ InFlight(sess[c]) = {"read"}
          /\ \/ s = sess[c]
             \/ InFlight(s) = {"read_error"}
             \/ InFlight(s) = {"read_ok"} /\ Left(m.parsing, m, client[c])
  BY ConnInvParts, ReadSomeFlow
<1>2. Good(s, m, client[c])
  BY <1>1, ConnInvParts, ReadSomeKeeps
<1>3. Moves(c, s, m, client[c])
  BY <1>1, ConnInvParts DEF ReadSome, Moves
<1> QED BY <1>2, <1>3, OneConnectionStep

LEMMA ReadEndsDoes ==
    ASSUME ConnInv, NEW c \in Conns, ReadMeetsTheEnd(c) \/ ReadIsCancelled(c)
    PROVE  \E s : \E ec \in {"read_timeout", "read_eof", "read_error"} :
               /\ Moves(c, s, net[c], client[c])
               /\ RecordInv(s) /\ Carries(s, sess[c])
               /\ InFlight(sess[c]) = {"read"} /\ InFlight(s) = {ec}
               /\ client[c].stage = "connected" /\ sess[c].open
                      => ec = "read_timeout" /\ net[c].deadline = "passed"
<1> DEFINE r == sess[c]
<1>1. PICK ec \in {"read_timeout", "read_eof", "read_error"} :
          /\ "read" \in r.ops
          /\ sess' = [sess EXCEPT ![c] = Post(Done(r, "read"), ec)]
          /\ client[c].stage = "connected" /\ r.open
                 => ec = "read_timeout" /\ net[c].deadline = "passed"
  <2>1. CASE ReadMeetsTheEnd(c)
    BY <2>1 DEF ReadMeetsTheEnd, Finish
  <2>2. CASE ReadIsCancelled(c)
    BY <2>2 DEF ReadIsCancelled, Finish
  <2> QED BY <2>1, <2>2
<1> DEFINE s == Post(Done(r, "read"), ec)
<1>2. RecordInv(s) /\ Carries(s, r) /\ InFlight(r) = {"read"} /\ InFlight(s) = {ec}
  <2>1. RecordInv(r) /\ ec \in ReadOutcomes
    BY ConnInvParts DEF ReadOutcomes
  <2> HIDE DEF r
  <2> QED BY <1>1, <2>1, CompletionFlow
<1> HIDE DEF s
<1>3. Moves(c, s, net[c], client[c])
  BY <1>1, ConnInvParts DEF ReadMeetsTheEnd, ReadIsCancelled, Moves, s
<1> QED BY <1>1, <1>2, <1>3

LEMMA ReadEndsStep ==
    ASSUME ConnInv, NEW c \in Conns, ReadMeetsTheEnd(c) \/ ReadIsCancelled(c)
    PROVE  ConnInv'
<1>1. PICK s : \E ec \in {"read_timeout", "read_eof", "read_error"} :
          /\ Moves(c, s, net[c], client[c])
          /\ RecordInv(s) /\ Carries(s, sess[c])
          /\ InFlight(sess[c]) = {"read"} /\ InFlight(s) = {ec}
          /\ client[c].stage = "connected" /\ sess[c].open => ec = "read_timeout"
  BY ReadEndsDoes
<1>2. Good(s, net[c], client[c])
  BY <1>1, ConnInvParts, ReadEndsKeeps
<1> QED BY <1>1, <1>2, OneConnectionStep

\* A response that has gone out, and one of which a part may have.
LEMMA WriteDoneDoes ==
    ASSUME ConnInv, NEW c \in Conns, WriteDone(c)
    PROVE  \E s, m :
               /\ Moves(c, s, m, client[c])
               /\ Carried(m, net[c]) /\ m.toClient = Append(net[c].toClient, net[c].reply)
               /\ m.deadline = net[c].deadline /\ m.reset = net[c].reset
               /\ RecordInv(s) /\ Carries(s, sess[c]) /\ sess[c].open
               /\ InFlight(sess[c]) = {"write"} /\ InFlight(s) = {"write_ok"}
<1> DEFINE r == sess[c]
           n == net[c]
           answers == Append(n.toClient, n.reply)
           m == [n EXCEPT !.toClient = answers]
           s == Post(Done(r, "write"), "write_ok")
<1>1. /\ RecordInv(r) /\ "write" \in r.ops /\ r.open /\ n \in NetRecord
      /\ sess' = [sess EXCEPT ![c] = s] /\ net' = [net EXCEPT ![c] = m]
      /\ client' = [client EXCEPT ![c] = client[c]]
      /\ answers \in Seq(Reply)
  <2>1. n.toClient \in Seq(Reply) /\ n.reply \in Reply
    BY ConnInvParts, ResponseTypes
  <2>2. answers \in Seq(Reply)
    BY <2>1
  <2> QED BY <2>2, ConnInvParts DEF WriteDone, Finish
<1>2. Carried(m, n) /\ m.toClient = answers /\ m.deadline = n.deadline /\ m.reset = n.reset
  <2> HIDE DEF answers
  <2> QED BY <1>1, NetWithResponses
<1>3. RecordInv(s) /\ Carries(s, r) /\ InFlight(r) = {"write"} /\ InFlight(s) = {"write_ok"}
  <2>1. "write_ok" \in WriteOutcomes
    BY DEF WriteOutcomes
  <2> HIDE DEF r
  <2> QED BY <1>1, <2>1, CompletionFlow
<1> HIDE DEF m, s
<1>4. Moves(c, s, m, client[c])
  BY <1>1 DEF Moves
<1> QED BY <1>1, <1>2, <1>3, <1>4

LEMMA WriteFailsDoes ==
    ASSUME ConnInv, NEW c \in Conns, WriteFails(c)
    PROVE  \E s, m :
               /\ Moves(c, s, m, client[c])
               /\ Carried(m, net[c])
               /\ m.toClient \in {net[c].toClient, Append(net[c].toClient, NoReply)}
               /\ m.deadline = net[c].deadline /\ m.reset = net[c].reset
               /\ RecordInv(s) /\ Carries(s, sess[c])
               /\ InFlight(sess[c]) = {"write"} /\ InFlight(s) = {"write_error"}
               /\ client[c].stage = "connected" /\ sess[c].open => net[c].deadline = "passed"
<1> DEFINE r == sess[c]
           n == net[c]
           answers == Append(n.toClient, NoReply)
           cut == [n EXCEPT !.toClient = answers]
           s == Post(Done(r, "write"), "write_error")
<1>1. /\ RecordInv(r) /\ "write" \in r.ops /\ n \in NetRecord
      /\ net' = [net EXCEPT ![c] = cut] \/ net' = [net EXCEPT ![c] = n]
      /\ sess' = [sess EXCEPT ![c] = s] /\ client' = [client EXCEPT ![c] = client[c]]
      /\ client[c].stage = "connected" /\ r.open => n.deadline = "passed"
  BY ConnInvParts DEF WriteFails, Finish
<1>2. answers \in Seq(Reply)
  <2>1. n.toClient \in Seq(Reply)
    BY ConnInvParts, ResponseTypes
  <2>2. NoReply \in Reply
    BY DEF NoReply, Reply, Codes
  <2> QED BY <2>1, <2>2
<1>3. /\ Carried(cut, n) /\ cut.toClient = answers
      /\ cut.deadline = n.deadline /\ cut.reset = n.reset /\ Carried(n, n)
  <2> HIDE DEF answers
  <2> QED BY <1>1, <1>2, NetWithResponses DEF Carried
<1>4. RecordInv(s) /\ Carries(s, r) /\ InFlight(r) = {"write"} /\ InFlight(s) = {"write_error"}
  <2>1. "write_error" \in WriteOutcomes
    BY DEF WriteOutcomes
  <2> HIDE DEF r
  <2> QED BY <1>1, <2>1, CompletionFlow
<1> HIDE DEF cut, s
<1>5. Moves(c, s, cut, client[c]) \/ Moves(c, s, n, client[c])
  BY <1>1 DEF Moves
<1> QED BY <1>1, <1>3, <1>4, <1>5

LEMMA WriteEndsStep ==
    ASSUME ConnInv, NEW c \in Conns, WriteDone(c) \/ WriteFails(c)
    PROVE  ConnInv'
<1>1. CASE WriteDone(c)
  <2>1. PICK s, m :
            /\ Moves(c, s, m, client[c])
            /\ Carried(m, net[c]) /\ m.toClient = Append(net[c].toClient, net[c].reply)
            /\ RecordInv(s) /\ Carries(s, sess[c]) /\ sess[c].open
            /\ InFlight(sess[c]) = {"write"} /\ InFlight(s) = {"write_ok"}
    BY <1>1, WriteDoneDoes
  <2>2. Good(s, m, client[c])
    BY <2>1, ConnInvParts, WriteDoneKeeps
  <2> QED BY <2>1, <2>2, OneConnectionStep
<1>2. CASE WriteFails(c)
  <2>1. PICK s, m :
            /\ Moves(c, s, m, client[c])
            /\ Carried(m, net[c])
            /\ m.toClient \in {net[c].toClient, Append(net[c].toClient, NoReply)}
            /\ RecordInv(s) /\ Carries(s, sess[c])
            /\ InFlight(sess[c]) = {"write"} /\ InFlight(s) = {"write_error"}
    BY <1>2, WriteFailsDoes
  <2>2. Good(s, m, client[c])
    BY <2>1, ConnInvParts, WriteFailsKeeps
  <2> QED BY <2>1, <2>2, OneConnectionStep
<1> QED BY <1>1, <1>2

\* A read begins.
ReadsAnew(m, n) ==
    /\ m \in NetRecord /\ m.parsing = 0 /\ m.used \in {n.used, n.pulled}
    /\ m.pulled = n.pulled /\ m.sent = n.sent /\ m.reply = n.reply /\ m.toClient = n.toClient
    /\ m.reset = n.reset

LEMMA RunStartsDoes ==
    ASSUME ConnInv, NEW c \in Conns, RunStarts(c)
    PROVE  \E s, m :
               /\ Moves(c, s, m, client[c]) /\ ReadsAnew(m, net[c]) /\ m.used = net[c].used
               /\ RecordInv(s) /\ Carries(s, sess[c]) /\ InFlight(sess[c]) = {"Run"}
               /\ InFlight(s) = IF sess[c].open THEN {"read"} ELSE {"read_error"}
<1> DEFINE r == sess[c]
           n == net[c]
           s == DoRead(Pop(r))
           m == StartRead(n)
<1>1. /\ RecordInv(r) /\ n \in NetRecord
      /\ r.strand # << >> /\ Head(r.strand) = "Run"
      /\ Moves(c, s, m, client[c])
  BY ConnInvParts DEF RunStarts, OnRun, RunHead, Moves
<1>2. ReadsAnew(m, n) /\ m.used = n.used
  BY <1>1 DEF StartRead, NetRecord, ReadsAnew
<1> HIDE DEF r, n, m
<1>3. /\ RecordInv(s) /\ Carries(s, r) /\ InFlight(r) = {"Run"}
      /\ InFlight(s) = IF r.open THEN {"read"} ELSE {"read_error"}
  BY <1>1, RunFlow
<1> QED BY <1>1, <1>2, <1>3 DEF r, n

LEMMA RunStartsStep ==
    ASSUME ConnInv, NEW c \in Conns, RunStarts(c)
    PROVE  ConnInv'
<1>1. PICK s, m :
          /\ Moves(c, s, m, client[c]) /\ ReadsAnew(m, net[c])
          /\ RecordInv(s) /\ Carries(s, sess[c]) /\ InFlight(sess[c]) = {"Run"}
          /\ InFlight(s) = IF sess[c].open THEN {"read"} ELSE {"read_error"}
  BY RunStartsDoes
<1>2. MayRead(sess[c]) /\ s.open = sess[c].open /\ Good(sess[c], net[c], client[c])
  BY <1>1, ConnInvParts DEF MayRead, ReadPhase, Carries
<1>3. Good(s, m, client[c])
  BY <1>1, <1>2, NextReadKeeps DEF ReadsAnew
<1> QED BY <1>1, <1>3, OneConnectionStep

\* What was parsed is answered, with a response that says what.
Replies(m, n, code, keepAlive) ==
    /\ m \in NetRecord /\ m.used = n.used /\ m.parsing = n.parsing /\ m.fault = n.fault
    /\ m.pulled = n.pulled /\ m.sent = n.sent /\ m.toClient = n.toClient
    /\ m.deadline = n.deadline /\ m.reset = n.reset
    /\ m.reply = [request |-> n.parsing, code |-> code, keepAlive |-> keepAlive]

LEMMA ReplyType ==
    ASSUME NEW n \in NetRecord, NEW code \in Codes, NEW keepAlive \in BOOLEAN
    PROVE  Replies(Respond(n, n.parsing, code, keepAlive), n, code, keepAlive)
BY DEF Respond, NetRecord, Replies

LEMMA ReplySays ==
    ASSUME NEW m, NEW n, NEW code, NEW keepAlive, Replies(m, n, code, keepAlive)
    PROVE  /\ m.reply.request = n.parsing /\ m.reply.code = code
           /\ m.reply.keepAlive = keepAlive
BY DEF Replies

\* The request that is answered, and whether it keeps the connection.
LEMMA RequestRead ==
    ASSUME NEW r, NEW n, NEW k, ConnType(r, n, k), "read_ok" \in InFlight(r)
    PROVE  n.parsing \in 1..Len(k.script) /\ k.script[n.parsing].keepAlive \in BOOLEAN
<1>1. n.parsing \in 1..Len(k.script) /\ k.script \in Seq(Requests)
  <2>1. n.parsing \in Nat /\ Len(k.script) \in Nat /\ k.script \in Seq(Requests)
    BY ResponseTypes
  <2>2. n.parsing # 0 /\ n.parsing <= Len(k.script)
    BY DEF ConnType
  <2> QED BY <2>1, <2>2
<1>2. k.script[n.parsing] \in Requests
  BY <1>1
<1> QED BY <1>1, <1>2 DEF Requests

LEMMA ReadSucceedsFlow ==
    ASSUME ConnInv, NEW c \in Conns, ReadSucceeds(c)
    PROVE  /\ InFlight(sess[c]) = {"read_ok"}
           /\ \E keepAlive \in BOOLEAN :
                  RunHead(c, "read_ok", HandleReadSuccess(Pop(sess[c]), keepAlive))
<1>1. /\ sess[c].strand # << >> /\ Head(sess[c].strand) = "read_ok"
      /\ RecordInv(sess[c]) /\ ConnType(sess[c], net[c], client[c])
  BY ConnInvParts DEF ReadSucceeds, RunHead
<1>2. InFlight(sess[c]) = {"read_ok"}
  BY <1>1, PopFlow DEF ChainNames
<1>3. client[c].script[net[c].parsing].keepAlive \in BOOLEAN
  BY <1>1, <1>2, RequestRead
<1>4. RunHead(c, "read_ok",
              HandleReadSuccess(Pop(sess[c]), client[c].script[net[c].parsing].keepAlive))
  BY DEF ReadSucceeds
<1> QED BY <1>2, <1>3, <1>4

LEMMA ReadSucceedsDoes ==
    ASSUME ConnInv, NEW c \in Conns, ReadSucceeds(c)
    PROVE  \E s, m :
               /\ Moves(c, s, m, client[c]) /\ Replies(m, net[c], "handled", s.keepAlive)
               /\ RecordInv(s) /\ Closer(s, sess[c]) /\ s.open = sess[c].open
               /\ s.requests = sess[c].requests + 1
               /\ InFlight(sess[c]) = {"read_ok"}
               /\ InFlight(s) = IF sess[c].open THEN {"write"} ELSE {"write_error"}
<1> DEFINE r == sess[c]
           n == net[c]
<1>1. RecordInv(r) /\ n \in NetRecord /\ InFlight(r) = {"read_ok"}
  BY ConnInvParts, ReadSucceedsFlow
<1>2. PICK keepAlive \in BOOLEAN :
          /\ r.strand # << >> /\ Head(r.strand) = "read_ok"
          /\ sess' = [sess EXCEPT ![c] = HandleReadSuccess(Pop(r), keepAlive)]
  BY ReadSucceedsFlow DEF RunHead
<1> DEFINE s == HandleReadSuccess(Pop(r), keepAlive)
           m == Respond(n, n.parsing, "handled", s.keepAlive)
<1>3. Moves(c, s, m, client[c])
  <2>1. sess'[c] = s
    BY <1>2, ConnInvParts
  <2> QED BY <1>2, <2>1, ConnInvParts DEF ReadSucceeds, Moves
<1>4. /\ RecordInv(s) /\ Closer(s, r) /\ s.open = r.open /\ s.requests = r.requests + 1
      /\ InFlight(s) = IF r.open THEN {"write"} ELSE {"write_error"}
  <2> HIDE DEF r
  <2> QED BY <1>1, <1>2, ReadOkFlow
<1> HIDE DEF s
<1>5. s.keepAlive \in BOOLEAN /\ "handled" \in Codes
  BY <1>4 DEF RecordInv, SessionRecord, Codes
<1>6. Replies(m, n, "handled", s.keepAlive)
  BY <1>1, <1>5, ReplyType
<1> QED BY <1>1, <1>3, <1>4, <1>6

LEMMA ReadSucceedsStep ==
    ASSUME ConnInv, NEW c \in Conns, ReadSucceeds(c)
    PROVE  ConnInv'
<1>1. PICK s, m :
          /\ Moves(c, s, m, client[c]) /\ Replies(m, net[c], "handled", s.keepAlive)
          /\ RecordInv(s) /\ s.open = sess[c].open
          /\ InFlight(sess[c]) = {"read_ok"}
          /\ InFlight(s) = IF sess[c].open THEN {"write"} ELSE {"write_error"}
  BY ReadSucceedsDoes
<1>2. Good(sess[c], net[c], client[c])
  BY ConnInvParts
<1>3. CASE sess[c].open
  <2>1. m.reply.request = net[c].parsing /\ m.reply.keepAlive = s.keepAlive
    BY <1>1, <1>3, ReplySays
  <2>2. Good(s, m, client[c])
    BY <1>1, <1>2, <1>3, <2>1, AnswerKeeps DEF Replies
  <2> QED BY <1>1, <2>2, OneConnectionStep
<1>4. CASE ~sess[c].open
  <2>1. Good(s, m, client[c])
    BY <1>1, <1>2, <1>4, NothingMoreKeeps DEF Replies
  <2> QED BY <1>1, <2>1, OneConnectionStep
<1> QED BY <1>3, <1>4

LEMMA ReadFailsDoes ==
    ASSUME ConnInv, NEW c \in Conns, ReadFails(c)
    PROVE  \E s, m :
               /\ Moves(c, s, m, client[c]) /\ RecordInv(s) /\ s.open = sess[c].open
               /\ s.requests = sess[c].requests
               /\ \/ /\ InFlight(sess[c]) = {"read_error"}
                     /\ Replies(m, net[c], ParserError(net[c].fault), FALSE)
                     /\ s.keepAlive = FALSE /\ Closer(s, sess[c])
                     /\ InFlight(s) = IF sess[c].open THEN {"write"} ELSE {"write_error"}
                  \/ /\ InFlight(sess[c]) \in {{"read_timeout"}, {"read_eof"}}
                     /\ m = net[c] /\ InFlight(s) = {}
<1> DEFINE r == sess[c]
           n == net[c]
<1>1. PICK ec \in ReadOutcomes \ {"read_ok"} :
          /\ r.strand # << >> /\ Head(r.strand) = ec
          /\ sess' = [sess EXCEPT ![c] = HandleReadError(Pop(r), ec)]
  BY DEF ReadFails, OnReadFailed, RunHead
<1>2. RecordInv(r) /\ n \in NetRecord
  BY ConnInvParts
<1> DEFINE s == HandleReadError(Pop(r), ec)
           code == ParserError(n.fault)
           reply == Respond(n, n.parsing, code, FALSE)
<1>3. Moves(c, s, IF ec = "read_error" THEN reply ELSE n, client[c])
  BY <1>1, ConnInvParts DEF ReadFails, Moves
<1>4. /\ RecordInv(s) /\ s.open = r.open /\ s.requests = r.requests /\ InFlight(r) = {ec}
      /\ \/ /\ ec = "read_error" /\ s.keepAlive = FALSE /\ Closer(s, r)
            /\ InFlight(s) = IF r.open THEN {"write"} ELSE {"write_error"}
         \/ ec # "read_error" /\ InFlight(s) = {}
  <2> HIDE DEF r
  <2> QED BY <1>1, <1>2, ReadFailedFlow
<1> HIDE DEF s
<1>5. code \in Codes /\ FALSE \in BOOLEAN
  BY DEF ParserError, Codes
<1> HIDE DEF code
<1>6. Replies(reply, n, code, FALSE)
  BY <1>2, <1>5, ReplyType
<1> HIDE DEF reply
<1>7. CASE ec = "read_error"
  BY <1>3, <1>4, <1>6, <1>7 DEF code
<1>8. CASE ec # "read_error"
  <2>1. ec \in {"read_timeout", "read_eof"}
    BY <1>8 DEF ReadOutcomes
  <2> QED BY <1>3, <1>4, <1>8, <2>1
<1> QED BY <1>7, <1>8

LEMMA ReadFailsStep ==
    ASSUME ConnInv, NEW c \in Conns, ReadFails(c)
    PROVE  ConnInv'
<1> DEFINE code == ParserError(net[c].fault)
<1>1. PICK s, m :
          /\ Moves(c, s, m, client[c]) /\ RecordInv(s) /\ s.open = sess[c].open
          /\ \/ /\ InFlight(sess[c]) = {"read_error"}
                /\ Replies(m, net[c], code, FALSE) /\ s.keepAlive = FALSE
                /\ InFlight(s) = IF sess[c].open THEN {"write"} ELSE {"write_error"}
             \/ /\ InFlight(sess[c]) \in {{"read_timeout"}, {"read_eof"}}
                /\ m = net[c] /\ InFlight(s) = {}
  BY ReadFailsDoes
<1> HIDE DEF code
<1>2. Good(sess[c], net[c], client[c]) /\ net[c] \in NetRecord
  BY ConnInvParts
<1>3. CASE InFlight(sess[c]) = {"read_error"} /\ sess[c].open
  <2>0. Replies(m, net[c], code, FALSE) /\ s.keepAlive = FALSE
    BY <1>1, <1>3
  <2>1. m.reply.request = net[c].parsing /\ m.reply.keepAlive = s.keepAlive
    BY <2>0, ReplySays
  <2>2. Good(s, m, client[c])
    BY <1>1, <1>2, <1>3, <2>1, AnswerKeeps DEF Replies
  <2> QED BY <1>1, <2>2, OneConnectionStep
<1>4. CASE InFlight(sess[c]) = {"read_error"} /\ ~sess[c].open
  <2>1. Good(s, m, client[c])
    BY <1>1, <1>2, <1>4, NothingMoreKeeps DEF Replies
  <2> QED BY <1>1, <2>1, OneConnectionStep
<1>5. CASE InFlight(sess[c]) \in {{"read_timeout"}, {"read_eof"}}
  <2>1. Good(s, m, client[c])
    BY <1>1, <1>2, <1>5, NothingMoreKeeps
  <2> QED BY <1>1, <2>1, OneConnectionStep
<1> QED BY <1>1, <1>3, <1>4, <1>5

LEMMA WrittenDoes ==
    ASSUME ConnInv, NEW c \in Conns, Written(c)
    PROVE  \E s, m :
               /\ Moves(c, s, m, client[c]) /\ RecordInv(s) /\ s.open = sess[c].open
               /\ s.requests = sess[c].requests
               /\ \/ /\ InFlight(sess[c]) = {"write_ok"} /\ sess[c].keepAlive
                     /\ ReadsAnew(m, net[c]) /\ s.state = sess[c].state
                     /\ InFlight(s) = IF sess[c].open THEN {"read"} ELSE {"read_error"}
                  \/ /\ \/ InFlight(sess[c]) = {"write_ok"} /\ ~sess[c].keepAlive
                        \/ InFlight(sess[c]) = {"write_error"}
                     /\ m \in NetRecord /\ m.used \in {net[c].used, net[c].pulled}
                     /\ m.parsing = net[c].parsing /\ m.pulled = net[c].pulled
                     /\ m.sent = net[c].sent /\ m.reply = net[c].reply
                     /\ m.toClient = net[c].toClient /\ m.deadline = net[c].deadline
                     /\ m.reset = net[c].reset
                     /\ s.state = "kClosed" /\ InFlight(s) = {}
<1> DEFINE r == sess[c]
           n == net[c]
<1>1. PICK ec \in WriteOutcomes :
          /\ r.strand # << >> /\ Head(r.strand) = ec
          /\ sess' = [sess EXCEPT ![c] = HandleWritten(Pop(r), ec)]
  BY DEF Written, OnWritten, RunHead
<1>2. RecordInv(r) /\ n \in NetRecord
  BY ConnInvParts
<1> DEFINE s == HandleWritten(Pop(r), ec)
           m == IF ec = "write_error" THEN n
                ELSE IF r.keepAlive THEN StartRead(Consume(n)) ELSE Consume(n)
<1>3. Moves(c, s, m, client[c])
  BY <1>1, ConnInvParts DEF Written, Moves
<1>4. /\ RecordInv(s) /\ s.open = r.open /\ s.requests = r.requests
      /\ InFlight(r) = {ec} /\ ec \in {"write_ok", "write_error"}
      /\ \/ /\ ec = "write_ok" /\ r.keepAlive /\ s.state = r.state
            /\ InFlight(s) = IF r.open THEN {"read"} ELSE {"read_error"}
         \/ /\ ec = "write_error" \/ ~r.keepAlive
            /\ s.state = "kClosed" /\ InFlight(s) = {}
  <2> HIDE DEF r
  <2> QED BY <1>1, <1>2, WrittenFlow DEF WriteOutcomes
<1> HIDE DEF s
<1>5. /\ m \in NetRecord /\ m.used \in {n.used, n.pulled} /\ m.pulled = n.pulled
      /\ m.sent = n.sent /\ m.reply = n.reply /\ m.toClient = n.toClient
      /\ m.reset = n.reset
      /\ m.parsing = IF ec # "write_error" /\ r.keepAlive THEN 0 ELSE n.parsing
      /\ ec = "write_error" \/ ~r.keepAlive => m.deadline = n.deadline
  BY <1>2 DEF StartRead, Consume, NetRecord
<1> HIDE DEF r, n, m
<1>6. CASE ec = "write_ok" /\ r.keepAlive
  <2>1. ReadsAnew(m, n) /\ InFlight(r) = {"write_ok"}
    BY <1>4, <1>5, <1>6 DEF ReadsAnew
  <2>2. InFlight(s) = (IF r.open THEN {"read"} ELSE {"read_error"}) /\ s.state = r.state
    BY <1>4, <1>6
  <2> QED BY <1>3, <1>4, <1>6, <2>1, <2>2 DEF r, n
<1>7. CASE ~(ec = "write_ok" /\ r.keepAlive)
  <2>1. /\ InFlight(s) = {} /\ s.state = "kClosed" /\ m.parsing = n.parsing
        /\ m.deadline = n.deadline
        /\ \/ InFlight(r) = {"write_ok"} /\ ~r.keepAlive
           \/ InFlight(r) = {"write_error"}
    BY <1>4, <1>5, <1>7
  <2> QED BY <1>3, <1>4, <1>5, <2>1 DEF r, n
<1> QED BY <1>6, <1>7

LEMMA WrittenStep ==
    ASSUME ConnInv, NEW c \in Conns, Written(c)
    PROVE  ConnInv'
<1>1. PICK s, m :
          /\ Moves(c, s, m, client[c]) /\ RecordInv(s) /\ s.open = sess[c].open
          /\ \/ /\ InFlight(sess[c]) = {"write_ok"} /\ sess[c].keepAlive
                /\ ReadsAnew(m, net[c])
                /\ InFlight(s) = IF sess[c].open THEN {"read"} ELSE {"read_error"}
             \/ /\ \/ InFlight(sess[c]) = {"write_ok"} /\ ~sess[c].keepAlive
                   \/ InFlight(sess[c]) = {"write_error"}
                /\ m \in NetRecord /\ m.used \in {net[c].used, net[c].pulled}
                /\ m.parsing = net[c].parsing /\ m.pulled = net[c].pulled
                /\ m.sent = net[c].sent /\ m.reply = net[c].reply
                /\ m.toClient = net[c].toClient
                /\ InFlight(s) = {}
  BY WrittenDoes
<1>2. Good(sess[c], net[c], client[c])
  BY ConnInvParts
<1>3. CASE InFlight(s) # {}
  <2>1. MayRead(sess[c]) /\ ReadsAnew(m, net[c])
    BY <1>1, <1>3, ReadsByPhase
  <2>2. InFlight(s) = (IF sess[c].open THEN {"read"} ELSE {"read_error"}) /\ InFlight(sess[c]) # {}
    BY <1>1, <1>3
  <2>3. Good(s, m, client[c])
    BY <1>1, <1>2, <2>1, <2>2, NextReadKeeps DEF ReadsAnew
  <2> QED BY <1>1, <2>3, OneConnectionStep
<1>4. CASE InFlight(s) = {}
  <2>1. Good(s, m, client[c])
    BY <1>1, <1>2, <1>4, NothingMoreKeeps
  <2> QED BY <1>1, <2>1, OneConnectionStep
<1> QED BY <1>3, <1>4

LEMMA CallsDoes ==
    ASSUME ConnInv, NEW c \in Conns, Closes(c) \/ OwnerCalls(c)
    PROVE  \E s : /\ Moves(c, s, net[c], client[c]) /\ RecordInv(s) /\ Beside(s, sess[c])
                  /\ sess[c].state # "absent"
<1> DEFINE r == sess[c]
<1>1. RecordInv(r)
  BY ConnInvParts
<1>2. PICK s : sess' = [sess EXCEPT ![c] = s] /\ RecordInv(s) /\ Beside(s, r) /\ r.state # "absent"
  <2>1. CASE OnRequestClose(c)
    <3>1. /\ r.strand # << >> /\ Head(r.strand) = "RequestClose"
          /\ sess' = [sess EXCEPT ![c] = RequestClose(Pop(r))]
      BY <2>1 DEF OnRequestClose, RunHead
    <3> HIDE DEF r
    <3>2. r.state # "absent"
      BY <1>1, <3>1 DEF RecordInv
    <3> QED BY <1>1, <3>1, <3>2, HandledCallFlow
  <2>2. CASE OnForceClose(c)
    <3>1. /\ r.strand # << >> /\ Head(r.strand) = "ForceClose"
          /\ sess' = [sess EXCEPT ![c] = Close(Pop(r), TRUE)]
      BY <2>2 DEF OnForceClose, RunHead
    <3> HIDE DEF r
    <3>2. r.state # "absent"
      BY <1>1, <3>1 DEF RecordInv
    <3> QED BY <1>1, <3>1, <3>2, HandledCallFlow
  <2>3. CASE Call(c)
    <3>1. PICK handler \in {"RequestClose", "ForceClose"}, inPlace \in BOOLEAN :
              Live(r) /\ sess' = [sess EXCEPT ![c] = Dispatch(r, handler, inPlace)]
      BY <2>3 DEF Call
    <3> HIDE DEF r
    <3>2. r.state # "absent"
      BY <3>1 DEF Live
    <3> QED BY <1>1, <3>1, <3>2, DispatchFlow
  <2> QED BY <2>1, <2>2, <2>3 DEF Closes, OwnerCalls
<1>3. Moves(c, s, net[c], client[c])
  BY <1>2, ConnInvParts DEF Closes, OwnerCalls, Moves
<1> QED BY <1>2, <1>3

LEMMA CallsStep ==
    ASSUME ConnInv, NEW c \in Conns, Closes(c) \/ OwnerCalls(c)
    PROVE  ConnInv'
<1>1. PICK s : /\ Moves(c, s, net[c], client[c]) /\ RecordInv(s) /\ Beside(s, sess[c])
               /\ sess[c].state # "absent"
  BY CallsDoes
<1>2. Good(s, net[c], client[c])
  BY <1>1, ConnInvParts, BesideKeeps
<1> QED BY <1>1, <1>2, OneConnectionStep

LEMMA ExpireDoes ==
    ASSUME ConnInv, NEW c \in Conns, Expire(c)
    PROVE  \E m : /\ Moves(c, sess[c], m, client[c]) /\ Carried(m, net[c])
                  /\ m.toClient = net[c].toClient /\ m.deadline = "passed"
                  /\ sess[c].state # "absent"
<1> DEFINE n == net[c]
           m == [n EXCEPT !.deadline = "passed"]
<1>1. /\ RecordInv(sess[c]) /\ sess[c].ops # {} /\ n \in NetRecord
      /\ Moves(c, sess[c], m, client[c])
  BY ConnInvParts DEF Expire, Moves
<1>2. Carried(m, n) /\ m.toClient = n.toClient /\ m.deadline = "passed"
  BY <1>1 DEF NetRecord, Carried
<1>3. sess[c].state # "absent"
  BY <1>1 DEF RecordInv
<1> QED BY <1>1, <1>2, <1>3

LEMMA ExpireStep ==
    ASSUME ConnInv, NEW c \in Conns, Expire(c)
    PROVE  ConnInv'
<1>1. PICK m : /\ Moves(c, sess[c], m, client[c]) /\ Carried(m, net[c])
               /\ m.toClient = net[c].toClient /\ sess[c].state # "absent"
  BY ExpireDoes
<1>2. 0 \in 0..Len(net[c].toClient)
  BY ConnInvParts, ResponseTypes
<1>3. Good(sess[c], m, client[c])
  BY <1>1, <1>2, ConnInvParts, FewerKeeps
<1> QED BY <1>1, <1>3, OneConnectionStep

LEMMA ResetDoes ==
    ASSUME ConnInv, NEW c \in Conns, Reset(c)
    PROVE  \E m : \E kept \in 0..Len(net[c].toClient) :
               /\ Moves(c, sess[c], m, client[c]) /\ Carried(m, net[c])
               /\ m.toClient = SubSeq(net[c].toClient, 1, kept)
               /\ m.deadline = net[c].deadline /\ m.reset
               /\ SocketClosed(c) /\ net[c].sent > net[c].pulled
<1> DEFINE n == net[c]
<1>1. n \in NetRecord /\ n.toClient \in Seq(Reply)
  BY ConnInvParts, ResponseTypes
<1>2. PICK kept \in 0..Len(n.toClient) :
          net' = [net EXCEPT ![c] =
                     [n EXCEPT !.reset = TRUE, !.toClient = SubSeq(n.toClient, 1, kept)]]
  BY DEF Reset
<1> DEFINE prefix == SubSeq(n.toClient, 1, kept)
           m == [n EXCEPT !.reset = TRUE, !.toClient = prefix]
<1>3. prefix \in Seq(Reply)
  BY <1>1, <1>2, PrefixSequence
<1> HIDE DEF prefix
<1>4. Carried(m, n) /\ m.toClient = prefix /\ m.deadline = n.deadline /\ m.reset
  BY <1>1, <1>3 DEF NetRecord, Carried, Reply
<1>5. Moves(c, sess[c], m, client[c]) /\ m.toClient = SubSeq(n.toClient, 1, kept)
  BY <1>2, <1>4, ConnInvParts DEF Reset, Moves, prefix
<1> HIDE DEF m
<1> QED BY <1>2, <1>4, <1>5 DEF Reset

LEMMA ResetStep ==
    ASSUME ConnInv, NEW c \in Conns, Reset(c)
    PROVE  ConnInv'
<1>1. PICK m : \E kept \in 0..Len(net[c].toClient) :
          /\ Moves(c, sess[c], m, client[c]) /\ Carried(m, net[c])
          /\ m.toClient = SubSeq(net[c].toClient, 1, kept) /\ SocketClosed(c)
  BY ResetDoes
<1>2. sess[c].state # "absent"
  BY <1>1 DEF SocketClosed
<1>3. Good(sess[c], m, client[c])
  BY <1>1, <1>2, ConnInvParts, FewerKeeps
<1> QED BY <1>1, <1>3, OneConnectionStep

LEMMA ConnectDoes ==
    ASSUME ConnInv, NEW c \in Conns, Connect(c)
    PROVE  \E s, m, j :
               /\ Moves(c, s, m, j) /\ client[c].stage = "idle"
               /\ RecordInv(s) /\ s.open /\ s.state = "kOpen" /\ s.requests = 0
               /\ InFlight(s) \in {{"read"}, {"Run"}}
               /\ m \in NetRecord /\ m.used = 0 /\ m.pulled = 0 /\ m.sent = 0
               /\ m.parsing = 0 /\ m.toClient = << >> /\ m.reply = NoReply
               /\ j \in ClientRecord /\ j.stage = "connected" /\ j.script = << >>
               /\ j.answers = << >> /\ j.early = {}
<1> DEFINE n == net[c]
           k == client[c]
           j == [k EXCEPT !.stage = "connected"]
<1>1. /\ k.stage = "idle" /\ n = NewNet /\ k = NewClient
      /\ client' = [client EXCEPT ![c] = j] /\ k \in ClientRecord /\ n \in NetRecord
  BY ConnInvParts DEF Connect, ConnType
<1>2. PICK inPlace \in BOOLEAN :
          sess' = [sess EXCEPT ![c] = Dispatch(NewSession, "Run", inPlace)]
  BY DEF Connect, Open
<1> DEFINE s == Dispatch(NewSession, "Run", inPlace)
           m == IF "read" \in s.ops THEN StartRead(n) ELSE n
<1>3. Moves(c, s, m, j)
  <2>1. sess'[c] = s
    BY <1>2, ConnInvParts
  <2> QED BY <1>1, <1>2, <2>1 DEF Connect, Moves
<1>4. /\ RecordInv(s) /\ s.open /\ s.state = "kOpen" /\ s.requests = 0
      /\ InFlight(s) \in {{"read"}, {"Run"}}
  BY OpenFlow
<1> HIDE DEF s
<1>5. /\ m \in NetRecord /\ m.used = 0 /\ m.pulled = 0 /\ m.sent = 0 /\ m.parsing = 0
      /\ m.toClient = << >> /\ m.reply = NoReply
  <2>1. /\ n.used = 0 /\ n.pulled = 0 /\ n.sent = 0 /\ n.parsing = 0
        /\ n.toClient = << >> /\ n.reply = NoReply
    BY <1>1 DEF NewNet
  <2> HIDE DEF n
  <2> QED BY <1>1, <2>1 DEF StartRead, NetRecord
<1>6. /\ j \in ClientRecord /\ j.stage = "connected" /\ j.script = << >> /\ j.answers = << >>
      /\ j.early = {}
  <2>1. k.script = << >> /\ k.answers = << >> /\ k.early = {}
    BY <1>1 DEF NewClient
  <2> HIDE DEF k
  <2> QED BY <1>1, <2>1 DEF ClientRecord
<1> HIDE DEF m, j
<1> QED BY <1>1, <1>3, <1>4, <1>5, <1>6

LEMMA ConnectStep ==
    ASSUME ConnInv, NEW c \in Conns, Connect(c)
    PROVE  ConnInv'
<1>1. PICK s, m, j :
          /\ Moves(c, s, m, j) /\ client[c].stage = "idle"
          /\ RecordInv(s) /\ s.open /\ InFlight(s) \in {{"read"}, {"Run"}}
          /\ m \in NetRecord /\ m.used = 0 /\ m.pulled = 0 /\ m.sent = 0
          /\ m.parsing = 0 /\ m.toClient = << >> /\ m.reply = NoReply
          /\ j \in ClientRecord /\ j.stage = "connected" /\ j.script = << >>
          /\ j.answers = << >>
  BY ConnectDoes
<1>2. Good(s, m, j)
  BY <1>1, ConnInvParts, ConnectKeeps
<1> QED BY <1>1, <1>2, OneConnectionStep

\* One more unit is sent.
SendsOn(m, n) ==
    /\ m \in NetRecord /\ m.used = n.used /\ m.pulled = n.pulled /\ m.sent = n.sent + 1
    /\ m.reply = n.reply /\ m.parsing = n.parsing /\ m.fault = n.fault
    /\ m.toClient = n.toClient /\ m.deadline = n.deadline /\ m.reset = n.reset

LEMMA SentMore ==
    ASSUME NEW n \in NetRecord
    PROVE  SendsOn([n EXCEPT !.sent = n.sent + 1], n)
<1>1. PICK more \in Nat : more = n.sent + 1
  BY DEF NetRecord
<1> DEFINE m == [n EXCEPT !.sent = more]
<1>2. /\ m \in NetRecord /\ m.used = n.used /\ m.pulled = n.pulled
      /\ m.sent = more /\ m.reply = n.reply /\ m.parsing = n.parsing /\ m.fault = n.fault
      /\ m.toClient = n.toClient /\ m.deadline = n.deadline /\ m.reset = n.reset
  BY DEF NetRecord
<1> QED BY <1>1, <1>2 DEF SendsOn

\* A request that is sent before all others are answered is early.
LEMMA SendHeadDoes ==
    ASSUME ConnInv, NEW c \in Conns, NEW request \in Sendable, SendHead(c, request)
    PROVE  \E m, j :
               /\ Moves(c, sess[c], m, j) /\ SendsOn(m, net[c])
               /\ client[c].stage = "connected" /\ request \in Requests
               /\ net[c].sent = Len(Units(client[c].script))
               /\ j \in ClientRecord /\ j.stage = client[c].stage
               /\ j.answers = client[c].answers
               /\ j.script = Append(client[c].script, request)
               /\ Len(client[c].script) < MaxScript
               /\ j.early = IF Len(client[c].answers) < Len(client[c].script)
                            THEN client[c].early \cup {Len(client[c].script) + 1}
                            ELSE client[c].early
<1> DEFINE n == net[c]
           k == client[c]
           i == Len(k.script) + 1
           early == IF Len(k.answers) < i - 1 THEN k.early \cup {i} ELSE k.early
           script == Append(k.script, request)
           j == [k EXCEPT !.script = script, !.early = early]
           m == [n EXCEPT !.sent = n.sent + 1]
<1>1. /\ k.stage = "connected" /\ k \in ClientRecord /\ n \in NetRecord
      /\ k.script \in Seq(Requests) /\ request \in Requests
      /\ n.sent = Len(Units(k.script)) /\ Len(k.script) < MaxScript
      /\ k.answers \in Seq(Reply)
  BY ConnInvParts, ResponseTypes, SendableAssumption DEF SendHead, Stream
<1>2. Moves(c, sess[c], m, j)
  BY ConnInvParts DEF SendHead, Moves
<1>3. early \in SUBSET Nat /\ script \in Seq(Requests)
  <2>1. i \in Nat /\ k.early \in SUBSET Nat
    BY <1>1 DEF ClientRecord
  <2> QED BY <1>1, <2>1
<1>4. early = IF Len(k.answers) < Len(k.script) THEN k.early \cup {Len(k.script) + 1}
              ELSE k.early
  <2>1. Len(k.script) \in Nat
    BY <1>1
  <2>2. i - 1 = Len(k.script)
    BY <2>1
  <2> QED BY <2>2
<1> HIDE DEF early, script
<1>5. /\ j \in ClientRecord /\ j.stage = k.stage /\ j.answers = k.answers
      /\ j.script = script /\ j.early = early
  BY <1>1, <1>3 DEF ClientRecord
<1>6. SendsOn(m, n)
  <2> HIDE DEF n
  <2> QED BY <1>1, SentMore
<1> HIDE DEF m, j
<1> QED BY <1>1, <1>2, <1>4, <1>5, <1>6 DEF script

LEMMA SendHeadStep ==
    ASSUME ConnInv, NEW c \in Conns, NEW request \in Sendable, SendHead(c, request)
    PROVE  ConnInv'
<1>1. PICK m, j :
          /\ Moves(c, sess[c], m, j) /\ SendsOn(m, net[c])
          /\ client[c].stage = "connected" /\ request \in Requests
          /\ j \in ClientRecord /\ j.stage = client[c].stage
          /\ j.answers = client[c].answers
          /\ j.script = Append(client[c].script, request)
  BY SendHeadDoes
<1>2. Good(sess[c], m, j)
  BY <1>1, ConnInvParts, SendKeeps DEF SendsOn
<1> QED BY <1>1, <1>2, OneConnectionStep

LEMMA SendBodyDoes ==
    ASSUME ConnInv, NEW c \in Conns, SendBody(c)
    PROVE  \E m : /\ Moves(c, sess[c], m, client[c]) /\ SendsOn(m, net[c])
                  /\ client[c].stage = "connected"
                  /\ net[c].sent < Len(Units(client[c].script))
<1> DEFINE n == net[c]
           m == [n EXCEPT !.sent = n.sent + 1]
<1>1. /\ client[c].stage = "connected" /\ n \in NetRecord
      /\ n.sent < Len(Units(client[c].script)) /\ Moves(c, sess[c], m, client[c])
  BY ConnInvParts DEF SendBody, Stream, Moves
<1>2. SendsOn(m, n)
  <2> HIDE DEF n
  <2> QED BY <1>1, SentMore
<1> QED BY <1>1, <1>2

LEMMA SendBodyStep ==
    ASSUME ConnInv, NEW c \in Conns, SendBody(c)
    PROVE  ConnInv'
<1> DEFINE request == [body |-> FALSE, keepAlive |-> FALSE, fault |-> "none"]
<1>1. PICK m : /\ Moves(c, sess[c], m, client[c]) /\ SendsOn(m, net[c])
               /\ client[c].stage = "connected"
               /\ net[c].sent < Len(Units(client[c].script))
  BY SendBodyDoes
<1>2. request \in Requests
  BY DEF Requests, Faults
<1> HIDE DEF request
<1>3. Good(sess[c], m, client[c])
  BY <1>1, <1>2, ConnInvParts, SendKeeps DEF SendsOn
<1> QED BY <1>1, <1>3, OneConnectionStep

\* The client is through: it cannot write, there is nothing more to read, or it has
\* had enough.
LEMMA EndsDoes ==
    ASSUME ConnInv, NEW c \in Conns, SendFails(c) \/ SeeEnd(c) \/ Leave(c)
    PROVE  \E j : /\ Moves(c, sess[c], net[c], j) /\ client[c].stage = "connected"
                  /\ j \in ClientRecord /\ j.script = client[c].script
                  /\ j.answers = client[c].answers /\ j.early = client[c].early
                  /\ \/ j.stage = "left"
                     \/ /\ j.stage = "ended" /\ SocketClosed(c)
                        /\ net[c].sent < Len(Units(client[c].script))
                     \/ /\ j.stage = "ended" /\ sess[c].state = "kClosed"
                        /\ net[c].toClient = << >>
<1> DEFINE k == client[c]
<1>1. PICK stage \in {"ended", "left"} :
          /\ k.stage = "connected" /\ sess' = sess /\ net' = net
          /\ client' = [client EXCEPT ![c] = [k EXCEPT !.stage = stage]]
          /\ \/ stage = "left"
             \/ stage = "ended" /\ SocketClosed(c) /\ net[c].sent < Len(Units(k.script))
             \/ stage = "ended" /\ sess[c].state = "kClosed" /\ net[c].toClient = << >>
  BY DEF SendFails, SeeEnd, Leave, Stream
<1> DEFINE j == [k EXCEPT !.stage = stage]
<1>2. Moves(c, sess[c], net[c], j)
  BY <1>1, ConnInvParts DEF Moves
<1>3. /\ j \in ClientRecord /\ j.stage = stage /\ j.script = k.script
      /\ j.answers = k.answers /\ j.early = k.early
  <2>1. k \in ClientRecord
    BY ConnInvParts
  <2> QED BY <1>1, <2>1 DEF ClientRecord
<1> HIDE DEF j
<1> QED BY <1>1, <1>2, <1>3

LEMMA EndsStep ==
    ASSUME ConnInv, NEW c \in Conns, SendFails(c) \/ SeeEnd(c) \/ Leave(c)
    PROVE  ConnInv'
<1>1. PICK j : /\ Moves(c, sess[c], net[c], j) /\ client[c].stage = "connected"
               /\ j \in ClientRecord /\ j.stage \in {"ended", "left"}
               /\ j.script = client[c].script /\ j.answers = client[c].answers
  BY EndsDoes
<1>2. Carried(net[c], net[c])
  BY ConnInvParts DEF Carried
<1>3. Good(sess[c], net[c], j)
  BY <1>1, <1>2, ConnInvParts, EndedKeeps
<1> QED BY <1>1, <1>3, OneConnectionStep

LEMMA ReceiveDoes ==
    ASSUME ConnInv, NEW c \in Conns, Receive(c)
    PROVE  \E m, j :
               /\ Moves(c, sess[c], m, j) /\ client[c].stage = "connected"
               /\ Carried(m, net[c]) /\ net[c].toClient # << >>
               /\ m.toClient = Tail(net[c].toClient)
               /\ m.deadline = net[c].deadline /\ m.reset = net[c].reset
               /\ j \in ClientRecord /\ j.script = client[c].script
               /\ j.early = client[c].early
               /\ \/ /\ Head(net[c].toClient).code = "cut" /\ j.stage = "ended"
                     /\ j.answers = client[c].answers
                  \/ /\ Head(net[c].toClient).code # "cut" /\ j.stage = client[c].stage
                     /\ j.answers = Append(client[c].answers, Head(net[c].toClient))
<1> DEFINE n == net[c]
           k == client[c]
           answer == Head(n.toClient)
           rest == Tail(n.toClient)
           m == [n EXCEPT !.toClient = rest]
           more == Append(k.answers, answer)
           j == [k EXCEPT !.answers = more]
           over == [k EXCEPT !.stage = "ended"]
<1>1. /\ k.stage = "connected" /\ k \in ClientRecord /\ n \in NetRecord
      /\ n.toClient \in Seq(Reply) /\ k.answers \in Seq(Reply) /\ n.toClient # << >>
      /\ sess' = [sess EXCEPT ![c] = sess[c]] /\ net' = [net EXCEPT ![c] = m]
  BY ConnInvParts, ResponseTypes DEF Receive
<1>2. client' = [client EXCEPT ![c] =
                    [k EXCEPT !.answers = IF answer.code = "cut" THEN k.answers ELSE more,
                              !.stage = IF answer.code = "cut" THEN "ended" ELSE k.stage]]
  BY DEF Receive
<1>3. rest \in Seq(Reply) /\ answer \in Reply
  BY <1>1, TailSequence
<1>4. more \in Seq(Reply)
  BY <1>1, <1>3
<1>5. Carried(m, n) /\ m.toClient = rest /\ m.deadline = n.deadline /\ m.reset = n.reset
  BY <1>1, <1>3, NetWithResponses
<1> HIDE DEF m, more
<1>6. CASE answer.code = "cut"
  <2>1. client' = [client EXCEPT ![c] = over]
    <3> HIDE DEF answer
    <3>1. [k EXCEPT !.answers = k.answers, !.stage = "ended"] = over
      BY <1>1 DEF ClientRecord
    <3> QED BY <1>2, <1>6, <3>1
  <2>2. /\ over \in ClientRecord /\ over.stage = "ended" /\ over.script = k.script
        /\ over.answers = k.answers /\ over.early = k.early
    BY <1>1 DEF ClientRecord
  <2>3. Moves(c, sess[c], m, over)
    BY <1>1, <2>1 DEF Moves
  <2> HIDE DEF over
  <2> QED BY <1>1, <1>5, <1>6, <2>2, <2>3
<1>7. CASE answer.code # "cut"
  <2>1. client' = [client EXCEPT ![c] = j]
    <3> HIDE DEF answer
    <3>1. [k EXCEPT !.answers = more, !.stage = k.stage] = j
      BY <1>1 DEF ClientRecord
    <3> QED BY <1>2, <1>7, <3>1
  <2>2. /\ j \in ClientRecord /\ j.stage = k.stage /\ j.script = k.script
        /\ j.answers = more /\ j.early = k.early
    BY <1>1, <1>4 DEF ClientRecord, Reply
  <2>3. Moves(c, sess[c], m, j)
    BY <1>1, <2>1 DEF Moves
  <2>4. j.answers = Append(k.answers, Head(n.toClient))
    BY <2>2 DEF more
  <2> HIDE DEF j
  <2> QED BY <1>1, <1>5, <1>7, <2>2, <2>3, <2>4
<1> QED BY <1>6, <1>7

LEMMA ReceiveStep ==
    ASSUME ConnInv, NEW c \in Conns, Receive(c)
    PROVE  ConnInv'
<1>1. PICK m, j :
          /\ Moves(c, sess[c], m, j) /\ client[c].stage = "connected"
          /\ Carried(m, net[c]) /\ net[c].toClient # << >>
          /\ m.toClient = Tail(net[c].toClient)
          /\ j \in ClientRecord /\ j.script = client[c].script
          /\ \/ j.stage = "ended" /\ j.answers = client[c].answers
             \/ /\ Head(net[c].toClient).code # "cut" /\ j.stage = client[c].stage
                /\ j.answers = Append(client[c].answers, Head(net[c].toClient))
  BY ReceiveDoes
<1>2. Good(sess[c], net[c], client[c])
  BY ConnInvParts
<1>3. CASE j.stage = "ended" /\ j.answers = client[c].answers
  <2>1. Good(sess[c], m, j)
    BY <1>1, <1>2, <1>3, EndedKeeps
  <2> QED BY <1>1, <2>1, OneConnectionStep
<1>4. CASE ~(j.stage = "ended" /\ j.answers = client[c].answers)
  <2>1. Good(sess[c], m, j)
    BY <1>1, <1>2, <1>4, ReceiveKeeps
  <2> QED BY <1>1, <2>1, OneConnectionStep
<1> QED BY <1>3, <1>4

-----------------------------------------------------------------------------
(* The invariant. *)

LEMMA ConnInvInit == ConnInit => ConnInv
<1> SUFFICES ASSUME ConnInit
             PROVE  ConnInv
  OBVIOUS
<1>1. NewNet \in NetRecord /\ NewClient \in ClientRecord
  <2>1. << >> \in Seq(Reply) /\ << >> \in Seq(Requests) /\ NoReply \in Reply /\ "none" \in Faults
    BY DEF NoReply, Reply, Codes, Faults
  <2> QED BY <2>1 DEF NewNet, NewClient, NetRecord, ClientRecord, Reply
<1>2. InFlight(NoSession) = {} /\ RecordInv(NoSession)
  BY NoSessionInv DEF InFlight, Pending, NoSession
<1>3. StreamOK(<< >>) /\ Len(Units(<< >>)) = 0 /\ Len(<< >>) = 0
  <2>0. << >> \in Seq(UnitType) /\ Len(<< >>) = 0
    OBVIOUS
  <2>1. PICK none \in Seq(UnitType) : none = << >> /\ Len(none) = 0
    BY <2>0, Zenon
  <2>2. Units(none) = none
    BY <2>1, NoUnits
  <2>3. DOMAIN none = {}
    BY <2>1
  <2>4. StreamOK(none)
    BY <2>2, <2>3 DEF StreamOK
  <2> QED BY <2>1, <2>2, <2>4
<1>4. ConnType(NoSession, NewNet, NewClient)
  <2>1. /\ NewNet.used = 0 /\ NewNet.pulled = 0 /\ NewNet.sent = 0 /\ NewNet.parsing = 0
        /\ NewClient.script = << >> /\ NoSession.state = "absent"
    BY DEF NewNet, NewClient, NoSession
  <2> QED BY <1>1, <1>2, <1>3, <2>1 DEF ConnType
<1>5. OrderInv(NoSession, NewNet, NewClient)
  <2>1. NewClient.answers = << >> /\ NewClient.stage = "idle"
    BY DEF NewClient
  <2>2. InOrder(<< >>)
    BY DEF InOrder, InSequence, ToSet
  <2> QED BY <2>1, <2>2 DEF OrderInv
<1>6. SessionTypeOK
  <2>1. ChainInv
    BY ChainInvInit DEF ConnInit
  <2> QED BY <2>1 DEF ChainInv
<1>7. /\ net = [c \in Conns |-> NewNet] /\ client = [c \in Conns |-> NewClient]
      /\ sess = [c \in Conns |-> NoSession]
  BY DEF ConnInit, SessionInit
<1>8. \A c \in Conns : Good(sess[c], net[c], client[c])
  BY <1>2, <1>4, <1>5, <1>7 DEF Good
<1> QED BY <1>1, <1>6, <1>7, <1>8 DEF ConnInv

LEMMA ConnInvNext == ConnInv /\ [ConnNext]_connVars => ConnInv'
<1> SUFFICES ASSUME ConnInv, [ConnNext]_connVars
             PROVE  ConnInv'
  OBVIOUS
<1>1. CASE UNCHANGED connVars
  <2>1. sess' = sess /\ net' = net /\ client' = client
    BY <1>1 DEF connVars
  <2>2. SessionTypeOK' /\ (\A c \in Conns : Good(sess'[c], net'[c], client'[c]))
    BY <2>1 DEF ConnInv, SessionTypeOK
  <2> QED BY <2>1, <2>2 DEF ConnInv
<1>2. ASSUME NEW c \in Conns, Operations(c)
      PROVE  ConnInv'
  BY <1>2, ReadSomeStep, ReadEndsStep, WriteEndsStep, ExpireStep DEF Operations
<1>3. ASSUME NEW c \in Conns, StrandStep(c)
      PROVE  ConnInv'
  BY <1>3, RunStartsStep, ReadSucceedsStep, ReadFailsStep, WrittenStep, CallsStep DEF StrandStep
<1>4. ASSUME NEW c \in Conns, ClientStep(c)
      PROVE  ConnInv'
  BY <1>4, ConnectStep, SendHeadStep, SendBodyStep, EndsStep, ReceiveStep DEF ClientStep, Sends
<1>5. ASSUME NEW c \in Conns, OwnerCalls(c)
      PROVE  ConnInv'
  BY <1>5, CallsStep
<1>6. ASSUME NEW c \in Conns, Reset(c)
      PROVE  ConnInv'
  BY <1>6, ResetStep
<1> QED BY <1>1, <1>2, <1>3, <1>4, <1>5, <1>6 DEF ConnNext

LEMMA ConnAlways == ConnSpec => []ConnInv
BY ConnInvInit, ConnInvNext, PTL DEF ConnSpec

LEMMA ConnImpliesType == ConnInv => ConnTypeOK
<1> SUFFICES ASSUME ConnInv
             PROVE  ConnTypeOK
  OBVIOUS
<1>1. ASSUME NEW c \in Conns
      PROVE  net[c].used <= net[c].pulled /\ net[c].pulled <= net[c].sent
  BY ConnInvParts DEF ConnType
<1> QED BY <1>1 DEF ConnInv, ConnTypeOK

LEMMA ConnImpliesOrder == ConnInv => AnswersAreInOrder
<1> SUFFICES ASSUME ConnInv, NEW c \in Conns, NEW i \in DOMAIN client[c].answers,
                    NEW j \in DOMAIN client[c].answers, i < j
             PROVE  /\ client[c].answers[i].request < client[c].answers[j].request
                    /\ client[c].answers[i].keepAlive
  BY DEF AnswersAreInOrder
<1>1. InOrder(client[c].answers)
  BY DEF ConnInv, Good, OrderInv
<1>2. Before(client[c].answers[i], client[c].answers[j]) /\ client[c].answers[j].code # "cut"
  BY <1>1 DEF InOrder, InSequence, ToSet
<1> QED BY <1>2 DEF Before

-----------------------------------------------------------------------------
(* The session of a connection is one of module Session. *)

LEMMA StepsOfSession == ConnInv /\ [ConnNext]_connVars => [SessionNext]_sess
<1> SUFFICES ASSUME ConnInv, [ConnNext]_connVars, sess' # sess
             PROVE  SessionNext
  OBVIOUS
<1>1. PICK c \in Conns :
          Operations(c) \/ StrandStep(c) \/ ClientStep(c) \/ OwnerCalls(c) \/ Reset(c)
  BY DEF ConnNext, connVars
<1>2. CASE Operations(c)
  <2>1. ASSUME NEW outcome \in ReadOutcomes, "read" \in sess[c].ops, Finish(c, "read", outcome)
        PROVE  Complete(c)
    BY <2>1 DEF Complete, CompleteRead, Finish
  <2>2. ASSUME NEW outcome \in WriteOutcomes, "write" \in sess[c].ops, Finish(c, "write", outcome)
        PROVE  Complete(c)
    BY <2>2 DEF Complete, CompleteWrite, Finish
  <2>3. /\ {"read_ok", "read_timeout", "read_eof", "read_error"} \subseteq ReadOutcomes
        /\ {"write_ok", "write_error"} \subseteq WriteOutcomes
    BY DEF ReadOutcomes, WriteOutcomes
  <2>4. CASE ReadSome(c)
    <3>1. /\ "read" \in sess[c].ops
          /\ \/ Finish(c, "read", "read_error") \/ Finish(c, "read", "read_ok")
             \/ UNCHANGED sess
      BY <2>4 DEF ReadSome
    <3> QED BY <2>1, <2>3, <3>1 DEF SessionNext
  <2>5. CASE ReadMeetsTheEnd(c) \/ ReadIsCancelled(c)
    <3>1. /\ "read" \in sess[c].ops
          /\ \E outcome \in {"read_timeout", "read_eof", "read_error"} :
                 Finish(c, "read", outcome)
      BY <2>5 DEF ReadMeetsTheEnd, ReadIsCancelled
    <3> QED BY <2>1, <2>3, <3>1 DEF SessionNext
  <2>6. CASE WriteDone(c) \/ WriteFails(c)
    <3>1. /\ "write" \in sess[c].ops
          /\ \E outcome \in {"write_ok", "write_error"} : Finish(c, "write", outcome)
      BY <2>6 DEF WriteDone, WriteFails
    <3> QED BY <2>2, <2>3, <3>1 DEF SessionNext
  <2>7. CASE Expire(c)
    BY <2>7 DEF Expire
  <2> QED BY <1>2, <2>4, <2>5, <2>6, <2>7 DEF Operations
<1>3. CASE StrandStep(c)
  <2>1. CASE ReadSucceeds(c)
    BY <2>1, ReadSucceedsFlow DEF OnReadOk, RunHandler, SessionNext
  <2>2. CASE RunStarts(c) \/ ReadFails(c) \/ Written(c) \/ Closes(c)
    BY <2>2 DEF RunStarts, ReadFails, Written, Closes, RunHandler, SessionNext
  <2> QED BY <1>3, <2>1, <2>2 DEF StrandStep
<1>4. CASE ClientStep(c)
  <2>1. Connect(c)
    BY <1>4 DEF ClientStep, Sends, SendHead, SendBody, SendFails, Receive, SeeEnd, Leave
  <2> QED BY <2>1 DEF Connect, SessionNext
<1>5. CASE OwnerCalls(c)
  BY <1>5 DEF OwnerCalls, SessionNext
<1>6. CASE Reset(c)
  BY <1>6 DEF Reset
<1> QED BY <1>1, <1>2, <1>3, <1>4, <1>5, <1>6

-----------------------------------------------------------------------------
(* Theorems. *)

\* The stream of a client's bytes is read in its order and never past its end:
\* what is thrown away was in buffer_, and what is in buffer_ was sent
\* (Session.cpp:67-73, 137).
THEOREM ConnectionTyped == ConnSpec => []ConnTypeOK
BY ConnAlways, ConnImpliesType, PTL

\* A client reads the answers in the order of its requests, and none behind an
\* answer that does not keep the connection, whatever it sends, and however reads,
\* rejections, lost connections and the owner's calls interleave
\* (Session.cpp:85-145).
THEOREM OrderOfAnswers == ConnSpec => []AnswersAreInOrder
BY ConnAlways, ConnImpliesOrder, PTL

\* With its bytes, deadlines and peers a session takes no step that module Session
\* does not have: the safety part of ImplementsSession (Session.cpp:30-145).
THEOREM ConnectionKeepsSession == ConnSpec => SessionInit /\ [][SessionNext]_sess
<1>1. ConnInit => SessionInit
  BY DEF ConnInit
<1> QED BY <1>1, ConnAlways, StepsOfSession, PTL DEF ConnSpec

\* So parser_, buffer_ and the stream of a connection have one user at a time
\* (Session.cpp:67-145, 169), and ...
THEOREM ConnectionOneOperation == ConnSpec => []SingleOperation
<1>1. ConnInv => SingleOperation
  BY ConnImpliesChain, ChainImpliesSingle
<1> QED BY <1>1, ConnAlways, PTL

\* ... a connection is served no more requests than the limit, however many the
\* client sends before it reads an answer (Session.cpp:113-121).
THEOREM ConnectionRequestsBounded == ConnSpec => []RequestBound
<1>1. ConnInv => RequestBound
  BY ConnImpliesChain, ChainImpliesBound
<1> QED BY <1>1, ConnAlways, PTL

\* Once it has left kOpen a session handles one more request at most
\* (Session.cpp:55-61, 120-122, 135-143).
THEOREM OneRequestAfterClosing == MCSpec => []AtMostOneRequestAfterClosing
<1>1. MCInit => ConnInv /\ ClosingInv
  <2>1. MCInit => ConnInv
    BY ConnInvInit DEF MCInit
  <2>2. MCInit => ClosingInv
    BY DEF MCInit, ConnInit, SessionInit, NoSession, ClosingInv
  <2> QED BY <2>1, <2>2
<1>2. ConnInv /\ ClosingInv /\ [MCNext]_<<connVars, closingAt>> => ConnInv' /\ ClosingInv'
  <2> SUFFICES ASSUME ConnInv, ClosingInv, [MCNext]_<<connVars, closingAt>>
               PROVE  ConnInv' /\ ClosingInv'
    OBVIOUS
  <2>1. CASE MCNext
    <3>1. [ConnNext]_connVars
      BY <2>1 DEF MCNext
    <3>2. ChainInv /\ [SessionNext]_sess
      BY <3>1, ConnImpliesChain, StepsOfSession
    <3>3. ClosingInv'
      BY <2>1, <3>2, ClosingStep DEF MCNext
    <3> QED BY <3>1, <3>3, ConnInvNext
  <2>2. CASE UNCHANGED <<connVars, closingAt>>
    <3>1. [ConnNext]_connVars /\ sess' = sess /\ closingAt' = closingAt
      BY <2>2 DEF connVars
    <3>2. ClosingInv'
      BY <3>1 DEF ClosingInv, MayRead, InFlight, Pending
    <3> QED BY <3>1, <3>2, ConnInvNext
  <2> QED BY <2>1, <2>2
<1>3. ClosingInv => AtMostOneRequestAfterClosing
  BY DEF ClosingInv, AtMostOneRequestAfterClosing
<1> QED BY <1>1, <1>2, <1>3, PTL DEF MCSpec
=============================================================================
