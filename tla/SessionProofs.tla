---------------------------- MODULE SessionProofs ----------------------------
(***************************************************************************)
(* Sessions, for every set of connections and every request limit, 0       *)
(* included.  Their types; and the read/write chain of a session, which is *)
(* never doubled and never broken, and which the request limit ends.       *)
(***************************************************************************)
EXTENDS Session, SequenceTheorems, FiniteSetTheorems, TLAPS

\* The strand's operations keep a record well typed, and its state.
LEMMA StrandType ==
    ASSUME NEW r \in SessionRecord
    PROVE  /\ \A h \in Handlers : /\ Post(r, h) \in SessionRecord
                                  /\ Post(r, h).state = r.state
           /\ r.strand # << >> => /\ Pop(r) \in SessionRecord
                                  /\ Pop(r).state = r.state
                                  /\ Head(r.strand) \in Handlers
<1>1. r.strand \in Seq(Handlers)
  BY DEF SessionRecord
<1>2. ASSUME NEW h \in Handlers
      PROVE  Post(r, h) \in SessionRecord /\ Post(r, h).state = r.state
  <2>1. Append(r.strand, h) \in Seq(Handlers)
    BY <1>1
  <2> QED BY <2>1 DEF SessionRecord, Post
<1>3. ASSUME r.strand # << >>
      PROVE  /\ Pop(r) \in SessionRecord
             /\ Pop(r).state = r.state
             /\ Head(r.strand) \in Handlers
  <2>1. Tail(r.strand) \in Seq(Handlers) /\ Head(r.strand) \in Handlers
    BY <1>1, <1>3, HeadTailProperties
  <2> QED BY <2>1 DEF SessionRecord, Pop
<1> QED BY <1>2, <1>3

\* Starting an operation does not change the state of a session
\* (Session.cpp:67-83, 126).
LEMMA InitiateType ==
    ASSUME NEW r \in SessionRecord,
           NEW op \in {"read", "write"}, NEW failure \in Handlers
    PROVE  /\ Initiate(r, op, failure) \in SessionRecord
           /\ Initiate(r, op, failure).state = r.state
BY StrandType DEF SessionRecord, Initiate

LEMMA DoReadType ==
    ASSUME NEW r \in SessionRecord
    PROVE  DoRead(r) \in SessionRecord /\ DoRead(r).state = r.state
BY InitiateType DEF DoRead, Handlers, Completions, ReadOutcomes

\* RequestClose never closes: a live session stays live (Session.cpp:55-61).
LEMMA RequestCloseType ==
    ASSUME NEW r \in SessionRecord
    PROVE  /\ RequestClose(r) \in SessionRecord
           /\ Live(RequestClose(r)) <=> Live(r)
           /\ r.state \in {"absent", "kClosed"} => RequestClose(r).state = r.state
BY DEF SessionRecord, RequestClose, States, Live

LEMMA DoWriteType ==
    ASSUME NEW r \in SessionRecord, NEW keepAlive \in BOOLEAN
    PROVE  /\ DoWrite(r, keepAlive) \in SessionRecord
           /\ Live(DoWrite(r, keepAlive)) <=> Live(r)
           /\ r.state \in {"absent", "kClosed"} => DoWrite(r, keepAlive).state = r.state
<1> DEFINE limited == IF r.requests >= MaxRequests THEN RequestClose(r) ELSE r
           started == [limited EXCEPT
                          !.keepAlive = keepAlive /\ limited.state # "kClosing"]
<1>1. /\ limited \in SessionRecord
      /\ Live(limited) <=> Live(r)
      /\ r.state \in {"absent", "kClosed"} => limited.state = r.state
  BY RequestCloseType
<1>2. started \in SessionRecord /\ started.state = limited.state
  BY <1>1 DEF SessionRecord
<1>3. "write_error" \in Handlers
  BY DEF Handlers, Completions, WriteOutcomes
<1>4. DoWrite(r, keepAlive) = Initiate(started, "write", "write_error")
  BY DEF DoWrite
<1> HIDE DEF limited, started
<1>5. /\ Initiate(started, "write", "write_error") \in SessionRecord
      /\ Initiate(started, "write", "write_error").state = started.state
  BY <1>2, <1>3, InitiateType
<1> QED
  BY <1>1, <1>2, <1>4, <1>5 DEF Live

\* Close is final, gracefully or by force (Session.cpp:147-175).
LEMMA CloseType ==
    ASSUME NEW r \in SessionRecord, NEW force \in BOOLEAN
    PROVE  Close(r, force) \in SessionRecord /\ Close(r, force).state = "kClosed"
BY DEF SessionRecord, Close, States

LEMMA ExecuteType ==
    ASSUME NEW r \in SessionRecord, NEW h \in {"Run", "RequestClose", "ForceClose"}
    PROVE  /\ Execute(r, h) \in SessionRecord
           /\ h = "Run" => Execute(r, h).state = r.state
           /\ h = "RequestClose" => (Live(Execute(r, h)) <=> Live(r))
           /\ h = "ForceClose" => Execute(r, h).state = "kClosed"
           /\ r.state = "kClosed" => Execute(r, h).state = "kClosed"
<1>1. CASE h = "Run"
  BY <1>1, DoReadType DEF Execute
<1>2. CASE h = "RequestClose"
  BY <1>2, RequestCloseType DEF Execute
<1>3. CASE h = "ForceClose"
  BY <1>3, CloseType DEF Execute
<1> QED BY <1>1, <1>2, <1>3

\* A call leaves a well typed session, whether it runs in place or is queued.
LEMMA DispatchType ==
    ASSUME NEW r \in SessionRecord, NEW h \in {"Run", "RequestClose", "ForceClose"},
           NEW inPlace \in BOOLEAN
    PROVE  /\ Dispatch(r, h, inPlace) \in SessionRecord
           /\ h = "Run" => Dispatch(r, h, inPlace).state = r.state
<1>1. h \in Handlers
  BY DEF Handlers
<1> QED BY <1>1, StrandType, ExecuteType DEF Dispatch

LEMMA NewSessionType ==
    NewSession \in SessionRecord /\ NoSession \in SessionRecord
BY DEF NewSession, NoSession, SessionRecord, States, Handlers

\* What a handler may do to its session: nothing comes to life, what is closed
\* stays closed, and no object vanishes.
Advances(r, s) ==
    /\ s \in SessionRecord
    /\ Live(s) => Live(r)
    /\ r.state = "kClosed" => s.state = "kClosed"
    /\ s.state = "absent" => r.state = "absent"

LEMMA LiveStates ==
    ASSUME NEW r \in SessionRecord
    PROVE  Live(r) <=> r.state \notin {"absent", "kClosed"}
BY DEF SessionRecord, States, Live

LEMMA HandlerStep ==
    ASSUME SessionTypeOK, NEW c \in Conns, RunHandler(c)
    PROVE  \E s : Advances(sess[c], s) /\ sess' = [sess EXCEPT ![c] = s]
<1> DEFINE r == Pop(sess[c])
<1>1. sess[c].strand # << >>
  BY DEF RunHandler, OnRun, OnRequestClose, OnForceClose, OnReadOk, OnReadFailed,
         OnWritten, RunHead
<1>2. /\ sess[c] \in SessionRecord
      /\ r \in SessionRecord
      /\ r.state = sess[c].state
  BY <1>1, StrandType DEF SessionTypeOK
<1>3. ASSUME NEW s, Advances(r, s)
      PROVE  Advances(sess[c], s)
  BY <1>2, <1>3 DEF Advances, Live
<1>4. Advances(r, DoRead(r)) /\ Advances(r, Close(r, FALSE)) /\ Advances(r, Close(r, TRUE))
  BY <1>2, DoReadType, CloseType DEF Advances, Live
<1>5. ASSUME NEW keepAlive \in BOOLEAN
      PROVE  Advances(r, DoWrite(r, keepAlive))
  BY <1>2, <1>5, DoWriteType, LiveStates DEF Advances
<1>6. CASE OnRun(c)
  BY <1>3, <1>4, <1>6 DEF OnRun, RunHead
<1>7. CASE OnRequestClose(c)
  <2>1. Advances(r, RequestClose(r))
    BY <1>2, RequestCloseType, LiveStates DEF Advances
  <2> QED BY <1>3, <1>7, <2>1 DEF OnRequestClose, RunHead
<1>8. CASE OnForceClose(c)
  BY <1>3, <1>4, <1>8 DEF OnForceClose, RunHead
<1>9. CASE OnReadOk(c)
  <2>1. PICK keepAlive \in BOOLEAN :
            sess' = [sess EXCEPT ![c] = HandleReadSuccess(r, keepAlive)]
    BY <1>9 DEF OnReadOk, RunHead
  <2> DEFINE counted == [r EXCEPT !.requests = @ + 1]
  <2>2. counted \in SessionRecord /\ counted.state = r.state
    BY <1>2 DEF SessionRecord
  <2> HIDE DEF counted
  <2>3. Advances(counted, DoWrite(counted, keepAlive))
    BY <2>2, DoWriteType, LiveStates DEF Advances
  <2>4. Advances(r, DoWrite(counted, keepAlive))
    BY <2>2, <2>3 DEF Advances, Live
  <2>5. HandleReadSuccess(r, keepAlive) = DoWrite(counted, keepAlive)
    BY DEF HandleReadSuccess, counted
  <2> QED BY <1>3, <2>1, <2>4, <2>5
<1>10. CASE OnReadFailed(c)
  <2>1. PICK ec \in ReadOutcomes \ {"read_ok"} :
            sess' = [sess EXCEPT ![c] = HandleReadError(r, ec)]
    BY <1>10 DEF OnReadFailed, RunHead
  <2>2. Advances(r, HandleReadError(r, ec))
    BY <1>4, <1>5 DEF HandleReadError
  <2> QED BY <1>3, <2>1, <2>2
<1>11. CASE OnWritten(c)
  <2>1. PICK ec \in WriteOutcomes :
            sess' = [sess EXCEPT ![c] = HandleWritten(r, ec)]
    BY <1>11 DEF OnWritten, RunHead
  <2>2. Advances(r, HandleWritten(r, ec))
    BY <1>4 DEF HandleWritten
  <2> QED BY <1>3, <2>1, <2>2
<1> QED
  BY <1>6, <1>7, <1>8, <1>9, <1>10, <1>11 DEF RunHandler

\* The completion of an operation queues a handler and changes no state.
LEMMA CompleteStep ==
    ASSUME SessionTypeOK, NEW c \in Conns, Complete(c)
    PROVE  \E s : /\ s \in SessionRecord
                  /\ s.state = sess[c].state
                  /\ sess' = [sess EXCEPT ![c] = s]
<1>1. sess[c] \in SessionRecord
  BY DEF SessionTypeOK
<1>2. ASSUME NEW op
      PROVE  Done(sess[c], op) \in SessionRecord /\ Done(sess[c], op).state = sess[c].state
  BY <1>1 DEF SessionRecord, Done
<1>3. ASSUME NEW op, NEW ec \in Completions
      PROVE  /\ Post(Done(sess[c], op), ec) \in SessionRecord
             /\ Post(Done(sess[c], op), ec).state = sess[c].state
  <2>1. ec \in Handlers
    BY DEF Handlers
  <2> QED BY <1>2, <2>1, StrandType
<1>4. CASE CompleteRead(c)
  BY <1>3, <1>4 DEF CompleteRead, Completions
<1>5. CASE CompleteWrite(c)
  BY <1>3, <1>5 DEF CompleteWrite, Completions
<1> QED BY <1>4, <1>5 DEF Complete

-----------------------------------------------------------------------------

\* The session objects keep their representation whatever the interleaving of
\* handlers, completions and calls (Session.hpp:37-45).
THEOREM SessionTyped == SessionSpec => []SessionTypeOK
<1>1. SessionInit => SessionTypeOK
  BY NewSessionType DEF SessionInit, SessionTypeOK
<1>2. SessionTypeOK /\ [SessionNext]_sess => SessionTypeOK'
  <2> SUFFICES ASSUME SessionTypeOK, [SessionNext]_sess
               PROVE  SessionTypeOK'
    OBVIOUS
  <2>1. ASSUME NEW c \in Conns, NEW s \in SessionRecord,
               sess' = [sess EXCEPT ![c] = s]
        PROVE  SessionTypeOK'
    BY <2>1 DEF SessionTypeOK
  <2>2. CASE UNCHANGED sess
    BY <2>2 DEF SessionTypeOK
  <2>3. ASSUME NEW c \in Conns, Open(c)
        PROVE  SessionTypeOK'
    BY <2>1, <2>3, NewSessionType, DispatchType DEF Open
  <2>4. ASSUME NEW c \in Conns, Call(c)
        PROVE  SessionTypeOK'
    <3>1. sess[c] \in SessionRecord
      BY DEF SessionTypeOK
    <3>2. PICK h \in {"RequestClose", "ForceClose"}, inPlace \in BOOLEAN :
              sess' = [sess EXCEPT ![c] = Dispatch(sess[c], h, inPlace)]
      BY <2>4 DEF Call
    <3> QED BY <2>1, <3>1, <3>2, DispatchType
  <2>5. ASSUME NEW c \in Conns, Complete(c)
        PROVE  SessionTypeOK'
    BY <2>1, <2>5, CompleteStep
  <2>6. ASSUME NEW c \in Conns, RunHandler(c)
        PROVE  SessionTypeOK'
    BY <2>1, <2>6, HandlerStep DEF Advances
  <2> QED BY <2>2, <2>3, <2>4, <2>5, <2>6 DEF SessionNext
<1> QED BY <1>1, <1>2, PTL DEF SessionSpec

-----------------------------------------------------------------------------
(* The read/write chain: SingleOperation and RequestBound. *)

\* Nothing of the chain is in flight or queued.
Quiet(r) == r.ops = {} /\ Pending(r) = {}

\* A read will come back, and a write that may be followed by another read.
Reading(r) ==
    "read" \in r.ops \/ \E i \in Pending(r) : r.strand[i] \in ReadOutcomes \cup {"Run"}
Writing(r) ==
    "write" \in r.ops \/ \E i \in Pending(r) : r.strand[i] = "write_ok"

\* One operation, or one handler that follows from it.
OneChain(r) ==
    /\ \A i, j \in Pending(r) : i = j
    /\ r.ops # {} => Pending(r) = {}
    /\ r.ops # {"read", "write"}

\* Whatever may still lead to a request being counted leaves room for it.
WithinLimit(r) ==
    /\ r.requests <= RequestLimit
    /\ Reading(r) => r.requests < RequestLimit
    /\ Writing(r) /\ r.keepAlive => r.requests < RequestLimit

\* The invariant of one session.  The limit needs to know which operation is
\* under way, and the chain goes on from a handler because no other is queued.
RecordInv(r) ==
    /\ r \in SessionRecord
    /\ OneChain(r)
    /\ WithinLimit(r)
    /\ r.state = "absent" => r.ops = {} /\ r.strand = << >>
    /\ Live(r) => ~Quiet(r)
    /\ r.state = "kClosed" /\ r.open => Quiet(r)

ChainInv == SessionTypeOK /\ \A c \in Conns : RecordInv(sess[c])

\* s is r but for what is in flight and queued.
Carries(s, r) ==
    /\ s.state = r.state /\ s.requests = r.requests
    /\ s.keepAlive = r.keepAlive /\ s.open = r.open

\* A session whose chain has arrived at its handler, which may carry it on.
AtRest(r) ==
    /\ r \in SessionRecord
    /\ Quiet(r)
    /\ r.requests <= RequestLimit
    /\ r.state # "absent"
    /\ r.state = "kClosed" => ~r.open

LEMMA LimitType == RequestLimit \in Nat /\ RequestLimit >= 1 /\ RequestLimit >= MaxRequests
BY MaxRequestsAssumption DEF RequestLimit

-----------------------------------------------------------------------------
(* The strand. *)

\* A handler behind the others: one more pending if it belongs to the chain.
LEMMA PostPending ==
    ASSUME NEW r \in SessionRecord, NEW h \in Handlers
    PROVE  /\ Post(r, h) \in SessionRecord
           /\ Carries(Post(r, h), r) /\ Post(r, h).ops = r.ops
           /\ Pending(Post(r, h)) =
                 Pending(r) \cup (IF h \in Chain THEN {Len(r.strand) + 1} ELSE {})
           /\ Post(r, h).strand[Len(r.strand) + 1] = h
           /\ \A i \in Pending(r) : i # Len(r.strand) + 1 /\ Post(r, h).strand[i] = r.strand[i]
<1>1. r.strand \in Seq(Handlers) /\ Post(r, h).strand = Append(r.strand, h)
  BY DEF SessionRecord, Post
<1>2. /\ DOMAIN Append(r.strand, h) = DOMAIN r.strand \cup {Len(r.strand) + 1}
      /\ Append(r.strand, h)[Len(r.strand) + 1] = h
      /\ \A i \in DOMAIN r.strand : /\ i # Len(r.strand) + 1
                                    /\ Append(r.strand, h)[i] = r.strand[i]
  BY <1>1
<1>3. Carries(Post(r, h), r) /\ Post(r, h).ops = r.ops
  BY DEF Post, SessionRecord, Carries
<1>4. Pending(Post(r, h)) =
          Pending(r) \cup (IF h \in Chain THEN {Len(r.strand) + 1} ELSE {})
  BY <1>1, <1>2 DEF Pending
<1>5. \A i \in Pending(r) : i # Len(r.strand) + 1 /\ Post(r, h).strand[i] = r.strand[i]
  BY <1>1, <1>2 DEF Pending
<1>6. Post(r, h).strand[Len(r.strand) + 1] = h
  BY <1>1, <1>2
<1>7. Post(r, h) \in SessionRecord
  BY StrandType
<1> QED BY <1>3, <1>4, <1>5, <1>6, <1>7

\* The head is taken off, and everything moves up by one.
LEMMA PopPending ==
    ASSUME NEW r \in SessionRecord, r.strand # << >>
    PROVE  /\ Pop(r) \in SessionRecord
           /\ Carries(Pop(r), r) /\ Pop(r).ops = r.ops
           /\ 1 \in Pending(r) <=> Head(r.strand) \in Chain
           /\ r.strand[1] = Head(r.strand)
           /\ \A i \in Pending(Pop(r)) : /\ i + 1 \in Pending(r) /\ i \in Nat /\ i + 1 # 1
                                         /\ Pop(r).strand[i] = r.strand[i + 1]
           /\ \A i \in Pending(r) : i # 1 => i - 1 \in Pending(Pop(r))
<1>1. r.strand \in Seq(Handlers) /\ Pop(r).strand = Tail(r.strand)
  BY DEF SessionRecord, Pop
<1>2. /\ 1 \in DOMAIN r.strand /\ Head(r.strand) = r.strand[1]
      /\ \A i \in DOMAIN Tail(r.strand) : /\ i + 1 \in DOMAIN r.strand /\ i \in Nat /\ i + 1 # 1
                                          /\ Tail(r.strand)[i] = r.strand[i + 1]
      /\ \A i \in DOMAIN r.strand : i # 1 => /\ i - 1 \in DOMAIN Tail(r.strand)
                                             /\ Tail(r.strand)[i - 1] = r.strand[i]
  BY <1>1
<1>3. Carries(Pop(r), r) /\ Pop(r).ops = r.ops
  BY DEF Pop, SessionRecord, Carries
<1>4. 1 \in Pending(r) <=> Head(r.strand) \in Chain
  BY <1>2 DEF Pending
<1>5. \A i \in Pending(Pop(r)) : /\ i + 1 \in Pending(r) /\ i \in Nat /\ i + 1 # 1
                                 /\ Pop(r).strand[i] = r.strand[i + 1]
  BY <1>1, <1>2 DEF Pending
<1>6. \A i \in Pending(r) : i # 1 => i - 1 \in Pending(Pop(r))
  BY <1>1, <1>2 DEF Pending
<1>7. Pop(r) \in SessionRecord
  BY StrandType
<1> QED BY <1>2, <1>3, <1>4, <1>5, <1>6, <1>7

\* A handler of the chain at the head is all there is of the chain.
LEMMA PopChain ==
    ASSUME NEW r, RecordInv(r), r.strand # << >>, Head(r.strand) \in Chain
    PROVE  /\ AtRest(Pop(r))
           /\ Carries(Pop(r), r)
           /\ Head(r.strand) \in ReadOutcomes \cup {"Run"} => r.requests < RequestLimit
           /\ Head(r.strand) = "write_ok" /\ r.keepAlive => r.requests < RequestLimit
<1>1. r \in SessionRecord /\ OneChain(r) /\ WithinLimit(r)
  BY DEF RecordInv
<1>2. 1 \in Pending(r) /\ r.strand[1] = Head(r.strand)
  BY <1>1, PopPending
<1>3. r.ops = {} /\ \A i \in Pending(r) : i = 1
  BY <1>1, <1>2 DEF OneChain
<1>4. Pop(r) \in SessionRecord /\ Carries(Pop(r), r) /\ Pop(r).ops = r.ops
  BY <1>1, PopPending
<1>5. Pending(Pop(r)) = {}
  BY <1>1, <1>3, PopPending
<1>6. ~Quiet(r)
  BY <1>2 DEF Quiet
<1>7. Head(r.strand) \in ReadOutcomes \cup {"Run"} => r.requests < RequestLimit
  BY <1>1, <1>2 DEF WithinLimit, Reading
<1>8. Head(r.strand) = "write_ok" /\ r.keepAlive => r.requests < RequestLimit
  BY <1>1, <1>2 DEF WithinLimit, Writing
<1>9. Quiet(Pop(r))
  BY <1>3, <1>4, <1>5 DEF Quiet
<1>10. r.requests <= RequestLimit /\ r.state # "absent" /\ (r.state = "kClosed" => ~r.open)
  BY <1>1, <1>6 DEF RecordInv, WithinLimit
<1> QED BY <1>4, <1>7, <1>8, <1>9, <1>10 DEF AtRest, Carries

\* A session keeps its invariant while nothing of the chain changes.
LEMMA SameChain ==
    ASSUME NEW r, RecordInv(r), NEW s \in SessionRecord,
           s.requests = r.requests, s.keepAlive = r.keepAlive, s.ops = r.ops,
           Quiet(s) <=> Quiet(r), OneChain(s),
           Reading(s) => Reading(r), Writing(s) => Writing(r),
           s.state = "absent" => r.state = "absent" /\ s.strand = r.strand,
           Live(s) => Live(r),
           s.state = "kClosed" /\ s.open => r.state = "kClosed" /\ r.open
    PROVE  RecordInv(s)
BY DEF RecordInv, WithinLimit

\* A call of the owner queues behind the chain, or is taken from before it.
LEMMA CallsBesideChain ==
    ASSUME NEW r, RecordInv(r), NEW h \in {"RequestClose", "ForceClose"}
    PROVE  /\ r.state # "absent" => RecordInv(Post(r, h))
           /\ r.strand # << >> /\ Head(r.strand) = h => RecordInv(Pop(r))
<1>1. r \in SessionRecord /\ OneChain(r) /\ h \in Handlers /\ h \notin Chain
  BY DEF RecordInv, Handlers, Chain, Completions, ReadOutcomes, WriteOutcomes
<1>2. ASSUME r.state # "absent"
      PROVE  RecordInv(Post(r, h))
  <2> DEFINE s == Post(r, h)
  <2>1. /\ s \in SessionRecord /\ Carries(s, r) /\ s.ops = r.ops
        /\ Pending(s) = Pending(r)
        /\ \A i \in Pending(r) : s.strand[i] = r.strand[i]
    <3>1. Pending(s) = Pending(r) \cup (IF h \in Chain THEN {Len(r.strand) + 1} ELSE {})
      BY <1>1, PostPending
    <3>2. Pending(s) = Pending(r)
      BY <1>1, <3>1
    <3>3. \A i \in Pending(r) : s.strand[i] = r.strand[i]
      BY <1>1, PostPending
    <3>4. s \in SessionRecord /\ Carries(s, r) /\ s.ops = r.ops
      BY <1>1, PostPending
    <3> QED BY <3>2, <3>3, <3>4
  <2> HIDE DEF s
  <2>2. OneChain(s) /\ (Quiet(s) <=> Quiet(r))
    BY <1>1, <2>1 DEF OneChain, Quiet
  <2>3. (Reading(s) => Reading(r)) /\ (Writing(s) => Writing(r))
    BY <2>1 DEF Reading, Writing
  <2>4. RecordInv(s)
    BY <1>2, <2>1, <2>2, <2>3, SameChain DEF Carries, Live
  <2> QED BY <2>4 DEF s
<1>3. ASSUME r.strand # << >>, Head(r.strand) = h
      PROVE  RecordInv(Pop(r))
  <2> DEFINE s == Pop(r)
  <2>1. /\ s \in SessionRecord /\ Carries(s, r) /\ s.ops = r.ops
        /\ 1 \notin Pending(r)
        /\ \A i \in Pending(s) : i + 1 \in Pending(r) /\ i \in Nat /\ s.strand[i] = r.strand[i + 1]
        /\ \A i \in Pending(r) : i - 1 \in Pending(s)
    BY <1>1, <1>3, PopPending
  <2> HIDE DEF s
  <2>2. \A i, j \in Pending(s) : i = j
    BY <1>1, <2>1 DEF OneChain
  <2>3. OneChain(s) /\ (Quiet(s) <=> Quiet(r))
    BY <1>1, <2>1, <2>2 DEF OneChain, Quiet
  <2>4. (Reading(s) => Reading(r)) /\ (Writing(s) => Writing(r))
    BY <2>1 DEF Reading, Writing
  <2>5. r.state # "absent"
    BY <1>3 DEF RecordInv
  <2>6. RecordInv(s)
    BY <2>1, <2>3, <2>4, <2>5, SameChain DEF Carries, Live
  <2> QED BY <2>6 DEF s
<1> QED BY <1>2, <1>3

-----------------------------------------------------------------------------
(* The member functions. *)

\* The chain starts again with one operation, or with the failure of one.
LEMMA InitiateChain ==
    ASSUME NEW r \in SessionRecord, Quiet(r),
           NEW op \in {"read", "write"}, NEW failure \in {"read_error", "write_error"}
    PROVE  LET s == Initiate(r, op, failure)
           IN  /\ s \in SessionRecord
               /\ OneChain(s)
               /\ ~Quiet(s)
               /\ Carries(s, r)
               /\ Reading(s) => op = "read" \/ failure = "read_error"
               /\ Writing(s) => r.open /\ op = "write"
<1> DEFINE s == Initiate(r, op, failure)
<1>1. failure \in Handlers /\ failure \in Chain
  BY DEF Handlers, Chain, Completions, ReadOutcomes, WriteOutcomes
<1>2. s \in SessionRecord
  BY <1>1, InitiateType
<1>3. CASE r.open
  <2>1. s.ops = r.ops \cup {op} /\ s.strand = r.strand /\ Carries(s, r)
    BY <1>3 DEF Initiate, SessionRecord, Carries
  <2>2. s.ops = {op} /\ Pending(s) = {}
    BY <2>1 DEF Quiet, Pending
  <2> HIDE DEF s
  <2>3. OneChain(s) /\ ~Quiet(s)
    BY <2>2 DEF OneChain, Quiet
  <2>4. (Reading(s) => op = "read") /\ (Writing(s) => op = "write")
    BY <2>2 DEF Reading, Writing
  <2>5. /\ s \in SessionRecord /\ OneChain(s) /\ ~Quiet(s) /\ Carries(s, r)
        /\ Reading(s) => op = "read" \/ failure = "read_error"
        /\ Writing(s) => r.open /\ op = "write"
    BY <1>2, <1>3, <2>1, <2>3, <2>4
  <2> QED BY <2>5 DEF s
<1>4. CASE ~r.open
  <2>1. s = Post(r, failure)
    BY <1>4 DEF Initiate
  <2>2. /\ Pending(s) = {Len(r.strand) + 1} /\ s.strand[Len(r.strand) + 1] = failure
        /\ Carries(s, r) /\ s.ops = {}
    BY <1>1, <2>1, PostPending DEF Quiet
  <2> HIDE DEF s
  <2>3. OneChain(s) /\ ~Quiet(s)
    BY <2>2 DEF OneChain, Quiet
  <2>4. Reading(s) => failure = "read_error"
    BY <2>2 DEF Reading, ReadOutcomes
  <2>5. ~Writing(s)
    BY <2>2 DEF Writing
  <2>6. /\ s \in SessionRecord /\ OneChain(s) /\ ~Quiet(s) /\ Carries(s, r)
        /\ Reading(s) => op = "read" \/ failure = "read_error"
        /\ Writing(s) => r.open /\ op = "write"
    BY <1>2, <2>2, <2>3, <2>4, <2>5
  <2> QED BY <2>6 DEF s
<1>5. r.open \in BOOLEAN
  BY DEF SessionRecord
<1> QED BY <1>3, <1>4, <1>5

LEMMA ReadKeepsInv ==
    ASSUME NEW r, AtRest(r), r.requests < RequestLimit
    PROVE  RecordInv(DoRead(r))
<1> DEFINE s == Initiate(r, "read", "read_error")
<1>1. r \in SessionRecord /\ Quiet(r)
  BY DEF AtRest
<1>2. s \in SessionRecord /\ OneChain(s) /\ ~Quiet(s) /\ Carries(s, r)
  BY <1>1, InitiateChain
<1>3. DoRead(r) = s
  BY DEF DoRead
<1> HIDE DEF s
<1>4. r.requests <= RequestLimit
  BY DEF AtRest
<1>5. WithinLimit(s)
  BY <1>2, <1>4 DEF WithinLimit, Carries
<1>6. RecordInv(s)
  BY <1>2, <1>5 DEF RecordInv, AtRest, Carries
<1> QED BY <1>3, <1>6

\* A response that reaches the limit is not kept alive, unless the session is
\* closed already, and then it is not sent (Session.cpp:113-127).
LEMMA WriteKeepsInv ==
    ASSUME NEW r, AtRest(r), NEW keepAlive \in BOOLEAN
    PROVE  RecordInv(DoWrite(r, keepAlive))
<1> DEFINE limited == IF r.requests >= MaxRequests THEN RequestClose(r) ELSE r
           started == [limited EXCEPT
                          !.keepAlive = keepAlive /\ limited.state # "kClosing"]
           s == Initiate(started, "write", "write_error")
<1>1. s = DoWrite(r, keepAlive)
  BY DEF DoWrite
<1>2. r \in SessionRecord /\ Quiet(r) /\ r.requests <= RequestLimit
      /\ r.state # "absent" /\ (r.state = "kClosed" => ~r.open)
  BY DEF AtRest
<1>3. /\ limited \in SessionRecord /\ limited.ops = r.ops /\ limited.strand = r.strand
      /\ limited.requests = r.requests /\ limited.open = r.open
      /\ limited.state # "absent" /\ (limited.state = "kClosed" <=> r.state = "kClosed")
      /\ r.requests >= MaxRequests => limited.state # "kOpen"
  BY <1>2 DEF RequestClose, SessionRecord, States
<1> HIDE DEF limited
<1>4. /\ started \in SessionRecord /\ started.ops = r.ops /\ started.strand = r.strand
      /\ started.requests = r.requests /\ started.open = r.open
      /\ started.state = limited.state
      /\ started.keepAlive = (keepAlive /\ limited.state # "kClosing")
  BY <1>3 DEF SessionRecord
<1> HIDE DEF started
<1>5. Quiet(started)
  BY <1>2, <1>4 DEF Quiet, Pending
<1>6. /\ s \in SessionRecord /\ OneChain(s) /\ ~Quiet(s) /\ Carries(s, started)
      /\ ~Reading(s)
      /\ Writing(s) => started.open
  BY <1>4, <1>5, InitiateChain
<1> HIDE DEF s
<1>7. ASSUME Writing(s), s.keepAlive
      PROVE  s.requests < RequestLimit
  <2>1. limited.state = "kOpen"
    BY <1>2, <1>3, <1>4, <1>6, <1>7 DEF SessionRecord, States, Carries
  <2>2. r.requests < MaxRequests
    BY <1>2, <1>3, <2>1, MaxRequestsAssumption DEF SessionRecord
  <2> QED BY <1>2, <1>4, <1>6, <2>2, LimitType, MaxRequestsAssumption DEF SessionRecord, Carries
<1>8. WithinLimit(s)
  BY <1>2, <1>4, <1>6, <1>7 DEF WithinLimit, Carries
<1>9. RecordInv(s)
  BY <1>2, <1>3, <1>4, <1>6, <1>8 DEF RecordInv, Carries
<1> QED BY <1>1, <1>9

LEMMA GracefulCloseKeepsInv ==
    ASSUME NEW r, AtRest(r)
    PROVE  RecordInv(Close(r, FALSE))
<1> DEFINE s == Close(r, FALSE)
<1>1. r \in SessionRecord /\ Quiet(r) /\ r.requests <= RequestLimit
  BY DEF AtRest
<1>2. s \in SessionRecord /\ s.state = "kClosed"
  BY <1>1, CloseType
<1>3. s.ops = r.ops /\ s.strand = r.strand /\ s.requests = r.requests
  BY <1>1 DEF Close, SessionRecord
<1> HIDE DEF s
<1>4. Quiet(s)
  BY <1>1, <1>3 DEF Quiet, Pending
<1>5. OneChain(s) /\ WithinLimit(s)
  BY <1>1, <1>3, <1>4 DEF OneChain, WithinLimit, Quiet, Reading, Writing
<1>6. RecordInv(s)
  BY <1>2, <1>4, <1>5 DEF RecordInv, Live
<1> QED BY <1>6 DEF s

\* The calls of the owner, run at any moment, leave the chain as it is.
LEMMA CallsKeepInv ==
    ASSUME NEW r, RecordInv(r)
    PROVE  RecordInv(RequestClose(r)) /\ RecordInv(Close(r, TRUE))
<1>1. r \in SessionRecord /\ OneChain(r)
  BY DEF RecordInv
<1>2. ASSUME NEW s \in SessionRecord,
             s.requests = r.requests, s.keepAlive = r.keepAlive,
             s.ops = r.ops, s.strand = r.strand,
             s.state = "absent" => r.state = "absent",
             Live(s) => Live(r),
             s.state = "kClosed" /\ s.open => r.state = "kClosed" /\ r.open
      PROVE  RecordInv(s)
  <2>1. Pending(s) = Pending(r)
    BY <1>2 DEF Pending
  <2>2. OneChain(s) /\ (Quiet(s) <=> Quiet(r))
        /\ (Reading(s) <=> Reading(r)) /\ (Writing(s) <=> Writing(r))
    BY <1>1, <1>2, <2>1 DEF OneChain, Quiet, Reading, Writing
  <2> QED BY <1>2, <2>2, SameChain
<1>3. RecordInv(RequestClose(r))
  <2> DEFINE s == RequestClose(r)
  <2>1. s \in SessionRecord /\ (Live(s) <=> Live(r))
        /\ (r.state \in {"absent", "kClosed"} => s.state = r.state)
    BY <1>1, RequestCloseType
  <2>2. s.requests = r.requests /\ s.keepAlive = r.keepAlive
        /\ s.ops = r.ops /\ s.strand = r.strand /\ s.open = r.open
    BY <1>1 DEF RequestClose, SessionRecord
  <2>3. /\ s.state = "absent" => r.state = "absent"
        /\ s.state = "kClosed" => r.state = "kClosed"
    BY <1>1 DEF RequestClose, SessionRecord
  <2> HIDE DEF s
  <2>4. RecordInv(s)
    BY <1>2, <2>1, <2>2, <2>3
  <2> QED BY <2>4 DEF s
<1>4. RecordInv(Close(r, TRUE))
  <2> DEFINE s == Close(r, TRUE)
  <2>1. s \in SessionRecord /\ s.state = "kClosed"
    BY <1>1, CloseType
  <2>2. s.requests = r.requests /\ s.keepAlive = r.keepAlive
        /\ s.ops = r.ops /\ s.strand = r.strand
        /\ (s.open => r.state = "kClosed" /\ r.open)
    BY <1>1 DEF Close, SessionRecord
  <2> HIDE DEF s
  <2>3. RecordInv(s)
    BY <1>2, <2>1, <2>2 DEF Live
  <2> QED BY <2>3 DEF s
<1> QED BY <1>3, <1>4

-----------------------------------------------------------------------------
(* The handlers and the environment. *)

\* A request that is read is counted within the limit (Session.cpp:113-121).
LEMMA ReadHandled ==
    ASSUME NEW r, AtRest(r)
    PROVE  /\ \A keepAlive \in BOOLEAN :
                  r.requests < RequestLimit => RecordInv(HandleReadSuccess(r, keepAlive))
           /\ \A ec \in ReadOutcomes : RecordInv(HandleReadError(r, ec))
<1>1. r \in SessionRecord
  BY DEF AtRest
<1>2. ASSUME NEW keepAlive \in BOOLEAN, r.requests < RequestLimit
      PROVE  RecordInv(HandleReadSuccess(r, keepAlive))
  <2> DEFINE counted == [r EXCEPT !.requests = r.requests + 1]
  <2>1. counted \in SessionRecord /\ counted.requests = r.requests + 1
        /\ counted.ops = r.ops /\ counted.strand = r.strand
        /\ counted.state = r.state /\ counted.open = r.open
    BY <1>1 DEF SessionRecord
  <2>2. HandleReadSuccess(r, keepAlive) = DoWrite(counted, keepAlive)
    BY DEF HandleReadSuccess
  <2> HIDE DEF counted
  <2>3. counted.requests <= RequestLimit
    BY <1>1, <1>2, <2>1, LimitType DEF SessionRecord
  <2>4. Quiet(counted)
    BY <2>1 DEF AtRest, Quiet, Pending
  <2>5. AtRest(counted)
    BY <2>1, <2>3, <2>4 DEF AtRest
  <2> QED BY <2>2, <2>5, WriteKeepsInv
<1>3. ASSUME NEW ec \in ReadOutcomes
      PROVE  RecordInv(HandleReadError(r, ec))
  BY GracefulCloseKeepsInv, WriteKeepsInv DEF HandleReadError
<1> QED BY <1>2, <1>3

LEMMA WrittenHandled ==
    ASSUME NEW r, AtRest(r), NEW ec \in WriteOutcomes,
           ec = "write_ok" /\ r.keepAlive => r.requests < RequestLimit
    PROVE  RecordInv(HandleWritten(r, ec))
<1>1. CASE ec = "write_error" \/ ~r.keepAlive
  BY <1>1, GracefulCloseKeepsInv DEF HandleWritten
<1>2. CASE ec = "write_ok" /\ r.keepAlive
  BY <1>2, ReadKeepsInv DEF HandleWritten
<1>3. ec \in {"write_ok", "write_error"}
  BY DEF WriteOutcomes
<1> QED BY <1>1, <1>2, <1>3

\* A call of a live session, in place or queued (Session.cpp:41-61).
LEMMA DispatchKeepsInv ==
    ASSUME NEW r, RecordInv(r), r.state # "absent",
           NEW h \in {"RequestClose", "ForceClose"}, NEW inPlace \in BOOLEAN
    PROVE  RecordInv(Dispatch(r, h, inPlace))
<1>1. CASE ~inPlace
  BY <1>1, CallsBesideChain DEF Dispatch
<1>2. CASE inPlace /\ h = "RequestClose"
  BY <1>2, CallsKeepInv DEF Dispatch, Execute
<1>3. CASE inPlace /\ h = "ForceClose"
  BY <1>3, CallsKeepInv DEF Dispatch, Execute
<1> QED BY <1>1, <1>2, <1>3

LEMMA RunHandlerKeepsInv ==
    ASSUME ChainInv, NEW c \in Conns, RunHandler(c)
    PROVE  \E s : RecordInv(s) /\ sess' = [sess EXCEPT ![c] = s]
<1> DEFINE r == sess[c]
<1>1. RecordInv(r) /\ r \in SessionRecord
  BY DEF ChainInv, RecordInv
<1>2. r.strand # << >>
  BY DEF RunHandler, OnRun, OnRequestClose, OnForceClose, OnReadOk, OnReadFailed,
         OnWritten, RunHead
<1> HIDE DEF r
<1>3. ASSUME Head(r.strand) \in Chain
      PROVE  /\ AtRest(Pop(r)) /\ Carries(Pop(r), r)
             /\ Head(r.strand) \in ReadOutcomes \cup {"Run"} => Pop(r).requests < RequestLimit
             /\ Head(r.strand) = "write_ok" /\ Pop(r).keepAlive => Pop(r).requests < RequestLimit
  BY <1>1, <1>2, <1>3, PopChain DEF Carries
<1>4. CASE OnRun(c)
  <2>1. Head(r.strand) = "Run" /\ sess' = [sess EXCEPT ![c] = DoRead(Pop(r))]
    BY <1>4 DEF OnRun, RunHead, r
  <2>2. AtRest(Pop(r)) /\ Pop(r).requests < RequestLimit
    BY <1>3, <2>1 DEF Chain
  <2> QED BY <2>1, <2>2, ReadKeepsInv
<1>5. CASE OnRequestClose(c)
  <2>1. Head(r.strand) = "RequestClose" /\ sess' = [sess EXCEPT ![c] = RequestClose(Pop(r))]
    BY <1>5 DEF OnRequestClose, RunHead, r
  <2>2. RecordInv(Pop(r))
    BY <1>1, <1>2, <2>1, CallsBesideChain
  <2> QED BY <2>1, <2>2, CallsKeepInv
<1>6. CASE OnForceClose(c)
  <2>1. Head(r.strand) = "ForceClose" /\ sess' = [sess EXCEPT ![c] = Close(Pop(r), TRUE)]
    BY <1>6 DEF OnForceClose, RunHead, r
  <2>2. RecordInv(Pop(r))
    BY <1>1, <1>2, <2>1, CallsBesideChain
  <2> QED BY <2>1, <2>2, CallsKeepInv
<1>7. CASE OnReadOk(c)
  <2>1. PICK keepAlive \in BOOLEAN :
            /\ Head(r.strand) = "read_ok"
            /\ sess' = [sess EXCEPT ![c] = HandleReadSuccess(Pop(r), keepAlive)]
    BY <1>7 DEF OnReadOk, RunHead, r
  <2>2. AtRest(Pop(r)) /\ Pop(r).requests < RequestLimit
    BY <1>3, <2>1 DEF Chain, Completions, ReadOutcomes
  <2> QED BY <2>1, <2>2, ReadHandled
<1>8. CASE OnReadFailed(c)
  <2>1. PICK ec \in ReadOutcomes :
            /\ Head(r.strand) = ec
            /\ sess' = [sess EXCEPT ![c] = HandleReadError(Pop(r), ec)]
    BY <1>8 DEF OnReadFailed, RunHead, r
  <2>2. AtRest(Pop(r))
    BY <1>3, <2>1 DEF Chain, Completions
  <2> QED BY <2>1, <2>2, ReadHandled
<1>9. CASE OnWritten(c)
  <2>1. PICK ec \in WriteOutcomes :
            /\ Head(r.strand) = ec
            /\ sess' = [sess EXCEPT ![c] = HandleWritten(Pop(r), ec)]
    BY <1>9 DEF OnWritten, RunHead, r
  <2>2. /\ AtRest(Pop(r))
        /\ ec = "write_ok" /\ Pop(r).keepAlive => Pop(r).requests < RequestLimit
    BY <1>3, <2>1 DEF Chain, Completions
  <2> QED BY <2>1, <2>2, WrittenHandled
<1> QED BY <1>4, <1>5, <1>6, <1>7, <1>8, <1>9 DEF RunHandler

\* An operation that completes hands the chain over to its handler.
LEMMA CompleteKeepsInv ==
    ASSUME NEW r, RecordInv(r), NEW op \in {"read", "write"}, op \in r.ops,
           NEW ec \in Completions,
           op = "read" <=> ec \in ReadOutcomes
    PROVE  RecordInv(Post(Done(r, op), ec))
<1> DEFINE q == Done(r, op)
           s == Post(q, ec)
<1>1. r \in SessionRecord /\ OneChain(r) /\ WithinLimit(r)
  BY DEF RecordInv
<1>2. q \in SessionRecord /\ Carries(q, r) /\ q.ops = r.ops \ {op} /\ q.strand = r.strand
  BY <1>1 DEF Done, SessionRecord, Carries
<1>3. r.ops = {op} /\ Pending(r) = {}
  BY <1>1 DEF OneChain, SessionRecord
<1> HIDE DEF q
<1>4. q.ops = {} /\ Pending(q) = {}
  BY <1>2, <1>3 DEF Pending
<1>5. ec \in Handlers /\ ec \in Chain
  BY DEF Handlers, Chain
<1>6. /\ s \in SessionRecord /\ Carries(s, r) /\ s.ops = {}
      /\ Pending(s) = {Len(q.strand) + 1} /\ s.strand[Len(q.strand) + 1] = ec
  BY <1>2, <1>4, <1>5, PostPending DEF Carries
<1> HIDE DEF s
<1>7. OneChain(s) /\ ~Quiet(s)
  BY <1>6 DEF OneChain, Quiet
<1>8. Reading(s) => Reading(r)
  <2>1. Reading(s) => ec \in ReadOutcomes \cup {"Run"}
    BY <1>6 DEF Reading
  <2>2. ec # "Run"
    BY DEF Completions, ReadOutcomes, WriteOutcomes
  <2> QED BY <2>1, <2>2 DEF Reading
<1>9. Writing(s) => Writing(r)
  <2>1. Writing(s) => ec = "write_ok"
    BY <1>6 DEF Writing
  <2>2. ec = "write_ok" => op = "write"
    BY DEF ReadOutcomes
  <2> QED BY <2>1, <2>2 DEF Writing
<1>10. ~Quiet(r)
  BY <1>3 DEF Quiet
<1>11. WithinLimit(s)
  BY <1>1, <1>6, <1>8, <1>9 DEF WithinLimit, Carries
<1>12. RecordInv(s)
  BY <1>6, <1>7, <1>10, <1>11 DEF RecordInv, Carries
<1> QED BY <1>12 DEF s, q

LEMMA CompletionKeepsInv ==
    ASSUME ChainInv, NEW c \in Conns, Complete(c)
    PROVE  \E s : RecordInv(s) /\ sess' = [sess EXCEPT ![c] = s]
<1>1. RecordInv(sess[c])
  BY DEF ChainInv
<1>2. CASE CompleteRead(c)
  <2>1. PICK ec \in ReadOutcomes :
            /\ "read" \in sess[c].ops
            /\ sess' = [sess EXCEPT ![c] = Post(Done(sess[c], "read"), ec)]
    BY <1>2 DEF CompleteRead
  <2>2. RecordInv(Post(Done(sess[c], "read"), ec))
    BY <1>1, <2>1, CompleteKeepsInv DEF Completions
  <2> QED BY <2>1, <2>2
<1>3. CASE CompleteWrite(c)
  <2>1. PICK ec \in WriteOutcomes :
            /\ "write" \in sess[c].ops
            /\ sess' = [sess EXCEPT ![c] = Post(Done(sess[c], "write"), ec)]
    BY <1>3 DEF CompleteWrite
  <2>2. ec \in Completions /\ ec \notin ReadOutcomes
    BY DEF Completions, ReadOutcomes, WriteOutcomes
  <2>3. RecordInv(Post(Done(sess[c], "write"), ec))
    BY <1>1, <2>1, <2>2, CompleteKeepsInv
  <2> QED BY <2>1, <2>3
<1> QED BY <1>2, <1>3 DEF Complete

LEMMA OpenKeepsInv ==
    ASSUME NEW inPlace \in BOOLEAN
    PROVE  RecordInv(Dispatch(NewSession, "Run", inPlace))
<1> DEFINE s == Post(NewSession, "Run")
<1>1. /\ NewSession \in SessionRecord /\ NewSession.state = "kOpen" /\ NewSession.requests = 0
      /\ NewSession.ops = {} /\ NewSession.strand = << >> /\ NewSession.keepAlive = FALSE
  BY NewSessionType DEF NewSession
<1>2. Pending(NewSession) = {}
  BY <1>1 DEF Pending
<1>3. NewSession.requests < RequestLimit /\ NewSession.requests <= RequestLimit
  BY <1>1, LimitType
<1>4. AtRest(NewSession)
  BY <1>1, <1>2, <1>3 DEF AtRest, Quiet
<1>5. "Run" \in Handlers /\ "Run" \in Chain
  BY DEF Handlers, Chain
<1>6. /\ s \in SessionRecord /\ Carries(s, NewSession) /\ s.ops = {}
      /\ Pending(s) = {Len(NewSession.strand) + 1}
      /\ s.strand[Len(NewSession.strand) + 1] = "Run"
  BY <1>1, <1>2, <1>5, PostPending
<1> HIDE DEF s
<1>7. OneChain(s) /\ ~Quiet(s) /\ ~Writing(s)
  BY <1>6 DEF OneChain, Quiet, Writing
<1>8. WithinLimit(s)
  BY <1>3, <1>6, <1>7 DEF WithinLimit, Carries
<1>9. RecordInv(s)
  BY <1>1, <1>6, <1>7, <1>8 DEF RecordInv, Carries
<1>10. CASE inPlace
  BY <1>3, <1>4, <1>10, ReadKeepsInv DEF Dispatch, Execute
<1>11. CASE ~inPlace
  BY <1>9, <1>11 DEF Dispatch, s
<1> QED BY <1>10, <1>11

LEMMA NoSessionInv == RecordInv(NoSession)
<1>1. /\ NoSession \in SessionRecord /\ NoSession.state = "absent" /\ NoSession.requests = 0
      /\ NoSession.ops = {} /\ NoSession.strand = << >>
  BY NewSessionType DEF NoSession
<1>2. Pending(NoSession) = {}
  BY <1>1 DEF Pending
<1>3. Quiet(NoSession) /\ OneChain(NoSession) /\ ~Reading(NoSession) /\ ~Writing(NoSession)
  BY <1>1, <1>2 DEF Quiet, OneChain, Reading, Writing
<1>4. WithinLimit(NoSession)
  BY <1>1, <1>3, LimitType DEF WithinLimit
<1> QED BY <1>1, <1>3, <1>4 DEF RecordInv, Live

-----------------------------------------------------------------------------
(* The theorems. *)

LEMMA ChainInvInit == SessionInit => ChainInv
BY NoSessionInv, NewSessionType DEF SessionInit, ChainInv, SessionTypeOK

\* What the actions of one session keep is kept for all of them.
LEMMA OneRecordStep ==
    ASSUME ChainInv, NEW c \in Conns, NEW s, RecordInv(s), sess' = [sess EXCEPT ![c] = s]
    PROVE  ChainInv'
<1>1. s \in SessionRecord /\ sess \in [Conns -> SessionRecord]
  BY DEF RecordInv, ChainInv, SessionTypeOK
<1>2. sess' \in [Conns -> SessionRecord]
  BY <1>1
<1>3. ASSUME NEW d \in Conns PROVE RecordInv(sess'[d])
  <2>1. CASE d = c
    BY <1>1, <2>1
  <2>2. CASE d # c
    <3>1. sess'[d] = sess[d]
      BY <1>1, <2>2
    <3> QED BY <3>1 DEF ChainInv
  <2> QED BY <2>1, <2>2
<1> QED BY <1>2, <1>3 DEF ChainInv, SessionTypeOK

LEMMA ChainInvNext == ChainInv /\ [SessionNext]_sess => ChainInv'
<1> SUFFICES ASSUME ChainInv, [SessionNext]_sess PROVE ChainInv'
  OBVIOUS
<1>1. ASSUME NEW c \in Conns, Open(c) PROVE ChainInv'
  BY <1>1, OneRecordStep, OpenKeepsInv DEF Open
<1>2. ASSUME NEW c \in Conns, Call(c) PROVE ChainInv'
  <2>1. PICK handler \in {"RequestClose", "ForceClose"}, inPlace \in BOOLEAN :
            sess' = [sess EXCEPT ![c] = Dispatch(sess[c], handler, inPlace)]
    BY <1>2 DEF Call
  <2>2. RecordInv(sess[c]) /\ sess[c].state # "absent"
    BY <1>2 DEF ChainInv, Call, Live
  <2>3. RecordInv(Dispatch(sess[c], handler, inPlace))
    BY <2>2, DispatchKeepsInv
  <2> QED BY <2>1, <2>3, OneRecordStep
<1>3. ASSUME NEW c \in Conns, Complete(c) PROVE ChainInv'
  BY <1>3, CompletionKeepsInv, OneRecordStep
<1>4. ASSUME NEW c \in Conns, RunHandler(c) PROVE ChainInv'
  BY <1>4, RunHandlerKeepsInv, OneRecordStep
<1>5. CASE UNCHANGED sess
  BY <1>5 DEF ChainInv, SessionTypeOK
<1>6. CASE SessionNext
  BY <1>1, <1>2, <1>3, <1>4, <1>6 DEF SessionNext
<1> QED BY <1>5, <1>6

LEMMA ChainAlways == SessionSpec => []ChainInv
BY ChainInvInit, ChainInvNext, PTL DEF SessionSpec

LEMMA ChainImpliesSingle == ChainInv => SingleOperation
<1> SUFFICES ASSUME ChainInv, NEW c \in Conns
             PROVE  LET pending == Cardinality(sess[c].ops) + Cardinality(Pending(sess[c]))
                    IN  /\ pending <= 1
                        /\ Live(sess[c]) => pending = 1
                        /\ sess[c].state = "kClosed" /\ sess[c].open => pending = 0
  BY DEF SingleOperation
<1> DEFINE r == sess[c]
<1>1. RecordInv(r)
  BY DEF ChainInv
<1> HIDE DEF r
<1>2. CASE Quiet(r)
  <2>1. Cardinality(r.ops) = 0 /\ Cardinality(Pending(r)) = 0
    BY <1>2, FS_EmptySet DEF Quiet
  <2> QED BY <1>1, <1>2, <2>1 DEF RecordInv, r
<1>3. CASE r.ops # {}
  <2>1. Pending(r) = {} /\ (r.ops = {"read"} \/ r.ops = {"write"})
    BY <1>1, <1>3 DEF RecordInv, OneChain, SessionRecord
  <2>2. Cardinality(r.ops) = 1 /\ Cardinality(Pending(r)) = 0
    BY <2>1, FS_EmptySet, FS_Singleton
  <2>3. ~Quiet(r)
    BY <1>3 DEF Quiet
  <2> QED BY <1>1, <2>2, <2>3 DEF RecordInv, r
<1>4. CASE Pending(r) # {}
  <2>1. PICK i : i \in Pending(r)
    BY <1>4
  <2>2. Pending(r) = {i} /\ r.ops = {}
    BY <1>1, <2>1 DEF RecordInv, OneChain
  <2>3. Cardinality(r.ops) = 0 /\ Cardinality(Pending(r)) = 1
    BY <2>2, FS_EmptySet, FS_Singleton
  <2>4. ~Quiet(r)
    BY <1>4 DEF Quiet
  <2> QED BY <1>1, <2>3, <2>4 DEF RecordInv, r
<1> QED BY <1>2, <1>3, <1>4 DEF Quiet

LEMMA ChainImpliesBound == ChainInv => RequestBound
BY DEF ChainInv, RecordInv, WithinLimit, RequestBound

\* A session that lives has exactly one operation under way, one that closed
\* gracefully none, and none ever two (Session.cpp:67-145, 169).
THEOREM OneOperationAtATime == SessionSpec => []SingleOperation
BY ChainAlways, ChainImpliesSingle, PTL

\* No order of reads, responses and calls takes a session past its limit,
\* and a limit of 0 acts as 1 (Session.cpp:113-121).
THEOREM RequestsAreBounded == SessionSpec => []RequestBound
BY ChainAlways, ChainImpliesBound, PTL
=============================================================================
