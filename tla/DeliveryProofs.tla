--------------------------- MODULE DeliveryProofs ---------------------------
(***************************************************************************)
(* Theorems about what a client gets to see: which of its requests are     *)
(* answered, with what, and what the last answer says of the connection;   *)
(* and about the client process, what it may conclude from the calls that  *)
(* have returned, whatever the server does to its connections.             *)
(***************************************************************************)
EXTENDS OrdersRun, ConnectionProofs

-----------------------------------------------------------------------------
(* The stream of a script. *)

\* Every request has a head, and a body stands behind the head it belongs to.
Orderly(script) ==
    LET stream == Units(script)
    IN  /\ \A i \in 1..Len(script) : \E p \in DOMAIN stream : stream[p] = <<"head", i>>
        /\ \A p \in DOMAIN stream : stream[p][1] = "body" =>
               p - 1 \in DOMAIN stream /\ stream[p - 1] = <<"head", stream[p][2]>>
        /\ \A p \in DOMAIN stream : stream[p][1] = "head" /\ script[stream[p][2]].body =>
               p + 1 \in DOMAIN stream /\ stream[p + 1] = <<"body", stream[p][2]>>

LEMMA EmptyIsOrderly == Orderly(<< >>)
<1> DEFINE none == << >>
<1>1. DOMAIN none = {} /\ Len(none) = 0 /\ Units(none) = none
  BY NoUnits
<1> HIDE DEF none
<1>2. Orderly(none)
  BY <1>1 DEF Orderly
<1> QED BY <1>2 DEF none

\* The units of one more request, behind those of a script.
LEMMA UnitsBehind ==
    ASSUME NEW script \in Seq(Requests), StreamOK(script), NEW request \in Requests
    PROVE  LET all == Units(Append(script, request))
               old == Units(script)
               L == Len(old)
               last == Len(script) + 1
           IN  /\ L \in Nat /\ DOMAIN old = 1..L
               /\ \A p \in 1..L : all[p] = old[p]
               /\ all[L + 1] = <<"head", last>>
               /\ \/ request.body /\ DOMAIN all = 1..(L + 2) /\ all[L + 2] = <<"body", last>>
                  \/ ~request.body /\ DOMAIN all = 1..(L + 1)
<1> DEFINE last == Len(script) + 1
           old == Units(script)
           new == UnitsAt(request, last)
           all == old \o new
<1>1. Units(Append(script, request)) = all
  BY UnitsGrow
<1>2. last \in Nat
  OBVIOUS
<1>3. old \in Seq(UnitType)
  BY DEF StreamOK
<1> HIDE DEF last
<1>4. /\ new \in Seq(UnitType) /\ new[1] = <<"head", last>>
      /\ \/ Len(new) = 1 /\ ~request.body
         \/ Len(new) = 2 /\ new[2] = <<"body", last>> /\ request.body
  <2>1. new \in Seq(UnitType)
    BY <1>2, UnitsAtType
  <2>2. CASE request.body
    BY <2>1, <2>2 DEF UnitsAt
  <2>3. CASE ~request.body
    BY <2>1, <2>3 DEF UnitsAt
  <2> QED BY <2>1, <2>2, <2>3
<1> HIDE DEF old, new
<1>5. PICK L \in Nat : L = Len(old)
  BY <1>3
<1>6. PICK m \in {1, 2} : m = Len(new) /\ (m = 1 <=> ~request.body)
  BY <1>4
<1>7. /\ all \in Seq(UnitType) /\ Len(all) = L + m
      /\ \A j \in 1..L : all[j] = old[j]
      /\ \A j \in 1..m : all[L + j] = new[j]
  BY <1>3, <1>4, <1>5, <1>6, ConcatProperties
<1> HIDE DEF all
<1>8. DOMAIN all = 1..(L + m) /\ DOMAIN old = 1..L
  BY <1>3, <1>5, <1>7
<1>9. all[L + 1] = new[1] /\ (m = 2 => all[L + 2] = new[2])
  BY <1>7
<1>10. CASE request.body
  BY <1>1, <1>4, <1>5, <1>6, <1>7, <1>8, <1>9, <1>10 DEF old, last
<1>11. CASE ~request.body
  BY <1>1, <1>4, <1>5, <1>6, <1>7, <1>8, <1>9, <1>11 DEF old, last
<1> QED BY <1>10, <1>11

LEMMA OrderlyGrows ==
    ASSUME NEW script \in Seq(Requests), StreamOK(script), Orderly(script),
           NEW request \in Requests
    PROVE  Orderly(Append(script, request))
<1> DEFINE longer == Append(script, request)
           N == Len(script)
           last == N + 1
           all == Units(longer)
           old == Units(script)
<1>1. PICK L \in Nat :
          /\ L = Len(old) /\ DOMAIN old = 1..L
          /\ \A p \in 1..L : all[p] = old[p]
          /\ all[L + 1] = <<"head", last>>
          /\ \/ request.body /\ DOMAIN all = 1..(L + 2) /\ all[L + 2] = <<"body", last>>
             \/ ~request.body /\ DOMAIN all = 1..(L + 1)
  BY UnitsBehind
<1>2. /\ N \in Nat /\ Len(longer) = last /\ longer[last] = request
      /\ \A i \in 1..N : longer[i] = script[i]
  OBVIOUS
<1>3. \A p \in 1..L : old[p][2] \in 1..N
  BY <1>1 DEF StreamOK
<1>4. /\ \A i \in 1..N : \E p \in 1..L : old[p] = <<"head", i>>
      /\ \A p \in 1..L : old[p][1] = "body" =>
             p - 1 \in 1..L /\ old[p - 1] = <<"head", old[p][2]>>
      /\ \A p \in 1..L : old[p][1] = "head" /\ script[old[p][2]].body =>
             p + 1 \in 1..L /\ old[p + 1] = <<"body", old[p][2]>>
  BY <1>1 DEF Orderly
<1> HIDE DEF longer, all, old
<1>5. /\ \A p \in 1..L : p \in DOMAIN all
      /\ L + 1 \in DOMAIN all
      /\ \A p \in DOMAIN all : \/ p \in 1..L
                               \/ p = L + 1
                               \/ p = L + 2 /\ request.body /\ all[p] = <<"body", last>>
      /\ request.body => L + 2 \in DOMAIN all
  <2>1. CASE request.body /\ DOMAIN all = 1..(L + 2) /\ all[L + 2] = <<"body", last>>
    <3> HIDE DEF last
    <3>1. \A p \in 1..(L + 2) : p \in 1..L \/ p = L + 1 \/ p = L + 2
      OBVIOUS
    <3> QED BY <2>1, <3>1
  <2>2. CASE ~request.body /\ DOMAIN all = 1..(L + 1)
    BY <2>2
  <2> QED BY <1>1, <2>1, <2>2
<1>6. ASSUME NEW i \in 1..last
      PROVE  \E p \in DOMAIN all : all[p] = <<"head", i>>
  <2>1. CASE i = last
    BY <1>1, <1>5, <2>1
  <2>2. CASE i # last
    <3>1. i \in 1..N
      BY <1>2, <2>2
    <3>2. PICK p \in 1..L : old[p] = <<"head", i>>
      BY <1>4, <3>1
    <3>3. p \in DOMAIN all /\ all[p] = old[p]
      BY <1>1, <1>5
    <3> QED BY <3>2, <3>3
  <2> QED BY <2>1, <2>2
<1>7. ASSUME NEW p \in DOMAIN all, all[p][1] = "body"
      PROVE  p - 1 \in DOMAIN all /\ all[p - 1] = <<"head", all[p][2]>>
  <2>1. CASE p \in 1..L
    <3>1. p - 1 \in 1..L /\ old[p - 1] = <<"head", old[p][2]>>
      BY <1>1, <1>4, <1>7, <2>1
    <3> QED BY <1>1, <1>5, <2>1, <3>1
  <2>2. CASE p = L + 1
    BY <1>1, <1>7, <2>2
  <2>3. CASE p = L + 2 /\ all[p] = <<"body", last>>
    <3>1. p - 1 = L + 1
      BY <2>3
    <3> QED BY <1>1, <1>5, <2>3, <3>1
  <2> QED BY <1>5, <2>1, <2>2, <2>3
<1>8. ASSUME NEW p \in DOMAIN all, all[p][1] = "head", longer[all[p][2]].body
      PROVE  p + 1 \in DOMAIN all /\ all[p + 1] = <<"body", all[p][2]>>
  <2>1. CASE p \in 1..L
    <3>1. all[p] = old[p] /\ old[p][2] \in 1..N
      BY <1>1, <1>3, <2>1
    <3>2. script[old[p][2]].body
      BY <1>2, <1>8, <3>1
    <3>3. p + 1 \in 1..L /\ old[p + 1] = <<"body", old[p][2]>>
      BY <1>4, <1>8, <2>1, <3>1, <3>2
    <3> QED BY <1>1, <1>5, <3>1, <3>3
  <2>2. CASE p = L + 1
    <3>1. request.body
      BY <1>1, <1>2, <1>8, <2>2
    <3>2. p + 1 = L + 2 /\ all[p][2] = last
      BY <1>1, <2>2
    <3> QED BY <1>1, <1>5, <3>1, <3>2
  <2>3. CASE p = L + 2 /\ all[p] = <<"body", last>>
    BY <1>8, <2>3
  <2> QED BY <1>5, <2>1, <2>2, <2>3
<1>9. Orderly(longer)
  BY <1>2, <1>6, <1>7, <1>8 DEF Orderly, all
<1> QED BY <1>9 DEF longer

-----------------------------------------------------------------------------
(* Which requests are answered.                                            *)

\* A part of a response, or an answer to what was asked: to what else only if the
\* request was sent early.
Truthful(a, k) ==
    IF a.code = "cut" THEN a = NoReply
    ELSE /\ a.request \in 1..Len(k.script)
         /\ a.code = Expected(k.script[a.request]) \/ a.request \in k.early

AnsweredIn(i, answers) == \E a \in answers : a.request = i

\* Each request up to some other is answered, or was sent early.
Accounted(i, answers, k) == i \in k.early \/ AnsweredIn(i, answers)

Settled(x, answers, k) == \A i \in 1..Len(k.script) : i < x => Accounted(i, answers, k)

\* The client has waited for its answers, but for the requests that are early.
Waited(k) ==
    \A i \in (1..Len(k.script)) \ k.early : \A j \in 1..Len(k.script) :
        j < i => AnsweredIn(j, ToSet(k.answers))

Delivered(k) ==
    \A a \in ToSet(k.answers) : Truthful(a, k) /\ Settled(a.request, ToSet(k.answers), k)

OnTheWay(n, k) ==
    \A a \in ToSet(n.toClient) : Truthful(a, k) /\ Settled(a.request, Responses(n, k), k)

\* The request that is being read, or answered.
Underway(i, r, n) ==
    \/ i = n.parsing /\ \E x \in ReadPhase \ {"Run"} : x \in InFlight(r)
    \/ i = n.reply.request /\ "write" \in InFlight(r)

\* What was used is answered, or will be; what is about to be thrown away with it
\* is early.
Passed(r, n, k) ==
    LET stream == Units(k.script)
    IN  MayRead(r) => \A p \in DOMAIN stream :
            /\ p <= n.used => \/ Underway(stream[p][2], r, n)
                              \/ Accounted(stream[p][2], Responses(n, k), k)
            /\ n.used < p /\ p <= n.pulled
                   /\ (\E x \in {"read_ok", "write", "write_ok"} : x \in InFlight(r))
                   => stream[p][2] \in k.early

\* What is read is the request whose head was parsed.
Heading(r, n, k) ==
    LET stream == Units(k.script)
        request == k.script[n.parsing]
    IN  /\ "read" \in InFlight(r) /\ n.parsing # 0 =>
               /\ n.used \in DOMAIN stream /\ stream[n.used] = <<"head", n.parsing>>
               /\ request.body /\ request.fault = "none"
        /\ "read_ok" \in InFlight(r) => request.fault = "none"
        /\ "read_error" \in InFlight(r) =>
               n.parsing \in k.early \/ (request.fault = n.fault /\ n.fault # "none")
        /\ "read_ok" \in InFlight(r) \/ "read_error" \in InFlight(r)
               => n.used \in DOMAIN stream /\ stream[n.used][2] = n.parsing

Answering(r, n, k) ==
    "write" \in InFlight(r) =>
        /\ Truthful(n.reply, k) /\ n.reply.code # "cut"
        /\ Settled(n.reply.request, Responses(n, k), k)

Delivers(r, n, k) ==
    /\ Orderly(k.script) /\ Waited(k) /\ Delivered(k)
    /\ k.stage = "connected" =>
           /\ OnTheWay(n, k)
           /\ r.open => Passed(r, n, k) /\ Heading(r, n, k) /\ Answering(r, n, k)

-----------------------------------------------------------------------------
(* What the end of a connection has said before.                           *)

\* What the session has taken from the socket ends with a request, if the client
\* has sent no other unasked.
Covers(x, n, k) ==
    LET stream == Units(k.script)
    IN  /\ x \in 1..Len(k.script) /\ x \notin k.early
        /\ k.script[x].fault # "none" => ~k.script[x].body
        => \A p \in DOMAIN stream : p > n.pulled => x < stream[p][2]

\* Patient(c)
Patience(k) ==
    /\ k.early = {}
    /\ \A i \in DOMAIN k.script : k.script[i].fault # "none" => ~k.script[i].body

LastSaid(answers) == \E a \in answers : ~a.keepAlive

Taken(r, n, k) ==
    /\ \A a \in Responses(n, k) : Covers(a.request, n, k)
    /\ "write" \in InFlight(r) => Covers(n.reply.request, n, k)

\* Before its deadline, a session that closes has said so, unless it was reset.
Ending(r, n, k) ==
    n.deadline # "passed" =>
        /\ \A a \in Responses(n, k) : a.code # "cut"
        /\ \A x \in {"read_timeout", "read_eof", "write_error"} : x \notin InFlight(r)
        /\ "write_ok" \in InFlight(r) /\ ~r.keepAlive => LastSaid(Responses(n, k))
        /\ r.state = "kClosed" /\ (Patience(k) \/ ~n.reset) => LastSaid(Responses(n, k))

\* A client for which the connection is at its end has read it.
Ended(r, n, k) ==
    /\ ~MayRead(r)
    /\ /\ n.deadline # "passed"
       /\ Patience(k) \/ (~n.reset /\ n.sent = Len(Units(k.script)))
       => LastSaid(ToSet(k.answers))

Ends(r, n, k) ==
    r.open =>
        /\ k.stage = "connected" => Taken(r, n, k) /\ Ending(r, n, k)
        /\ k.stage = "ended" => Ended(r, n, k)

Serving(r, n, k) == Delivers(r, n, k) /\ Ends(r, n, k)

\* A connection in a state that can be reached, and what it delivers.
DeliveryInv == \A c \in Conns : Serving(sess[c], net[c], client[c])

-----------------------------------------------------------------------------
(* The steps of the session, and what is delivered. *)

\* What is read is answered, in its turn.
LEMMA NothingMoreDelivers ==
    ASSUME NEW r, NEW n, NEW k, Delivers(r, n, k), NEW s, NEW m, m.toClient = n.toClient,
           ~s.open \/ InFlight(s) \subseteq {"write_error"}
    PROVE  Delivers(s, m, k)
<1>1. Responses(m, k) = Responses(n, k)
  BY DEF Responses
<1>2. k.stage = "connected" => OnTheWay(m, k)
  BY <1>1 DEF Delivers, OnTheWay
<1>3. InFlight(s) \subseteq {"write_error"} =>
          Passed(s, m, k) /\ Heading(s, m, k) /\ Answering(s, m, k)
  BY DEF Passed, Heading, Answering, MayRead, ReadPhase
<1> QED BY <1>2, <1>3 DEF Delivers

LEMMA ReadEndsDelivers ==
    ASSUME NEW r, NEW n, NEW k, Delivers(r, n, k), NEW s,
           s.open = r.open, InFlight(r) = {"read"}, InFlight(s) = {"read_timeout"}
    PROVE  Delivers(s, n, k)
<1> SUFFICES ASSUME k.stage = "connected", s.open
             PROVE  Passed(s, n, k) /\ Heading(s, n, k) /\ Answering(s, n, k)
  BY DEF Delivers
<1>1. MayRead(r) /\ Passed(r, n, k)
  BY DEF Delivers, MayRead, ReadPhase
<1>2. \A i : Underway(i, r, n) => Underway(i, s, n)
  BY DEF Underway, ReadPhase
<1>3. Passed(s, n, k)
  BY <1>1, <1>2 DEF Passed
<1> QED BY <1>3 DEF Heading, Answering

LEMMA BesideDelivers ==
    ASSUME NEW r, NEW n, NEW k, Delivers(r, n, k), NEW s, Beside(s, r)
    PROVE  Delivers(s, n, k)
<1> SUFFICES ASSUME k.stage = "connected", s.open
             PROVE  Passed(s, n, k) /\ Heading(s, n, k) /\ Answering(s, n, k)
  BY DEF Delivers
<1>1. /\ Passed(r, n, k) /\ Heading(r, n, k) /\ Answering(r, n, k)
      /\ InFlight(s) = InFlight(r) /\ s.keepAlive = r.keepAlive
  BY DEF Delivers, Beside
<1>2. MayRead(s) <=> MayRead(r)
  BY <1>1 DEF MayRead
<1>3. \A i : Underway(i, r, n) <=> Underway(i, s, n)
  BY <1>1 DEF Underway
<1> QED BY <1>1, <1>2, <1>3 DEF Passed, Heading, Answering

\* The response that is written joins those on their way.
LEMMA WriteDoneDelivers ==
    ASSUME NEW r, NEW n, NEW k, Good(r, n, k), Delivers(r, n, k), NEW s, NEW m,
           Carried(m, n), m.toClient = Append(n.toClient, n.reply), Carries(s, r), r.open,
           InFlight(r) = {"write"}, InFlight(s) = {"write_ok"}
    PROVE  Delivers(s, m, k)
<1> SUFFICES ASSUME k.stage = "connected"
             PROVE  OnTheWay(m, k) /\ Passed(s, m, k) /\ Heading(s, m, k) /\ Answering(s, m, k)
  BY DEF Delivers
<1>1. Responses(m, k) = Responses(n, k) \cup {n.reply} /\ ToSet(m.toClient) = ToSet(n.toClient) \cup {n.reply}
  <2>1. n.toClient \in Seq(Reply) /\ n.reply \in Reply
    BY ResponseTypes DEF Good
  <2> HIDE DEF Reply
  <2>2. PICK reply \in Reply : reply = n.reply
    BY <2>1
  <2>3. ToSet(Append(n.toClient, reply)) = ToSet(n.toClient) \cup {reply}
    BY <2>1, AppendSequence
  <2> QED BY <2>2, <2>3 DEF Responses
<1>2. /\ OnTheWay(n, k) /\ Passed(r, n, k) /\ Truthful(n.reply, k)
      /\ Settled(n.reply.request, Responses(n, k), k)
  BY DEF Delivers, Answering
<1>3. \A i : Accounted(i, Responses(n, k), k) => Accounted(i, Responses(m, k), k)
  BY <1>1 DEF Accounted, AnsweredIn
<1>4. OnTheWay(m, k)
  BY <1>1, <1>2, <1>3 DEF OnTheWay, Settled
<1>5. Passed(s, m, k)
  <2> SUFFICES ASSUME MayRead(s)
               PROVE  Passed(s, m, k)
    BY DEF Passed
  <2>1. MayRead(r) /\ m.used = n.used /\ m.pulled = n.pulled
    BY DEF MayRead, ReadPhase, Carries, Carried
  <2>2. \A i : Underway(i, r, n) => i = n.reply.request
    BY DEF Underway, ReadPhase
  <2>3. Accounted(n.reply.request, Responses(m, k), k)
    BY <1>1 DEF Accounted, AnsweredIn
  <2>4. \A p \in DOMAIN Units(k.script) :
            p <= n.used => Accounted(Units(k.script)[p][2], Responses(m, k), k)
    BY <1>2, <1>3, <2>1, <2>2, <2>3 DEF Passed
  <2>5. "write" \in InFlight(r)
    OBVIOUS
  <2>6. \A p \in DOMAIN Units(k.script) :
            n.used < p /\ p <= n.pulled => Units(k.script)[p][2] \in k.early
    BY <1>2, <2>1, <2>5 DEF Passed
  <2> QED BY <2>1, <2>4, <2>6 DEF Passed
<1> QED BY <1>4, <1>5 DEF Heading, Answering

\* A part of a response answers nothing.
LEMMA WriteFailsDelivers ==
    ASSUME NEW r, NEW n, NEW k, Good(r, n, k), Delivers(r, n, k), NEW s, NEW m,
           m.toClient \in {n.toClient, Append(n.toClient, NoReply)},
           InFlight(s) = {"write_error"}
    PROVE  Delivers(s, m, k)
<1>1. Passed(s, m, k) /\ Heading(s, m, k) /\ Answering(s, m, k)
  BY DEF Passed, Heading, Answering, MayRead, ReadPhase
<1>2. /\ ToSet(m.toClient) \subseteq ToSet(n.toClient) \cup {NoReply}
      /\ Responses(n, k) \subseteq Responses(m, k)
  <2>1. n.toClient \in Seq(Reply) /\ NoReply \in Reply
    BY ResponseTypes DEF Good, NoReply, Reply, Codes
  <2> HIDE DEF Reply
  <2>2. ToSet(Append(n.toClient, NoReply)) = ToSet(n.toClient) \cup {NoReply}
    BY <2>1, AppendSequence
  <2> QED BY <2>2 DEF Responses
<1>3. \A i : Accounted(i, Responses(n, k), k) => Accounted(i, Responses(m, k), k)
  BY <1>2 DEF Accounted, AnsweredIn
<1>4. Truthful(NoReply, k) /\ \A i \in 1..Len(k.script) : ~(i < NoReply.request)
  BY ResponseTypes DEF Good, Truthful, NoReply
<1>5. k.stage = "connected" => OnTheWay(m, k)
  BY <1>2, <1>3, <1>4 DEF Delivers, OnTheWay, Settled
<1> QED BY <1>1, <1>5 DEF Delivers

\* The next read finds all that was used accounted for.
LEMMA NextReadDelivers ==
    ASSUME NEW r, NEW n, NEW k, Good(r, n, k), Delivers(r, n, k), NEW s, NEW m,
           ReadsAnew(m, n), s.open = r.open, InFlight(s) = {"read"},
           \/ InFlight(r) = {"Run"} /\ m.used = n.used
           \/ InFlight(r) = {"write_ok"} /\ r.keepAlive
    PROVE  Delivers(s, m, k)
<1> SUFFICES ASSUME k.stage = "connected"
             PROVE  /\ OnTheWay(m, k)
                    /\ s.open => Passed(s, m, k) /\ Heading(s, m, k) /\ Answering(s, m, k)
  BY DEF Delivers
<1>1. Responses(m, k) = Responses(n, k) /\ OnTheWay(n, k) /\ m.toClient = n.toClient
  BY DEF Responses, ReadsAnew, Delivers
<1>2. OnTheWay(m, k)
  BY <1>1 DEF OnTheWay
<1>3. Heading(s, m, k) /\ Answering(s, m, k)
  BY DEF Heading, Answering, ReadsAnew
<1>4. ASSUME s.open, NEW p \in DOMAIN Units(k.script), p <= m.used
      PROVE  Accounted(Units(k.script)[p][2], Responses(m, k), k)
  <2>1. MayRead(r) /\ Passed(r, n, k)
    BY <1>4 DEF Delivers, MayRead, ReadPhase
  <2>2. \A i : ~Underway(i, r, n)
    BY DEF Underway, ReadPhase
  <2>3. p <= n.used => Accounted(Units(k.script)[p][2], Responses(m, k), k)
    BY <1>1, <2>1, <2>2 DEF Passed
  <2>4. ~(p <= n.used) => "write_ok" \in InFlight(r) /\ n.used < p /\ p <= n.pulled
    <3>1. p \in Nat /\ n.used \in Nat /\ n.pulled \in Nat
      BY ResponseTypes DEF Good, StreamOK
    <3> QED BY <1>4, <3>1 DEF ReadsAnew
  <2>5. ~(p <= n.used) => Units(k.script)[p][2] \in k.early
    BY <2>1, <2>4 DEF Passed
  <2> QED BY <2>3, <2>5 DEF Accounted
<1>5. s.open => Passed(s, m, k)
  BY <1>4 DEF Passed
<1> QED BY <1>2, <1>3, <1>5

\* Before the request that was parsed, all are accounted for.
LEMMA ParsedIsNext ==
    ASSUME NEW r, NEW n, NEW k, Good(r, n, k), Delivers(r, n, k), k.stage = "connected",
           r.open, NEW x \in {"read_ok", "read_error"}, InFlight(r) = {x}
    PROVE  Settled(n.parsing, Responses(n, k), k)
<1> DEFINE stream == Units(k.script)
<1>1. Passed(r, n, k) /\ Heading(r, n, k) /\ MayRead(r) /\ Orderly(k.script)
  BY DEF Delivers, MayRead, ReadPhase
<1>2. n.used \in DOMAIN stream /\ stream[n.used][2] = n.parsing
  BY <1>1 DEF Heading
<1>3. /\ stream \in Seq(UnitType) /\ n.parsing \in Nat /\ n.used \in Nat
      /\ \A p, q \in DOMAIN stream : p < q => stream[p][2] <= stream[q][2]
  <2>1. StreamOK(k.script) /\ n.parsing \in Nat /\ n.used \in Nat
    BY ResponseTypes DEF Good
  <2>2. \A p \in DOMAIN stream : stream[p][2] \in Nat
    BY <2>1 DEF StreamOK
  <2> QED BY <2>1, <2>2 DEF StreamOK
<1>4. ASSUME NEW i \in 1..Len(k.script), i < n.parsing
      PROVE  Accounted(i, Responses(n, k), k)
  <2>1. PICK p \in DOMAIN stream : stream[p] = <<"head", i>>
    BY <1>1 DEF Orderly
  <2>2. stream[p][2] = i /\ p \in Nat
    BY <1>3, <2>1
  <2> HIDE DEF stream
  <2>3. p <= n.used
    BY <1>2, <1>3, <1>4, <2>2
  <2>4. ~Underway(i, r, n)
    BY <1>3, <1>4 DEF Underway
  <2> QED BY <1>1, <2>2, <2>3, <2>4 DEF Passed, stream
<1> QED BY <1>4 DEF Settled

\* A response is written, for what was parsed.
LEMMA AnswerDelivers ==
    ASSUME NEW r, NEW n, NEW k, Good(r, n, k), Delivers(r, n, k), NEW s, NEW m,
           m.toClient = n.toClient, m.used = n.used, m.pulled = n.pulled,
           m.reply.request = n.parsing, r.open, InFlight(s) = {"write"},
           k.stage = "connected" => Truthful(m.reply, k) /\ m.reply.code # "cut",
           \/ InFlight(r) = {"read_ok"}
           \/ InFlight(r) = {"read_error"} /\ s.keepAlive = FALSE
    PROVE  Delivers(s, m, k)
<1> SUFFICES ASSUME k.stage = "connected"
             PROVE  OnTheWay(m, k) /\ Passed(s, m, k) /\ Heading(s, m, k) /\ Answering(s, m, k)
  BY DEF Delivers
<1>1. Responses(m, k) = Responses(n, k) /\ OnTheWay(n, k) /\ Passed(r, n, k)
  BY DEF Responses, Delivers
<1>2. OnTheWay(m, k) /\ Heading(s, m, k)
  BY <1>1 DEF OnTheWay, Heading
<1>3. Settled(n.parsing, Responses(n, k), k)
  BY ParsedIsNext
<1>4. Answering(s, m, k)
  BY <1>1, <1>3 DEF Answering
<1>5. Passed(s, m, k)
  <2> SUFFICES ASSUME MayRead(s)
               PROVE  Passed(s, m, k)
    BY DEF Passed
  <2>1. s.keepAlive
    BY DEF MayRead, ReadPhase
  <2>2. MayRead(r) /\ "read_ok" \in InFlight(r)
    BY <2>1 DEF MayRead, ReadPhase
  <2>3. \A i : Underway(i, r, n) => Underway(i, s, m)
    BY DEF Underway
  <2> QED BY <1>1, <2>2, <2>3 DEF Passed
<1> QED BY <1>2, <1>4, <1>5

\* What the parser makes of one unit.
LEMMA ParseGives ==
    ASSUME NEW c \in Conns, NEW k, k = client[c], NEW n \in NetRecord, NEW u, u = n.used + 1,
           NEW unit, unit = Units(k.script)[u], unit \in UnitType
    PROVE  /\ Parse(c, n).used = u /\ Parse(c, n).parsing = unit[2]
           /\ unit[1] = "body" /\ n.parsing = 0 => Parse(c, n).fault = "malformed"
           /\ unit[1] = "body" /\ n.parsing # 0 => Parse(c, n).fault = "none"
           /\ unit[1] = "head" => Parse(c, n).fault = k.script[unit[2]].fault
<1> DEFINE head == k.script[unit[2]].fault
           fault == IF unit[1] = "body" /\ n.parsing = 0 THEN "malformed"
                    ELSE IF unit[1] = "head" THEN head ELSE "none"
<1>1. Parse(c, n) = [n EXCEPT !.used = u, !.parsing = unit[2], !.fault = fault]
  BY DEF Parse, NextUnit, Stream
<1> HIDE DEF head, fault
<1>2. Parse(c, n).used = u /\ Parse(c, n).parsing = unit[2] /\ Parse(c, n).fault = fault
  BY <1>1 DEF NetRecord
<1> QED BY <1>2 DEF fault, head

\* A read gets to the end of the head, or of the body, of one request, or fails.
ReadsOneRequest(r, n, k, s, m) ==
    LET stream == Units(k.script)
        request == k.script[m.parsing]
    IN  /\ \A p \in DOMAIN stream : n.used < p /\ p <= m.used => stream[p][2] = m.parsing
        /\ n.parsing # 0 => m.parsing = n.parsing
        /\ \/ /\ s = r /\ stream[m.used] = <<"head", m.parsing>>
              /\ request.body /\ request.fault = "none"
           \/ InFlight(s) = {"read_ok"} /\ request.fault = "none"
           \/ InFlight(s) = {"read_error"} /\ m.fault # "none" /\ request.fault = m.fault
           \/ /\ InFlight(s) = {"read_error"} /\ n.parsing = 0
              /\ n.used \in DOMAIN stream /\ stream[n.used][2] = m.parsing

LEMMA ReadSomeDoes ==
    ASSUME ConnInv, DeliveryInv, NEW c \in Conns, ReadSome(c)
    PROVE  \E m, s :
               /\ Moves(c, s, m, client[c]) /\ Further(m, net[c], client[c])
               /\ RecordInv(s) /\ Carries(s, sess[c]) /\ InFlight(sess[c]) = {"read"}
               /\ sess[c].open
               /\ \/ s = sess[c]
                  \/ InFlight(s) = {"read_error"}
                  \/ InFlight(s) = {"read_ok"} /\ Left(m.parsing, m, client[c])
               /\ client[c].stage = "connected"
                      => ReadsOneRequest(sess[c], net[c], client[c], s, m)
<1> DEFINE r == sess[c]
           n == net[c]
           k == client[c]
           stream == Units(k.script)
<1>1. PICK m, s :
          /\ net' = [net EXCEPT ![c] = m] /\ sess' = [sess EXCEPT ![c] = s]
          /\ Further(m, n, k) /\ RecordInv(s) /\ Carries(s, r) /\ InFlight(r) = {"read"}
          /\ \/ s = r
             \/ InFlight(s) = {"read_error"}
             \/ InFlight(s) = {"read_ok"} /\ Left(m.parsing, m, k)
  BY ConnInvParts, ReadSomeFlow
<1>2. Moves(c, s, m, k) /\ r.open /\ sess'[c] = s /\ net'[c] = m
  BY <1>1, ConnInvParts DEF ReadSome, Moves
<1> SUFFICES ASSUME k.stage = "connected"
             PROVE  ReadsOneRequest(r, n, k, s, m)
  BY <1>1, <1>2
<1>3. /\ n \in NetRecord /\ StreamOK(k.script) /\ stream \in Seq(UnitType)
      /\ n.used <= n.pulled /\ n.pulled <= n.sent /\ n.sent <= Len(stream)
      /\ n.used \in Nat /\ n.pulled \in Nat /\ n.sent \in Nat /\ n.parsing \in Nat
      /\ DOMAIN stream = 1..Len(stream) /\ Len(stream) \in Nat
  <2>1. /\ n \in NetRecord /\ StreamOK(k.script) /\ stream \in Seq(UnitType)
        /\ n.used <= n.pulled /\ n.pulled <= n.sent /\ n.sent <= Len(stream)
        /\ n.used \in Nat /\ n.pulled \in Nat /\ n.sent \in Nat /\ n.parsing \in Nat
    <3>1. ConnType(r, n, k)
      BY ConnInvParts
    <3> HIDE DEF r, n, k
    <3> QED BY <3>1, ResponseTypes DEF StreamOK
  <2> HIDE DEF stream, n, k
  <2> QED BY <2>1
<1>4. /\ Orderly(k.script)
      /\ n.parsing # 0 => /\ n.used \in DOMAIN stream /\ stream[n.used] = <<"head", n.parsing>>
                          /\ k.script[n.parsing].body /\ k.script[n.parsing].fault = "none"
  BY <1>1, <1>2 DEF DeliveryInv, Serving, Delivers, Heading
<1>5. PICK taken \in IF n.used < n.pulled THEN {n.pulled} ELSE (n.pulled + 1)..n.sent :
        LET one == Parse(c, [n EXCEPT !.pulled = taken])
            more == one.fault = "none" /\ ~RequestComplete(c, one) /\ one.used < taken
            last == IF more THEN Parse(c, one) ELSE one
        IN  /\ net' = [net EXCEPT ![c] = last]
            /\ IF last.fault # "none" THEN Finish(c, "read", "read_error")
               ELSE IF RequestComplete(c, last) THEN Finish(c, "read", "read_ok")
               ELSE UNCHANGED sess
  BY DEF ReadSome
<1>6. PICK u \in Nat : u = n.used + 1 /\ taken \in Nat /\ u <= taken /\ taken <= n.sent
  <2> HIDE DEF n
  <2>1. CASE n.used < n.pulled
    BY <1>3, <1>5, <2>1
  <2>2. CASE ~(n.used < n.pulled)
    BY <1>3, <1>5, <2>2
  <2> QED BY <2>1, <2>2
<1> DEFINE full == [n EXCEPT !.pulled = taken]
           one == Parse(c, full)
           unit == stream[u]
           more == one.fault = "none" /\ ~RequestComplete(c, one) /\ one.used < taken
<1>7. full \in NetRecord /\ full.used = n.used /\ full.parsing = n.parsing
      /\ full.pulled = taken /\ full.sent = n.sent
  BY <1>3, <1>6 DEF NetRecord
<1> HIDE DEF full, stream
<1>8. u \in DOMAIN stream /\ unit \in UnitType /\ unit[2] \in 1..Len(k.script)
      /\ unit[1] \in {"head", "body"} /\ unit = <<unit[1], unit[2]>>
  <2>1. u \in DOMAIN stream /\ unit \in UnitType
    BY <1>3, <1>6
  <2>2. unit[2] \in 1..Len(k.script)
    BY <1>3, <2>1 DEF StreamOK, stream
  <2>3. \A x \in UnitType : x[1] \in {"head", "body"} /\ x = <<x[1], x[2]>>
    BY DEF UnitType
  <2> QED BY <2>1, <2>2, <2>3
<1> HIDE DEF unit
<1>9. /\ one.used = u /\ one.parsing = unit[2]
      /\ unit[1] = "body" /\ n.parsing = 0 => one.fault = "malformed"
      /\ unit[1] = "body" /\ n.parsing # 0 => one.fault = "none"
      /\ unit[1] = "head" => one.fault = k.script[unit[2]].fault
  BY <1>6, <1>7, <1>8, ParseGives DEF stream, unit
<1>10. Further(one, full, k) /\ one.parsing # 0 /\ one \in NetRecord /\ one.sent = n.sent
       /\ one.pulled = taken
  <2>1. /\ k \in ClientRecord /\ full.used < full.pulled /\ full.pulled <= full.sent
        /\ full.sent <= Len(Units(k.script))
    BY <1>3, <1>6, <1>7, ConnInvParts DEF stream
  <2>2. Further(one, full, k) /\ one.pulled = full.pulled
    BY <1>3, <1>7, <2>1, ParseFurther
  <2>3. one.parsing # 0
    BY <1>8, <1>9
  <2> QED BY <1>7, <2>2, <2>3 DEF Further
<1> HIDE DEF one
<1>11. RequestComplete(c, one) <=> ~k.script[unit[2]].body \/ unit[1] = "body"
  BY <1>9, <1>10 DEF RequestComplete, Stream, stream, unit
<1>12. /\ ~more => m = one
       /\ more => m = Parse(c, one)
       /\ m.fault # "none" => InFlight(s) = {"read_error"}
       /\ m.fault = "none" /\ RequestComplete(c, m) => InFlight(s) = {"read_ok"}
       /\ m.fault = "none" /\ ~RequestComplete(c, m) => s = r
  <2> DEFINE last == IF more THEN Parse(c, one) ELSE one
  <2>1. /\ net' = [net EXCEPT ![c] = last]
        /\ IF last.fault # "none" THEN Finish(c, "read", "read_error")
           ELSE IF RequestComplete(c, last) THEN Finish(c, "read", "read_ok")
           ELSE UNCHANGED sess
    BY <1>5 DEF one, full
  <2> HIDE DEF last, more
  <2>2. m = last
    BY <1>2, <2>1, ConnInvParts
  <2>3. \A ec : Finish(c, "read", ec) => s = Post(Done(r, "read"), ec)
    BY <1>2, ConnInvParts DEF Finish
  <2>4. \A ec \in ReadOutcomes : InFlight(Post(Done(r, "read"), ec)) = {ec}
    <3>1. RecordInv(r) /\ "read" \in r.ops
      BY ConnInvParts DEF ReadSome
    <3> HIDE DEF r
    <3> QED BY <3>1, CompletionFlow
  <2>5. "read_ok" \in ReadOutcomes /\ "read_error" \in ReadOutcomes
    BY DEF ReadOutcomes
  <2>6. UNCHANGED sess => s = r
    BY <1>2
  <2> QED BY <2>1, <2>2, <2>3, <2>4, <2>5, <2>6 DEF last
<1> HIDE DEF more
<1>13. \A p \in DOMAIN stream : p \in Nat /\ (n.used < p /\ p <= u => p = u)
  BY <1>3, <1>6
<1>14. CASE unit[1] = "body"
  <2>1. m = one /\ m.parsing = unit[2] /\ m.used = u /\ RequestComplete(c, m)
    BY <1>9, <1>11, <1>12, <1>14 DEF more
  <2>2. \A p \in DOMAIN stream : n.used < p /\ p <= m.used => stream[p][2] = m.parsing
    BY <1>13, <2>1 DEF unit
  <2>3. u - 1 = n.used /\ n.used \in DOMAIN stream /\ stream[n.used] = <<"head", unit[2]>>
    <3>1. u - 1 \in DOMAIN stream /\ stream[u - 1] = <<"head", stream[u][2]>>
      BY <1>4, <1>8, <1>14 DEF Orderly, stream, unit
    <3>2. u - 1 = n.used
      BY <1>3, <1>6
    <3> QED BY <3>1, <3>2 DEF unit
  <2>4. CASE n.parsing = 0
    BY <1>9, <1>12, <1>14, <2>1, <2>2, <2>3, <2>4 DEF ReadsOneRequest, stream
  <2>5. CASE n.parsing # 0
    <3>1. n.parsing = m.parsing /\ m.fault = "none"
      BY <1>4, <1>9, <1>14, <2>1, <2>3, <2>5 DEF stream
    <3> QED BY <1>4, <1>12, <2>1, <2>2, <3>1, <2>5 DEF ReadsOneRequest, stream
  <2> QED BY <2>4, <2>5
<1>15. CASE unit[1] = "head"
  <2>0. one.fault = k.script[unit[2]].fault
    BY <1>9, <1>15
  <2>1. n.parsing = 0
    <3> SUFFICES ASSUME n.parsing # 0
                 PROVE  FALSE
      OBVIOUS
    <3>1. n.used + 1 \in DOMAIN stream /\ stream[n.used + 1] = <<"body", n.parsing>>
      BY <1>4 DEF Orderly, stream
    <3> QED BY <1>6, <1>15, <3>1 DEF unit
  <2>2. CASE ~more
    <3>1. m = one /\ m.parsing = unit[2] /\ m.used = u /\ stream[u] = <<"head", unit[2]>>
      BY <1>8, <1>9, <1>12, <1>15, <2>2 DEF unit
    <3>2. \A p \in DOMAIN stream : n.used < p /\ p <= m.used => stream[p][2] = m.parsing
      BY <1>13, <3>1 DEF unit
    <3>3. CASE m.fault # "none"
      BY <1>12, <2>0, <2>1, <3>1, <3>2, <3>3 DEF ReadsOneRequest, stream
    <3>4. CASE m.fault = "none" /\ RequestComplete(c, m)
      BY <1>12, <2>0, <2>1, <3>1, <3>2, <3>4 DEF ReadsOneRequest, stream
    <3>5. CASE m.fault = "none" /\ ~RequestComplete(c, m)
      <4>1. k.script[m.parsing].body
        BY <1>11, <3>1, <3>5
      <4> QED BY <1>12, <2>0, <2>1, <3>1, <3>2, <3>5, <4>1 DEF ReadsOneRequest, stream
    <3> QED BY <3>3, <3>4, <3>5
  <2>3. CASE more
    <3>1. /\ one.fault = "none" /\ k.script[unit[2]].body /\ one.used < taken
          /\ m = Parse(c, one)
      BY <1>11, <1>12, <2>3 DEF more
    <3>2. u + 1 \in DOMAIN stream /\ stream[u + 1] = <<"body", unit[2]>>
      BY <1>4, <1>8, <1>15, <3>1 DEF Orderly, stream, unit
    <3>3. m.used = u + 1 /\ m.parsing = unit[2] /\ m.fault = "none"
      <4>1. PICK next : next = stream[u + 1]
        OBVIOUS
      <4>2. next \in UnitType /\ next[1] = "body" /\ next[2] = unit[2]
        <5>1. next \in UnitType
          <6>1. \A i \in DOMAIN stream : stream[i] \in UnitType
            BY <1>3
          <6> QED BY <3>2, <4>1, <6>1
        <5>2. next = <<"body", unit[2]>>
          BY <3>2, <4>1
        <5> QED BY <5>1, <5>2
      <4> QED BY <1>9, <1>10, <3>1, <4>1, <4>2, ParseGives DEF stream
    <3>4. RequestComplete(c, m)
      BY <1>8, <3>2, <3>3 DEF RequestComplete, Stream, stream
    <3>5. ASSUME NEW p \in DOMAIN stream, n.used < p, p <= m.used
          PROVE  stream[p][2] = m.parsing
      <4>1. p = u \/ p = u + 1
        <5>1. PICK e \in Nat : e = n.used
          BY <1>3
        <5>2. p \in Nat /\ e < p /\ p <= u + 1 /\ u = e + 1
          BY <1>6, <1>13, <3>3, <3>5, <5>1
        <5> QED BY <5>2
      <4> QED BY <3>2, <3>3, <4>1 DEF unit
    <3> QED BY <1>12, <2>0, <2>1, <3>1, <3>3, <3>4, <3>5 DEF ReadsOneRequest, stream
  <2> QED BY <2>2, <2>3
<1> QED BY <1>8, <1>14, <1>15

\* What a read uses is under way, and what it leaves in buffer_ was sent early.
LEMMA ReadSomeDelivers ==
    ASSUME NEW r, NEW n, NEW k, Good(r, n, k), Delivers(r, n, k), NEW s, NEW m,
           Good(s, m, k), Further(m, n, k), Carries(s, r), InFlight(r) = {"read"}, r.open,
           k.stage = "connected" => ReadsOneRequest(r, n, k, s, m)
    PROVE  Delivers(s, m, k)
<1> SUFFICES ASSUME k.stage = "connected"
             PROVE  OnTheWay(m, k) /\ Passed(s, m, k) /\ Heading(s, m, k) /\ Answering(s, m, k)
  BY DEF Delivers
<1> DEFINE stream == Units(k.script)
           request == k.script[m.parsing]
<1>1. /\ Responses(m, k) = Responses(n, k) /\ m.toClient = n.toClient
      /\ OnTheWay(n, k) /\ Passed(r, n, k) /\ MayRead(r) /\ Waited(k)
  BY DEF Responses, Further, Delivers, MayRead, ReadPhase
<1>2. /\ \A p \in DOMAIN stream : n.used < p /\ p <= m.used => stream[p][2] = m.parsing
      /\ n.parsing # 0 => m.parsing = n.parsing
      /\ m.used \in DOMAIN stream /\ stream[m.used][2] = m.parsing
      /\ m.parsing \in 1..Len(k.script) /\ m.parsing # 0
      /\ \/ /\ InFlight(s) = {"read"} /\ stream[m.used] = <<"head", m.parsing>>
            /\ request.body /\ request.fault = "none"
         \/ InFlight(s) = {"read_ok"} /\ request.fault = "none"
         \/ InFlight(s) = {"read_error"} /\ m.fault # "none" /\ request.fault = m.fault
         \/ /\ InFlight(s) = {"read_error"} /\ n.parsing = 0
            /\ n.used \in DOMAIN stream /\ stream[n.used][2] = m.parsing
  BY DEF ReadsOneRequest, Further
<1>3. /\ n.used \in Nat /\ m.used \in Nat /\ n.used < m.used
      /\ \A p \in DOMAIN stream : p \in Nat /\ stream[p][2] \in 1..Len(k.script)
  <2>1. n.used \in Nat /\ m.used \in Nat /\ n.used < m.used /\ StreamOK(k.script)
    BY ResponseTypes DEF Good, Further
  <2>2. stream \in Seq(UnitType) /\ \A p \in DOMAIN stream : stream[p][2] \in 1..Len(k.script)
    BY <2>1 DEF StreamOK
  <2> HIDE DEF stream
  <2>3. \A p \in DOMAIN stream : p \in Nat
    BY <2>2
  <2> QED BY <2>1, <2>2, <2>3
<1>4. Parsing(s, m, k)
  BY DEF Good, OrderInv
<1> HIDE DEF stream, request
<1>5. ~AnsweredIn(m.parsing, Responses(m, k))
  <2>1. \E x \in {"read", "read_ok", "read_error"} : x \in InFlight(s)
    BY <1>2
  <2>2. \A a \in Responses(m, k) : a.request < m.parsing
    BY <1>2, <1>4, <2>1 DEF Parsing
  <2>3. \A a \in Responses(m, k) : a.request \in Nat
    <3>1. \A a \in Responses(m, k) : a \in Reply
      BY ResponseTypes DEF Good
    <3> QED BY <3>1 DEF Reply
  <2>4. m.parsing \in Nat
    BY <1>2
  <2> QED BY <2>2, <2>3, <2>4 DEF AnsweredIn
<1>6. OnTheWay(m, k) /\ Answering(s, m, k)
  BY <1>1, <1>2 DEF OnTheWay, Answering
<1>7. \A p \in DOMAIN stream : p <= n.used =>
          Underway(stream[p][2], r, n) \/ Accounted(stream[p][2], Responses(n, k), k)
  BY <1>1 DEF Passed, stream
<1>8. Underway(m.parsing, s, m)
  BY <1>2 DEF Underway, ReadPhase
<1>9. \A i : Underway(i, r, n) => i = n.parsing
  BY DEF Underway
<1>10. ASSUME NEW p \in DOMAIN stream, p <= m.used
       PROVE  Underway(stream[p][2], s, m) \/ Accounted(stream[p][2], Responses(m, k), k)
  <2>1. CASE p <= n.used
    <3>1. stream[p][2] = n.parsing => n.parsing # 0
      BY <1>3
    <3> QED BY <1>1, <1>2, <1>7, <1>8, <1>9, <2>1, <3>1
  <2>2. CASE ~(p <= n.used)
    <3>1. n.used < p
      BY <1>3, <2>2
    <3> QED BY <1>2, <1>8, <1>10, <3>1
  <2> QED BY <2>1, <2>2
<1>11. ASSUME NEW p \in DOMAIN stream, m.used < p, InFlight(s) = {"read_ok"}
       PROVE  stream[p][2] \in k.early
  <2>1. m.parsing < stream[p][2]
    BY <1>4, <1>11 DEF Parsing, Left, stream
  <2>2. ~AnsweredIn(m.parsing, ToSet(k.answers))
    BY <1>5 DEF AnsweredIn, Responses
  <2> QED BY <1>1, <1>2, <1>3, <2>1, <2>2 DEF Waited
<1>12. Passed(s, m, k)
  <2>1. ~("write" \in InFlight(s)) /\ ~("write_ok" \in InFlight(s))
    BY <1>2
  <2>2. "read_ok" \in InFlight(s) => InFlight(s) = {"read_ok"}
    BY <1>2
  <2> QED BY <1>10, <1>11, <2>1, <2>2 DEF Passed, stream
<1>13. Heading(s, m, k)
  <2>1. CASE /\ InFlight(s) = {"read"} /\ stream[m.used] = <<"head", m.parsing>>
             /\ request.body /\ request.fault = "none"
    BY <1>2, <2>1 DEF Heading, stream, request
  <2>2. CASE InFlight(s) = {"read_ok"} /\ request.fault = "none"
    BY <1>2, <2>2 DEF Heading, stream, request
  <2>3. CASE InFlight(s) = {"read_error"} /\ m.fault # "none" /\ request.fault = m.fault
    BY <1>2, <2>3 DEF Heading, stream, request
  <2>4. CASE /\ InFlight(s) = {"read_error"} /\ n.parsing = 0
             /\ n.used \in DOMAIN stream /\ stream[n.used][2] = m.parsing
    <3>1. m.parsing \in k.early
      <4>1. n.used <= n.used
        BY <1>3
      <4>2. ~Underway(m.parsing, r, n)
        BY <1>2, <1>9, <2>4
      <4>3. Accounted(m.parsing, Responses(n, k), k)
        BY <1>7, <2>4, <4>1, <4>2
      <4> QED BY <1>1, <1>5, <4>3 DEF Accounted
    <3> QED BY <1>2, <2>4, <3>1 DEF Heading, stream, request
  <2> QED BY <1>2, <2>1, <2>2, <2>3, <2>4
<1> QED BY <1>6, <1>12, <1>13

-----------------------------------------------------------------------------
(* The steps of the client, and what is delivered. *)

\* Of two responses on their way, the earlier one is to the earlier request.
LEMMA EarlierFirst ==
    ASSUME NEW s, s \in Seq(Reply), InSequence(s), NEW i \in DOMAIN s, NEW j \in DOMAIN s,
           s[i].request < s[j].request, s[i].code # "cut"
    PROVE  i < j
<1>1. i \in Nat /\ j \in Nat /\ s[i] \in Reply /\ s[j] \in Reply
  <2> HIDE DEF Reply
  <2> QED OBVIOUS
<1>2. s[i].request \in Nat /\ s[j].request \in Nat
  BY <1>1 DEF Reply
<1>3. ~(j < i)
  BY <1>2 DEF InSequence, Before
<1>4. i # j
  BY <1>2
<1> QED BY <1>1, <1>3, <1>4

\* As many answers as there are requests, in their order, are answers to all.
LEMMA AllAnswered ==
    ASSUME NEW answers \in Seq(Reply), NEW N \in Nat, N <= Len(answers), InOrder(answers),
           \A a \in ToSet(answers) : a.request \in 1..N
    PROVE  \A i \in 1..N : AnsweredIn(i, ToSet(answers))
<1> DEFINE first == [i \in 1..N |-> answers[i].request]
<1>1. /\ \A i \in 1..N : i \in DOMAIN answers /\ i \in Nat
      /\ \A i \in DOMAIN answers : answers[i] \in ToSet(answers)
  BY DEF ToSet
<1>2. \A i, j \in 1..N : i < j => answers[i].request < answers[j].request
  BY <1>1 DEF InOrder, InSequence, Before
<1>3. first \in [1..N -> 1..N]
  BY <1>1
<1>4. \A i, j \in 1..N : i # j => first[i] # first[j]
  <2>1. ASSUME NEW i \in 1..N, NEW j \in 1..N, i < j
        PROVE  first[i] # first[j]
    <3>1. first[i] < first[j] /\ first[i] \in 1..N /\ first[j] \in 1..N
      BY <1>2, <1>3, <2>1
    <3> HIDE DEF first
    <3> QED BY <3>1
  <2> HIDE DEF first
  <2>2. \A i, j \in 1..N : i # j => i < j \/ j < i
    OBVIOUS
  <2> QED BY <2>1, <2>2
<1> HIDE DEF first
<1>5. first \in Injection(1..N, 1..N)
  BY <1>3, <1>4, Zenon DEF Injection, IsInjective
<1>6. IsFiniteSet(1..N) /\ Cardinality(1..N) = Cardinality(1..N)
  BY FS_Interval
<1>7. first \in Surjection(1..N, 1..N)
  BY <1>5, <1>6, FS_Injection
<1>8. ASSUME NEW i \in 1..N
      PROVE  AnsweredIn(i, ToSet(answers))
  <2>1. PICK j \in 1..N : first[j] = i
    BY <1>7 DEF Surjection
  <2>2. answers[j].request = i /\ answers[j] \in ToSet(answers)
    BY <1>1, <2>1 DEF first
  <2> QED BY <2>2 DEF AnsweredIn
<1> QED BY <1>8

\* What becomes of the connection, but not of what this is about.
LEMMA StillDelivers ==
    ASSUME NEW r, NEW n, NEW k, Delivers(r, n, k), NEW m,
           m.used = n.used, m.pulled = n.pulled, m.parsing = n.parsing, m.fault = n.fault,
           m.reply = n.reply, m.toClient = n.toClient
    PROVE  Delivers(r, m, k)
<1>1. Responses(m, k) = Responses(n, k)
  BY DEF Responses
<1>2. \A i : Underway(i, r, m) <=> Underway(i, r, n)
  BY DEF Underway
<1>3. OnTheWay(n, k) => OnTheWay(m, k)
  BY <1>1 DEF OnTheWay
<1>4. Passed(r, n, k) => Passed(r, m, k)
  BY <1>1, <1>2 DEF Passed
<1>5. Heading(r, n, k) => Heading(r, m, k)
  BY DEF Heading
<1>6. Answering(r, n, k) => Answering(r, m, k)
  BY <1>1 DEF Answering
<1> QED BY <1>3, <1>4, <1>5, <1>6 DEF Delivers

\* A client that reads no further.
LEMMA EndedDelivers ==
    ASSUME NEW r, NEW n, NEW k, Delivers(r, n, k), NEW m, NEW j, j.stage # "connected",
           j.script = k.script, j.answers = k.answers, j.early = k.early
    PROVE  Delivers(r, m, j)
<1>1. \A a : Truthful(a, k) => Truthful(a, j)
  BY DEF Truthful
<1>2. \A x, answers : Settled(x, answers, k) => Settled(x, answers, j)
  BY DEF Settled, Accounted
<1>3. Waited(j) /\ Delivered(j)
  BY <1>1, <1>2 DEF Delivers, Waited, Delivered
<1> QED BY <1>3 DEF Delivers

LEMMA ConnectDelivers ==
    ASSUME NEW s, NEW m, NEW j, InFlight(s) \in {{"read"}, {"Run"}},
           m.parsing = 0, m.used = 0, m.toClient = << >>,
           j.script = << >>, j.answers = << >>
    PROVE  Delivers(s, m, j)
<1>1. Responses(m, j) = {} /\ ToSet(j.answers) = {} /\ ToSet(m.toClient) = {}
  BY DEF Responses, ToSet
<1>2. Len(j.script) = 0 /\ Orderly(j.script)
  BY EmptyIsOrderly
<1>3. Waited(j) /\ Delivered(j) /\ OnTheWay(m, j)
  BY <1>1, <1>2 DEF Waited, Delivered, OnTheWay
<1>4. Heading(s, m, j) /\ Answering(s, m, j)
  BY DEF Heading, Answering
<1>5. DOMAIN Units(j.script) = {}
  <2>1. Units(j.script) = << >>
    BY NoUnits
  <2> QED BY <2>1
<1>6. Passed(s, m, j)
  BY <1>5 DEF Passed
<1> QED BY <1>2, <1>3, <1>4, <1>6 DEF Delivers

\* Of the responses behind one that is kept, none answers a request before it.
LEMMA ResetDelivers ==
    ASSUME NEW r, NEW n, NEW k, Good(r, n, k), Delivers(r, n, k), NEW m,
           NEW kept \in 0..Len(n.toClient), m.toClient = SubSeq(n.toClient, 1, kept),
           k.stage = "connected" => Arriving(n, k),
           ~r.open \/ InFlight(r) = {}
    PROVE  Delivers(r, m, k)
<1> SUFFICES ASSUME k.stage = "connected"
             PROVE  OnTheWay(m, k)
  BY DEF Delivers, Passed, Heading, Answering, MayRead
<1> DEFINE all == n.toClient
           some == m.toClient
<1>1. all \in Seq(Reply) /\ InSequence(all) /\ OnTheWay(n, k)
  BY ResponseTypes DEF Good, Arriving, Delivers
<1>2. /\ \A i \in DOMAIN some : i \in 1..kept /\ i \in DOMAIN all /\ some[i] = all[i]
      /\ \A i \in DOMAIN all : i <= kept => i \in DOMAIN some
      /\ \A i \in DOMAIN all : i \in Nat
  <2> HIDE DEF Reply
  <2> QED BY <1>1
<1> SUFFICES ASSUME NEW i \in DOMAIN some
             PROVE  Truthful(some[i], k) /\ Settled(some[i].request, Responses(m, k), k)
  BY DEF OnTheWay, ToSet
<1>3. Truthful(all[i], k) /\ Settled(all[i].request, Responses(n, k), k)
  BY <1>1, <1>2 DEF OnTheWay, ToSet
<1>4. ASSUME NEW q \in 1..Len(k.script), q < all[i].request
      PROVE  Accounted(q, Responses(m, k), k)
  <2> SUFFICES ASSUME ~(q \in k.early), ~AnsweredIn(q, ToSet(k.answers))
               PROVE  Accounted(q, Responses(m, k), k)
    BY DEF Accounted, AnsweredIn, Responses
  <2>1. PICK b \in ToSet(all) : b.request = q
    BY <1>3, <1>4 DEF Settled, Accounted, AnsweredIn, Responses
  <2>2. PICK j \in DOMAIN all : all[j] = b
    BY <2>1 DEF ToSet
  <2>3. all[j].code # "cut"
    <3>1. Truthful(b, k)
      BY <1>1, <2>1 DEF OnTheWay
    <3> QED BY <2>1, <2>2, <3>1 DEF Truthful, NoReply
  <2>4. j < i
    BY <1>1, <1>2, <1>4, <2>1, <2>2, <2>3, EarlierFirst
  <2>5. j \in DOMAIN some /\ some[j] = b
    <3>1. i <= kept /\ i \in Nat /\ j \in Nat /\ kept \in Nat
      BY <1>2
    <3> HIDE DEF all, some
    <3>2. j <= kept
      BY <2>4, <3>1
    <3> QED BY <1>2, <2>2, <3>2
  <2> QED BY <2>1, <2>5 DEF Accounted, AnsweredIn, Responses, ToSet
<1> QED BY <1>2, <1>3, <1>4 DEF Settled

\* A response that is read stays one.
LEMMA ReceivedResponses ==
    ASSUME NEW r, NEW n, NEW k, ConnType(r, n, k), NEW m, NEW j, n.toClient # << >>,
           m.toClient = Tail(n.toClient), j.answers = Append(k.answers, Head(n.toClient))
    PROVE  Responses(m, j) = Responses(n, k)
<1> DEFINE s == n.toClient
           t == Tail(s)
           answer == Head(s)
<1>1. s \in Seq(Reply) /\ k.answers \in Seq(Reply)
  BY ResponseTypes
<1> HIDE DEF Reply
<1>2. answer \in Reply /\ answer \in ToSet(s) /\ ToSet(t) \subseteq ToSet(s)
  BY <1>1, TailSequence
<1>3. ToSet(j.answers) = ToSet(k.answers) \cup {answer}
  BY <1>1, <1>2, AppendSequence
<1>4. \A i \in DOMAIN s : s[i] = answer \/ (i - 1 \in DOMAIN t /\ t[i - 1] = s[i])
  BY <1>1
<1> HIDE DEF s, t, answer
<1>5. \A b \in ToSet(s) : b = answer \/ b \in ToSet(t)
  BY <1>4 DEF ToSet
<1>6. ToSet(s) = ToSet(t) \cup {answer}
  BY <1>2, <1>5
<1> QED BY <1>3, <1>6 DEF Responses, s, t

\* The responses that are there are read in turn.
LEMMA ReceiveDelivers ==
    ASSUME NEW r, NEW n, NEW k, Good(r, n, k), Delivers(r, n, k), k.stage = "connected",
           NEW m, NEW j, Carried(m, n), n.toClient # << >>, m.toClient = Tail(n.toClient),
           Head(n.toClient).code # "cut",
           j.script = k.script, j.early = k.early, j.stage = k.stage,
           j.answers = Append(k.answers, Head(n.toClient))
    PROVE  Delivers(r, m, j)
<1>1. n.toClient \in Seq(Reply) /\ k.answers \in Seq(Reply)
  BY ResponseTypes DEF Good
<1>2. Arriving(n, k) /\ OnTheWay(n, k) /\ Waited(k) /\ Delivered(k)
  BY DEF Good, OrderInv, Delivers
<1>3. PICK answer \in Reply : answer = Head(n.toClient)
  <2> HIDE DEF Reply
  <2> QED BY <1>1, TailSequence
<1>4. /\ answer \in ToSet(n.toClient)
      /\ ToSet(n.toClient) = ToSet(m.toClient) \cup {answer}
      /\ \A b \in ToSet(m.toClient) : Before(answer, b)
      /\ ToSet(j.answers) = ToSet(k.answers) \cup {answer}
  <2> HIDE DEF Reply
  <2> DEFINE s == n.toClient
             t == Tail(s)
  <2>1. /\ answer \in ToSet(s) /\ ToSet(t) \subseteq ToSet(s)
        /\ \A b \in ToSet(t) : Before(answer, b)
    BY <1>1, <1>2, <1>3, TailSequence DEF Arriving
  <2>2. ToSet(j.answers) = ToSet(k.answers) \cup {answer}
    BY <1>1, <1>3, AppendSequence
  <2>3. \A i \in DOMAIN s : s[i] = answer \/ (i - 1 \in DOMAIN t /\ t[i - 1] = s[i])
    BY <1>1, <1>3
  <2> HIDE DEF s, t
  <2>4. \A b \in ToSet(s) : b = answer \/ b \in ToSet(t)
    BY <2>3 DEF ToSet
  <2>5. ToSet(s) = ToSet(t) \cup {answer}
    BY <2>1, <2>4
  <2> QED BY <2>1, <2>2, <2>5 DEF s, t
<1>5. Responses(m, j) = Responses(n, k)
  BY <1>4 DEF Responses
<1>6. /\ \A a : Truthful(a, k) => Truthful(a, j)
      /\ \A x, answers : Settled(x, answers, k) => Settled(x, answers, j)
  BY DEF Truthful, Settled, Accounted
<1>7. Waited(j)
  BY <1>2, <1>4 DEF Waited, AnsweredIn
<1>8. ASSUME NEW i \in 1..Len(k.script), i < answer.request, ~(i \in k.early)
      PROVE  AnsweredIn(i, ToSet(j.answers))
  <2>1. Settled(answer.request, Responses(n, k), k)
    BY <1>2, <1>4 DEF OnTheWay
  <2>2. PICK b \in Responses(n, k) : b.request = i
    BY <1>8, <2>1 DEF Settled, Accounted, AnsweredIn
  <2>3. CASE b \in ToSet(m.toClient)
    <3>1. Before(answer, b) /\ Truthful(b, k)
      BY <1>2, <1>4, <2>3 DEF OnTheWay
    <3>2. b.code # "cut"
      BY <2>2, <3>1 DEF Truthful, NoReply
    <3>3. answer.request \in Nat
      BY DEF Reply
    <3> QED BY <1>8, <2>2, <3>1, <3>2, <3>3 DEF Before
  <2> QED BY <1>4, <2>2, <2>3 DEF Responses, AnsweredIn
<1>9. Delivered(j)
  <2>1. Truthful(answer, j)
    BY <1>2, <1>4, <1>6 DEF OnTheWay
  <2>2. Settled(answer.request, ToSet(j.answers), j)
    BY <1>8 DEF Settled, Accounted
  <2>3. \A i : AnsweredIn(i, ToSet(k.answers)) => AnsweredIn(i, ToSet(j.answers))
    BY <1>4 DEF AnsweredIn
  <2>4. \A a \in ToSet(k.answers) : Truthful(a, j) /\ Settled(a.request, ToSet(j.answers), j)
    BY <1>2, <1>6, <2>3 DEF Delivered, Settled, Accounted
  <2> QED BY <1>4, <2>1, <2>2, <2>4 DEF Delivered
<1>10. OnTheWay(m, j)
  BY <1>2, <1>4, <1>5, <1>6 DEF OnTheWay
<1>11. ASSUME r.open
       PROVE  Passed(r, m, j) /\ Heading(r, m, j) /\ Answering(r, m, j)
  <2>1. Passed(r, n, k) /\ Heading(r, n, k) /\ Answering(r, n, k)
    BY <1>11 DEF Delivers
  <2>2. /\ m.used = n.used /\ m.pulled = n.pulled /\ m.reply = n.reply
        /\ m.parsing = n.parsing /\ m.fault = n.fault
    BY DEF Carried
  <2>3. \A i : Underway(i, r, n) => Underway(i, r, m)
    BY <2>2 DEF Underway
  <2>4. \A i : Accounted(i, Responses(n, k), k) => Accounted(i, Responses(m, j), j)
    BY <1>5 DEF Accounted
  <2>5. Passed(r, m, j)
    BY <2>1, <2>2, <2>3, <2>4 DEF Passed
  <2>6. Heading(r, m, j)
    BY <2>1, <2>2 DEF Heading
  <2>7. Answering(r, m, j)
    BY <1>5, <1>6, <2>1, <2>2 DEF Answering
  <2> QED BY <2>5, <2>6, <2>7
<1> QED BY <1>7, <1>9, <1>10, <1>11 DEF Delivers

\* A script, and the same script and one more request.
OneMore(k, j) ==
    LET N == Len(k.script)
        stream == Units(k.script)
        all == Units(j.script)
    IN  /\ N \in Nat /\ Len(j.script) = N + 1
        /\ \A i \in 1..N : i \in 1..(N + 1) /\ j.script[i] = k.script[i]
        /\ \A p \in DOMAIN stream : p \in DOMAIN all /\ all[p] = stream[p]
        /\ \A p \in DOMAIN all : /\ p \in Nat
                                 /\ \/ p \in DOMAIN stream
                                    \/ p > Len(stream) /\ all[p][2] = N + 1

LEMMA ScriptGrows ==
    ASSUME NEW k, NEW j, NEW request \in Requests, k.script \in Seq(Requests),
           StreamOK(k.script), j.script = Append(k.script, request)
    PROVE  OneMore(k, j)
<1> DEFINE N == Len(k.script)
           last == N + 1
           stream == Units(k.script)
           all == Units(j.script)
<1>1. /\ N \in Nat /\ Len(j.script) = N + 1
      /\ \A i \in 1..N : i \in 1..(N + 1) /\ j.script[i] = k.script[i]
  OBVIOUS
<1>2. PICK L \in Nat :
          /\ L = Len(stream) /\ DOMAIN stream = 1..L
          /\ \A p \in 1..L : all[p] = stream[p]
          /\ all[L + 1] = <<"head", last>>
          /\ \/ request.body /\ DOMAIN all = 1..(L + 2) /\ all[L + 2] = <<"body", last>>
             \/ ~request.body /\ DOMAIN all = 1..(L + 1)
  <2>1. PICK script \in Seq(Requests) : script = k.script
    OBVIOUS
  <2> QED BY <2>1, UnitsBehind
<1> HIDE DEF all, stream, last
<1>3. CASE request.body /\ DOMAIN all = 1..(L + 2) /\ all[L + 2] = <<"body", last>>
  <2>1. \A p \in 1..(L + 2) : p \in 1..L \/ (p > L /\ (p = L + 1 \/ p = L + 2))
    OBVIOUS
  <2>2. \A p \in 1..L : p \in 1..(L + 2)
    OBVIOUS
  <2> QED BY <1>1, <1>2, <1>3, <2>1, <2>2 DEF OneMore, all, stream, last
<1>4. CASE ~request.body /\ DOMAIN all = 1..(L + 1)
  <2>1. \A p \in 1..(L + 1) : p \in 1..L \/ (p > L /\ p = L + 1)
    OBVIOUS
  <2>2. \A p \in 1..L : p \in 1..(L + 1)
    OBVIOUS
  <2> QED BY <1>1, <1>2, <1>4, <2>1, <2>2 DEF OneMore, all, stream, last
<1> QED BY <1>2, <1>3, <1>4

\* A request that is not early has waited for the answers to all before it.
LEMMA SendDelivers ==
    ASSUME NEW r, NEW n, NEW k, Good(r, n, k), Delivers(r, n, k), k.stage = "connected",
           NEW m, NEW j, NEW request \in Requests,
           SendsOn(m, n), j.stage = k.stage, j.answers = k.answers,
           j.script = Append(k.script, request),
           j.early = IF Len(k.answers) < Len(k.script) THEN k.early \cup {Len(k.script) + 1}
                     ELSE k.early
    PROVE  Delivers(r, m, j)
<1> DEFINE N == Len(k.script)
           stream == Units(k.script)
           all == Units(j.script)
<1>1. /\ k.script \in Seq(Requests) /\ StreamOK(k.script) /\ k.answers \in Seq(Reply)
      /\ n.used <= n.pulled /\ n.pulled <= n.sent /\ n.sent <= Len(stream)
      /\ n.used \in Nat /\ n.pulled \in Nat /\ n.sent \in Nat /\ n.parsing \in Nat
      /\ n.parsing <= N /\ InOrder(k.answers)
  BY ResponseTypes DEF Good, ConnType, OrderInv
<1>2. /\ N \in Nat /\ Len(j.script) = N + 1
      /\ \A i \in 1..N : i \in 1..(N + 1) /\ j.script[i] = k.script[i]
      /\ \A p \in DOMAIN stream : p \in DOMAIN all /\ all[p] = stream[p]
      /\ \A p \in DOMAIN all : /\ p \in Nat
                               /\ \/ p \in DOMAIN stream
                                  \/ p > Len(stream) /\ all[p][2] = N + 1
  <2>1. k.script \in Seq(Requests) /\ StreamOK(k.script)
    BY <1>1
  <2>2. OneMore(k, j)
    BY <2>1, ScriptGrows
  <2> QED BY <2>2 DEF OneMore
<1>3. Orderly(j.script)
  BY <1>1, OrderlyGrows DEF Delivers
<1>4. /\ m.used = n.used /\ m.pulled = n.pulled /\ m.reply = n.reply
      /\ m.parsing = n.parsing /\ m.fault = n.fault /\ m.toClient = n.toClient
      /\ Responses(m, j) = Responses(n, k)
  BY DEF SendsOn, Responses
<1> HIDE DEF stream, all
<1>5. k.early \subseteq j.early
  OBVIOUS
<1>6. ASSUME NEW a, Truthful(a, k)
      PROVE  Truthful(a, j)
  BY <1>2, <1>5, <1>6 DEF Truthful
<1>7. ASSUME NEW a, Truthful(a, k), NEW answers, Settled(a.request, answers, k)
      PROVE  Settled(a.request, answers, j)
  <2> SUFFICES ASSUME NEW i \in 1..Len(j.script), i < a.request
               PROVE  Accounted(i, answers, j)
    BY DEF Settled
  <2>1. a.request = 0 \/ a.request \in 1..N
    BY <1>7 DEF Truthful, NoReply
  <2>2. i \in 1..N
    BY <1>2, <2>1
  <2> QED BY <1>5, <1>7, <2>2 DEF Settled, Accounted
<1>8. Waited(j)
  <2> SUFFICES ASSUME NEW i \in 1..(N + 1), ~(i \in j.early), NEW q \in 1..(N + 1), q < i
               PROVE  AnsweredIn(q, ToSet(k.answers))
    BY <1>2 DEF Waited
  <2>1. q \in 1..N
    BY <1>2
  <2>2. CASE i \in 1..N
    BY <1>5, <2>1, <2>2 DEF Delivers, Waited
  <2>3. CASE i = N + 1
    <3>1. ~(Len(k.answers) < N)
      BY <2>3
    <3>2. N <= Len(k.answers)
      BY <1>1, <1>2, <3>1
    <3>3. \A a \in ToSet(k.answers) : a.request \in 1..N
      BY <1>1 DEF Delivers, Delivered, Truthful, InOrder
    <3> HIDE DEF N
    <3> QED BY <1>1, <1>2, <2>1, <3>2, <3>3, AllAnswered
  <2> QED BY <1>2, <2>2, <2>3
<1>9. Delivered(j)
  BY <1>6, <1>7 DEF Delivers, Delivered
<1>10. OnTheWay(m, j)
  BY <1>4, <1>6, <1>7 DEF Delivers, OnTheWay
<1>11. ASSUME r.open
       PROVE  Passed(r, m, j) /\ Heading(r, m, j) /\ Answering(r, m, j)
  <2>1. Passed(r, n, k) /\ Heading(r, n, k) /\ Answering(r, n, k) /\ Parsing(r, n, k)
    BY <1>11 DEF Delivers, Good, OrderInv
  <2>2. Answering(r, m, j)
    BY <1>4, <1>6, <1>7, <2>1 DEF Answering
  <2>3. \A i : Underway(i, r, n) => Underway(i, r, m)
    BY <1>4 DEF Underway
  <2>4. \A i : Accounted(i, Responses(n, k), k) => Accounted(i, Responses(m, j), j)
    BY <1>4, <1>5 DEF Accounted
  <2>5. \A p \in DOMAIN all : p <= n.pulled => p \in DOMAIN stream
    <3>1. Len(stream) \in Nat
      BY <1>1 DEF StreamOK, stream
    <3> QED BY <1>1, <1>2, <3>1
  <2>7. \A p \in DOMAIN all : p <= n.used => p <= n.pulled
    BY <1>1, <1>2
  <2>8. Passed(r, m, j)
    BY <1>2, <1>4, <1>5, <2>1, <2>3, <2>4, <2>5, <2>7 DEF Passed, stream, all
  <2>9. n.parsing # 0 => j.script[n.parsing] = k.script[n.parsing]
    BY <1>1, <1>2
  <2>10. "read_ok" \in InFlight(r) \/ "read_error" \in InFlight(r) => n.parsing # 0
    BY <1>11, <2>1 DEF Good, ConnType, Parsing
  <2>11. Heading(r, m, j)
    <3>1. CASE "read" \in InFlight(r) /\ n.parsing # 0
      <4>1. "read_ok" \in InFlight(r) \/ "read_error" \in InFlight(r) =>
                n.used \in DOMAIN all /\ all[n.used][2] = n.parsing
        BY <1>2, <2>1 DEF Heading, stream
      <4> QED BY <1>2, <1>4, <1>5, <2>1, <2>9, <3>1, <4>1 DEF Heading, stream, all
    <3>2. CASE ~("read" \in InFlight(r) /\ n.parsing # 0)
      <4>1. "read_ok" \in InFlight(r) \/ "read_error" \in InFlight(r) =>
                n.used \in DOMAIN all /\ all[n.used][2] = n.parsing
        BY <1>2, <2>1 DEF Heading, stream
      <4> QED BY <1>4, <1>5, <2>1, <2>9, <2>10, <3>2, <4>1 DEF Heading, all
    <3> QED BY <3>1, <3>2
  <2> QED BY <2>2, <2>8, <2>11
<1> QED BY <1>3, <1>8, <1>9, <1>10, <1>11 DEF Delivers

-----------------------------------------------------------------------------
(* The steps of the session, and what its end has said. *)

LEMMA CoversStill ==
    ASSUME NEW x, NEW n, NEW m, NEW k, Covers(x, n, k), StreamOK(k.script),
           n.pulled \in Nat, m.pulled \in Nat, n.pulled <= m.pulled
    PROVE  Covers(x, m, k)
<1>1. \A p \in DOMAIN Units(k.script) : p \in Nat
  BY DEF StreamOK
<1>2. \A p \in DOMAIN Units(k.script) : p > m.pulled => p > n.pulled
  BY <1>1
<1> QED BY <1>2 DEF Covers

\* The session takes no more from the socket, and adds no response.
LEMMA TakenStill ==
    ASSUME NEW r, NEW n, NEW k, Taken(r, n, k), ConnType(r, n, k), NEW s, NEW m,
           m.toClient = n.toClient, m.pulled \in Nat, n.pulled <= m.pulled,
           "write" \in InFlight(s) => "write" \in InFlight(r) /\ m.reply = n.reply
    PROVE  Taken(s, m, k) /\ Responses(m, k) = Responses(n, k)
<1>1. StreamOK(k.script) /\ n.pulled \in Nat
  BY ResponseTypes
<1>2. \A x : Covers(x, n, k) => Covers(x, m, k)
  BY <1>1, CoversStill
<1>3. Responses(m, k) = Responses(n, k)
  BY DEF Responses
<1> QED BY <1>2, <1>3 DEF Taken

\* Once the client reads no further.
LEMMA EndedStill ==
    ASSUME NEW r, NEW n, NEW k, Ends(r, n, k), k.stage # "connected", NEW s, NEW m,
           s.open => r.open, MayRead(s) => MayRead(r), m.sent = n.sent, n.reset => m.reset,
           n.deadline = "passed" => m.deadline = "passed" \/ MayRead(r)
    PROVE  Ends(s, m, k)
BY DEF Ends, Ended

\* A session that is closed and open has nothing in flight.
LEMMA ClosedIsQuiet ==
    ASSUME NEW r, RecordInv(r), r.state = "kClosed", r.open
    PROVE  InFlight(r) = {}
BY DEF RecordInv, Quiet, InFlight

LEMMA ReadSomeEnds ==
    ASSUME NEW r, NEW n, NEW k, Good(r, n, k), Ends(r, n, k), NEW s, NEW m,
           Further(m, n, k), Carries(s, r), InFlight(r) = {"read"},
           s = r \/ InFlight(s) \in {{"read_error"}, {"read_ok"}}
    PROVE  Ends(s, m, k)
<1> SUFFICES ASSUME s.open
             PROVE  Ends(s, m, k)
  BY DEF Ends
<1>1. /\ m.toClient = n.toClient /\ m.deadline = n.deadline /\ m.reset = n.reset
      /\ m.pulled \in Nat /\ n.pulled <= m.pulled
      /\ s.state = r.state /\ s.keepAlive = r.keepAlive /\ r.open
  BY DEF Further, NetRecord, Carries
<1>2. /\ "write" \notin InFlight(s) /\ "write_ok" \notin InFlight(s)
      /\ \A x \in {"read_timeout", "read_eof", "write_error"} : x \notin InFlight(s)
  OBVIOUS
<1>3. MayRead(r)
  BY DEF MayRead, ReadPhase
<1>4. CASE k.stage = "connected"
  <2>1. Taken(r, n, k) /\ Ending(r, n, k)
    BY <1>1, <1>4 DEF Ends
  <2>2. Taken(s, m, k) /\ Responses(m, k) = Responses(n, k)
    BY <1>1, <1>2, <2>1, TakenStill DEF Good
  <2>3. Ending(s, m, k)
    BY <1>1, <1>2, <2>1, <2>2 DEF Ending
  <2> QED BY <1>4, <2>2, <2>3 DEF Ends
<1>5. CASE k.stage # "connected"
  BY <1>1, <1>3, <1>5 DEF Ends, Ended
<1> QED BY <1>4, <1>5

LEMMA ReadEndsEnds ==
    ASSUME NEW r, NEW n, NEW k, Good(r, n, k), Ends(r, n, k), NEW s, Carries(s, r),
           InFlight(r) = {"read"}, NEW x \in ReadPhase, InFlight(s) = {x},
           k.stage = "connected" /\ r.open => n.deadline = "passed"
    PROVE  Ends(s, n, k)
<1>1. s.open = r.open /\ MayRead(r)
  BY DEF Carries, MayRead, ReadPhase
<1>2. CASE k.stage = "connected"
  <2> SUFFICES ASSUME s.open
               PROVE  Taken(s, n, k) /\ Ending(s, n, k)
    BY <1>2 DEF Ends
  <2>1. Taken(r, n, k) /\ n.deadline = "passed"
    BY <1>1, <1>2 DEF Ends
  <2>2. "write" \notin InFlight(s)
    BY DEF ReadPhase
  <2> QED BY <2>1, <2>2 DEF Taken, Ending
<1>3. CASE k.stage # "connected"
  BY <1>1, <1>3, EndedStill
<1> QED BY <1>2, <1>3

LEMMA WriteDoneEnds ==
    ASSUME NEW r, NEW n, NEW k, Good(r, n, k), Delivers(r, n, k), Ends(r, n, k), NEW s, NEW m,
           Carried(m, n), m.toClient = Append(n.toClient, n.reply),
           m.deadline = n.deadline, m.reset = n.reset, Carries(s, r), r.open,
           InFlight(r) = {"write"}, InFlight(s) = {"write_ok"}
    PROVE  Ends(s, m, k)
<1>1. s.open = r.open /\ s.keepAlive = r.keepAlive /\ s.state = r.state /\ m.pulled = n.pulled
  BY DEF Carries, Carried
<1>2. CASE k.stage = "connected"
  <2>1. /\ Taken(r, n, k) /\ Ending(r, n, k) /\ n.reply.code # "cut"
        /\ n.reply.keepAlive = r.keepAlive
    BY <1>2 DEF Ends, Delivers, Answering, Good, OrderInv, Replying
  <2>2. Responses(m, k) = Responses(n, k) \cup {n.reply}
    <3>1. n.toClient \in Seq(Reply) /\ n.reply \in Reply
      BY ResponseTypes DEF Good
    <3> HIDE DEF Reply
    <3>2. PICK reply \in Reply : reply = n.reply
      BY <3>1
    <3>3. ToSet(Append(n.toClient, reply)) = ToSet(n.toClient) \cup {reply}
      BY <3>1, AppendSequence
    <3> QED BY <3>2, <3>3 DEF Responses
  <2>3. \A x : Covers(x, n, k) => Covers(x, m, k)
    BY <1>1 DEF Covers
  <2>4. Taken(s, m, k)
    BY <2>1, <2>2, <2>3 DEF Taken
  <2>5. LastSaid(Responses(n, k)) => LastSaid(Responses(m, k))
    BY <2>2 DEF LastSaid
  <2>6. ~r.keepAlive => LastSaid(Responses(m, k))
    BY <2>1, <2>2 DEF LastSaid
  <2>7. Ending(s, m, k)
    BY <1>1, <2>1, <2>2, <2>5, <2>6 DEF Ending
  <2> QED BY <1>2, <2>4, <2>7 DEF Ends
<1>3. CASE k.stage # "connected"
  <2>1. MayRead(s) => MayRead(r)
    BY <1>1 DEF MayRead, ReadPhase
  <2>2. m.sent = n.sent
    BY DEF Carried
  <2> QED BY <1>1, <1>3, <2>1, <2>2, EndedStill
<1> QED BY <1>2, <1>3

LEMMA WriteFailsEnds ==
    ASSUME NEW r, NEW n, NEW k, Good(r, n, k), Ends(r, n, k), NEW s, NEW m,
           Carried(m, n), m.toClient \in {n.toClient, Append(n.toClient, NoReply)},
           m.deadline = n.deadline, m.reset = n.reset, Carries(s, r),
           InFlight(s) = {"write_error"},
           k.stage = "connected" /\ r.open => n.deadline = "passed"
    PROVE  Ends(s, m, k)
<1>1. s.open = r.open /\ m.pulled = n.pulled /\ m.sent = n.sent
  BY DEF Carries, Carried
<1>2. CASE k.stage = "connected"
  <2> SUFFICES ASSUME s.open
               PROVE  Taken(s, m, k) /\ Ending(s, m, k)
    BY <1>2 DEF Ends
  <2>1. Taken(r, n, k) /\ m.deadline = "passed"
    BY <1>1, <1>2 DEF Ends
  <2>2. Responses(m, k) \subseteq Responses(n, k) \cup {NoReply}
    <3>1. n.toClient \in Seq(Reply) /\ NoReply \in Reply
      BY ResponseTypes DEF Good, NoReply, Reply, Codes
    <3> HIDE DEF Reply
    <3>2. ToSet(Append(n.toClient, NoReply)) = ToSet(n.toClient) \cup {NoReply}
      BY <3>1, AppendSequence
    <3> QED BY <3>2 DEF Responses
  <2>3. \A x : Covers(x, n, k) => Covers(x, m, k)
    BY <1>1 DEF Covers
  <2>4. Covers(NoReply.request, m, k)
    <3>1. 0 \notin 1..Len(k.script)
      BY ResponseTypes DEF Good
    <3> QED BY <3>1 DEF Covers, NoReply
  <2> QED BY <2>1, <2>2, <2>3, <2>4 DEF Taken, Ending
<1>3. CASE k.stage # "connected"
  <2>1. ~MayRead(s)
    BY DEF MayRead, ReadPhase
  <2> QED BY <1>1, <1>3, <2>1, EndedStill
<1> QED BY <1>2, <1>3

\* Nothing that was cut off is behind a connection that reads on.
LEMMA NextReadEnds ==
    ASSUME NEW r, NEW n, NEW k, Good(r, n, k), Delivers(r, n, k), Ends(r, n, k), NEW s, NEW m,
           ReadsAnew(m, n), RecordInv(s), s.open = r.open,
           s.open => InFlight(s) = {"read"}, MayRead(r)
    PROVE  Ends(s, m, k)
<1> SUFFICES ASSUME s.open
             PROVE  Ends(s, m, k)
  BY DEF Ends
<1>1. r.open /\ InFlight(s) = {"read"} /\ s.state # "kClosed"
  BY ClosedIsQuiet
<1>2. CASE k.stage = "connected"
  <2>1. /\ Taken(r, n, k) /\ OnTheWay(n, k) /\ Delivered(k)
        /\ \A a \in Responses(n, k) : a.keepAlive
    BY <1>1, <1>2 DEF Ends, Delivers, Good, OrderInv, ReadsOn
  <2>2. \A a \in Responses(n, k) : Truthful(a, k)
    BY <2>1 DEF Responses, OnTheWay, Delivered
  <2>3. \A a \in Responses(n, k) : a.code # "cut"
    BY <2>1, <2>2 DEF Truthful, NoReply
  <2>4. Taken(s, m, k) /\ Responses(m, k) = Responses(n, k)
    <3>1. m.pulled \in Nat /\ n.pulled <= m.pulled /\ m.toClient = n.toClient
      BY ResponseTypes DEF Good, ReadsAnew
    <3> QED BY <1>1, <2>1, <3>1, TakenStill DEF Good
  <2>5. Ending(s, m, k)
    BY <1>1, <2>3, <2>4 DEF Ending
  <2> QED BY <1>2, <2>4, <2>5 DEF Ends
<1>3. CASE k.stage # "connected"
  BY <1>1, <1>3 DEF Ends, Ended
<1> QED BY <1>2, <1>3

\* Behind a request that is complete, or is rejected with its head and has no body,
\* the client has sent nothing of it.
LEMMA ParsedIsCovered ==
    ASSUME NEW r, NEW n, NEW k, Good(r, n, k), Delivers(r, n, k), k.stage = "connected",
           r.open, NEW x \in {"read_ok", "read_error"}, InFlight(r) = {x}
    PROVE  Covers(n.parsing, n, k)
<1> DEFINE stream == Units(k.script)
<1>1. Heading(r, n, k) /\ Parsing(r, n, k) /\ StreamOK(k.script)
  BY ResponseTypes DEF Delivers, Good, OrderInv
<1>2. /\ n.used \in Nat /\ n.pulled \in Nat /\ n.used <= n.pulled /\ n.parsing \in Nat
      /\ \A p \in DOMAIN stream : p \in Nat /\ stream[p][2] \in Nat
  <2>1. n.used \in Nat /\ n.pulled \in Nat /\ n.used <= n.pulled /\ n.parsing \in Nat
    BY ResponseTypes DEF Good
  <2> QED BY <1>1, <2>1 DEF StreamOK
<1> SUFFICES ASSUME ~(n.parsing \in k.early),
                    k.script[n.parsing].fault # "none" => ~k.script[n.parsing].body,
                    NEW p \in DOMAIN stream, p > n.pulled
             PROVE  n.parsing < stream[p][2]
  BY DEF Covers
<1>3. p > n.used
  BY <1>2
<1>4. CASE x = "read_ok"
  <2>1. Left(n.parsing, n, k)
    BY <1>1, <1>4 DEF Parsing
  <2> QED BY <1>3, <2>1 DEF Left
<1>5. CASE x = "read_error"
  <2>1. /\ n.used \in DOMAIN stream /\ stream[n.used][2] = n.parsing
        /\ ~k.script[n.parsing].body
    BY <1>1, <1>5 DEF Heading
  <2>2. stream[p][1] = "body" => k.script[stream[p][2]].body
    BY <1>1 DEF StreamOK
  <2>3. \/ stream[n.used][2] < stream[p][2]
        \/ stream[n.used][2] = stream[p][2] /\ stream[p][1] = "body"
    BY <1>1, <1>3, <2>1 DEF StreamOK
  <2> HIDE DEF stream
  <2> QED BY <2>1, <2>2, <2>3
<1> QED BY <1>4, <1>5

LEMMA AnswerEnds ==
    ASSUME NEW r, NEW n, NEW k, Good(r, n, k), Delivers(r, n, k), Ends(r, n, k), NEW s, NEW m,
           m.toClient = n.toClient, m.pulled = n.pulled, m.sent = n.sent,
           m.deadline = n.deadline, m.reset = n.reset, m.reply.request = n.parsing,
           RecordInv(s), s.open = r.open, r.open => InFlight(s) = {"write"},
           NEW x \in {"read_ok", "read_error"}, InFlight(r) = {x}
    PROVE  Ends(s, m, k)
<1> SUFFICES ASSUME s.open
             PROVE  Ends(s, m, k)
  BY DEF Ends
<1>1. r.open /\ InFlight(s) = {"write"} /\ s.state # "kClosed" /\ MayRead(r)
  BY ClosedIsQuiet DEF MayRead, ReadPhase
<1>2. CASE k.stage = "connected"
  <2>1. Taken(r, n, k) /\ Ending(r, n, k) /\ Covers(n.parsing, n, k)
    BY <1>1, <1>2, ParsedIsCovered DEF Ends
  <2>2. Responses(m, k) = Responses(n, k)
    BY DEF Responses
  <2>3. \A i : Covers(i, n, k) => Covers(i, m, k)
    BY DEF Covers
  <2>4. Taken(s, m, k)
    BY <2>1, <2>2, <2>3 DEF Taken
  <2>5. Ending(s, m, k)
    BY <1>1, <2>1, <2>2 DEF Ending
  <2> QED BY <1>2, <2>4, <2>5 DEF Ends
<1>3. CASE k.stage # "connected"
  BY <1>1, <1>3 DEF Ends, Ended
<1> QED BY <1>2, <1>3

\* A session closes behind an answer that says so, or because something failed.
LEMMA CloseEnds ==
    ASSUME NEW r, NEW n, NEW k, Good(r, n, k), Ends(r, n, k), NEW s, NEW m,
           m.toClient = n.toClient, m.pulled = n.pulled, m.sent = n.sent,
           m.deadline = n.deadline, m.reset = n.reset, s.open = r.open, InFlight(s) = {},
           \/ InFlight(r) = {"write_ok"} /\ ~r.keepAlive
           \/ \E x \in {"read_timeout", "read_eof", "write_error"} : x \in InFlight(r)
    PROVE  Ends(s, m, k)
<1>1. ~MayRead(s)
  BY DEF MayRead
<1>2. CASE k.stage = "connected"
  <2> SUFFICES ASSUME s.open
               PROVE  Taken(s, m, k) /\ Ending(s, m, k)
    BY <1>2 DEF Ends
  <2>1. Taken(r, n, k) /\ Ending(r, n, k)
    BY <1>2 DEF Ends
  <2>2. Taken(s, m, k) /\ Responses(m, k) = Responses(n, k)
    <3>1. m.pulled \in Nat /\ n.pulled <= m.pulled
      BY ResponseTypes DEF Good
    <3> QED BY <2>1, <3>1, TakenStill DEF Good
  <2>3. Ending(s, m, k)
    BY <2>1, <2>2 DEF Ending
  <2> QED BY <2>2, <2>3
<1>3. CASE k.stage # "connected"
  BY <1>1, <1>3, EndedStill
<1> QED BY <1>2, <1>3

LEMMA BesideEnds ==
    ASSUME NEW r, NEW n, NEW k, Ends(r, n, k), NEW s, Beside(s, r)
    PROVE  Ends(s, n, k)
<1> SUFFICES ASSUME s.open
             PROVE  Ends(s, n, k)
  BY DEF Ends
<1>1. /\ r.open /\ InFlight(s) = InFlight(r) /\ s.keepAlive = r.keepAlive
      /\ s.state = "kClosed" => r.state = "kClosed"
  BY DEF Beside
<1>2. MayRead(s) <=> MayRead(r)
  BY <1>1 DEF MayRead
<1>3. CASE k.stage = "connected"
  BY <1>1, <1>3 DEF Ends, Taken, Ending
<1>4. CASE k.stage # "connected"
  BY <1>1, <1>2, <1>4 DEF Ends, Ended
<1> QED BY <1>3, <1>4

LEMMA ExpireEnds ==
    ASSUME NEW r, NEW n, NEW k, Ends(r, n, k), NEW m, Carried(m, n),
           m.toClient = n.toClient, m.deadline = "passed"
    PROVE  Ends(r, m, k)
<1>1. /\ Responses(m, k) = Responses(n, k) /\ m.reply = n.reply /\ m.pulled = n.pulled
  BY DEF Carried, Responses
<1>2. \A x : Covers(x, n, k) => Covers(x, m, k)
  BY <1>1 DEF Covers
<1> QED BY <1>1, <1>2 DEF Ends, Taken, Ending, Ended

-----------------------------------------------------------------------------
(* The client, the connection, and what its end has said. *)

\* A patient client sends only what it has seen everything before of answered.
LEMMA NothingOnTheWay ==
    ASSUME NEW r, NEW n, NEW k, Good(r, n, k), Delivers(r, n, k), k.stage = "connected",
           Taken(r, n, k), \A a \in Responses(n, k) : a.code # "cut", Patience(k),
           NEW p \in DOMAIN Units(k.script), p > n.pulled
    PROVE  Responses(n, k) = ToSet(k.answers)
<1> DEFINE stream == Units(k.script)
           i == stream[p][2]
<1>1. /\ Arriving(n, k) /\ OnTheWay(n, k) /\ Waited(k)
      /\ \A b \in ToSet(n.toClient) : b \in Responses(n, k)
      /\ \A a \in ToSet(k.answers) : a \in Responses(n, k)
      /\ \A a \in Responses(n, k) : a \in Reply
  BY ResponseTypes DEF Good, OrderInv, Delivers, Responses
<1>2. i \in 1..Len(k.script)
  BY ResponseTypes DEF Good, StreamOK
<1>3. ASSUME NEW b \in ToSet(n.toClient)
      PROVE  FALSE
  <2>1. b.request \in 1..Len(k.script) /\ b.code # "cut"
    BY <1>1 DEF OnTheWay, Truthful
  <2>2. b.request \notin k.early /\ (k.script[b.request].fault # "none" => ~k.script[b.request].body)
    BY <2>1 DEF Patience
  <2>3. Covers(b.request, n, k)
    BY <1>1 DEF Taken
  <2>4. b.request < i
    BY <2>1, <2>2, <2>3 DEF Covers
  <2>5. AnsweredIn(b.request, ToSet(k.answers))
    BY <1>1, <1>2, <2>1, <2>4 DEF Waited, Patience
  <2>6. PICK a \in ToSet(k.answers) : a.request = b.request
    BY <2>5 DEF AnsweredIn
  <2>7. Before(a, b)
    BY <1>1 DEF Arriving
  <2>8. a.request \in Nat
    BY <1>1 DEF Reply
  <2> QED BY <2>1, <2>6, <2>7, <2>8 DEF Before
<1> QED BY <1>3 DEF Responses

\* A reset takes nothing from a patient client.
LEMMA ResetEnds ==
    ASSUME NEW r, NEW n, NEW k, Good(r, n, k), Delivers(r, n, k), Ends(r, n, k), NEW m,
           Carried(m, n), NEW kept \in 0..Len(n.toClient),
           m.toClient = SubSeq(n.toClient, 1, kept), m.deadline = n.deadline, m.reset,
           n.sent > n.pulled, r.open => InFlight(r) = {}
    PROVE  Ends(r, m, k)
<1> SUFFICES ASSUME r.open
             PROVE  Ends(r, m, k)
  BY DEF Ends
<1>1. m.pulled = n.pulled /\ m.sent = n.sent
  BY DEF Carried
<1>2. CASE k.stage = "connected"
  <2>1. Taken(r, n, k) /\ Ending(r, n, k)
    BY <1>2 DEF Ends
  <2>2. Responses(m, k) \subseteq Responses(n, k) /\ ToSet(k.answers) \subseteq Responses(m, k)
    <3>1. n.toClient \in Seq(Reply)
      BY ResponseTypes DEF Good
    <3> HIDE DEF Reply
    <3>2. ToSet(m.toClient) \subseteq ToSet(n.toClient)
      BY <3>1, PrefixSequence
    <3> QED BY <3>2 DEF Responses
  <2>3. \A x : Covers(x, n, k) => Covers(x, m, k)
    BY <1>1 DEF Covers
  <2>4. Taken(r, m, k)
    BY <2>1, <2>2, <2>3 DEF Taken
  <2>5. ASSUME n.deadline # "passed", r.state = "kClosed", Patience(k)
        PROVE  LastSaid(Responses(m, k))
    <3>1. LastSaid(Responses(n, k)) /\ \A a \in Responses(n, k) : a.code # "cut"
      BY <2>1, <2>5 DEF Ending
    <3>2. n.sent \in DOMAIN Units(k.script)
      <4>1. /\ n.sent \in Nat /\ n.pulled \in Nat /\ n.sent <= Len(Units(k.script))
            /\ Units(k.script) \in Seq(UnitType)
        BY ResponseTypes DEF Good, StreamOK
      <4> HIDE DEF UnitType
      <4> QED BY <4>1
    <3>3. Responses(n, k) = ToSet(k.answers)
      BY <1>2, <2>1, <2>5, <3>1, <3>2, NothingOnTheWay
    <3> QED BY <2>2, <3>1, <3>3 DEF LastSaid
  <2>6. Ending(r, m, k)
    BY <2>1, <2>2, <2>5 DEF Ending
  <2> QED BY <1>2, <2>4, <2>6 DEF Ends
<1>3. CASE k.stage # "connected"
  BY <1>1, <1>3, EndedStill
<1> QED BY <1>2, <1>3

LEMMA ConnectEnds ==
    ASSUME NEW s, NEW m, NEW j, InFlight(s) \in {{"read"}, {"Run"}}, s.state = "kOpen",
           m.toClient = << >>, j.answers = << >>, j.stage = "connected"
    PROVE  Ends(s, m, j)
<1>1. Responses(m, j) = {}
  BY DEF Responses, ToSet
<1> QED BY <1>1 DEF Ends, Taken, Ending

LEMMA SendEnds ==
    ASSUME NEW r, NEW n, NEW k, Good(r, n, k), Ends(r, n, k), k.stage = "connected",
           NEW m, NEW j, NEW request \in Requests,
           SendsOn(m, n), j.stage = k.stage, j.answers = k.answers,
           j.script = Append(k.script, request), k.early \subseteq j.early
    PROVE  Ends(r, m, j)
<1> SUFFICES ASSUME r.open
             PROVE  Taken(r, m, j) /\ Ending(r, m, j)
  BY DEF Ends
<1>1. /\ Taken(r, n, k) /\ Ending(r, n, k) /\ Numbers(n, k)
      /\ m.pulled = n.pulled /\ m.reply = n.reply /\ m.deadline = n.deadline
      /\ m.reset = n.reset /\ Responses(m, j) = Responses(n, k)
  BY DEF Ends, Good, OrderInv, SendsOn, Responses
<1>2. OneMore(k, j)
  BY ResponseTypes, ScriptGrows DEF Good
<1>3. ASSUME NEW x, x <= Len(k.script), Covers(x, n, k)
      PROVE  Covers(x, m, j)
  <2> DEFINE N == Len(k.script)
             all == Units(j.script)
  <2> SUFFICES ASSUME x \in 1..Len(j.script), ~(x \in j.early),
                      j.script[x].fault # "none" => ~j.script[x].body,
                      NEW p \in DOMAIN all, p > n.pulled
               PROVE  x < all[p][2]
    BY <1>1 DEF Covers
  <2>1. /\ N \in Nat /\ x \in 1..N /\ j.script[x] = k.script[x]
    BY <1>2, <1>3 DEF OneMore
  <2>2. CASE p \in DOMAIN Units(k.script)
    BY <1>2, <1>3, <2>1, <2>2 DEF Covers, OneMore
  <2>3. CASE all[p][2] = N + 1
    BY <2>1, <2>3
  <2> QED BY <1>2, <2>2, <2>3 DEF OneMore
<1>4. Taken(r, m, j)
  BY <1>1, <1>3 DEF Taken, Numbers
<1>5. Patience(j) => Patience(k)
  <2>1. \A i \in DOMAIN k.script : i \in DOMAIN j.script /\ j.script[i] = k.script[i]
    BY ResponseTypes DEF Good
  <2> QED BY <2>1 DEF Patience
<1>6. Ending(r, m, j)
  BY <1>1, <1>5 DEF Ending
<1> QED BY <1>4, <1>6

\* More of a request that is on its way changes nothing of this.
LEMMA SendBodyEnds ==
    ASSUME NEW r, NEW n, NEW k, Ends(r, n, k), k.stage = "connected", NEW m, SendsOn(m, n)
    PROVE  Ends(r, m, k)
<1>1. /\ Responses(m, k) = Responses(n, k) /\ m.reply = n.reply /\ m.pulled = n.pulled
      /\ m.deadline = n.deadline /\ m.reset = n.reset
  BY DEF SendsOn, Responses
<1>2. \A x : Covers(x, n, k) => Covers(x, m, k)
  BY <1>1 DEF Covers
<1> QED BY <1>1, <1>2 DEF Ends, Taken, Ending

\* The client is at its end: it cannot write, or there is nothing more to read.
LEMMA EndEnds ==
    ASSUME NEW r, NEW n, NEW k, Good(r, n, k), Delivers(r, n, k), Ends(r, n, k),
           k.stage = "connected", r.state = "kClosed",
           NEW j, j.script = k.script, j.answers = k.answers, j.early = k.early,
           j.stage = "ended",
           \/ n.sent < Len(Units(k.script))
           \/ n.toClient = << >>
    PROVE  Ends(r, n, j)
<1> SUFFICES ASSUME r.open
             PROVE  Ended(r, n, j)
  BY DEF Ends
<1>1. Taken(r, n, k) /\ Ending(r, n, k) /\ InFlight(r) = {}
  BY ClosedIsQuiet DEF Ends, Good
<1>2. ~MayRead(r)
  BY <1>1 DEF MayRead
<1>3. Patience(j) <=> Patience(k)
  BY DEF Patience
<1> SUFFICES ASSUME n.deadline # "passed",
                    Patience(k) \/ (~n.reset /\ n.sent = Len(Units(k.script)))
             PROVE  LastSaid(ToSet(k.answers))
  BY <1>2, <1>3 DEF Ended
<1>4. LastSaid(Responses(n, k)) /\ \A a \in Responses(n, k) : a.code # "cut"
  BY <1>1 DEF Ending
<1>5. Responses(n, k) = ToSet(k.answers)
  <2>1. CASE n.toClient = << >>
    <3>1. ToSet(n.toClient) = {}
      BY <2>1 DEF ToSet
    <3> QED BY <3>1 DEF Responses
  <2>2. CASE n.sent < Len(Units(k.script))
    <3>1. PICK L \in Nat : L = Len(Units(k.script))
      BY ResponseTypes DEF Good
    <3>2. /\ n.sent \in Nat /\ n.pulled \in Nat /\ n.pulled <= n.sent /\ n.sent < L
          /\ DOMAIN Units(k.script) = 1..L
      BY <2>2, <3>1, ResponseTypes DEF Good, StreamOK
    <3>3. PICK p \in Nat : p = n.sent + 1
      BY <3>2
    <3>4. p \in 1..L /\ p > n.pulled /\ n.sent # L
      BY <3>2, <3>3
    <3>5. p \in DOMAIN Units(k.script) /\ Patience(k)
      BY <3>1, <3>2, <3>4
    <3> QED BY <1>1, <1>4, <3>4, <3>5, NothingOnTheWay
  <2> QED BY <2>1, <2>2
<1> QED BY <1>4, <1>5

LEMMA CutEnds ==
    ASSUME NEW r, NEW n, NEW k, Good(r, n, k), Delivers(r, n, k), Ends(r, n, k),
           k.stage = "connected", n.toClient # << >>, Head(n.toClient).code = "cut",
           NEW m, NEW j, m.deadline = n.deadline, j.stage = "ended"
    PROVE  Ends(r, m, j)
<1> SUFFICES ASSUME r.open
             PROVE  Ended(r, m, j)
  BY DEF Ends
<1>1. PICK a \in ToSet(n.toClient) : a.code = "cut"
  <2>1. n.toClient \in Seq(Reply)
    BY ResponseTypes DEF Good
  <2> HIDE DEF Reply
  <2>2. Head(n.toClient) \in ToSet(n.toClient)
    BY <2>1, TailSequence
  <2> QED BY <2>2
<1>2. a \in Responses(n, k) /\ a = NoReply
  BY <1>1 DEF Responses, Delivers, OnTheWay, Truthful
<1>3. n.deadline = "passed"
  BY <1>1, <1>2 DEF Ends, Ending
<1>4. ~a.keepAlive
  BY <1>2 DEF NoReply
<1>5. ~MayRead(r)
  BY <1>2, <1>4 DEF Good, OrderInv, ReadsOn
<1> QED BY <1>3, <1>5 DEF Ended

LEMMA ReceiveEnds ==
    ASSUME NEW r, NEW n, NEW k, Good(r, n, k), Ends(r, n, k), k.stage = "connected",
           NEW m, NEW j, Carried(m, n), n.toClient # << >>, m.toClient = Tail(n.toClient),
           m.deadline = n.deadline, m.reset = n.reset,
           j.script = k.script, j.early = k.early, j.stage = k.stage,
           j.answers = Append(k.answers, Head(n.toClient))
    PROVE  Ends(r, m, j)
<1>1. Responses(m, j) = Responses(n, k)
  BY ReceivedResponses DEF Good
<1>2. m.pulled = n.pulled /\ m.reply = n.reply
  BY DEF Carried
<1>3. \A x : Covers(x, n, k) => Covers(x, m, j)
  BY <1>2 DEF Covers
<1>4. Patience(j) => Patience(k)
  BY DEF Patience
<1> QED BY <1>1, <1>2, <1>3, <1>4 DEF Ends, Taken, Ending

-----------------------------------------------------------------------------
(* The actions. *)

LEMMA OneDeliveryStep ==
    ASSUME ConnInv, DeliveryInv, NEW c \in Conns, NEW s, NEW m, NEW j,
           Delivers(s, m, j), Ends(s, m, j), Moves(c, s, m, j)
    PROVE  DeliveryInv'
<1>1. /\ sess \in [Conns -> SessionRecord] /\ net \in [Conns -> NetRecord]
      /\ client \in [Conns -> ClientRecord]
  BY DEF ConnInv, SessionTypeOK
<1>2. ASSUME NEW d \in Conns
      PROVE  Serving(sess'[d], net'[d], client'[d])
  <2>1. CASE d = c
    <3>1. sess'[d] = s /\ net'[d] = m /\ client'[d] = j
      BY <1>1, <2>1 DEF Moves
    <3> QED BY <3>1 DEF Serving
  <2>2. CASE d # c
    <3>1. sess'[d] = sess[d] /\ net'[d] = net[d] /\ client'[d] = client[d]
      BY <1>1, <2>2 DEF Moves
    <3>2. Serving(sess[d], net[d], client[d])
      BY DEF DeliveryInv
    <3> QED BY <3>1, <3>2
  <2> QED BY <2>1, <2>2
<1> QED BY <1>2 DEF DeliveryInv

LEMMA DeliveryInvParts ==
    ASSUME ConnInv, DeliveryInv, NEW c \in Conns
    PROVE  /\ Good(sess[c], net[c], client[c]) /\ RecordInv(sess[c])
           /\ Delivers(sess[c], net[c], client[c]) /\ Ends(sess[c], net[c], client[c])
BY ConnInvParts DEF DeliveryInv, Serving

LEMMA ReadSomeDelivered ==
    ASSUME ConnInv, DeliveryInv, NEW c \in Conns, ReadSome(c)
    PROVE  DeliveryInv'
<1>1. PICK m, s :
          /\ Moves(c, s, m, client[c]) /\ Further(m, net[c], client[c])
          /\ RecordInv(s) /\ Carries(s, sess[c]) /\ InFlight(sess[c]) = {"read"}
          /\ sess[c].open
          /\ client[c].stage = "connected"
                 => ReadsOneRequest(sess[c], net[c], client[c], s, m)
          /\ \/ s = sess[c]
             \/ InFlight(s) = {"read_error"}
             \/ InFlight(s) = {"read_ok"} /\ Left(m.parsing, m, client[c])
  BY ReadSomeDoes
<1>2. Good(s, m, client[c])
  BY <1>1, ConnInvParts, ReadSomeKeeps
<1>3. Delivers(s, m, client[c])
  BY <1>1, <1>2, DeliveryInvParts, ReadSomeDelivers
<1>4. Ends(s, m, client[c])
  <2>1. s = sess[c] \/ InFlight(s) \in {{"read_error"}, {"read_ok"}}
    BY <1>1
  <2> QED BY <1>1, <2>1, DeliveryInvParts, ReadSomeEnds
<1> QED BY <1>1, <1>3, <1>4, OneDeliveryStep

LEMMA ReadEndsDelivered ==
    ASSUME ConnInv, DeliveryInv, NEW c \in Conns, ReadMeetsTheEnd(c) \/ ReadIsCancelled(c)
    PROVE  DeliveryInv'
<1>1. PICK s : \E ec \in {"read_timeout", "read_eof", "read_error"} :
          /\ Moves(c, s, net[c], client[c]) /\ RecordInv(s) /\ Carries(s, sess[c])
          /\ InFlight(sess[c]) = {"read"} /\ InFlight(s) = {ec}
          /\ client[c].stage = "connected" /\ sess[c].open
                 => ec = "read_timeout" /\ net[c].deadline = "passed"
  BY ReadEndsDoes
<1>2. PICK ec \in {"read_timeout", "read_eof", "read_error"} :
          /\ InFlight(s) = {ec}
          /\ client[c].stage = "connected" /\ sess[c].open
                 => ec = "read_timeout" /\ net[c].deadline = "passed"
  BY <1>1
<1>3. ec \in ReadPhase /\ s.open = sess[c].open
  BY <1>1 DEF ReadPhase, Carries
<1>4. Ends(s, net[c], client[c])
  BY <1>1, <1>2, <1>3, DeliveryInvParts, ReadEndsEnds
<1>5. Delivers(s, net[c], client[c])
  <2>1. CASE client[c].stage = "connected" /\ sess[c].open
    BY <1>1, <1>2, <1>3, <2>1, DeliveryInvParts, ReadEndsDelivers
  <2>2. CASE ~sess[c].open
    BY <1>3, <2>2, DeliveryInvParts, NothingMoreDelivers
  <2>3. CASE client[c].stage # "connected"
    BY <2>3, DeliveryInvParts DEF Delivers
  <2> QED BY <2>1, <2>2, <2>3
<1> QED BY <1>1, <1>4, <1>5, OneDeliveryStep

LEMMA WriteEndsDelivered ==
    ASSUME ConnInv, DeliveryInv, NEW c \in Conns, WriteDone(c) \/ WriteFails(c)
    PROVE  DeliveryInv'
<1>1. CASE WriteDone(c)
  <2>1. PICK s, m :
            /\ Moves(c, s, m, client[c])
            /\ Carried(m, net[c]) /\ m.toClient = Append(net[c].toClient, net[c].reply)
            /\ m.deadline = net[c].deadline /\ m.reset = net[c].reset
            /\ RecordInv(s) /\ Carries(s, sess[c]) /\ sess[c].open
            /\ InFlight(sess[c]) = {"write"} /\ InFlight(s) = {"write_ok"}
    BY <1>1, WriteDoneDoes
  <2>2. Delivers(s, m, client[c])
    BY <2>1, DeliveryInvParts, WriteDoneDelivers
  <2>3. Ends(s, m, client[c])
    BY <2>1, DeliveryInvParts, WriteDoneEnds
  <2> QED BY <2>1, <2>2, <2>3, OneDeliveryStep
<1>2. CASE WriteFails(c)
  <2>1. PICK s, m :
            /\ Moves(c, s, m, client[c])
            /\ Carried(m, net[c])
            /\ m.toClient \in {net[c].toClient, Append(net[c].toClient, NoReply)}
            /\ m.deadline = net[c].deadline /\ m.reset = net[c].reset
            /\ RecordInv(s) /\ Carries(s, sess[c])
            /\ InFlight(sess[c]) = {"write"} /\ InFlight(s) = {"write_error"}
            /\ client[c].stage = "connected" /\ sess[c].open => net[c].deadline = "passed"
    BY <1>2, WriteFailsDoes
  <2>2. Delivers(s, m, client[c])
    BY <2>1, DeliveryInvParts, WriteFailsDelivers
  <2>3. Ends(s, m, client[c])
    BY <2>1, DeliveryInvParts, WriteFailsEnds
  <2> QED BY <2>1, <2>2, <2>3, OneDeliveryStep
<1> QED BY <1>1, <1>2

LEMMA ExpireDelivered ==
    ASSUME ConnInv, DeliveryInv, NEW c \in Conns, Expire(c)
    PROVE  DeliveryInv'
<1>1. PICK m : /\ Moves(c, sess[c], m, client[c]) /\ Carried(m, net[c])
               /\ m.toClient = net[c].toClient /\ m.deadline = "passed"
  BY ExpireDoes
<1>2. Delivers(sess[c], m, client[c])
  BY <1>1, DeliveryInvParts, StillDelivers DEF Carried
<1>3. Ends(sess[c], m, client[c])
  BY <1>1, DeliveryInvParts, ExpireEnds
<1> QED BY <1>1, <1>2, <1>3, OneDeliveryStep

LEMMA RunStartsDelivered ==
    ASSUME ConnInv, DeliveryInv, NEW c \in Conns, RunStarts(c)
    PROVE  DeliveryInv'
<1>1. PICK s, m :
          /\ Moves(c, s, m, client[c]) /\ ReadsAnew(m, net[c]) /\ m.used = net[c].used
          /\ RecordInv(s) /\ Carries(s, sess[c]) /\ InFlight(sess[c]) = {"Run"}
          /\ InFlight(s) = IF sess[c].open THEN {"read"} ELSE {"read_error"}
  BY RunStartsDoes
<1>2. s.open = sess[c].open /\ MayRead(sess[c]) /\ m.toClient = net[c].toClient
  BY <1>1 DEF Carries, MayRead, ReadPhase, ReadsAnew
<1>3. CASE sess[c].open
  <2>1. InFlight(s) = {"read"}
    BY <1>1, <1>3
  <2>2. Delivers(s, m, client[c])
    BY <1>1, <1>2, <2>1, DeliveryInvParts, NextReadDelivers
  <2>3. Ends(s, m, client[c])
    BY <1>1, <1>2, <2>1, DeliveryInvParts, NextReadEnds
  <2> QED BY <1>1, <2>2, <2>3, OneDeliveryStep
<1>4. CASE ~sess[c].open
  <2>1. Delivers(s, m, client[c])
    BY <1>2, <1>4, DeliveryInvParts, NothingMoreDelivers
  <2> QED BY <1>1, <1>2, <1>4, <2>1, OneDeliveryStep DEF Ends
<1> QED BY <1>3, <1>4

\* The answer to what was parsed.
LEMMA ParsedIsAnswered ==
    ASSUME NEW r, NEW n, NEW k, Good(r, n, k), Delivers(r, n, k), k.stage = "connected",
           r.open, NEW x \in {"read_ok", "read_error"}, InFlight(r) = {x},
           NEW a, a.request = n.parsing,
           a.code = IF x = "read_ok" THEN "handled" ELSE ParserError(n.fault)
    PROVE  Truthful(a, k) /\ a.code # "cut"
<1>1. /\ Heading(r, n, k) /\ Parsing(r, n, k) /\ ConnType(r, n, k)
      /\ n.parsing \in Nat /\ n.parsing <= Len(k.script) /\ Len(k.script) \in Nat
  BY ResponseTypes DEF Delivers, Good, OrderInv, ConnType
<1>2. n.parsing # 0
  BY <1>1 DEF Parsing, ConnType
<1>3. n.parsing \in 1..Len(k.script)
  BY <1>1, <1>2
<1>4. CASE x = "read_ok"
  <2>1. k.script[n.parsing].fault = "none" /\ a.code = "handled"
    BY <1>1, <1>4 DEF Heading
  <2> QED BY <1>3, <2>1 DEF Truthful, Expected
<1>5. CASE x = "read_error"
  <2>1. /\ n.parsing \in k.early \/ (k.script[n.parsing].fault = n.fault /\ n.fault # "none")
        /\ a.code = ParserError(n.fault)
    BY <1>1, <1>5 DEF Heading
  <2>2. a.code # "cut"
    BY <2>1 DEF ParserError
  <2> QED BY <1>3, <2>1, <2>2 DEF Truthful, Expected
<1> QED BY <1>4, <1>5

LEMMA ReadSucceedsDelivered ==
    ASSUME ConnInv, DeliveryInv, NEW c \in Conns, ReadSucceeds(c)
    PROVE  DeliveryInv'
<1>1. PICK s, m :
          /\ Moves(c, s, m, client[c]) /\ Replies(m, net[c], "handled", s.keepAlive)
          /\ RecordInv(s) /\ s.open = sess[c].open /\ InFlight(sess[c]) = {"read_ok"}
          /\ InFlight(s) = IF sess[c].open THEN {"write"} ELSE {"write_error"}
  BY ReadSucceedsDoes
<1>2. /\ m.toClient = net[c].toClient /\ m.used = net[c].used /\ m.pulled = net[c].pulled
      /\ m.sent = net[c].sent /\ m.deadline = net[c].deadline /\ m.reset = net[c].reset
      /\ m.reply.request = net[c].parsing /\ m.reply.code = "handled"
  BY <1>1 DEF Replies
<1>3. sess[c].open => InFlight(s) = {"write"}
  BY <1>1
<1>4. Ends(s, m, client[c])
  BY <1>1, <1>2, <1>3, DeliveryInvParts, AnswerEnds
<1>5. Delivers(s, m, client[c])
  <2>1. CASE sess[c].open
    <3>1. client[c].stage = "connected"
              => Truthful(m.reply, client[c]) /\ m.reply.code # "cut"
      BY <1>1, <1>2, <2>1, DeliveryInvParts, ParsedIsAnswered
    <3> QED BY <1>1, <1>2, <1>3, <2>1, <3>1, DeliveryInvParts, AnswerDelivers
  <2>2. CASE ~sess[c].open
    BY <1>1, <1>2, <2>2, DeliveryInvParts, NothingMoreDelivers
  <2> QED BY <2>1, <2>2
<1> QED BY <1>1, <1>4, <1>5, OneDeliveryStep

LEMMA ReadFailsDelivered ==
    ASSUME ConnInv, DeliveryInv, NEW c \in Conns, ReadFails(c)
    PROVE  DeliveryInv'
<1> DEFINE code == ParserError(net[c].fault)
<1>1. PICK s, m :
          /\ Moves(c, s, m, client[c]) /\ RecordInv(s) /\ s.open = sess[c].open
          /\ \/ /\ InFlight(sess[c]) = {"read_error"}
                /\ Replies(m, net[c], code, FALSE) /\ s.keepAlive = FALSE
                /\ InFlight(s) = IF sess[c].open THEN {"write"} ELSE {"write_error"}
             \/ /\ InFlight(sess[c]) \in {{"read_timeout"}, {"read_eof"}}
                /\ m = net[c] /\ InFlight(s) = {}
  BY ReadFailsDoes
<1>2. CASE InFlight(sess[c]) = {"read_error"}
  <2>1. /\ Replies(m, net[c], code, FALSE) /\ s.keepAlive = FALSE
        /\ InFlight(s) = IF sess[c].open THEN {"write"} ELSE {"write_error"}
    BY <1>1, <1>2
  <2>2. /\ m.toClient = net[c].toClient /\ m.used = net[c].used /\ m.pulled = net[c].pulled
        /\ m.sent = net[c].sent /\ m.deadline = net[c].deadline /\ m.reset = net[c].reset
        /\ m.reply.request = net[c].parsing /\ m.reply.code = code
    BY <2>1 DEF Replies
  <2>3. sess[c].open => InFlight(s) = {"write"}
    BY <2>1
  <2>4. Ends(s, m, client[c])
    BY <1>1, <1>2, <2>2, <2>3, DeliveryInvParts, AnswerEnds
  <2>5. Delivers(s, m, client[c])
    <3>1. CASE sess[c].open
      <4>1. client[c].stage = "connected"
                => Truthful(m.reply, client[c]) /\ m.reply.code # "cut"
        BY <1>2, <2>2, <3>1, DeliveryInvParts, ParsedIsAnswered
      <4> QED BY <1>2, <2>1, <2>2, <2>3, <3>1, <4>1, DeliveryInvParts, AnswerDelivers
    <3>2. CASE ~sess[c].open
      BY <1>1, <2>2, <3>2, DeliveryInvParts, NothingMoreDelivers
    <3> QED BY <3>1, <3>2
  <2> QED BY <1>1, <2>4, <2>5, OneDeliveryStep
<1>3. CASE InFlight(sess[c]) \in {{"read_timeout"}, {"read_eof"}}
  <2>1. m = net[c] /\ InFlight(s) = {}
    BY <1>1, <1>3
  <2>2. \E x \in {"read_timeout", "read_eof", "write_error"} : x \in InFlight(sess[c])
    BY <1>3
  <2>3. Ends(s, m, client[c])
    BY <1>1, <2>1, <2>2, DeliveryInvParts, CloseEnds
  <2>4. Delivers(s, m, client[c])
    BY <2>1, DeliveryInvParts, NothingMoreDelivers
  <2> QED BY <1>1, <2>3, <2>4, OneDeliveryStep
<1> QED BY <1>1, <1>2, <1>3

LEMMA WrittenDelivered ==
    ASSUME ConnInv, DeliveryInv, NEW c \in Conns, Written(c)
    PROVE  DeliveryInv'
<1>1. PICK s, m :
          /\ Moves(c, s, m, client[c]) /\ RecordInv(s) /\ s.open = sess[c].open
          /\ \/ /\ InFlight(sess[c]) = {"write_ok"} /\ sess[c].keepAlive
                /\ ReadsAnew(m, net[c])
                /\ InFlight(s) = IF sess[c].open THEN {"read"} ELSE {"read_error"}
             \/ /\ \/ InFlight(sess[c]) = {"write_ok"} /\ ~sess[c].keepAlive
                   \/ InFlight(sess[c]) = {"write_error"}
                /\ m.pulled = net[c].pulled /\ m.sent = net[c].sent
                /\ m.toClient = net[c].toClient /\ m.deadline = net[c].deadline
                /\ m.reset = net[c].reset
                /\ InFlight(s) = {}
  BY WrittenDoes
<1>2. CASE InFlight(s) # {}
  <2>1. /\ InFlight(sess[c]) = {"write_ok"} /\ sess[c].keepAlive /\ ReadsAnew(m, net[c])
        /\ InFlight(s) = IF sess[c].open THEN {"read"} ELSE {"read_error"}
    BY <1>1, <1>2
  <2>2. MayRead(sess[c]) /\ m.toClient = net[c].toClient
    BY <2>1 DEF MayRead, ReadsAnew
  <2>3. s.open => InFlight(s) = {"read"}
    BY <1>1, <2>1
  <2>4. Ends(s, m, client[c])
    BY <1>1, <2>1, <2>2, <2>3, DeliveryInvParts, NextReadEnds
  <2>5. Delivers(s, m, client[c])
    <3>1. CASE s.open
      BY <1>1, <2>1, <2>3, <3>1, DeliveryInvParts, NextReadDelivers
    <3>2. CASE ~s.open
      BY <2>2, <3>2, DeliveryInvParts, NothingMoreDelivers
    <3> QED BY <3>1, <3>2
  <2> QED BY <1>1, <2>4, <2>5, OneDeliveryStep
<1>3. CASE InFlight(s) = {}
  <2>1. /\ \/ InFlight(sess[c]) = {"write_ok"} /\ ~sess[c].keepAlive
           \/ InFlight(sess[c]) = {"write_error"}
        /\ m.pulled = net[c].pulled /\ m.sent = net[c].sent
        /\ m.toClient = net[c].toClient /\ m.deadline = net[c].deadline
        /\ m.reset = net[c].reset
    <3>1. InFlight(s) # IF sess[c].open THEN {"read"} ELSE {"read_error"}
      BY <1>3
    <3> QED BY <1>1, <3>1
  <2>2. \/ InFlight(sess[c]) = {"write_ok"} /\ ~sess[c].keepAlive
        \/ \E x \in {"read_timeout", "read_eof", "write_error"} : x \in InFlight(sess[c])
    BY <2>1
  <2>3. Ends(s, m, client[c])
    BY <1>1, <1>3, <2>1, <2>2, DeliveryInvParts, CloseEnds
  <2>4. Delivers(s, m, client[c])
    BY <1>3, <2>1, DeliveryInvParts, NothingMoreDelivers
  <2> QED BY <1>1, <2>3, <2>4, OneDeliveryStep
<1> QED BY <1>2, <1>3

LEMMA CallsDelivered ==
    ASSUME ConnInv, DeliveryInv, NEW c \in Conns, Closes(c) \/ OwnerCalls(c)
    PROVE  DeliveryInv'
<1>1. PICK s : Moves(c, s, net[c], client[c]) /\ RecordInv(s) /\ Beside(s, sess[c])
  BY CallsDoes
<1>2. Delivers(s, net[c], client[c])
  BY <1>1, DeliveryInvParts, BesideDelivers
<1>3. Ends(s, net[c], client[c])
  BY <1>1, DeliveryInvParts, BesideEnds
<1> QED BY <1>1, <1>2, <1>3, OneDeliveryStep

LEMMA ConnectDelivered ==
    ASSUME ConnInv, DeliveryInv, NEW c \in Conns, Connect(c)
    PROVE  DeliveryInv'
<1>1. PICK s, m, j :
          /\ Moves(c, s, m, j) /\ s.state = "kOpen" /\ InFlight(s) \in {{"read"}, {"Run"}}
          /\ m.used = 0 /\ m.parsing = 0 /\ m.toClient = << >>
          /\ j.stage = "connected" /\ j.script = << >> /\ j.answers = << >>
  BY ConnectDoes
<1>2. Delivers(s, m, j)
  BY <1>1, ConnectDelivers
<1>3. Ends(s, m, j)
  BY <1>1, ConnectEnds
<1> QED BY <1>1, <1>2, <1>3, OneDeliveryStep

LEMMA SendHeadDelivered ==
    ASSUME ConnInv, DeliveryInv, NEW c \in Conns, NEW request \in Sendable, SendHead(c, request)
    PROVE  DeliveryInv'
<1>1. PICK m, j :
          /\ Moves(c, sess[c], m, j) /\ SendsOn(m, net[c])
          /\ client[c].stage = "connected" /\ request \in Requests
          /\ net[c].sent = Len(Units(client[c].script))
          /\ j \in ClientRecord /\ j.stage = client[c].stage
          /\ j.answers = client[c].answers
          /\ j.script = Append(client[c].script, request)
          /\ Len(client[c].script) < MaxScript
          /\ j.early = IF Len(client[c].answers) < Len(client[c].script)
                       THEN client[c].early \cup {Len(client[c].script) + 1}
                       ELSE client[c].early
  BY SendHeadDoes
<1>2. Delivers(sess[c], m, j)
  BY <1>1, DeliveryInvParts, SendDelivers
<1>3. client[c].early \subseteq j.early
  BY <1>1
<1>4. Ends(sess[c], m, j)
  BY <1>1, <1>3, DeliveryInvParts, SendEnds
<1> QED BY <1>1, <1>2, <1>4, OneDeliveryStep

LEMMA SendBodyDelivered ==
    ASSUME ConnInv, DeliveryInv, NEW c \in Conns, SendBody(c)
    PROVE  DeliveryInv'
<1>1. PICK m : /\ Moves(c, sess[c], m, client[c]) /\ SendsOn(m, net[c])
               /\ client[c].stage = "connected"
  BY SendBodyDoes
<1>2. Delivers(sess[c], m, client[c])
  BY <1>1, DeliveryInvParts, StillDelivers DEF SendsOn
<1>3. Ends(sess[c], m, client[c])
  BY <1>1, DeliveryInvParts, SendBodyEnds
<1> QED BY <1>1, <1>2, <1>3, OneDeliveryStep

LEMMA EndsDelivered ==
    ASSUME ConnInv, DeliveryInv, NEW c \in Conns, SendFails(c) \/ SeeEnd(c) \/ Leave(c)
    PROVE  DeliveryInv'
<1>1. PICK j :
          /\ Moves(c, sess[c], net[c], j) /\ client[c].stage = "connected"
          /\ j.script = client[c].script /\ j.answers = client[c].answers
          /\ j.early = client[c].early
          /\ \/ j.stage = "left"
             \/ /\ j.stage = "ended" /\ SocketClosed(c)
                /\ net[c].sent < Len(Units(client[c].script))
             \/ /\ j.stage = "ended" /\ sess[c].state = "kClosed"
                /\ net[c].toClient = << >>
  BY EndsDoes
<1>2. Delivers(sess[c], net[c], j)
  <2>1. j.stage # "connected"
    BY <1>1
  <2> QED BY <1>1, <2>1, DeliveryInvParts, EndedDelivers
<1>3. Ends(sess[c], net[c], j)
  <2>1. CASE j.stage = "left"
    BY <2>1 DEF Ends
  <2>2. CASE j.stage = "ended"
    <3>1. sess[c].state = "kClosed"
      BY <1>1, <2>2 DEF SocketClosed
    <3>2. net[c].sent < Len(Units(client[c].script)) \/ net[c].toClient = << >>
      BY <1>1, <2>2
    <3> QED BY <1>1, <2>2, <3>1, <3>2, DeliveryInvParts, EndEnds
  <2> QED BY <1>1, <2>1, <2>2
<1> QED BY <1>1, <1>2, <1>3, OneDeliveryStep

LEMMA ReceiveDelivered ==
    ASSUME ConnInv, DeliveryInv, NEW c \in Conns, Receive(c)
    PROVE  DeliveryInv'
<1>1. PICK m, j :
          /\ Moves(c, sess[c], m, j) /\ client[c].stage = "connected"
          /\ Carried(m, net[c]) /\ net[c].toClient # << >>
          /\ m.toClient = Tail(net[c].toClient)
          /\ m.deadline = net[c].deadline /\ m.reset = net[c].reset
          /\ j.script = client[c].script /\ j.early = client[c].early
          /\ \/ /\ Head(net[c].toClient).code = "cut" /\ j.stage = "ended"
                /\ j.answers = client[c].answers
             \/ /\ Head(net[c].toClient).code # "cut" /\ j.stage = client[c].stage
                /\ j.answers = Append(client[c].answers, Head(net[c].toClient))
  BY ReceiveDoes
<1>2. CASE Head(net[c].toClient).code = "cut"
  <2>1. j.stage = "ended" /\ j.stage # "connected" /\ j.answers = client[c].answers
    BY <1>1, <1>2
  <2>2. Delivers(sess[c], m, j)
    BY <1>1, <2>1, DeliveryInvParts, EndedDelivers
  <2>3. Ends(sess[c], m, j)
    BY <1>1, <1>2, <2>1, DeliveryInvParts, CutEnds
  <2> QED BY <1>1, <2>2, <2>3, OneDeliveryStep
<1>3. CASE Head(net[c].toClient).code # "cut"
  <2>1. /\ j.stage = client[c].stage
        /\ j.answers = Append(client[c].answers, Head(net[c].toClient))
    BY <1>1, <1>3
  <2>2. Delivers(sess[c], m, j)
    BY <1>1, <1>3, <2>1, DeliveryInvParts, ReceiveDelivers
  <2>3. Ends(sess[c], m, j)
    BY <1>1, <2>1, DeliveryInvParts, ReceiveEnds
  <2> QED BY <1>1, <2>2, <2>3, OneDeliveryStep
<1> QED BY <1>2, <1>3

LEMMA ResetDelivered ==
    ASSUME ConnInv, DeliveryInv, NEW c \in Conns, Reset(c)
    PROVE  DeliveryInv'
<1>1. PICK m : \E kept \in 0..Len(net[c].toClient) :
          /\ Moves(c, sess[c], m, client[c]) /\ Carried(m, net[c])
          /\ m.toClient = SubSeq(net[c].toClient, 1, kept)
          /\ m.deadline = net[c].deadline /\ m.reset
          /\ SocketClosed(c) /\ net[c].sent > net[c].pulled
  BY ResetDoes
<1>2. PICK kept \in 0..Len(net[c].toClient) : m.toClient = SubSeq(net[c].toClient, 1, kept)
  BY <1>1
<1>3. sess[c].open => InFlight(sess[c]) = {}
  BY <1>1, DeliveryInvParts, ClosedIsQuiet DEF SocketClosed
<1>4. client[c].stage = "connected" => Arriving(net[c], client[c])
  BY DeliveryInvParts DEF Good, OrderInv
<1>5. Delivers(sess[c], m, client[c])
  BY <1>2, <1>3, <1>4, DeliveryInvParts, ResetDelivers
<1>6. Ends(sess[c], m, client[c])
  BY <1>1, <1>2, <1>3, DeliveryInvParts, ResetEnds
<1> QED BY <1>1, <1>5, <1>6, OneDeliveryStep

-----------------------------------------------------------------------------
(* The invariant. *)

LEMMA DeliveryInvInit == ConnInit => DeliveryInv
<1> SUFFICES ASSUME ConnInit, NEW c \in Conns
             PROVE  Serving(NoSession, NewNet, NewClient)
  BY DEF ConnInit, SessionInit, DeliveryInv
<1>1. NewClient.stage = "idle" /\ NewClient.script = << >> /\ NewClient.answers = << >>
  BY DEF NewClient
<1>2. ToSet(NewClient.answers) = {} /\ Len(NewClient.script) = 0
  BY <1>1 DEF ToSet
<1>3. Waited(NewClient) /\ Delivered(NewClient)
  BY <1>2 DEF Waited, Delivered
<1> QED BY <1>1, <1>3, EmptyIsOrderly DEF Serving, Delivers, Ends

LEMMA DeliveryInvNext == ConnInv /\ DeliveryInv /\ [ConnNext]_connVars => DeliveryInv'
<1> SUFFICES ASSUME ConnInv, DeliveryInv, [ConnNext]_connVars
             PROVE  DeliveryInv'
  OBVIOUS
<1>1. CASE UNCHANGED connVars
  <2>1. sess' = sess /\ net' = net /\ client' = client
    BY <1>1 DEF connVars
  <2> QED BY <2>1 DEF DeliveryInv
<1>2. ASSUME NEW c \in Conns, Operations(c)
      PROVE  DeliveryInv'
  BY <1>2, ReadSomeDelivered, ReadEndsDelivered, WriteEndsDelivered, ExpireDelivered
     DEF Operations
<1>3. ASSUME NEW c \in Conns, StrandStep(c)
      PROVE  DeliveryInv'
  BY <1>3, RunStartsDelivered, ReadSucceedsDelivered, ReadFailsDelivered, WrittenDelivered,
     CallsDelivered DEF StrandStep
<1>4. ASSUME NEW c \in Conns, ClientStep(c)
      PROVE  DeliveryInv'
  BY <1>4, ConnectDelivered, SendHeadDelivered, SendBodyDelivered, EndsDelivered,
     ReceiveDelivered DEF ClientStep, Sends
<1>5. ASSUME NEW c \in Conns, OwnerCalls(c)
      PROVE  DeliveryInv'
  BY <1>5, CallsDelivered
<1>6. ASSUME NEW c \in Conns, Reset(c)
      PROVE  DeliveryInv'
  BY <1>6, ResetDelivered
<1> QED BY <1>1, <1>2, <1>3, <1>4, <1>5, <1>6 DEF ConnNext

LEMMA DeliveryAlways == ConnSpec => [](ConnInv /\ DeliveryInv)
<1>1. ConnInit => ConnInv /\ DeliveryInv
  BY ConnInvInit, DeliveryInvInit
<1>2. ConnInv /\ DeliveryInv /\ [ConnNext]_connVars => ConnInv' /\ DeliveryInv'
  BY ConnInvNext, DeliveryInvNext
<1> QED BY <1>1, <1>2, PTL DEF ConnSpec

\* What a client has read are answers to its requests.
LEMMA AnswersRead ==
    ASSUME ConnInv, DeliveryInv, NEW c \in Conns
    PROVE  LET k == client[c]
           IN  /\ k.answers \in Seq(Reply) /\ k.script \in Seq(Requests)
               /\ Len(k.script) \in Nat /\ InOrder(k.answers)
               /\ \A a \in ToSet(k.answers) :
                      /\ a.request \in 1..Len(k.script)
                      /\ a.code = Expected(k.script[a.request]) \/ a.request \in k.early
                      /\ \A i \in 1..Len(k.script) : i < a.request =>
                             i \in k.early \/ AnsweredIn(i, ToSet(k.answers))
<1> DEFINE k == client[c]
<1>1. /\ k.answers \in Seq(Reply) /\ k.script \in Seq(Requests) /\ Len(k.script) \in Nat
      /\ InOrder(k.answers) /\ Delivered(k)
  BY DeliveryInvParts, ResponseTypes DEF Good, OrderInv, Delivers
<1> HIDE DEF k
<1>2. \A a \in ToSet(k.answers) : Truthful(a, k) /\ a.code # "cut"
  BY <1>1 DEF Delivered, InOrder
<1>3. \A a \in ToSet(k.answers) : Settled(a.request, ToSet(k.answers), k)
  BY <1>1 DEF Delivered
<1> QED BY <1>1, <1>2, <1>3 DEF Truthful, Settled, Accounted, k

-----------------------------------------------------------------------------
(* Theorems. *)

LEMMA DeliveryImpliesNoneLost == ConnInv /\ DeliveryInv => OnlyEarlyRequestsAreLost
<1> SUFFICES ASSUME ConnInv, DeliveryInv, NEW c \in Conns
             PROVE  LET answers == client[c].answers
                        answered == {answers[k].request : k \in DOMAIN answers}
                    IN  /\ \A i \in answered : (1..i) \ answered \subseteq client[c].early
                        /\ \A k \in DOMAIN answers :
                               answers[k].code = Expected(client[c].script[answers[k].request])
                                   \/ answers[k].request \in client[c].early
  BY DEF OnlyEarlyRequestsAreLost
<1> DEFINE k == client[c]
           answered == {k.answers[j].request : j \in DOMAIN k.answers}
<1>1. /\ Len(k.script) \in Nat
      /\ \A a \in ToSet(k.answers) :
             /\ a.request \in 1..Len(k.script)
             /\ a.code = Expected(k.script[a.request]) \/ a.request \in k.early
             /\ \A i \in 1..Len(k.script) : i < a.request =>
                    i \in k.early \/ AnsweredIn(i, ToSet(k.answers))
  BY AnswersRead
<1> HIDE DEF k
<1>2. \A j \in DOMAIN k.answers : k.answers[j] \in ToSet(k.answers)
  BY DEF ToSet
<1>3. ASSUME NEW i \in answered, NEW q \in 1..i, ~(q \in answered)
      PROVE  q \in k.early
  <2>1. PICK a \in ToSet(k.answers) : a.request = i
    BY <1>2
  <2>2. q # i /\ i \in 1..Len(k.script)
    BY <1>1, <1>3, <2>1
  <2>3. q \in 1..Len(k.script) /\ q < i
    BY <1>1, <2>2
  <2>4. ~AnsweredIn(q, ToSet(k.answers))
    BY <1>3 DEF AnsweredIn, ToSet
  <2> QED BY <1>1, <2>1, <2>3, <2>4
<1> QED BY <1>1, <1>2, <1>3 DEF k

LEMMA DeliveryImpliesAnnounced == ConnInv /\ DeliveryInv => EndIsAnnounced
<1> SUFFICES ASSUME ConnInv, DeliveryInv, NEW c \in Conns,
                    client[c].stage = "ended", sess[c].open, net[c].deadline # "passed",
                    Patient(c)
             PROVE  client[c].answers # << >> /\ ~Last(client[c].answers).keepAlive
  BY DEF EndIsAnnounced
<1>1. PICK answers \in Seq(Reply) : answers = client[c].answers /\ InOrder(answers)
  BY AnswersRead
<1>2. LastSaid(ToSet(answers))
  BY <1>1, DeliveryInvParts DEF Ends, Ended, Patient, Patience
<1> HIDE DEF Reply
<1>3. PICK j \in DOMAIN answers : ~answers[j].keepAlive
  BY <1>2 DEF LastSaid, ToSet
<1>4. PICK L \in Nat : L = Len(answers) /\ DOMAIN answers = 1..L
  BY <1>1
<1>5. ~(j < L)
  <2>1. j < L => L \in DOMAIN answers
    BY <1>4
  <2> QED BY <1>1, <1>3, <2>1 DEF InOrder, InSequence, Before
<1>6. j = L /\ L # 0
  BY <1>4, <1>5
<1>7. Last(answers) = answers[L] /\ answers # << >>
  BY <1>4, <1>6 DEF Last
<1> QED BY <1>1, <1>3, <1>6, <1>7

LEMMA DeliveryImpliesTold == ConnInv /\ DeliveryInv => RejectedClientIsTold
<1> SUFFICES ASSUME ConnInv, DeliveryInv, NEW c \in Conns,
                    client[c].script # << >>, client[c].script[1].fault # "none",
                    client[c].stage = "ended", net[c].sent = Len(Stream(c)),
                    sess[c].open, net[c].deadline # "passed",
                    client[c].early = {}, ~net[c].reset
             PROVE  \E k \in DOMAIN client[c].answers :
                        client[c].answers[k].code = ParserError(client[c].script[1].fault)
  BY DEF RejectedClientIsTold
<1> DEFINE k == client[c]
<1>1. /\ k.script \in Seq(Requests) /\ Len(k.script) \in Nat
      /\ \A a \in ToSet(k.answers) :
             /\ a.request \in 1..Len(k.script)
             /\ a.code = Expected(k.script[a.request])
             /\ \A i \in 1..Len(k.script) : i < a.request => AnsweredIn(i, ToSet(k.answers))
  BY AnswersRead
<1>2. LastSaid(ToSet(k.answers))
  BY DeliveryInvParts DEF Ends, Ended, Stream
<1>3. PICK a \in ToSet(k.answers) : TRUE
  BY <1>2 DEF LastSaid
<1>4. 1 \in 1..Len(k.script)
  BY <1>1
<1> HIDE DEF k
<1>5. AnsweredIn(1, ToSet(k.answers))
  <2>1. CASE a.request = 1
    BY <2>1 DEF AnsweredIn
  <2>2. CASE a.request # 1
    <3>1. 1 < a.request
      BY <1>1, <2>2
    <3> QED BY <1>1, <1>4, <3>1
  <2> QED BY <2>1, <2>2
<1>6. PICK b \in ToSet(k.answers) : b.request = 1
  BY <1>5 DEF AnsweredIn
<1>7. b.code = ParserError(k.script[1].fault)
  BY <1>1, <1>6 DEF Expected, k
<1>8. PICK j \in DOMAIN k.answers : k.answers[j] = b
  BY <1>6 DEF ToSet
<1> QED BY <1>7, <1>8 DEF k

\* A request is skipped, or answered with something else than what it asked for,
\* only if it was sent before the answers to all earlier ones had been read:
\* buffer_.consume(buffer_.size()) throws away nothing else, however the units of
\* the stream are cut into reads (Session.cpp:67-73, 137).
THEOREM OnlyEarlyAreLost == ConnSpec => []OnlyEarlyRequestsAreLost
BY DeliveryAlways, DeliveryImpliesNoneLost, PTL

\* A patient client that finds its connection at its end, before the deadline and
\* not by force, has read as its last answer one that does not keep the
\* connection: neither the limit, nor RequestClose at any point of the chain, nor
\* a reset closes without it (Session.cpp:85-103, 113-143).
THEOREM EndWasAnnounced == ConnSpec => []EndIsAnnounced
BY DeliveryAlways, DeliveryImpliesAnnounced, PTL

\* A client whose first request is over a limit, or is no HTTP, has read the 4xx
\* answer when it finds the connection at its end, unless the close of the socket
\* reset it first (Session.cpp:85-103, 126-141, 169).
THEOREM RejectionIsTold == ConnSpec => []RejectedClientIsTold
BY DeliveryAlways, DeliveryImpliesTold, PTL

-----------------------------------------------------------------------------
(* One call on a connection. *)

\* Of a connection with one request: it has been counted once at most, nothing is
\* left to read once it has, and no answer of its handler is there before.
OneCall(r, n, k, request) ==
    /\ k.script \in {<< >>, <<request>>} /\ k.early = {}
    /\ r.requests \in {0, 1}
    /\ r.requests = 1 \/ "read_ok" \in InFlight(r)
           => k.script # << >> /\ n.used = Len(Units(k.script))
    /\ "read_ok" \in InFlight(r) => r.requests = 0
    /\ r.requests = 0 =>
           /\ \A a \in Responses(n, k) : a.code # "handled"
           /\ "write" \in InFlight(r) => n.reply.code # "handled"
    /\ Len(k.answers) <= 1

\* Where main() is, and what it has behind it.
RunInv ==
    /\ call \in Nat
    /\ \A c \in Conns :
           /\ OneCall(sess[c], net[c], client[c], Calls[c])
           /\ c > call => client[c].stage = "idle"
           /\ c < call \/ exit = "0" => client[c].answers # << >>

\* What a response may be that is there after a step.
Answered(m, j, r, n, k) ==
    \A a \in Responses(m, j) :
        \/ a \in Responses(n, k)
        \/ a.code # "handled"
        \/ a = n.reply /\ "write" \in InFlight(r)

\* Nothing is read, and nothing answered that was not.
LEMMA StillOneCall ==
    ASSUME NEW r, NEW n, NEW k, NEW request, OneCall(r, n, k, request), ConnType(r, n, k),
           NEW s, s.requests = r.requests,
           "read_ok" \in InFlight(s) => "read_ok" \in InFlight(r),
           NEW m, m.used \in {n.used, n.pulled},
           "write" \in InFlight(s) =>
               m.reply.code # "handled" \/ ("write" \in InFlight(r) /\ m.reply = n.reply),
           NEW j, j.script = k.script, j.early = k.early, Len(j.answers) <= 1,
           Answered(m, j, r, n, k)
    PROVE  OneCall(s, m, j, request)
<1>1. /\ n.used \in Nat /\ n.pulled \in Nat /\ n.sent \in Nat
      /\ Len(Units(k.script)) \in Nat
      /\ n.used <= n.pulled /\ n.pulled <= n.sent /\ n.sent <= Len(Units(k.script))
  BY DEF ConnType, NetRecord, StreamOK
<1>2. n.used = Len(Units(k.script)) => m.used = n.used
  BY <1>1
<1>3. r.requests = 0 => \A a \in Responses(m, j) : a.code # "handled"
  BY DEF OneCall, Answered
<1>4. r.requests = 0 => ("write" \in InFlight(s) => m.reply.code # "handled")
  BY DEF OneCall
<1>5. s.requests = 1 \/ "read_ok" \in InFlight(s)
           => j.script # << >> /\ m.used = Len(Units(j.script))
  BY <1>2 DEF OneCall
<1> QED BY <1>3, <1>4, <1>5 DEF OneCall

\* A request is read: it was not read before, and it is the whole stream.
LEMMA ReadOneCall ==
    ASSUME NEW r, NEW n, NEW k, NEW request, OneCall(r, n, k, request), ConnType(r, n, k),
           InFlight(r) = {"read"},
           NEW m, Further(m, n, k), NEW s, s.requests = r.requests,
           \/ s = r
           \/ InFlight(s) = {"read_error"}
           \/ InFlight(s) = {"read_ok"} /\ Left(m.parsing, m, k)
    PROVE  OneCall(s, m, k, request)
<1> DEFINE stream == Units(k.script)
<1>1. /\ n.used \in Nat /\ m.used \in Nat /\ m.pulled \in Nat /\ m.sent \in Nat
      /\ stream \in Seq(UnitType) /\ Len(stream) \in Nat
      /\ n.sent <= Len(stream) /\ n.used < m.used /\ m.used <= m.pulled /\ m.pulled <= m.sent
      /\ m.sent = n.sent /\ m.used \in DOMAIN stream
      /\ m.parsing \in 1..Len(k.script) /\ m.toClient = n.toClient
  BY DEF ConnType, NetRecord, StreamOK, Further
<1>2. r.requests = 0
  BY <1>1 DEF OneCall
<1>3. Len(k.script) \in {0, 1}
  BY DEF OneCall
<1>4. k.script # << >>
  BY <1>1
<1>5. CASE InFlight(s) = {"read_ok"} /\ Left(m.parsing, m, k)
  <2>0. PICK last \in Nat : last = Len(stream)
    BY <1>1
  <2>1. ASSUME NEW j \in DOMAIN stream, j > m.used
        PROVE  FALSE
    <3>1. PICK b : b = stream[j][2]
      OBVIOUS
    <3>2. b \in 1..Len(k.script) /\ m.parsing < b
      BY <1>5, <2>1, <3>1 DEF Left, ConnType, StreamOK
    <3>3. PICK l \in {0, 1} : l = Len(k.script)
      BY <1>3
    <3>4. m.parsing \in 1..l /\ b \in 1..l /\ m.parsing < b
      BY <1>1, <3>2, <3>3
    <3> QED BY <3>4
  <2> HIDE DEF stream
  <2>2. m.used = Len(stream)
    <3>1. DOMAIN stream = 1..last /\ m.used \in 1..last
      BY <1>1, <2>0
    <3>2. ~(last > m.used)
      <4>1. last \in 1..last
        BY <3>1
      <4> QED BY <2>1, <3>1, <4>1
    <3> QED BY <2>0, <3>1, <3>2
  <2>3. Responses(m, k) = Responses(n, k)
    BY <1>1 DEF Responses
  <2> QED BY <1>2, <1>4, <1>5, <2>2, <2>3 DEF OneCall, stream
<1>6. CASE s = r \/ InFlight(s) = {"read_error"}
  <2>1. "read_ok" \notin InFlight(s) /\ "write" \notin InFlight(s)
    BY <1>6
  <2>2. Responses(m, k) = Responses(n, k)
    BY <1>1 DEF Responses
  <2> QED BY <1>2, <2>1, <2>2 DEF OneCall
<1> QED BY <1>5, <1>6

\* The request is counted.
LEMMA CountOneCall ==
    ASSUME NEW r, NEW n, NEW k, NEW request, OneCall(r, n, k, request),
           InFlight(r) = {"read_ok"}, NEW s, s.requests = r.requests + 1,
           "read_ok" \notin InFlight(s), NEW m, m.used = n.used
    PROVE  OneCall(s, m, k, request)
BY DEF OneCall

LEMMA NewOneCall ==
    ASSUME NEW request, NEW s, s.requests = 0, InFlight(s) \in {{"read"}, {"Run"}},
           NEW m, m.toClient = << >>,
           NEW j, j.script = << >>, j.early = {}, j.answers = << >>
    PROVE  OneCall(s, m, j, request)
<1>1. Responses(m, j) = {}
  BY DEF Responses, ToSet
<1>2. Len(j.answers) <= 1
  OBVIOUS
<1> QED BY <1>1, <1>2 DEF OneCall

\* The one request is sent, and is not early.
LEMMA SendOneCall ==
    ASSUME NEW r, NEW n, NEW k, NEW request, OneCall(r, n, k, request), k.script = << >>,
           k.answers \in Seq(Reply),
           NEW m, m.toClient = n.toClient, m.reply = n.reply,
           NEW j, j.script = Append(k.script, request), j.answers = k.answers,
           j.early = IF Len(k.answers) < Len(k.script) THEN k.early \cup {Len(k.script) + 1}
                     ELSE k.early
    PROVE  OneCall(r, m, j, request)
<1>1. j.script = <<request>> /\ j.early = {}
  BY DEF OneCall
<1>2. r.requests = 0 /\ "read_ok" \notin InFlight(r)
  BY DEF OneCall
<1>3. Responses(m, j) = Responses(n, k)
  BY DEF Responses
<1> QED BY <1>1, <1>2, <1>3 DEF OneCall

-----------------------------------------------------------------------------
(* The responses of a connection, step by step. *)

LEMMA SameResponses ==
    ASSUME NEW r, NEW n, NEW k, NEW m, m.toClient = n.toClient,
           NEW j, j.answers = k.answers
    PROVE  Answered(m, j, r, n, k)
BY DEF Answered, Responses

LEMMA OneResponseMore ==
    ASSUME NEW r, NEW n, NEW k, ConnType(r, n, k), NEW reply \in Reply,
           reply.code # "handled" \/ (reply = n.reply /\ "write" \in InFlight(r)),
           NEW m, m.toClient = Append(n.toClient, reply)
    PROVE  Answered(m, k, r, n, k)
<1>1. n.toClient \in Seq(Reply)
  BY ResponseTypes
<1> HIDE DEF Reply
<1>2. ToSet(m.toClient) = ToSet(n.toClient) \cup {reply}
  BY <1>1, AppendSequence
<1> QED BY <1>2 DEF Answered, Responses

LEMMA FewerResponses ==
    ASSUME NEW r, NEW n, NEW k, ConnType(r, n, k), NEW kept \in 0..Len(n.toClient),
           NEW m, m.toClient = SubSeq(n.toClient, 1, kept)
    PROVE  Answered(m, k, r, n, k)
<1>1. n.toClient \in Seq(Reply)
  BY ResponseTypes
<1> HIDE DEF Reply
<1>2. ToSet(m.toClient) \subseteq ToSet(n.toClient)
  BY <1>1, PrefixSequence
<1> QED BY <1>2 DEF Answered, Responses

\* A response that is read, or was cut off, was there.
LEMMA ResponseRead ==
    ASSUME NEW r, NEW n, NEW k, ConnType(r, n, k), n.toClient # << >>,
           NEW m, m.toClient = Tail(n.toClient),
           NEW j, j.answers = k.answers \/ j.answers = Append(k.answers, Head(n.toClient))
    PROVE  Answered(m, j, r, n, k)
<1>1. CASE j.answers = Append(k.answers, Head(n.toClient))
  BY <1>1, ReceivedResponses DEF Answered
<1>2. CASE j.answers = k.answers
  <2>1. n.toClient \in Seq(Reply)
    BY ResponseTypes
  <2> HIDE DEF Reply
  <2>2. ToSet(m.toClient) \subseteq ToSet(n.toClient)
    BY <2>1, TailSequence
  <2> QED BY <1>2, <2>2 DEF Answered, Responses
<1> QED BY <1>1, <1>2

-----------------------------------------------------------------------------
(* The steps of the server, and of the connection. *)

LEMMA RunInvParts ==
    ASSUME ConnInv, RunInv, NEW c \in Conns
    PROVE  /\ OneCall(sess[c], net[c], client[c], Calls[c])
           /\ ConnType(sess[c], net[c], client[c])
           /\ Len(client[c].answers) <= 1
BY ConnInvParts DEF RunInv, OneCall

\* What a step makes of one connection is all it does to the invariant, unless
\* main() goes on.
LEMMA OneRunStep ==
    ASSUME ConnInv, RunInv, Same, NEW c \in Conns, NEW s, NEW m, NEW j,
           Moves(c, s, m, j), OneCall(s, m, j, Calls[c]),
           c > call => j.stage = "idle",
           client[c].answers # << >> => j.answers # << >>
    PROVE  RunInv'
<1>1. /\ sess \in [Conns -> SessionRecord] /\ net \in [Conns -> NetRecord]
      /\ client \in [Conns -> ClientRecord]
  BY DEF ConnInv, SessionTypeOK
<1>2. call' = call /\ exit' = exit
  BY DEF Same
<1>3. ASSUME NEW d \in Conns
      PROVE  /\ OneCall(sess'[d], net'[d], client'[d], Calls[d])
             /\ d > call => client'[d].stage = "idle"
             /\ d < call \/ exit = "0" => client'[d].answers # << >>
  <2>1. CASE d = c
    <3>1. sess'[d] = s /\ net'[d] = m /\ client'[d] = j
      BY <1>1, <2>1 DEF Moves
    <3>2. d < call \/ exit = "0" => client[d].answers # << >>
      BY DEF RunInv
    <3> QED BY <2>1, <3>1, <3>2
  <2>2. CASE d # c
    <3>1. sess'[d] = sess[d] /\ net'[d] = net[d] /\ client'[d] = client[d]
      BY <1>1, <2>2 DEF Moves
    <3>2. /\ OneCall(sess[d], net[d], client[d], Calls[d])
          /\ d > call => client[d].stage = "idle"
          /\ d < call \/ exit = "0" => client[d].answers # << >>
      BY DEF RunInv
    <3> QED BY <3>1, <3>2
  <2> QED BY <2>1, <2>2
<1> QED BY <1>2, <1>3 DEF RunInv

\* A step of the server leaves the client as it is.
LEMMA ServerRunStep ==
    ASSUME ConnInv, RunInv, Same, NEW c \in Conns, NEW s, NEW m,
           Moves(c, s, m, client[c]), OneCall(s, m, client[c], Calls[c])
    PROVE  RunInv'
<1>1. c > call => client[c].stage = "idle"
  BY DEF RunInv
<1> QED BY <1>1, OneRunStep

\* Most of them read nothing, and answer nothing new.
LEMMA QuietRunStep ==
    ASSUME ConnInv, RunInv, Same, NEW c \in Conns, NEW s, NEW m,
           Moves(c, s, m, client[c]), s.requests = sess[c].requests,
           "read_ok" \in InFlight(s) => "read_ok" \in InFlight(sess[c]),
           m.used \in {net[c].used, net[c].pulled},
           "write" \in InFlight(s) =>
               m.reply.code # "handled"
               \/ ("write" \in InFlight(sess[c]) /\ m.reply = net[c].reply),
           Answered(m, client[c], sess[c], net[c], client[c])
    PROVE  RunInv'
<1>1. OneCall(s, m, client[c], Calls[c])
  BY RunInvParts, StillOneCall
<1> QED BY <1>1, ServerRunStep

LEMMA ReadSomeRuns ==
    ASSUME ConnInv, DeliveryInv, RunInv, Same, NEW c \in Conns, ReadSome(c)
    PROVE  RunInv'
<1>1. PICK m, s :
          /\ Moves(c, s, m, client[c]) /\ Further(m, net[c], client[c])
          /\ Carries(s, sess[c]) /\ InFlight(sess[c]) = {"read"}
          /\ \/ s = sess[c]
             \/ InFlight(s) = {"read_error"}
             \/ InFlight(s) = {"read_ok"} /\ Left(m.parsing, m, client[c])
  BY ReadSomeDoes
<1>2. s.requests = sess[c].requests
  BY <1>1 DEF Carries
<1>3. OneCall(s, m, client[c], Calls[c])
  BY <1>1, <1>2, RunInvParts, ReadOneCall
<1> QED BY <1>1, <1>3, ServerRunStep

LEMMA ReadEndsRuns ==
    ASSUME ConnInv, RunInv, Same, NEW c \in Conns, ReadMeetsTheEnd(c) \/ ReadIsCancelled(c)
    PROVE  RunInv'
<1>1. PICK s : \E ec \in {"read_timeout", "read_eof", "read_error"} :
          /\ Moves(c, s, net[c], client[c]) /\ Carries(s, sess[c]) /\ InFlight(s) = {ec}
  BY ReadEndsDoes
<1>2. s.requests = sess[c].requests
  BY <1>1 DEF Carries
<1>3. "read_ok" \notin InFlight(s) /\ "write" \notin InFlight(s)
  BY <1>1
<1>4. Answered(net[c], client[c], sess[c], net[c], client[c])
  BY SameResponses
<1>5. Moves(c, s, net[c], client[c])
  BY <1>1
<1> QED BY <1>2, <1>3, <1>4, <1>5, QuietRunStep

LEMMA WriteDoneRuns ==
    ASSUME ConnInv, RunInv, Same, NEW c \in Conns, WriteDone(c)
    PROVE  RunInv'
<1>1. PICK s, m :
          /\ Moves(c, s, m, client[c])
          /\ Carried(m, net[c]) /\ m.toClient = Append(net[c].toClient, net[c].reply)
          /\ Carries(s, sess[c])
          /\ InFlight(sess[c]) = {"write"} /\ InFlight(s) = {"write_ok"}
  BY WriteDoneDoes
<1>2. s.requests = sess[c].requests /\ m.used = net[c].used
  BY <1>1 DEF Carries, Carried
<1>3. "read_ok" \notin InFlight(s) /\ "write" \notin InFlight(s)
  BY <1>1
<1>4. Answered(m, client[c], sess[c], net[c], client[c])
  <2>1. net[c].reply \in Reply /\ "write" \in InFlight(sess[c])
    BY <1>1, RunInvParts, ResponseTypes
  <2> HIDE DEF Reply
  <2> QED BY <1>1, <2>1, RunInvParts, OneResponseMore
<1> QED BY <1>1, <1>2, <1>3, <1>4, QuietRunStep

LEMMA WriteFailsRuns ==
    ASSUME ConnInv, RunInv, Same, NEW c \in Conns, WriteFails(c)
    PROVE  RunInv'
<1>1. PICK s, m :
          /\ Moves(c, s, m, client[c]) /\ Carried(m, net[c])
          /\ m.toClient \in {net[c].toClient, Append(net[c].toClient, NoReply)}
          /\ Carries(s, sess[c]) /\ InFlight(s) = {"write_error"}
  BY WriteFailsDoes
<1>2. s.requests = sess[c].requests /\ m.used = net[c].used
  BY <1>1 DEF Carries, Carried
<1>3. "read_ok" \notin InFlight(s) /\ "write" \notin InFlight(s)
  BY <1>1
<1>4. Answered(m, client[c], sess[c], net[c], client[c])
  <2>1. CASE m.toClient = net[c].toClient
    BY <2>1, SameResponses
  <2>2. CASE m.toClient = Append(net[c].toClient, NoReply)
    <3>1. NoReply \in Reply /\ NoReply.code # "handled"
      BY DEF NoReply, Reply, Codes
    <3> HIDE DEF Reply
    <3> QED BY <2>2, <3>1, RunInvParts, OneResponseMore
  <2> QED BY <1>1, <2>1, <2>2
<1> QED BY <1>1, <1>2, <1>3, <1>4, QuietRunStep

LEMMA ExpireRuns ==
    ASSUME ConnInv, RunInv, Same, NEW c \in Conns, Expire(c)
    PROVE  RunInv'
<1>1. PICK m : /\ Moves(c, sess[c], m, client[c]) /\ Carried(m, net[c])
               /\ m.toClient = net[c].toClient
  BY ExpireDoes
<1>2. m.used = net[c].used /\ m.reply = net[c].reply
  BY <1>1 DEF Carried
<1>3. Answered(m, client[c], sess[c], net[c], client[c])
  BY <1>1, SameResponses
<1> QED BY <1>1, <1>2, <1>3, QuietRunStep

LEMMA ResetRuns ==
    ASSUME ConnInv, RunInv, Same, NEW c \in Conns, Reset(c)
    PROVE  RunInv'
<1>1. PICK m : \E kept \in 0..Len(net[c].toClient) :
          /\ Moves(c, sess[c], m, client[c]) /\ Carried(m, net[c])
          /\ m.toClient = SubSeq(net[c].toClient, 1, kept)
  BY ResetDoes
<1>2. Moves(c, sess[c], m, client[c]) /\ m.used = net[c].used /\ m.reply = net[c].reply
  BY <1>1 DEF Carried
<1>3. PICK kept \in 0..Len(net[c].toClient) : m.toClient = SubSeq(net[c].toClient, 1, kept)
  BY <1>1
<1>4. Answered(m, client[c], sess[c], net[c], client[c])
  BY <1>3, RunInvParts, FewerResponses
<1> QED BY <1>2, <1>4, QuietRunStep

LEMMA RunStartsRuns ==
    ASSUME ConnInv, RunInv, Same, NEW c \in Conns, RunStarts(c)
    PROVE  RunInv'
<1>1. PICK s, m :
          /\ Moves(c, s, m, client[c]) /\ ReadsAnew(m, net[c]) /\ m.used = net[c].used
          /\ Carries(s, sess[c])
          /\ InFlight(s) = IF sess[c].open THEN {"read"} ELSE {"read_error"}
  BY RunStartsDoes
<1>2. s.requests = sess[c].requests /\ m.toClient = net[c].toClient
  BY <1>1 DEF Carries, ReadsAnew
<1>3. "read_ok" \notin InFlight(s) /\ "write" \notin InFlight(s)
  BY <1>1
<1>4. Answered(m, client[c], sess[c], net[c], client[c])
  BY <1>2, SameResponses
<1> QED BY <1>1, <1>2, <1>3, <1>4, QuietRunStep

\* The handler is called once.
LEMMA ReadSucceedsRuns ==
    ASSUME ConnInv, RunInv, Same, NEW c \in Conns, ReadSucceeds(c)
    PROVE  RunInv'
<1>1. PICK s, m :
          /\ Moves(c, s, m, client[c]) /\ Replies(m, net[c], "handled", s.keepAlive)
          /\ s.requests = sess[c].requests + 1
          /\ InFlight(sess[c]) = {"read_ok"}
          /\ InFlight(s) = IF sess[c].open THEN {"write"} ELSE {"write_error"}
  BY ReadSucceedsDoes
<1>2. m.used = net[c].used /\ "read_ok" \notin InFlight(s)
  BY <1>1 DEF Replies
<1>3. OneCall(s, m, client[c], Calls[c])
  BY <1>1, <1>2, RunInvParts, CountOneCall
<1> QED BY <1>1, <1>3, ServerRunStep

LEMMA ReadFailsRuns ==
    ASSUME ConnInv, RunInv, Same, NEW c \in Conns, ReadFails(c)
    PROVE  RunInv'
<1>1. PICK s, m :
          /\ Moves(c, s, m, client[c]) /\ s.requests = sess[c].requests
          /\ \/ /\ Replies(m, net[c], ParserError(net[c].fault), FALSE)
                /\ InFlight(s) = IF sess[c].open THEN {"write"} ELSE {"write_error"}
             \/ m = net[c] /\ InFlight(s) = {}
  BY ReadFailsDoes
<1>2. /\ m.used = net[c].used /\ m.toClient = net[c].toClient
      /\ "read_ok" \notin InFlight(s)
  BY <1>1 DEF Replies
<1>3. "write" \in InFlight(s) => m.reply.code # "handled"
  <2>1. ParserError(net[c].fault) # "handled"
    BY DEF ParserError
  <2>2. CASE Replies(m, net[c], ParserError(net[c].fault), FALSE)
    <3>1. m.reply.code = ParserError(net[c].fault)
      BY <2>2 DEF Replies
    <3> QED BY <2>1, <3>1
  <2>3. CASE InFlight(s) = {}
    BY <2>3
  <2> QED BY <1>1, <2>2, <2>3
<1>4. Answered(m, client[c], sess[c], net[c], client[c])
  BY <1>2, SameResponses
<1> QED BY <1>1, <1>2, <1>3, <1>4, QuietRunStep

LEMMA WrittenRuns ==
    ASSUME ConnInv, RunInv, Same, NEW c \in Conns, Written(c)
    PROVE  RunInv'
<1>1. PICK s, m :
          /\ Moves(c, s, m, client[c]) /\ s.requests = sess[c].requests
          /\ \/ /\ ReadsAnew(m, net[c])
                /\ InFlight(s) = IF sess[c].open THEN {"read"} ELSE {"read_error"}
             \/ /\ m.used \in {net[c].used, net[c].pulled}
                /\ m.toClient = net[c].toClient /\ InFlight(s) = {}
  BY WrittenDoes
<1>2. m.used \in {net[c].used, net[c].pulled} /\ m.toClient = net[c].toClient
  BY <1>1 DEF ReadsAnew
<1>3. "read_ok" \notin InFlight(s) /\ "write" \notin InFlight(s)
  BY <1>1
<1>4. Answered(m, client[c], sess[c], net[c], client[c])
  BY <1>2, SameResponses
<1> QED BY <1>1, <1>2, <1>3, <1>4, QuietRunStep

LEMMA CallsRun ==
    ASSUME ConnInv, RunInv, Same, NEW c \in Conns, Closes(c) \/ OwnerCalls(c)
    PROVE  RunInv'
<1>1. PICK s : Moves(c, s, net[c], client[c]) /\ Beside(s, sess[c])
  BY CallsDoes
<1>2. s.requests = sess[c].requests /\ InFlight(s) = InFlight(sess[c])
  BY <1>1 DEF Beside
<1>3. Answered(net[c], client[c], sess[c], net[c], client[c])
  BY SameResponses
<1> QED BY <1>1, <1>2, <1>3, QuietRunStep

LEMMA ServerRuns ==
    ASSUME ConnInv, DeliveryInv, RunInv, NEW c \in Conns, Serves(c)
    PROVE  RunInv'
<1>1. Same /\ (Operations(c) \/ StrandStep(c) \/ OwnerCalls(c) \/ Reset(c))
  BY DEF Serves
<1>2. CASE Operations(c)
  BY <1>1, <1>2, ReadSomeRuns, ReadEndsRuns, WriteDoneRuns, WriteFailsRuns, ExpireRuns
     DEF Operations
<1>3. CASE StrandStep(c)
  BY <1>1, <1>3, RunStartsRuns, ReadSucceedsRuns, ReadFailsRuns, WrittenRuns, CallsRun
     DEF StrandStep
<1>4. CASE OwnerCalls(c) \/ Reset(c)
  BY <1>1, <1>4, CallsRun, ResetRuns
<1> QED BY <1>1, <1>2, <1>3, <1>4

-----------------------------------------------------------------------------
(* The steps of main(). *)

LEMMA CallsFacts ==
    ASSUME NEW c \in Conns
    PROVE  /\ Calls[c] \in Sendable /\ Calls[c].fault = "none"
           /\ Conns = 1..Len(Calls) /\ Len(Calls) \in Nat
BY CallsAssumption

LEMMA ConnectRuns ==
    ASSUME ConnInv, RunInv, NEW c \in Conns, Connects(c)
    PROVE  RunInv'
<1>1. /\ call = c /\ Same
      /\ c > call => FALSE
  BY DEF Connects, InCall, RunInv
<1>2. PICK s, m, j :
          /\ Moves(c, s, m, j) /\ client[c].stage = "idle" /\ s.requests = 0
          /\ InFlight(s) \in {{"read"}, {"Run"}} /\ m.toClient = << >>
          /\ j.script = << >> /\ j.answers = << >> /\ j.early = {}
  BY ConnectDoes DEF Connects
<1>3. OneCall(s, m, j, Calls[c])
  BY <1>2, NewOneCall
<1>4. client[c].answers = << >>
  BY <1>2, RunInvParts DEF ConnType, NewClient
<1> QED BY <1>1, <1>2, <1>3, <1>4, OneRunStep

\* What there is of SendHead in one client, and its connection.
HeadSent(m, j, n, k, request) ==
    /\ m.toClient = n.toClient /\ m.reply = n.reply
    /\ k.answers \in Seq(Reply) /\ j.answers = k.answers
    /\ j.script = Append(k.script, request)
    /\ j.early = IF Len(k.answers) < Len(k.script) THEN k.early \cup {Len(k.script) + 1}
                 ELSE k.early

LEMMA SendHeadSends ==
    ASSUME ConnInv, NEW c \in Conns, NEW request \in Sendable, SendHead(c, request)
    PROVE  \E m, j : /\ Moves(c, sess[c], m, j)
                     /\ HeadSent(m, j, net[c], client[c], request)
<1>1. PICK m, j :
          /\ Moves(c, sess[c], m, j) /\ SendsOn(m, net[c])
          /\ client[c].stage = "connected" /\ request \in Requests
          /\ net[c].sent = Len(Units(client[c].script))
          /\ j \in ClientRecord /\ j.stage = client[c].stage
          /\ j.answers = client[c].answers
          /\ j.script = Append(client[c].script, request)
          /\ Len(client[c].script) < MaxScript
          /\ j.early = IF Len(client[c].answers) < Len(client[c].script)
                       THEN client[c].early \cup {Len(client[c].script) + 1}
                       ELSE client[c].early
  BY SendHeadDoes
<1>2. m.toClient = net[c].toClient /\ m.reply = net[c].reply
  BY <1>1 DEF SendsOn
<1>3. client[c].answers \in Seq(Reply)
  BY ConnInvParts, ResponseTypes
<1> HIDE DEF Reply
<1>4. HeadSent(m, j, net[c], client[c], request)
  BY <1>1, <1>2, <1>3 DEF HeadSent
<1> QED BY <1>1, <1>4

LEMMA SendHeadRuns ==
    ASSUME ConnInv, RunInv, Same, NEW c \in Conns, ~(c > call), client[c].script = << >>,
           SendHead(c, Calls[c])
    PROVE  RunInv'
<1>1. PICK request \in Sendable : request = Calls[c] /\ SendHead(c, request)
  BY CallsFacts
<1>2. PICK m, j : Moves(c, sess[c], m, j) /\ HeadSent(m, j, net[c], client[c], request)
  BY <1>1, SendHeadSends
<1>3. OneCall(sess[c], net[c], client[c], request)
  BY <1>1, RunInvParts
<1> HIDE DEF Reply
<1>4. OneCall(sess[c], m, j, request)
  BY <1>2, <1>3, SendOneCall DEF HeadSent
<1>5. j.answers = client[c].answers
  BY <1>2 DEF HeadSent
<1> QED BY <1>1, <1>2, <1>4, <1>5, OneRunStep

LEMMA SendBodyRuns ==
    ASSUME ConnInv, RunInv, Same, NEW c \in Conns, SendBody(c)
    PROVE  RunInv'
<1>1. PICK m : Moves(c, sess[c], m, client[c]) /\ SendsOn(m, net[c])
  BY SendBodyDoes
<1>2. m.used = net[c].used /\ m.reply = net[c].reply /\ m.toClient = net[c].toClient
  BY <1>1 DEF SendsOn
<1>3. Answered(m, client[c], sess[c], net[c], client[c])
  BY <1>2, SameResponses
<1> QED BY <1>1, <1>2, <1>3, QuietRunStep

\* The connection of a call ends at the client.
LEMMA EndOneCall ==
    ASSUME ConnInv, RunInv, NEW c \in Conns, SendFails(c) \/ SeeEnd(c) \/ Leave(c)
    PROVE  \E j : /\ Moves(c, sess[c], net[c], j) /\ j.answers = client[c].answers
                  /\ OneCall(sess[c], net[c], j, Calls[c])
<1>1. PICK j :
          /\ Moves(c, sess[c], net[c], j)
          /\ j.script = client[c].script /\ j.answers = client[c].answers
          /\ j.early = client[c].early
  BY EndsDoes
<1>2. Len(j.answers) <= 1
  BY <1>1, RunInvParts
<1>3. Answered(net[c], j, sess[c], net[c], client[c])
  BY <1>1, SameResponses
<1>4. OneCall(sess[c], net[c], j, Calls[c])
  BY <1>1, <1>2, <1>3, RunInvParts, StillOneCall
<1> QED BY <1>1, <1>4

LEMMA EndsRun ==
    ASSUME ConnInv, RunInv, Same, NEW c \in Conns, ~(c > call), SendFails(c) \/ SeeEnd(c)
    PROVE  RunInv'
<1>1. PICK j : /\ Moves(c, sess[c], net[c], j) /\ j.answers = client[c].answers
               /\ OneCall(sess[c], net[c], j, Calls[c])
  BY EndOneCall
<1> QED BY <1>1, OneRunStep

\* Only the first response is read.
LEMMA ReceiveRuns ==
    ASSUME ConnInv, RunInv, Same, NEW c \in Conns, ~(c > call), client[c].answers = << >>,
           Receive(c)
    PROVE  RunInv'
<1>1. PICK m, j :
          /\ Moves(c, sess[c], m, j)
          /\ Carried(m, net[c]) /\ net[c].toClient # << >>
          /\ m.toClient = Tail(net[c].toClient)
          /\ j.script = client[c].script /\ j.early = client[c].early
          /\ \/ j.answers = client[c].answers
             \/ j.answers = Append(client[c].answers, Head(net[c].toClient))
  BY ReceiveDoes
<1>2. m.used = net[c].used /\ m.reply = net[c].reply
  BY <1>1 DEF Carried
<1>3. Answered(m, j, sess[c], net[c], client[c])
  BY <1>1, RunInvParts, ResponseRead
<1>4. Len(j.answers) <= 1
  <2>1. PICK read, answer :
            /\ read = client[c].answers /\ answer = Head(net[c].toClient)
            /\ read \in Seq(Reply) /\ Len(read) = 0
    BY RunInvParts, ResponseTypes
  <2> HIDE DEF Reply
  <2>2. Len(Append(read, answer)) = 1
    BY <2>1
  <2>3. j.answers = read \/ j.answers = Append(read, answer)
    BY <1>1, <2>1
  <2>4. PICK l \in {0, 1} : l = Len(j.answers)
    BY <2>1, <2>2, <2>3
  <2>5. l <= 1
    OBVIOUS
  <2> QED BY <2>4, <2>5
<1>5. OneCall(sess[c], m, j, Calls[c])
  BY <1>1, <1>2, <1>3, <1>4, RunInvParts, StillOneCall
<1> QED BY <1>1, <1>5, OneRunStep

\* A call that returns has its answer.
LEMMA ReturnsRuns ==
    ASSUME ConnInv, RunInv, NEW c \in Conns, Returns(c)
    PROVE  RunInv'
<1>1. /\ call = c /\ exit = "none" /\ client[c].answers # << >>
      /\ Leave(c)
      /\ \/ c = Len(Calls) /\ exit' = "0" /\ call' = call
         \/ c # Len(Calls) /\ call' = c + 1 /\ exit' = exit
  BY DEF Returns, InCall
<1>2. PICK j : /\ Moves(c, sess[c], net[c], j) /\ j.answers = client[c].answers
               /\ OneCall(sess[c], net[c], j, Calls[c])
  BY <1>1, EndOneCall
<1>3. /\ sess \in [Conns -> SessionRecord] /\ net \in [Conns -> NetRecord]
      /\ client \in [Conns -> ClientRecord]
  BY DEF ConnInv, SessionTypeOK
<1>4. ASSUME NEW d \in Conns
      PROVE  /\ OneCall(sess'[d], net'[d], client'[d], Calls[d])
             /\ d > call' => client'[d].stage = "idle"
             /\ d < call' \/ exit' = "0" => client'[d].answers # << >>
  <2>1. d \in Nat /\ c \in Nat /\ d <= Len(Calls) /\ Len(Calls) \in Nat
    BY CallsFacts
  <2>2. CASE d = c
    <3>1. sess'[d] = sess[c] /\ net'[d] = net[c] /\ client'[d] = j
      BY <1>3, <1>2, <2>2 DEF Moves
    <3>2. ~(d > call')
      BY <1>1, <2>1, <2>2
    <3> QED BY <1>1, <1>2, <2>2, <3>1, <3>2
  <2>3. CASE d # c
    <3>1. sess'[d] = sess[d] /\ net'[d] = net[d] /\ client'[d] = client[d]
      BY <1>2, <1>3, <2>3 DEF Moves
    <3>2. /\ OneCall(sess[d], net[d], client[d], Calls[d])
          /\ d > c => client[d].stage = "idle"
          /\ d < c => client[d].answers # << >>
      BY <1>1 DEF RunInv
    <3>3. /\ d > call' => d > c
          /\ d < call' \/ exit' = "0" => d < c
      BY <1>1, <2>1, <2>3
    <3> QED BY <3>1, <3>2, <3>3
  <2> QED BY <2>2, <2>3
<1>5. call' \in Nat
  BY <1>1, CallsFacts DEF RunInv
<1> QED BY <1>4, <1>5 DEF RunInv

\* The process ends, and nothing else happens.
LEMMA FailsRun ==
    ASSUME RunInv, exit' = "1", UNCHANGED <<sess, net, client, call>>
    PROVE  RunInv'
BY DEF RunInv

LEMMA MainRuns ==
    ASSUME ConnInv, RunInv, NEW c \in Conns, Request(c)
    PROVE  RunInv'
<1>1. CASE Connects(c)
  BY <1>1, ConnectRuns
<1>2. CASE Refused(c) \/ Throws(c)
  BY <1>2, FailsRun DEF Refused, Throws
<1>3. CASE Writes(c)
  <2>1. InCall(c) /\ Same
    BY <1>3 DEF Writes
  <2>2. ~(c > call)
    BY <2>1 DEF InCall, RunInv
  <2> QED BY <1>3, <2>1, <2>2, SendHeadRuns, SendBodyRuns, EndsRun DEF Writes
<1>4. CASE Reads(c)
  <2>1. InCall(c) /\ Same /\ client[c].answers = << >>
    BY <1>4 DEF Reads
  <2>2. ~(c > call)
    BY <2>1 DEF InCall, RunInv
  <2> QED BY <1>4, <2>1, <2>2, ReceiveRuns, EndsRun DEF Reads
<1>5. CASE Returns(c)
  BY <1>5, ReturnsRuns
<1> QED BY <1>1, <1>2, <1>3, <1>4, <1>5 DEF Request

-----------------------------------------------------------------------------
(* The invariant. *)

\* The process does to its connections what clients do.
LEMMA StepsOfConnection == [RunNext]_runVars => [ConnNext]_connVars
<1> SUFFICES ASSUME [RunNext]_runVars
             PROVE  [ConnNext]_connVars
  OBVIOUS
<1>1. CASE UNCHANGED runVars
  BY <1>1 DEF runVars, connVars
<1>2. ASSUME NEW c \in Conns, Serves(c)
      PROVE  ConnNext
  BY <1>2 DEF Serves, ConnNext
<1>3. ASSUME NEW c \in Conns, Request(c)
      PROVE  ClientStep(c) \/ UNCHANGED connVars
  <2>1. CASE Refused(c) \/ Throws(c)
    BY <2>1 DEF Refused, Throws, connVars
  <2>2. CASE Writes(c)
    <3>1. Calls[c] \in Sendable
      BY CallsFacts
    <3> QED BY <2>2, <3>1 DEF Writes, ClientStep, Sends
  <2>3. CASE Connects(c) \/ Reads(c) \/ Returns(c)
    BY <2>3 DEF Connects, Reads, Returns, ClientStep
  <2> QED BY <1>3, <2>1, <2>2, <2>3 DEF Request
<1> QED BY <1>1, <1>2, <1>3 DEF RunNext, ConnNext

LEMMA RunInvInit == RunInit => RunInv
<1> SUFFICES ASSUME RunInit, NEW c \in Conns
             PROVE  /\ OneCall(NoSession, NewNet, NewClient, Calls[c])
                    /\ NewClient.stage = "idle" /\ ~(c < 1)
  BY DEF RunInit, ConnInit, SessionInit, RunInv
<1>1. /\ NewClient.stage = "idle" /\ NewClient.script = << >> /\ NewClient.early = {}
      /\ NewClient.answers = << >> /\ Len(NewClient.answers) <= 1
  BY DEF NewClient
<1>2. Responses(NewNet, NewClient) = {}
  BY DEF Responses, ToSet, NewNet, NewClient
<1>3. NoSession.requests = 0 /\ InFlight(NoSession) = {}
  BY DEF NoSession, InFlight, Pending
<1>4. OneCall(NoSession, NewNet, NewClient, Calls[c])
  BY <1>1, <1>2, <1>3 DEF OneCall
<1> QED BY <1>1, <1>4, CallsFacts

LEMMA RunInvNext == ConnInv /\ DeliveryInv /\ RunInv /\ [RunNext]_runVars => RunInv'
<1> SUFFICES ASSUME ConnInv, DeliveryInv, RunInv, [RunNext]_runVars
             PROVE  RunInv'
  OBVIOUS
<1>1. CASE UNCHANGED runVars
  <2>1. sess' = sess /\ net' = net /\ client' = client /\ call' = call /\ exit' = exit
    BY <1>1 DEF runVars
  <2> QED BY <2>1 DEF RunInv
<1>2. CASE RunNext
  BY <1>2, ServerRuns, MainRuns DEF RunNext
<1> QED BY <1>1, <1>2

LEMMA RunAlways == RunSpec => [](ConnInv /\ DeliveryInv /\ RunInv)
<1>1. RunInit => ConnInv /\ DeliveryInv /\ RunInv
  BY ConnInvInit, DeliveryInvInit, RunInvInit DEF RunInit
<1>2. ConnInv /\ DeliveryInv /\ RunInv /\ [RunNext]_runVars
          => ConnInv' /\ DeliveryInv' /\ RunInv'
  BY StepsOfConnection, ConnInvNext, DeliveryInvNext, RunInvNext
<1> QED BY <1>1, <1>2, PTL DEF RunSpec

-----------------------------------------------------------------------------
(* Theorems. *)

\* A call behind main() has one answer, its own: its request was read to the end,
\* counted and handed to its handler.
LEMMA RunImpliesExecuted == ConnInv /\ DeliveryInv /\ RunInv => ReturnedMeansExecuted
<1> SUFFICES ASSUME ConnInv, DeliveryInv, RunInv, NEW c \in Conns
             PROVE  /\ sess[c].requests <= 1
                    /\ sess[c].requests = 1 => c <= call
                    /\ c < call \/ exit = "0" =>
                           /\ sess[c].requests = 1
                           /\ [k \in DOMAIN client[c].answers |-> client[c].answers[k].code]
                                  = <<"handled">>
  BY DEF ReturnedMeansExecuted
<1> DEFINE k == client[c]
           r == sess[c]
<1>1. /\ OneCall(r, net[c], k, Calls[c]) /\ ConnType(r, net[c], k)
      /\ c \in Nat /\ call \in Nat
      /\ c > call => k.stage = "idle"
      /\ c < call \/ exit = "0" => k.answers # << >>
  BY RunInvParts, CallsFacts DEF RunInv
<1>2. r.requests \in {0, 1}
  BY <1>1 DEF OneCall
<1>3. r.requests = 1 => c <= call
  <2>1. c > call => k.script = << >>
    BY <1>1 DEF ConnType, NewClient
  <2>2. r.requests = 1 => k.script # << >>
    BY <1>1 DEF OneCall
  <2> QED BY <1>1, <2>1, <2>2
<1>4. ASSUME k.answers # << >>
      PROVE  r.requests = 1 /\ [i \in DOMAIN k.answers |-> k.answers[i].code] = <<"handled">>
  <2>1. PICK answers \in Seq(Reply) : answers = k.answers
    BY AnswersRead
  <2>2. Len(k.script) \in Nat /\ k.early = {} /\ k.script \in {<< >>, <<Calls[c]>>}
        /\ Len(answers) <= 1
    BY <1>1, <2>1, AnswersRead DEF OneCall
  <2>3. \A a \in ToSet(k.answers) :
            a.request \in 1..Len(k.script) /\ a.code = Expected(k.script[a.request])
    BY <2>2, AnswersRead
  <2> HIDE DEF Reply, k
  <2>4. Len(answers) = 1 /\ DOMAIN answers = {1}
    <3>1. PICK l \in Nat : l = Len(answers) /\ DOMAIN answers = 1..l
      OBVIOUS
    <3>2. l # 0
      BY <1>4, <2>1, <3>1
    <3>3. l <= 1
      BY <2>2, <3>1
    <3>4. l = 1
      BY <3>2, <3>3
    <3> QED BY <3>1, <3>4
  <2>5. answers[1] \in ToSet(k.answers)
    BY <2>1, <2>4 DEF ToSet
  <2>6. answers[1].code = "handled"
    <3>1. k.script = <<Calls[c]>>
      BY <2>2, <2>3, <2>5
    <3>2. k.script[answers[1].request] = Calls[c]
      BY <2>3, <2>5, <3>1
    <3> QED BY <2>3, <2>5, <3>2, CallsFacts DEF Expected
  <2>7. r.requests = 1
    <3>1. answers[1] \in Responses(net[c], k)
      BY <2>5 DEF Responses
    <3> QED BY <1>1, <2>6, <3>1 DEF OneCall, k
  <2>8. [i \in DOMAIN answers |-> answers[i].code] = <<"handled">>
    BY <2>4, <2>6
  <2> QED BY <2>1, <2>7, <2>8
<1> QED BY <1>1, <1>2, <1>3, <1>4

\* The process uses its connections as any client does: what holds of a connection
\* for every client holds for it (OrdersClient.cpp:49-80).
THEOREM RunKeepsConnection == RunSpec => ConnInit /\ [][ConnNext]_connVars
<1>1. RunInit => ConnInit
  BY DEF RunInit
<1> QED BY <1>1, StepsOfConnection, PTL DEF RunSpec

\* A call that has returned was executed, once, and returned the answer of its
\* handler; none is executed before main() comes to it.  So, however the server
\* refuses, closes, times out or resets, a process that fails leaves only its last
\* call in doubt (OrdersClient.cpp:49-80, main.cpp:31-45, Session.cpp:85-111).
THEOREM CallsReturnedWereExecuted == RunSpec => []ReturnedMeansExecuted
BY RunAlways, RunImpliesExecuted, PTL
=============================================================================
