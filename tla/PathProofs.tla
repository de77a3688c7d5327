------------------------------ MODULE PathProofs ------------------------------
(***************************************************************************)
(* Theorems about the texts of the routing table, of any length: slashes   *)
(* only separate, and what the listing prints is read back as the routes   *)
(* it was printed from.                                                    *)
(***************************************************************************)
EXTENDS PathText, RouterProofs, FunctionTheorems

-----------------------------------------------------------------------------
(* Recursion over the elements of a sequence. *)

\* There is a solution for every number of steps.
LEMMA Iteration ==
    ASSUME NEW V, NEW base \in V, NEW n \in Nat, NEW step \in [1..n -> [V -> V]]
    PROVE  \E f \in [0..n -> V] : f[0] = base /\ \A k \in 1..n : f[k] = step[k][f[k - 1]]
<1> DEFINE Solves(f, m) == f[0] = base /\ \A k \in 1..m : f[k] = step[k][f[k - 1]]
           without == {m \in 0..n : \A f \in [0..m -> V] : ~Solves(f, m)}
<1>1. without = {}
  <2> SUFFICES ASSUME without # {}
               PROVE  FALSE
    OBVIOUS
  <2> without \in SUBSET Nat
    OBVIOUS
  <2>1. PICK m \in without : \A l \in without : m <= l
    BY LeastNatural
  <2>2. m # 0
    <3> DEFINE f == [k \in 0..0 |-> base]
    <3>1. f \in [0..0 -> V] /\ Solves(f, 0)
      OBVIOUS
    <3> QED BY <3>1
  <2>3. m \in 1..n /\ m - 1 \in 0..n /\ ~(m <= m - 1)
    BY <2>2
  <2>4. PICK f \in [0..m - 1 -> V] : Solves(f, m - 1)
    BY <2>1, <2>3
  <2> DEFINE g == [k \in 0..m |-> IF k = m THEN step[m][f[m - 1]] ELSE f[k]]
  <2>5. step[m][f[m - 1]] \in V
    <3>1. f[m - 1] \in V
      BY <2>3
    <3> QED BY <2>3, <3>1
  <2>6. g \in [0..m -> V]
    BY <2>3, <2>5
  <2>7. \A k \in 0..m - 1 : g[k] = f[k]
    BY <2>3
  <2>8. g[m] = step[m][f[m - 1]]
    OBVIOUS
  <2> HIDE DEF g
  <2>9. ASSUME NEW k \in 1..m
        PROVE  g[k] = step[k][g[k - 1]]
    <3>1. k - 1 \in 0..m - 1 /\ g[k - 1] = f[k - 1]
      BY <2>3, <2>7
    <3>2. CASE k = m
      BY <2>8, <3>1, <3>2
    <3>3. CASE k # m
      <4>1. k \in 1..m - 1 /\ k \in 0..m - 1
        BY <2>3, <3>3
      <4> QED BY <2>4, <2>7, <3>1, <4>1
    <3> QED BY <3>2, <3>3
  <2>10. g[0] = base
    BY <2>3, <2>4, <2>7
  <2> QED BY <2>6, <2>9, <2>10
<1>2. n \in 0..n
  OBVIOUS
<1> QED BY <1>1, <1>2

-----------------------------------------------------------------------------
(* The loop of SplitPath, token by token. *)

Open == "{"
Close == "}"
Colon == ":"

Tokens == STRING \cup Types \cup {"/", Open, Close, Colon}

LEMMA TokenFacts ==
    /\ Texts \subseteq Seq(Tokens)
    /\ Types \subseteq Tokens /\ {"/", Open, Close, Colon} \subseteq Tokens
<1>1. ASSUME NEW S, NEW T
      PROVE  Seq(S) \subseteq Seq(S \cup T)
  OBVIOUS
<1>2. Tokens = STRING \cup (Types \cup {"/", Open, Close, Colon})
  BY DEF Tokens
<1>3. Texts \subseteq Seq(Tokens)
  BY TextsAssumption, <1>1, <1>2, Zenon
<1> QED BY <1>2, <1>3

Start == [segments |-> << >>, segment |-> << >>]

Push(split) ==
    IF split.segment = << >> THEN split.segments ELSE Append(split.segments, split.segment)

Take(split, token) ==
    IF token = "/" THEN [segments |-> Push(split), segment |-> << >>]
    ELSE [split EXCEPT !.segment = Append(@, token)]

Loops(f, text) ==
    f = [k \in 0..Len(text) |-> IF k = 0 THEN Start ELSE Take(f[k - 1], text[k])]

Loop(text) == CHOOSE f : Loops(f, text)

\* Where the loop stands at the end of a text.
State(text) == Loop(text)[Len(text)]

\* Texts without a slash.
Plain == {s \in Seq(Tokens) : \A i \in DOMAIN s : s[i] # "/"}

States == [segments : Seq(Plain \ {<< >>}), segment : Plain]

LEMMA SplitIsPush ==
    ASSUME NEW text
    PROVE  SplitPath(text) = Push(State(text))
BY DEF SplitPath, State, Loop, Loops, Take, Push, Start

LEMMA PushTyped ==
    ASSUME NEW split \in States
    PROVE  Push(split) \in Seq(Plain \ {<< >>})
BY DEF Push, States

LEMMA TakeFields ==
    ASSUME NEW split \in States, NEW token \in Tokens
    PROVE  /\ Take(split, token) \in States
           /\ token = "/" => Take(split, token) = [segments |-> Push(split), segment |-> << >>]
           /\ token # "/" => Take(split, token) = [segments |-> split.segments,
                                                   segment |-> Append(split.segment, token)]
<1>1. CASE token = "/"
  <2>1. Take(split, token) = [segments |-> Push(split), segment |-> << >>]
    BY <1>1 DEF Take
  <2>2. << >> \in Plain
    BY DEF Plain
  <2> QED BY <1>1, <2>1, <2>2, PushTyped DEF States
<1>2. CASE token # "/"
  <2>1. PICK p \in Seq(Plain \ {<< >>}), q \in Plain : split = [segments |-> p, segment |-> q]
    BY DEF States
  <2> DEFINE a == Append(q, token)
             r == [segments |-> p, segment |-> a]
  <2>2. Take(split, token) = r
    BY <1>2, <2>1 DEF Take
  <2>3. a \in Plain
    <3>1. q \in Seq(Tokens) /\ \A i \in DOMAIN q : q[i] # "/"
      BY DEF Plain
    <3>2. /\ a \in Seq(Tokens) /\ Len(a) = Len(q) + 1 /\ a[Len(q) + 1] = token
          /\ \A i \in 1..Len(q) : a[i] = q[i]
      BY <3>1, AppendProperties
    <3> HIDE DEF a
    <3>3. \A i \in 1..Len(q) + 1 : i \in 1..Len(q) \/ i = Len(q) + 1
      BY <3>1
    <3>4. DOMAIN a = 1..Len(q) + 1 /\ DOMAIN q = 1..Len(q)
      BY <3>1, <3>2
    <3> QED BY <1>2, <3>1, <3>2, <3>3, <3>4 DEF Plain
  <2>4. split.segments = p /\ split.segment = q
    BY <2>1
  <2> HIDE DEF a
  <2>5. r \in States
    BY <2>3 DEF States
  <2> HIDE DEF r
  <2> QED BY <1>2, <2>2, <2>4, <2>5 DEF r, a
<1> QED BY <1>1, <1>2

LEMMA LoopExists ==
    ASSUME NEW text \in Seq(Tokens)
    PROVE  Loops(Loop(text), text)
<1> DEFINE n == Len(text)
           step == [k \in 1..n |-> [split \in States |-> Take(split, text[k])]]
<1>1. n \in Nat
  OBVIOUS
<1>2. Start \in States
  BY DEF Start, States, Plain
<1>3. step \in [1..n -> [States -> States]]
  <2>1. \A k \in 1..n : \A split \in States : Take(split, text[k]) \in States
    BY TakeFields
  <2> HIDE DEF n
  <2> QED BY <2>1
<1>4. \A k \in 1..n : \A split \in States : step[k][split] = Take(split, text[k])
  OBVIOUS
<1> HIDE DEF step, n
<1>5. PICK f \in [0..n -> States] : f[0] = Start /\ \A k \in 1..n : f[k] = step[k][f[k - 1]]
  BY <1>1, <1>2, <1>3, Iteration
<1>6. ASSUME NEW k \in 0..n
      PROVE  f[k] = IF k = 0 THEN Start ELSE Take(f[k - 1], text[k])
  <2>1. CASE k = 0
    BY <1>5, <2>1
  <2>2. CASE k # 0
    <3>1. k \in 1..n /\ k - 1 \in 0..n
      BY <1>1, <2>2
    <3>2. f[k - 1] \in States
      BY <3>1
    <3> QED BY <1>4, <1>5, <2>2, <3>1, <3>2
  <2> QED BY <2>1, <2>2
<1>7. f = [k \in 0..n |-> IF k = 0 THEN Start ELSE Take(f[k - 1], text[k])]
  BY <1>6
<1> QED BY <1>7 DEF Loop, Loops, n

LEMMA LoopSteps ==
    ASSUME NEW text \in Seq(Tokens)
    PROVE  /\ Loop(text)[0] = Start
           /\ \A k \in 1..Len(text) : Loop(text)[k] = Take(Loop(text)[k - 1], text[k])
<1> DEFINE f == Loop(text)
<1>1. f = [k \in 0..Len(text) |-> IF k = 0 THEN Start ELSE Take(f[k - 1], text[k])]
  BY LoopExists DEF Loops
<1>2. Len(text) \in Nat
  OBVIOUS
<1> HIDE DEF f
<1>3. \A k \in 0..Len(text) : f[k] = IF k = 0 THEN Start ELSE Take(f[k - 1], text[k])
  BY <1>1
<1> QED BY <1>2, <1>3 DEF f

LEMMA LoopTyped ==
    ASSUME NEW text \in Seq(Tokens), NEW k \in 0..Len(text)
    PROVE  Loop(text)[k] \in States
<1> DEFINE f == Loop(text)
           wrong == {j \in 0..Len(text) : f[j] \notin States}
<1>1. Len(text) \in Nat
  OBVIOUS
<1>2. f[0] = Start /\ \A j \in 1..Len(text) : f[j] = Take(f[j - 1], text[j])
  BY LoopSteps
<1>3. Start \in States
  BY DEF Start, States, Plain
<1> HIDE DEF f
<1>4. wrong = {}
  <2> SUFFICES ASSUME wrong # {}
               PROVE  FALSE
    OBVIOUS
  <2>1. wrong \in SUBSET Nat
    BY <1>1
  <2>2. PICK j \in wrong : \A i \in wrong : j <= i
    BY <2>1, LeastNatural
  <2>3. j \in 1..Len(text) /\ j - 1 \in 0..Len(text) /\ ~(j <= j - 1)
    BY <1>1, <1>2, <1>3
  <2>4. f[j - 1] \in States /\ text[j] \in Tokens
    BY <2>2, <2>3
  <2> QED BY <1>2, <2>2, <2>3, <2>4, TakeFields
<1> QED BY <1>4 DEF f

LEMMA StateTyped ==
    ASSUME NEW text \in Seq(Tokens)
    PROVE  State(text) \in States
<1>1. Len(text) \in 0..Len(text)
  OBVIOUS
<1> QED BY <1>1, LoopTyped DEF State

LEMMA StateAppend ==
    ASSUME NEW text \in Seq(Tokens), NEW token \in Tokens
    PROVE  State(Append(text, token)) = Take(State(text), token)
<1> DEFINE more == Append(text, token)
           n == Len(text)
           f == Loop(text)
           g == Loop(more)
           wrong == {k \in 0..n : f[k] # g[k]}
<1>1. n \in Nat
  OBVIOUS
<1>2. /\ more \in Seq(Tokens) /\ Len(more) = n + 1 /\ more[n + 1] = token
      /\ \A k \in 1..n : more[k] = text[k]
  <2>1. more \in Seq(Tokens)
    BY AppendInverse
  <2>2. Len(more) = n + 1
    BY AppendInverse
  <2>3. more[n + 1] = token
    BY AppendInverse
  <2>4. \A k \in 1..n : more[k] = text[k]
    BY AppendInverse
  <2> QED BY <2>1, <2>2, <2>3, <2>4
<1> HIDE DEF more
<1>3. f[0] = Start /\ \A k \in 1..n : f[k] = Take(f[k - 1], text[k])
  BY LoopSteps
<1>4. g[0] = Start /\ \A k \in 1..n + 1 : g[k] = Take(g[k - 1], more[k])
  BY <1>2, LoopSteps
<1> HIDE DEF f, g
<1>5. wrong = {}
  <2> SUFFICES ASSUME wrong # {}
               PROVE  FALSE
    OBVIOUS
  <2>1. wrong \in SUBSET Nat
    BY <1>1
  <2>2. PICK k \in wrong : \A j \in wrong : k <= j
    BY <2>1, LeastNatural
  <2>3. k \in 1..n /\ k \in 1..n + 1 /\ k - 1 \in 0..n /\ ~(k <= k - 1)
    BY <1>1, <1>3, <1>4
  <2>4. f[k - 1] = g[k - 1]
    BY <2>2, <2>3
  <2> QED BY <1>2, <1>3, <1>4, <2>2, <2>3, <2>4
<1>6. g[n + 1] = Take(g[n], token)
  <2>1. n + 1 \in 1..n + 1 /\ (n + 1) - 1 = n
    BY <1>1
  <2>2. g[n + 1] = Take(g[(n + 1) - 1], more[n + 1])
    BY <1>4, <2>1
  <2> QED BY <1>2, <2>1, <2>2
<1>7. f[n] = g[n]
  BY <1>1, <1>5
<1> QED BY <1>2, <1>6, <1>7 DEF State, f, g, more

LEMMA AppendConcat ==
    ASSUME NEW S, NEW u \in Seq(S), NEW v \in Seq(S), NEW e \in S
    PROVE  u \o Append(v, e) = Append(u \o v, e)
OBVIOUS

\* A sequence that is not empty is another with an element behind it.
LEMMA FrontAndLast ==
    ASSUME NEW S, NEW s \in Seq(S), NEW n \in Nat, Len(s) = n + 1
    PROVE  \E r \in Seq(S), e \in S : s = Append(r, e) /\ Len(r) = n
<1>1. Len(s) \in 1..Len(s) /\ n \in 0..Len(s) /\ Len(s) - 1 = n
  OBVIOUS
<1>2. Prefix(s, Len(s)) = Append(Prefix(s, n), s[Len(s)]) /\ Prefix(s, Len(s)) = s
  BY <1>1, PrefixEnds
<1>3. Prefix(s, n) \in Seq(S) /\ Len(Prefix(s, n)) = n
  BY <1>1, PrefixFacts
<1>4. s[Len(s)] \in S
  BY <1>1
<1> QED BY <1>2, <1>3, <1>4

LEMMA PlainAppend ==
    ASSUME NEW v \in Seq(Tokens), NEW e \in Tokens
    PROVE  Append(v, e) \in Plain <=> v \in Plain /\ e # "/"
<1> DEFINE a == Append(v, e)
           n == Len(v)
<1>1. n \in Nat
  OBVIOUS
<1>2. a \in Seq(Tokens)
  BY AppendInverse
<1>3. Len(a) = n + 1
  BY AppendInverse
<1>4. a[n + 1] = e
  BY AppendInverse
<1>5. \A k \in 1..n : a[k] = v[k]
  BY AppendInverse
<1>6. DOMAIN a = 1..n + 1 /\ DOMAIN v = 1..n
  BY <1>2, <1>3
<1>7. 1..n + 1 = 1..n \cup {n + 1}
  BY <1>1
<1> HIDE DEF a, n
<1> QED BY <1>2, <1>4, <1>5, <1>6, <1>7 DEF Plain, a

\* A word is collected as it stands.
Collects(text, word) ==
    State(text \o word) = [segments |-> State(text).segments,
                           segment |-> State(text).segment \o word]

LEMMA StatePlain ==
    ASSUME NEW text \in Seq(Tokens), NEW word \in Plain
    PROVE  Collects(text, word)
<1> DEFINE without == {n \in Nat : \E w \in Plain : Len(w) = n /\ ~Collects(text, w)}
<1>1. without = {}
  <2> SUFFICES ASSUME without # {}
               PROVE  FALSE
    OBVIOUS
  <2>1. PICK n \in without : \A m \in without : n <= m
    BY LeastNatural
  <2>2. PICK w \in Plain : Len(w) = n /\ ~Collects(text, w)
    OBVIOUS
  <2>3. w \in Seq(Tokens)
    BY DEF Plain
  <2>4. PICK p \in Seq(Plain \ {<< >>}), q \in Plain :
            State(text) = [segments |-> p, segment |-> q]
    BY StateTyped DEF States
  <2>5. q \in Seq(Tokens)
    BY DEF Plain
  <2>6. State(text).segments = p /\ State(text).segment = q
    BY <2>4
  <2>7. CASE n = 0
    <3>1. w = << >>
      BY <2>2, <2>3, <2>7
    <3>2. text \o w = text /\ q \o w = q
      BY <2>5, <3>1
    <3> QED BY <2>2, <2>4, <2>6, <3>2 DEF Collects
  <2>8. CASE n # 0
    <3>1. n - 1 \in Nat /\ Len(w) = (n - 1) + 1 /\ ~(n <= n - 1)
      BY <2>2, <2>8
    <3>2. PICK v \in Seq(Tokens), e \in Tokens : w = Append(v, e) /\ Len(v) = n - 1
      BY <2>3, <3>1, FrontAndLast
    <3>3. v \in Plain /\ e # "/"
      BY <3>2, PlainAppend
    <3>4. Collects(text, v)
      BY <2>1, <3>1, <3>2, <3>3
    <3> DEFINE t == text \o v
               r == q \o v
    <3>5. t \in Seq(Tokens) /\ r \in Seq(Tokens)
      BY <2>5
    <3>6. text \o w = Append(t, e) /\ q \o w = Append(r, e)
      BY <2>5, <3>2, AppendConcat
    <3>7. State(t) = [segments |-> p, segment |-> r]
      BY <2>6, <3>4 DEF Collects
    <3> HIDE DEF t, r
    <3>8. State(t).segments = p /\ State(t).segment = r
      BY <3>7
    <3>9. State(Append(t, e)) = Take(State(t), e)
      BY <3>5, StateAppend
    <3>10. State(Append(t, e)) = [segments |-> p, segment |-> Append(r, e)]
      BY <3>3, <3>5, <3>8, <3>9, StateTyped, TakeFields
    <3> QED BY <2>2, <2>6, <3>6, <3>10 DEF Collects
  <2> QED BY <2>7, <2>8
<1>2. Len(word) \in Nat
  BY DEF Plain
<1> QED BY <1>1, <1>2

LEMMA StateEmpty == State(<< >>) = Start
<1>1. Len(<< >>) = 0
  OBVIOUS
<1>2. << >> \in Seq(Tokens)
  OBVIOUS
<1>3. Loop(<< >>)[0] = Start
  BY <1>2, LoopSteps
<1> QED BY <1>1, <1>3 DEF State

-----------------------------------------------------------------------------
(* What ParseParamSegment makes of a segment, and of its line in the listing. *)

\* A segment that a listing shows as it was given.
IsEdge(e) ==
    \/ \E word \in Plain \ {<< >>} :
           e = Static(word)
           /\ (Len(word) < 3 \/ Head(word) # "{" \/ Last(word) # "}")
    \/ \E name \in Plain, type \in Types :
           e = Param(name, type) /\ \A i \in DOMAIN name : name[i] # ":"

LEMMA KnownTypes ==
    ASSUME NEW spec \in Seq(Tokens)
    PROVE  /\ FindByName(spec) \in Types \cup {"other"}
           /\ \A type \in Types : FindByName(<<type>>) = type
<1>1. \A type \in Types : <<type>>[1] = type
  OBVIOUS
<1>2. ASSUME NEW type \in Types
      PROVE  FindByName(<<type>>) = type
  BY <1>1 DEF FindByName
<1>3. FindByName(spec) \in Types \cup {"other"}
  BY <1>1 DEF FindByName
<1> QED BY <1>2, <1>3

LEMMA PlainPart ==
    ASSUME NEW word \in Plain, NEW i \in 1..Len(word) + 1, NEW j \in 0..Len(word)
    PROVE  /\ SubSeq(word, i, j) \in Plain
           /\ Len(SubSeq(word, i, j)) = IF i <= j THEN j - i + 1 ELSE 0
           /\ \A k \in 1..(j - i + 1) : SubSeq(word, i, j)[k] = word[i + k - 1]
<1> DEFINE n == Len(word)
           s == SubSeq(word, i, j)
<1>1. word \in Seq(Tokens) /\ n \in Nat /\ DOMAIN word = 1..n
  BY DEF Plain
<1>2. \A k \in 1..n : word[k] # "/"
  BY <1>1 DEF Plain
<1>3. s \in Seq(Tokens)
  BY <1>1
<1>4. Len(s) = IF i <= j THEN j - i + 1 ELSE 0
  BY <1>1
<1>5. \A k \in 1..(j - i + 1) : s[k] = word[i + k - 1]
  BY <1>1
<1> HIDE DEF s
<1>6. \A k \in DOMAIN s : k \in 1..(j - i + 1) /\ i + k - 1 \in 1..n
  BY <1>1, <1>3, <1>4
<1>7. s \in Plain
  BY <1>2, <1>3, <1>5, <1>6 DEF Plain
<1> QED BY <1>4, <1>5, <1>7 DEF s

\* The colon that SelectInSeq finds is the first one.
LEMMA FirstColon ==
    ASSUME NEW s \in Seq(Tokens)
    PROVE  LET colon == SelectInSeq(s, LAMBDA token : token = ":")
           IN  \/ colon = 0 /\ \A i \in DOMAIN s : s[i] # ":"
               \/ colon \in DOMAIN s /\ s[colon] = ":" /\ \A i \in 1..colon - 1 : s[i] # ":"
<1> DEFINE I == {i \in 1..Len(s) : s[i] = ":"}
           colon == SelectInSeq(s, LAMBDA token : token = ":")
<1>1. colon = IF I # {} THEN Min(I) ELSE 0
  BY DEF SelectInSeq
<1>2. DOMAIN s = 1..Len(s) /\ Len(s) \in Nat
  OBVIOUS
<1>3. CASE I = {}
  BY <1>1, <1>2, <1>3
<1>4. CASE I # {}
  <2>1. I \in SUBSET Nat
    BY <1>2
  <2> HIDE DEF I
  <2>2. PICK m \in I : \A n \in I : m <= n
    BY <1>4, <2>1, LeastNatural
  <2>3. Min(I) \in I /\ \A n \in I : Min(I) <= n
    BY <2>2 DEF Min
  <2>4. colon = Min(I)
    BY <1>1, <1>4
  <2> HIDE DEF colon
  <2>5. colon \in 1..Len(s) /\ s[colon] = ":" /\ \A n \in I : colon <= n
    BY <2>3, <2>4 DEF I
  <2>6. \A i \in 1..colon - 1 : i \in 1..Len(s) /\ ~(colon <= i)
    BY <1>2, <2>5
  <2>7. \A i \in 1..colon - 1 : s[i] # ":"
    BY <2>5, <2>6 DEF I
  <2> QED BY <1>2, <2>5, <2>7 DEF colon
<1> QED BY <1>3, <1>4

\* A segment that is not refused is shown as an edge.
LEMMA ParsedEdge ==
    ASSUME NEW word \in Plain \ {<< >>}
    PROVE  \/ IsEdge(ParseParamSegment(word))
           \/ ParseParamSegment(word).kind = "param" /\ ParseParamSegment(word).type \notin Types
<1> DEFINE content == SubSeq(word, 2, Len(word) - 1)
           colon == SelectInSeq(content, LAMBDA token : token = ":")
           edge == ParseParamSegment(word)
<1>1. CASE Len(word) < 3 \/ Head(word) # "{" \/ Last(word) # "}"
  <2>1. edge = Static(word)
    BY <1>1 DEF ParseParamSegment
  <2> QED BY <1>1, <2>1 DEF IsEdge
<1>2. CASE ~(Len(word) < 3 \/ Head(word) # "{" \/ Last(word) # "}")
  <2>1. edge = IF colon = 0 THEN Param(content, "string")
               ELSE Param(Prefix(content, colon - 1),
                          FindByName(SubSeq(content, colon + 1, Len(content))))
    BY <1>2 DEF ParseParamSegment
  <2>2. Len(word) \in Nat /\ ~(Len(word) < 3)
    <3>1. word \in Seq(Tokens)
      BY DEF Plain
    <3>2. Len(word) \in Nat
      BY <3>1
    <3>3. ~(Len(word) < 3)
      BY <1>2, Zenon
    <3> QED BY <3>2, <3>3
  <2>3. 2 \in 1..Len(word) + 1 /\ Len(word) - 1 \in 0..Len(word)
    BY <2>2
  <2>4. content \in Plain
    BY <2>3, PlainPart
  <2> HIDE DEF content, edge
  <2>5. content \in Seq(Tokens)
    BY <2>4 DEF Plain
  <2>6. \/ colon = 0 /\ \A i \in DOMAIN content : content[i] # ":"
        \/ /\ colon \in DOMAIN content /\ content[colon] = ":"
           /\ \A i \in 1..colon - 1 : content[i] # ":"
    BY <2>5, FirstColon
  <2> HIDE DEF colon
  <2>7. CASE colon = 0
    <3>1. \A i \in DOMAIN content : content[i] # ":"
      BY <2>5, <2>6, <2>7
    <3>2. edge = Param(content, "string") /\ "string" \in Types
      BY <2>1, <2>7 DEF Types
    <3> QED BY <2>4, <3>1, <3>2 DEF IsEdge, edge
  <2>8. CASE colon # 0
    <3>1. colon \in 1..Len(content) /\ \A i \in 1..colon - 1 : content[i] # ":"
      BY <2>5, <2>6, <2>8
    <3> DEFINE name == Prefix(content, colon - 1)
               spec == SubSeq(content, colon + 1, Len(content))
    <3>2. colon - 1 \in 0..Len(content) /\ 1 \in 1..Len(content) + 1
      BY <2>5, <3>1
    <3>3. name \in Plain
      BY <2>4, <3>2, PlainPart DEF Prefix
    <3>4. Len(name) = colon - 1 /\ \A i \in 1..colon - 1 : name[i] = content[i]
      BY <2>5, <3>2, PrefixFacts
    <3>5. \A i \in DOMAIN name : name[i] # ":"
      <4>1. name \in Seq(Tokens)
        BY <3>3 DEF Plain
      <4> HIDE DEF name
      <4> QED BY <3>1, <3>4, <4>1
    <3>6. spec \in Seq(Tokens)
      BY <2>5, <3>1
    <3>7. edge = Param(name, FindByName(spec))
      BY <2>1, <2>8
    <3> HIDE DEF name, spec
    <3>8. FindByName(spec) \in Types \cup {"other"}
      BY <3>6, KnownTypes
    <3>9. CASE FindByName(spec) \in Types
      BY <3>3, <3>5, <3>7, <3>9 DEF IsEdge, edge
    <3>10. CASE FindByName(spec) \notin Types
      BY <3>7, <3>10 DEF Param, edge
    <3> QED BY <3>9, <3>10
  <2> QED BY <2>7, <2>8
<1> QED BY <1>1, <1>2

LEMMA InBraces ==
    ASSUME NEW S, NEW s \in Seq(S), NEW o \in S, NEW c \in S, NEW t \in S, NEW z \in S
    PROVE  LET line == <<o>> \o s \o <<c, t, z>>
               content == SubSeq(line, 2, Len(line) - 1)
               n == Len(s)
           IN  /\ line \in Seq(S) /\ Len(line) = n + 4
               /\ line[1] = o /\ line[n + 2] = c /\ line[n + 3] = t /\ line[n + 4] = z
               /\ \A i \in 1..n : line[i + 1] = s[i]
               /\ Head(line) = o /\ Last(line) = z
               /\ content \in Seq(S) /\ Len(content) = n + 2
               /\ \A i \in 1..n : content[i] = s[i]
               /\ content[n + 1] = c /\ content[n + 2] = t
               /\ SubSeq(content, n + 2, n + 2) = <<t>>
<1> DEFINE line == <<o>> \o s \o <<c, t, z>>
           content == SubSeq(line, 2, Len(line) - 1)
           n == Len(s)
<1>1. n \in Nat
  OBVIOUS
<1>2. line \in Seq(S)
  OBVIOUS
<1>3. Len(line) = n + 4
  OBVIOUS
<1>4. line[1] = o /\ line[n + 2] = c /\ line[n + 3] = t /\ line[n + 4] = z
  BY <1>1
<1>5. \A i \in 1..n : line[i + 1] = s[i]
  BY <1>1
<1> HIDE DEF line, n
<1>6. Head(line) = o /\ Last(line) = z
  BY <1>1, <1>2, <1>3, <1>4 DEF Last
<1>7. content \in Seq(S) /\ Len(content) = n + 2
  BY <1>1, <1>2, <1>3
<1>8. \A i \in 1..n + 2 : content[i] = line[i + 1]
  BY <1>1, <1>2, <1>3
<1> HIDE DEF content
<1>9. \A i \in 1..n : content[i] = s[i]
  BY <1>1, <1>5, <1>8
<1>10. content[n + 1] = c /\ content[n + 2] = t
  BY <1>1, <1>4, <1>8
<1> DEFINE q == SubSeq(content, n + 2, n + 2)
<1>11. q = <<t>>
  <2>1. q \in Seq(S) /\ Len(q) = 1 /\ q[1] = content[n + 2]
    BY <1>1, <1>7
  <2> HIDE DEF q
  <2> QED BY <1>10, <2>1
<1> QED BY <1>2, <1>3, <1>4, <1>5, <1>6, <1>7, <1>9, <1>10, <1>11 DEF content, line, n

\* The line of an edge has no slash and is read as that edge.
LEMMA EdgeIsRead ==
    ASSUME NEW e, IsEdge(e)
    PROVE  /\ ListEdge(e) \in Plain \ {<< >>}
           /\ ParseParamSegment(ListEdge(e)) = e
<1>1. ASSUME NEW word \in Plain \ {<< >>}, e = Static(word),
             Len(word) < 3 \/ Head(word) # "{" \/ Last(word) # "}"
      PROVE  ListEdge(e) \in Plain \ {<< >>} /\ ParseParamSegment(ListEdge(e)) = e
  <2>1. ListEdge(e) = word
    BY <1>1 DEF ListEdge, Static
  <2> QED BY <1>1, <2>1 DEF ParseParamSegment
<1>2. ASSUME NEW name \in Plain, NEW type \in Types, e = Param(name, type),
             \A i \in DOMAIN name : name[i] # ":"
      PROVE  ListEdge(e) \in Plain \ {<< >>} /\ ParseParamSegment(ListEdge(e)) = e
  <2> DEFINE n == Len(name)
             line == <<Open>> \o name \o <<Colon, type, Close>>
             content == SubSeq(line, 2, Len(line) - 1)
             colon == SelectInSeq(content, LAMBDA token : token = ":")
  <2>1. ListEdge(e) = line
    BY <1>2 DEF ListEdge, Param, Open, Close, Colon
  <2>2. name \in Seq(Tokens) /\ n \in Nat /\ DOMAIN name = 1..n
    BY DEF Plain
  <2>3. Open \in Tokens /\ Close \in Tokens /\ Colon \in Tokens /\ type \in Tokens
    BY TokenFacts
  <2>4. type # Colon /\ "/" \notin {type, Open, Close, Colon}
    BY DEF Types, Open, Close, Colon
  <2>5. line \in Seq(Tokens) /\ Len(line) = n + 4
    BY <2>2, <2>3, InBraces
  <2>6. /\ line[1] = Open /\ line[n + 2] = Colon /\ line[n + 3] = type /\ line[n + 4] = Close
        /\ Head(line) = Open /\ Last(line) = Close
    BY <2>2, <2>3, InBraces
  <2>7. \A i \in 1..n : line[i + 1] = name[i]
    BY <2>2, <2>3, InBraces
  <2>8. content \in Seq(Tokens) /\ Len(content) = n + 2
    BY <2>2, <2>3, InBraces
  <2>9. content[n + 1] = Colon /\ content[n + 2] = type /\ \A i \in 1..n : content[i] = name[i]
    BY <2>2, <2>3, InBraces
  <2>10. SubSeq(content, n + 2, n + 2) = <<type>>
    BY <2>2, <2>3, InBraces
  <2> HIDE DEF line, n, content
  <2>11. \A i \in 1..n + 4 : \/ i = 1 \/ i = n + 2 \/ i = n + 3 \/ i = n + 4
                             \/ (i - 1 \in 1..n /\ i = (i - 1) + 1)
    BY <2>2
  <2>12. line \in Plain \ {<< >>}
    <3>1. DOMAIN line = 1..n + 4
      BY <2>5, <2>6
    <3>2. \A i \in 1..n : name[i] # "/"
      BY <2>2 DEF Plain
    <3>3. \A i \in DOMAIN line : line[i] # "/"
      BY <2>4, <2>6, <2>7, <2>11, <3>1, <3>2
    <3>4. line # << >>
      BY <2>2, <2>5
    <3> QED BY <2>5, <3>3, <3>4 DEF Plain
  <2>13. colon = n + 1
    <3>1. \/ colon = 0 /\ \A i \in DOMAIN content : content[i] # ":"
          \/ /\ colon \in DOMAIN content /\ content[colon] = ":"
             /\ \A i \in 1..colon - 1 : content[i] # ":"
      BY <2>8, FirstColon
    <3> HIDE DEF colon
    <3>2. DOMAIN content = 1..n + 2 /\ n + 1 \in 1..n + 2
      BY <2>2, <2>8
    <3>3. colon \in 1..n + 2 /\ content[colon] = ":" /\ \A i \in 1..colon - 1 : content[i] # ":"
      BY <2>9, <3>1, <3>2 DEF Colon
    <3>4. colon \notin 1..n
      BY <1>2, <2>2, <2>9, <3>3
    <3>5. colon # n + 2
      BY <2>4, <2>9, <3>3 DEF Colon
    <3> QED BY <2>2, <3>3, <3>4, <3>5
  <2>14. Prefix(content, n) = name
    <3>1. n \in 0..Len(content)
      BY <2>2, <2>8
    <3>2. /\ Prefix(content, n) \in Seq(Tokens) /\ Len(Prefix(content, n)) = n
          /\ \A i \in 1..n : Prefix(content, n)[i] = content[i]
      BY <2>8, <3>1, PrefixFacts
    <3> QED BY <2>2, <2>9, <3>2, SeqEqual DEF n
  <2>15. ParseParamSegment(line) = Param(Prefix(content, colon - 1),
                                         FindByName(SubSeq(content, colon + 1, Len(content))))
    <3>1. Head(line) = "{" /\ Last(line) = "}" /\ ~(Len(line) < 3)
      <4>1. ~(Len(line) < 3)
        BY <2>2, <2>5
      <4> QED BY <2>6, <4>1, Zenon DEF Open, Close
    <3>2. colon # 0
      BY <2>2, <2>13
    <3> QED BY <3>1, <3>2 DEF ParseParamSegment, content
  <2> HIDE DEF colon
  <2>16. colon - 1 = n /\ colon + 1 = n + 2
    BY <2>2, <2>13
  <2>17. ParseParamSegment(line) = Param(name, FindByName(<<type>>))
    BY <2>8, <2>14, <2>10, <2>15, <2>16
  <2>18. FindByName(<<type>>) = type
    BY <2>8, KnownTypes
  <2> QED BY <1>2, <2>1, <2>12, <2>17, <2>18
<1> QED BY <1>1, <1>2 DEF IsEdge

-----------------------------------------------------------------------------
(* A route as it was registered. *)

\* The edges that are shown as they were given.
Listed ==
    {e \in {Static(word) : word \in Plain \ {<< >>}}
               \cup {Param(name, type) : name \in Plain, type \in Types} : IsEdge(e)}

LEMMA EdgeIsListed ==
    ASSUME NEW e, IsEdge(e)
    PROVE  e \in Listed
<1>1. \/ \E word \in Plain \ {<< >>} : e = Static(word)
      \/ \E name \in Plain, type \in Types : e = Param(name, type)
  BY DEF IsEdge
<1>2. e \in {Static(word) : word \in Plain \ {<< >>}}
              \cup {Param(name, type) : name \in Plain, type \in Types}
  BY <1>1
<1> QED BY <1>2 DEF Listed

LEMMA SegmentsArePlain ==
    ASSUME NEW text \in Seq(Tokens)
    PROVE  SegmentsOf(text) \in Seq(Plain \ {<< >>})
<1> DEFINE path == NormalizePath(text)
<1>1. path \in Seq(Tokens)
  BY DEF NormalizePath, Front
<1> HIDE DEF path
<1>2. Push(State(path)) \in Seq(Plain \ {<< >>})
  BY <1>1, StateTyped, PushTyped
<1> QED BY <1>2, SplitIsPush DEF SegmentsOf, path

\* AddRoute refuses a segment of an unknown type.
LEMMA AcceptedIsListed ==
    ASSUME NEW text \in Seq(Tokens), Accepted(PatternOf(text))
    PROVE  PatternOf(text) \in Seq(Listed)
<1> DEFINE segments == SegmentsOf(text)
           pattern == PatternOf(text)
           n == Len(segments)
<1>1. segments \in Seq(Plain \ {<< >>})
  BY SegmentsArePlain
<1>2. n \in Nat /\ DOMAIN segments = 1..n /\ \A k \in 1..n : segments[k] \in Plain \ {<< >>}
  BY <1>1
<1>3. pattern = [k \in DOMAIN segments |-> ParseParamSegment(segments[k])]
  BY DEF PatternOf
<1> HIDE DEF segments, n
<1>4. DOMAIN pattern = 1..n /\ \A k \in 1..n : pattern[k] = ParseParamSegment(segments[k])
  BY <1>2, <1>3
<1>5. \A k \in DOMAIN pattern : ~Throws(pattern, k)
  BY DEF Accepted
<1> HIDE DEF pattern
<1>6. ASSUME NEW k \in 1..n
      PROVE  pattern[k] \in Listed
  <2>1. \/ IsEdge(pattern[k])
        \/ pattern[k].kind = "param" /\ pattern[k].type \notin Types
    BY <1>2, <1>4, ParsedEdge
  <2>2. ~(pattern[k].kind = "param" /\ pattern[k].type \notin Types)
    BY <1>4, <1>5 DEF Throws
  <2> QED BY <2>1, <2>2, EdgeIsListed
<1>7. pattern = [k \in 1..n |-> pattern[k]]
  BY <1>2, <1>3, <1>4
<1>8. pattern \in Seq(Listed)
  BY <1>2, <1>6, <1>7
<1> QED BY <1>8 DEF pattern

-----------------------------------------------------------------------------
(* The line of a route. *)

Grown(path, line) == IF path = << >> THEN line ELSE path \o <<"/">> \o line

Lines(f, node) ==
    f = [k \in 0..Len(node) |-> IF k = 0 THEN << >> ELSE Grown(f[k - 1], ListEdge(node[k]))]

Line(node) == CHOOSE f : Lines(f, node)

LEMMA ListPathIsLine ==
    ASSUME NEW node
    PROVE  ListPath(node) = <<"/">> \o Line(node)[Len(node)]
BY DEF ListPath, Line, Lines, Grown

LEMMA GrownTyped ==
    ASSUME NEW path \in Seq(Tokens), NEW line \in Plain
    PROVE  Grown(path, line) \in Seq(Tokens)
<1>1. line \in Seq(Tokens)
  BY DEF Plain
<1>2. <<"/">> \in Seq(Tokens)
  BY TokenFacts
<1> DEFINE slash == <<"/">>
<1> HIDE DEF slash
<1>3. path \o slash \in Seq(Tokens) /\ (path \o slash) \o line \in Seq(Tokens)
  BY <1>1, <1>2 DEF slash
<1> QED BY <1>1, <1>3 DEF Grown, slash

LEMMA LineIteration ==
    ASSUME NEW n \in Nat, NEW step \in [1..n -> [Seq(Tokens) -> Seq(Tokens)]]
    PROVE  \E f \in [0..n -> Seq(Tokens)] :
               f[0] = << >> /\ \A k \in 1..n : f[k] = step[k][f[k - 1]]
<1> DEFINE W == Seq(Tokens)
           empty == << >>
<1>1. empty \in W
  OBVIOUS
<1>2. step \in [1..n -> [W -> W]]
  OBVIOUS
<1> HIDE DEF W, empty
<1>3. \E f \in [0..n -> W] : f[0] = empty /\ \A k \in 1..n : f[k] = step[k][f[k - 1]]
  BY <1>1, <1>2, Iteration
<1> QED BY <1>3 DEF W, empty

LEMMA LineSteps ==
    ASSUME NEW node \in Seq(Listed)
    PROVE  /\ Line(node)[0] = << >>
           /\ \A k \in 1..Len(node) :
                  Line(node)[k] = Grown(Line(node)[k - 1], ListEdge(node[k]))
<1> DEFINE n == Len(node)
           W == Seq(Tokens)
           step == [k \in 1..n |-> [path \in W |-> Grown(path, ListEdge(node[k]))]]
<1>1. n \in Nat /\ \A k \in 1..n : node[k] \in Listed
  OBVIOUS
<1>2. \A k \in 1..n : ListEdge(node[k]) \in Plain
  BY <1>1, EdgeIsRead DEF Listed
<1>3. step \in [1..n -> [W -> W]]
  <2>1. \A k \in 1..n : \A path \in W : Grown(path, ListEdge(node[k])) \in W
    BY <1>2, GrownTyped
  <2> HIDE DEF n, W
  <2> QED BY <2>1
<1>4. \A k \in 1..n : \A path \in W : step[k][path] = Grown(path, ListEdge(node[k]))
  OBVIOUS
<1> HIDE DEF step, n, W
<1>5. PICK f \in [0..n -> W] : f[0] = << >> /\ \A k \in 1..n : f[k] = step[k][f[k - 1]]
  <2>1. n \in Nat
    BY <1>1
  <2>2. step \in [1..n -> [Seq(Tokens) -> Seq(Tokens)]]
    BY <1>3 DEF W
  <2>3. \E f \in [0..n -> Seq(Tokens)] : f[0] = << >> /\ \A k \in 1..n : f[k] = step[k][f[k - 1]]
    BY <2>1, <2>2, LineIteration
  <2> QED BY <2>3 DEF W
<1>6. ASSUME NEW k \in 0..n
      PROVE  f[k] = IF k = 0 THEN << >> ELSE Grown(f[k - 1], ListEdge(node[k]))
  <2>1. CASE k = 0
    BY <1>5, <2>1
  <2>2. CASE k # 0
    <3>1. k \in 1..n /\ k - 1 \in 0..n
      BY <1>1, <2>2
    <3>2. f[k - 1] \in W
      BY <3>1
    <3> QED BY <1>4, <1>5, <2>2, <3>1, <3>2
  <2> QED BY <2>1, <2>2
<1>7. f = [k \in 0..n |-> IF k = 0 THEN << >> ELSE Grown(f[k - 1], ListEdge(node[k]))]
  BY <1>6
<1>8. Lines(f, node)
  BY <1>7 DEF Lines, n
<1> DEFINE g == Line(node)
<1>9. Lines(g, node)
  BY <1>8 DEF Line
<1>10. g = [k \in 0..n |-> IF k = 0 THEN << >> ELSE Grown(g[k - 1], ListEdge(node[k]))]
  BY <1>9 DEF Lines, n
<1> HIDE DEF g
<1>11. \A k \in 0..n : g[k] = IF k = 0 THEN << >> ELSE Grown(g[k - 1], ListEdge(node[k]))
  BY <1>10
<1>12. g[0] = << >> /\ \A k \in 1..n : g[k] = Grown(g[k - 1], ListEdge(node[k]))
  BY <1>1, <1>11
<1> QED BY <1>12 DEF g, n

Shown(node, k) == [i \in 1..k |-> ListEdge(node[i])]

\* The first k edges of a node are split as they were put together.
Splits(node, k) ==
    /\ Line(node)[k] \in Seq(Tokens)
    /\ IF k = 0 THEN Line(node)[k] = << >>
       ELSE /\ Line(node)[k] # << >> /\ Last(Line(node)[k]) # "/"
            /\ State(Line(node)[k]) = [segments |-> Shown(node, k - 1),
                                       segment |-> ListEdge(node[k])]

LEMMA FirstSplits ==
    ASSUME NEW word \in Plain \ {<< >>}
    PROVE  /\ word \in Seq(Tokens) /\ Last(word) # "/"
           /\ State(word) = [segments |-> << >>, segment |-> word]
<1>1. word \in Seq(Tokens) /\ word # << >>
  BY DEF Plain
<1>2. Len(word) \in DOMAIN word
  BY <1>1
<1>3. Last(word) # "/"
  BY <1>2 DEF Last, Plain
<1> DEFINE empty == << >>
<1>4. empty \in Seq(Tokens) /\ empty \o word = word
  BY <1>1
<1>5. State(empty).segments = << >> /\ State(empty).segment = empty
  BY StateEmpty DEF Start
<1> HIDE DEF empty
<1>6. Collects(empty, word)
  BY <1>4, StatePlain
<1>7. State(word) = [segments |-> << >>, segment |-> word]
  BY <1>4, <1>5, <1>6 DEF Collects
<1> QED BY <1>1, <1>3, <1>7

LEMMA NextSplits ==
    ASSUME NEW path \in Seq(Tokens), NEW word \in Plain \ {<< >>}
    PROVE  LET line == path \o <<"/">> \o word
           IN  /\ line \in Seq(Tokens) /\ line # << >> /\ Last(line) # "/"
               /\ State(line) = [segments |-> Push(State(path)), segment |-> word]
<1> DEFINE slash == "/"
           led == Append(path, slash)
           line == path \o <<slash>> \o word
<1>1. word \in Seq(Tokens) /\ word # << >> /\ Last(word) # slash
  BY FirstSplits
<1>2. slash \in Tokens
  BY TokenFacts
<1>3. State(led) = [segments |-> Push(State(path)), segment |-> << >>]
  BY <1>2, StateAppend, StateTyped, TakeFields
<1>4. ASSUME NEW x \in Tokens
      PROVE  /\ Append(path, x) \in Seq(Tokens)
             /\ path \o <<x>> \o word = Append(path, x) \o word
             /\ Len(path \o <<x>> \o word) = Len(path) + 1 + Len(word)
             /\ Last(path \o <<x>> \o word) = Last(word)
  <2>1. path \o <<x>> = Append(path, x) /\ Append(path, x) \in Seq(Tokens)
    OBVIOUS
  <2>2. Len(Append(path, x)) = Len(path) + 1
    OBVIOUS
  <2> DEFINE a == Append(path, x)
  <2> HIDE DEF a
  <2>3. Len(a \o word) = Len(a) + Len(word)
    BY <1>1, <2>1 DEF a
  <2>4. (a \o word)[Len(a) + Len(word)] = word[Len(word)]
    BY <1>1, <2>1 DEF a
  <2> QED BY <2>1, <2>2, <2>3, <2>4 DEF Last, a
<1>5. led \in Seq(Tokens) /\ line = led \o word /\ Last(line) = Last(word)
  BY <1>2, <1>4
<1> HIDE DEF led, line
<1>6. Collects(led, word)
  BY <1>5, StatePlain
<1>7. line \in Seq(Tokens) /\ line # << >>
  BY <1>1, <1>5
<1>8. State(line) = [segments |-> Push(State(path)), segment |-> << >> \o word]
  BY <1>3, <1>5, <1>6 DEF Collects
<1>9. << >> \o word = word
  BY <1>1
<1> QED BY <1>1, <1>5, <1>7, <1>8, <1>9 DEF line

LEMMA LineSplits ==
    ASSUME NEW node \in Seq(Listed), NEW k \in 0..Len(node)
    PROVE  Splits(node, k)
<1> DEFINE n == Len(node)
           wrong == {i \in 0..n : ~Splits(node, i)}
<1>1. n \in Nat /\ \A i \in 1..n : node[i] \in Listed
  OBVIOUS
<1>2. \A i \in 1..n : ListEdge(node[i]) \in Plain \ {<< >>}
  BY <1>1, EdgeIsRead DEF Listed
<1> HIDE DEF n
<1>3. /\ Line(node)[0] = << >>
      /\ \A i \in 1..n : Line(node)[i] = Grown(Line(node)[i - 1], ListEdge(node[i]))
  BY LineSteps DEF n
<1>4. wrong = {}
  <2> SUFFICES ASSUME wrong # {}
               PROVE  FALSE
    OBVIOUS
  <2>1. wrong \in SUBSET Nat
    BY <1>1
  <2>2. PICK i \in wrong : \A j \in wrong : i <= j
    BY <2>1, LeastNatural
  <2>3. CASE i = 0
    <3>1. << >> \in Seq(Tokens)
      OBVIOUS
    <3>2. Splits(node, 0)
      BY <1>3, <3>1 DEF Splits
    <3> QED BY <2>2, <2>3, <3>2
  <2>4. CASE i # 0
    <3>1. i \in 1..n /\ i - 1 \in 0..n /\ ~(i <= i - 1)
      BY <1>1, <2>4
    <3> DEFINE path == Line(node)[i - 1]
               word == ListEdge(node[i])
    <3>2. Splits(node, i - 1)
      BY <2>2, <3>1
    <3>3. word \in Plain \ {<< >>}
      BY <1>2, <3>1
    <3>4. Line(node)[i] = Grown(path, word)
      BY <1>3, <3>1
    <3>5. path \in Seq(Tokens)
      BY <3>2 DEF Splits
    <3>6. CASE i = 1
      <4>1. path = << >> /\ Shown(node, i - 1) = << >>
        BY <3>2, <3>6 DEF Splits, Shown
      <4>2. Line(node)[i] = word
        BY <3>4, <4>1 DEF Grown
      <4> HIDE DEF path, word
      <4>3. Splits(node, i)
        BY <2>4, <3>3, <4>1, <4>2, FirstSplits DEF Splits, word
      <4> QED BY <2>2, <4>3
    <3>7. CASE i # 1
      <4>1. i - 1 # 0 /\ i - 1 \in Nat
        BY <3>1, <3>7
      <4>2. /\ path # << >>
            /\ State(path) = [segments |-> Shown(node, (i - 1) - 1),
                              segment |-> ListEdge(node[i - 1])]
        BY <3>2, <4>1 DEF Splits
      <4>3. ListEdge(node[i - 1]) # << >>
        BY <1>2, <3>1, <4>1
      <4>4. Push(State(path)) = Append(Shown(node, (i - 1) - 1), ListEdge(node[i - 1]))
        BY <4>2, <4>3 DEF Push
      <4>5. Append(Shown(node, (i - 1) - 1), ListEdge(node[i - 1])) = Shown(node, i - 1)
        BY <4>1 DEF Shown
      <4>6. Line(node)[i] = path \o <<"/">> \o word
        BY <3>4, <4>2 DEF Grown
      <4> HIDE DEF path, word
      <4>7. Splits(node, i)
        BY <2>4, <3>3, <3>5, <4>4, <4>5, <4>6, NextSplits DEF Splits, word
      <4> QED BY <2>2, <4>7
    <3> QED BY <3>6, <3>7
  <2> QED BY <2>3, <2>4
<1> QED BY <1>4 DEF n

\* What the listing shows of a node is split into the lines of its edges, and read as
\* the node.
LEMMA ListingIsRead ==
    ASSUME NEW node \in Seq(Listed)
    PROVE  PatternOf(ListPath(node)) = node
<1> DEFINE n == Len(node)
           path == Line(node)[n]
           slash == "/"
           text == <<slash>> \o path
<1>1. n \in Nat /\ n \in 0..n /\ DOMAIN node = 1..n /\ \A i \in 1..n : node[i] \in Listed
  OBVIOUS
<1>2. \A i \in 1..n : /\ ListEdge(node[i]) \in Plain \ {<< >>}
                      /\ ParseParamSegment(ListEdge(node[i])) = node[i]
  BY <1>1, EdgeIsRead DEF Listed
<1>3. Splits(node, n)
  BY LineSplits
<1>4. path \in Seq(Tokens)
  BY <1>3 DEF Splits
<1>5. ListPath(node) = text
  BY ListPathIsLine
<1>6. slash \in Tokens
  BY TokenFacts
<1>7. path = << >> \/ Last(path) # slash
  BY <1>3 DEF Splits
<1>8. NormalizePath(text) = path
  <2> HIDE DEF path, slash
  <2>1. text # << >> /\ Head(text) = slash /\ Tail(text) = path
    BY <1>4, <1>6
  <2> HIDE DEF text
  <2> QED BY <1>7, <2>1 DEF NormalizePath, slash
<1>9. SplitPath(path) = Shown(node, n)
  <2>1. SplitPath(path) = Push(State(path))
    BY SplitIsPush
  <2>2. CASE n = 0
    <3>1. path = << >> /\ Shown(node, n) = << >>
      BY <1>3, <2>2 DEF Splits, Shown
    <3> QED BY <2>1, <3>1, StateEmpty DEF Push, Start
  <2>3. CASE n # 0
    <3>1. State(path) = [segments |-> Shown(node, n - 1), segment |-> ListEdge(node[n])]
      BY <1>3, <2>3 DEF Splits
    <3> HIDE DEF path, n
    <3>2. n \in 1..n /\ n - 1 \in Nat
      BY <1>1, <2>3
    <3>3. ListEdge(node[n]) # << >>
      BY <1>2, <3>2
    <3>4. Push(State(path)) = Append(Shown(node, n - 1), ListEdge(node[n]))
      BY <3>1, <3>3 DEF Push
    <3>5. Append(Shown(node, n - 1), ListEdge(node[n])) = Shown(node, n)
      BY <3>2 DEF Shown
    <3> QED BY <2>1, <3>4, <3>5
  <2> QED BY <2>2, <2>3
<1>10. SegmentsOf(text) = Shown(node, n)
  BY <1>8, <1>9 DEF SegmentsOf
<1> HIDE DEF text, path, n
<1>11. PatternOf(text) = [i \in 1..n |-> ParseParamSegment(ListEdge(node[i]))]
  <2>1. PatternOf(text) = [i \in DOMAIN Shown(node, n) |-> ParseParamSegment(Shown(node, n)[i])]
    BY <1>10 DEF PatternOf
  <2>2. DOMAIN Shown(node, n) = 1..n /\ \A i \in 1..n : Shown(node, n)[i] = ListEdge(node[i])
    BY DEF Shown
  <2> QED BY <2>1, <2>2
<1>12. PatternOf(text) = [i \in 1..n |-> node[i]]
  BY <1>2, <1>11
<1>13. node = [i \in 1..n |-> node[i]]
  BY <1>1
<1> QED BY <1>5, <1>12, <1>13

-----------------------------------------------------------------------------
(* Slashes. *)

\* Where the loop stands if it has collected p before.
Behind(p, split) == [segments |-> p \o split.segments, segment |-> split.segment]

LEMMA PushBehind ==
    ASSUME NEW p \in Seq(Plain \ {<< >>}), NEW split \in States
    PROVE  Push(Behind(p, split)) = p \o Push(split)
<1> DEFINE S == Plain \ {<< >>}
<1>1. PICK a \in Seq(S), b \in Plain : split = [segments |-> a, segment |-> b]
  BY DEF States
<1>2. split.segments = a /\ split.segment = b
  BY <1>1
<1>3. Behind(p, split) = [segments |-> p \o a, segment |-> b]
  BY <1>2 DEF Behind
<1>4. CASE b = << >>
  BY <1>2, <1>3, <1>4 DEF Push
<1>5. CASE b # << >>
  <2>1. b \in S /\ p \in Seq(S)
    BY <1>5
  <2> HIDE DEF S
  <2>2. p \o Append(a, b) = Append(p \o a, b)
    BY <2>1, AppendConcat
  <2>3. Push(split) = Append(a, b)
    BY <1>2, <1>5 DEF Push
  <2> DEFINE all == p \o a
             before == Behind(p, split)
  <2>4. before.segments = all /\ before.segment = b
    BY <1>3
  <2> HIDE DEF all, before
  <2>5. Push(before) = Append(all, b)
    BY <1>5, <2>4 DEF Push
  <2> QED BY <2>2, <2>3, <2>5 DEF all, before
<1> QED BY <1>4, <1>5

LEMMA TakeBehind ==
    ASSUME NEW p \in Seq(Plain \ {<< >>}), NEW split \in States, NEW token \in Tokens
    PROVE  Take(Behind(p, split), token) = Behind(p, Take(split, token))
<1> DEFINE before == Behind(p, split)
<1>1. CASE token = "/"
  <2>1. Take(before, token) = [segments |-> Push(before), segment |-> << >>]
    BY <1>1 DEF Take
  <2>2. Take(split, token) = [segments |-> Push(split), segment |-> << >>]
    BY <1>1 DEF Take
  <2>3. Push(before) = p \o Push(split)
    BY PushBehind
  <2>4. Behind(p, Take(split, token)) = [segments |-> p \o Push(split), segment |-> << >>]
    BY <2>2 DEF Behind
  <2> QED BY <2>1, <2>3, <2>4
<1>2. CASE token # "/"
  <2>1. PICK a \in Seq(Plain \ {<< >>}), b \in Plain : split = [segments |-> a, segment |-> b]
    BY DEF States
  <2> DEFINE all == p \o a
  <2>2. before = [segments |-> all, segment |-> b]
    BY <2>1 DEF Behind
  <2> HIDE DEF all, before
  <2>3. Take(before, token) = [segments |-> all, segment |-> Append(b, token)]
    BY <1>2, <2>2 DEF Take
  <2>4. Take(split, token) = [segments |-> a, segment |-> Append(b, token)]
    BY <1>2, <2>1 DEF Take
  <2>5. Behind(p, Take(split, token)) = [segments |-> all, segment |-> Append(b, token)]
    BY <2>4 DEF Behind, all
  <2> QED BY <2>3, <2>5 DEF before
<1> QED BY <1>1, <1>2

\* Behind a slash the loop starts again.
Restarts(u, v) == State(Append(u, "/") \o v) = Behind(Push(State(u)), State(v))

LEMMA StateRestarts ==
    ASSUME NEW u \in Seq(Tokens), NEW v \in Seq(Tokens)
    PROVE  Restarts(u, v)
<1> DEFINE without == {n \in Nat : \E w \in Seq(Tokens) : Len(w) = n /\ ~Restarts(u, w)}
           slash == "/"
           led == Append(u, slash)
           p == Push(State(u))
<1>1. slash \in Tokens
  BY TokenFacts
<1>2. led \in Seq(Tokens) /\ State(led) = [segments |-> p, segment |-> << >>]
  BY <1>1, StateAppend, StateTyped, TakeFields
<1>3. p \in Seq(Plain \ {<< >>})
  BY StateTyped, PushTyped
<1> HIDE DEF led, p
<1>4. \A w : Restarts(u, w) <=> State(led \o w) = Behind(p, State(w))
  BY DEF Restarts, led, p
<1>5. without = {}
  <2> SUFFICES ASSUME without # {}
               PROVE  FALSE
    OBVIOUS
  <2>1. PICK n \in without : \A m \in without : n <= m
    BY LeastNatural
  <2>2. PICK w \in Seq(Tokens) : Len(w) = n /\ ~Restarts(u, w)
    OBVIOUS
  <2>3. CASE n = 0
    <3>1. w = << >> /\ led \o w = led
      BY <1>2, <2>2, <2>3
    <3>2. State(w).segments = << >> /\ State(w).segment = << >>
      BY <3>1, StateEmpty DEF Start
    <3>3. p \o << >> = p
      BY <1>3
    <3>4. Behind(p, State(w)) = [segments |-> p, segment |-> << >>]
      BY <3>2, <3>3 DEF Behind
    <3> QED BY <1>2, <1>4, <2>2, <3>1, <3>4
  <2>4. CASE n # 0
    <3>1. n - 1 \in Nat /\ Len(w) = (n - 1) + 1 /\ ~(n <= n - 1)
      BY <2>2, <2>4
    <3>2. PICK x \in Seq(Tokens), e \in Tokens : w = Append(x, e) /\ Len(x) = n - 1
      BY <3>1, FrontAndLast
    <3>3. Restarts(u, x)
      BY <2>1, <3>1, <3>2
    <3>4. led \o Append(x, e) = Append(led \o x, e)
      BY <1>2, AppendConcat
    <3> DEFINE t == led \o x
    <3>5. t \in Seq(Tokens)
      BY <1>2
    <3>6. State(t) = Behind(p, State(x))
      BY <1>4, <3>3
    <3> HIDE DEF t
    <3>7. State(led \o w) = Take(State(t), e) /\ State(w) = Take(State(x), e)
      BY <3>2, <3>4, <3>5, StateAppend DEF t
    <3>8. Take(Behind(p, State(x)), e) = Behind(p, Take(State(x), e))
      BY <1>3, StateTyped, TakeBehind
    <3>9. State(led \o w) = Behind(p, State(w))
      BY <3>6, <3>7, <3>8
    <3> QED BY <1>4, <2>2, <3>9
  <2> QED BY <2>3, <2>4
<1>6. Len(v) \in Nat
  OBVIOUS
<1> QED BY <1>5, <1>6

LEMMA SplitAtSlash ==
    ASSUME NEW u \in Seq(Tokens), NEW v \in Seq(Tokens)
    PROVE  SplitPath(Append(u, "/") \o v) = SplitPath(u) \o SplitPath(v)
<1>1. State(Append(u, "/") \o v) = Behind(Push(State(u)), State(v))
  BY StateRestarts DEF Restarts
<1>2. Push(State(u)) \in Seq(Plain \ {<< >>}) /\ State(v) \in States
  BY StateTyped, PushTyped
<1>3. Push(Behind(Push(State(u)), State(v))) = Push(State(u)) \o Push(State(v))
  BY <1>2, PushBehind
<1> QED BY <1>1, <1>3, SplitIsPush

LEMMA SplitTyped ==
    ASSUME NEW text \in Seq(Tokens)
    PROVE  SplitPath(text) \in Seq(Plain \ {<< >>})
BY StateTyped, PushTyped, SplitIsPush

LEMMA SplitOfEmpty == SplitPath(<< >>) = << >>
BY SplitIsPush, StateEmpty DEF Push, Start

\* What NormalizePath takes off, SplitPath would leave out.
LEMMA NormalizeIsIdle ==
    ASSUME NEW text \in Seq(Tokens)
    PROVE  SegmentsOf(text) = SplitPath(text)
<1> DEFINE slash == "/"
           unled == IF text # << >> /\ Head(text) = slash THEN Tail(text) ELSE text
           path == IF unled # << >> /\ Last(unled) = slash THEN Front(unled) ELSE unled
<1>1. NormalizePath(text) = path
  BY DEF NormalizePath
<1>2. slash \in Tokens /\ << >> \in Seq(Tokens)
  BY TokenFacts
<1>3. unled \in Seq(Tokens)
  OBVIOUS
<1>4. SplitPath(unled) = SplitPath(text)
  <2>1. CASE text # << >> /\ Head(text) = slash
    <3> DEFINE rest == Tail(text)
    <3>1. rest \in Seq(Tokens) /\ unled = rest
      BY <2>1
    <3>2. text = Append(<< >>, slash) \o rest
      <4> HIDE DEF slash
      <4> QED BY <2>1, <1>2
    <3> HIDE DEF rest, unled
    <3>3. SplitPath(text) = SplitPath(<< >>) \o SplitPath(rest)
      BY <1>2, <3>1, <3>2, SplitAtSlash
    <3>4. << >> \o SplitPath(rest) = SplitPath(rest)
      BY <3>1, SplitTyped
    <3> QED BY <3>1, <3>3, <3>4, SplitOfEmpty
  <2>2. CASE ~(text # << >> /\ Head(text) = slash)
    BY <2>2
  <2> QED BY <2>1, <2>2
<1> HIDE DEF unled
<1>5. SplitPath(path) = SplitPath(unled)
  <2>1. CASE unled # << >> /\ Last(unled) = slash
    <3> DEFINE rest == Front(unled)
    <3>1. PICK n \in Nat : Len(unled) = n + 1
      <4>1. PICK m \in Nat : Len(unled) = m
        BY <1>3
      <4>2. unled # << >>
        BY <2>1
      <4>3. m # 0
        BY <1>3, <4>1, <4>2
      <4>4. m - 1 \in Nat /\ m = (m - 1) + 1
        BY <4>3
      <4> QED BY <4>1, <4>4
    <3>2. PICK r \in Seq(Tokens), e \in Tokens : unled = Append(r, e) /\ Len(r) = n
      BY <1>3, <3>1, FrontAndLast
    <3>3. Last(unled) = e /\ rest = r
      <4>1. Append(r, e)[n + 1] = e
        BY <3>2
      <4>2. SubSeq(Append(r, e), 1, n) = r
        BY <3>2, AppendInverse DEF Prefix
      <4> QED BY <3>1, <3>2, <4>1, <4>2 DEF Last, Front
    <3>4. path = r /\ unled = Append(r, slash)
      BY <2>1, <3>2, <3>3
    <3>5. Append(r, slash) \o << >> = Append(r, slash)
      BY <1>2
    <3>6. SplitPath(unled) = SplitPath(r) \o << >>
      <4>1. SplitPath(Append(r, "/") \o << >>) = SplitPath(r) \o SplitPath(<< >>)
        BY <1>2, SplitAtSlash
      <4> QED BY <3>4, <3>5, <4>1, SplitOfEmpty
    <3>7. SplitPath(r) \o << >> = SplitPath(r)
      BY SplitTyped
    <3> QED BY <3>4, <3>6, <3>7
  <2>2. CASE ~(unled # << >> /\ Last(unled) = slash)
    BY <2>2
  <2> QED BY <2>1, <2>2
<1> QED BY <1>1, <1>4, <1>5 DEF SegmentsOf

\* Slashes do nothing but separate, in texts of any length: the segments of a path are
\* those of what is before a slash and then those of what is behind it, none if there
\* is nothing, and a text without a slash is one segment (RouteTrie.cpp:11-60).
THEOREM SlashesSeparate ==
    /\ SegmentsOf(<< >>) = << >>
    /\ \A word \in Plain \ {<< >>} : SegmentsOf(word) = <<word>>
    /\ \A u, v \in Seq(Tokens) :
           SegmentsOf(u \o <<"/">> \o v) = SegmentsOf(u) \o SegmentsOf(v)
<1>1. << >> \in Seq(Tokens)
  OBVIOUS
<1>2. SegmentsOf(<< >>) = << >>
  BY <1>1, NormalizeIsIdle, SplitOfEmpty
<1>3. ASSUME NEW word \in Plain \ {<< >>}
      PROVE  SegmentsOf(word) = <<word>>
  <2>1. word \in Seq(Tokens) /\ State(word) = [segments |-> << >>, segment |-> word]
    BY FirstSplits
  <2>2. Push(State(word)) = <<word>>
    BY <2>1 DEF Push
  <2> QED BY <2>1, <2>2, NormalizeIsIdle, SplitIsPush
<1>4. ASSUME NEW u \in Seq(Tokens), NEW v \in Seq(Tokens)
      PROVE  SegmentsOf(u \o <<"/">> \o v) = SegmentsOf(u) \o SegmentsOf(v)
  <2> DEFINE slash == "/"
             t == Append(u, slash) \o v
  <2>1. slash \in Tokens
    BY TokenFacts
  <2>2. u \o <<slash>> \o v = t /\ t \in Seq(Tokens)
    <3> HIDE DEF slash
    <3> QED BY <2>1
  <2>3. SplitPath(t) = SplitPath(u) \o SplitPath(v)
    BY SplitAtSlash
  <2> HIDE DEF t
  <2>4. SegmentsOf(t) = SplitPath(t) /\ SegmentsOf(u) = SplitPath(u) /\ SegmentsOf(v) = SplitPath(v)
    BY <2>2, NormalizeIsIdle
  <2> QED BY <2>2, <2>3, <2>4
<1> QED BY <1>2, <1>3, <1>4

-----------------------------------------------------------------------------
(* The table. *)

\* Each handler is at a node that can be listed.
ListedInv ==
    /\ IsFiniteSet(handlers)
    /\ \A h \in handlers : \E node \in Seq(Listed), method \in Methods : h = <<node, method>>

LEMMA ListedInit == TrieInit => ListedInv
BY FS_EmptySet DEF TrieInit, ListedInv

LEMMA ListedNext == ListedInv /\ [TextNext]_trieVars => ListedInv'
<1> SUFFICES ASSUME ListedInv, [TextNext]_trieVars
             PROVE  ListedInv'
  OBVIOUS
<1>1. CASE UNCHANGED handlers
  BY <1>1 DEF ListedInv
<1>2. ASSUME NEW method \in Methods, NEW text \in Texts, AddRoute(method, PatternOf(text))
      PROVE  ListedInv'
  <2> DEFINE pattern == PatternOf(text)
             new == <<pattern, method>>
  <2>1. CASE Accepted(pattern)
    <3>1. text \in Seq(Tokens)
      BY TokenFacts
    <3>2. pattern \in Seq(Listed)
      BY <2>1, <3>1, AcceptedIsListed
    <3>3. handlers' = handlers \cup {new}
      BY <1>2, <2>1 DEF AddRoute
    <3> HIDE DEF pattern
    <3>4. \E node \in Seq(Listed), m \in Methods : new = <<node, m>>
      BY <3>2
    <3> HIDE DEF new
    <3>5. IsFiniteSet(handlers \cup {new})
      BY FS_AddElement DEF ListedInv
    <3> QED BY <3>3, <3>4, <3>5 DEF ListedInv
  <2>2. CASE ~Accepted(pattern)
    BY <1>1, <1>2, <2>2 DEF AddRoute
  <2> QED BY <2>1, <2>2
<1>3. CASE UNCHANGED trieVars
  BY <1>1, <1>3 DEF trieVars
<1> QED BY <1>2, <1>3 DEF TextNext, AddRouteText

LEMMA InvImpliesReadable == ListedInv => ListingIsReadable
<1> SUFFICES ASSUME ListedInv
             PROVE  ListingIsReadable
  OBVIOUS
<1> DEFINE line(h) == [method |-> h[2], text |-> ListPath(h[1])]
           read(l) == <<PatternOf(l.text), l.method>>
           listing == {line(h) : h \in handlers}
<1>1. GetAllRoutes = listing
  BY DEF GetAllRoutes
<1>2. ASSUME NEW h \in handlers
      PROVE  read(line(h)) = h
  <2>1. PICK node \in Seq(Listed), method \in Methods : h = <<node, method>>
    BY DEF ListedInv
  <2>2. h[1] = node /\ h[2] = method
    BY <2>1
  <2>3. PatternOf(ListPath(node)) = node
    BY ListingIsRead
  <2>4. line(h).text = ListPath(node) /\ line(h).method = method
    BY <2>2
  <2> HIDE DEF line
  <2> QED BY <2>1, <2>3, <2>4
<1> HIDE DEF line, read
<1>3. {read(l) : l \in listing} = handlers
  BY <1>2
<1> DEFINE show == [h \in handlers |-> line(h)]
<1>4. show \in Bijection(handlers, listing)
  <2>1. show \in [handlers -> listing]
    OBVIOUS
  <2>2. \A g, h \in handlers : show[g] = show[h] => g = h
    BY <1>2
  <2>3. \A l \in listing : \E h \in handlers : show[h] = l
    OBVIOUS
  <2> HIDE DEF show, listing
  <2> QED BY <2>1, <2>2, <2>3, Fun_IsBij
<1> HIDE DEF listing, show
<1>5. ExistsBijection(handlers, listing)
  BY <1>4 DEF ExistsBijection
<1>6. Cardinality(listing) = Cardinality(handlers)
  BY <1>5, FS_Bijection DEF ListedInv
<1> QED BY <1>1, <1>3, <1>6 DEF ListingIsReadable, read

\* Paths that are spelled are paths to the table: what is proved of TrieSpec, of
\* every lookup and every order of the calls, holds of them (RouteTrie.cpp:92-96,
\* 128-137).
THEOREM TextsUseTable == TextSpec => TrieSpec
<1>1. [TextNext]_trieVars => [TrieNext]_trieVars
  BY PatternsOfTexts DEF TextNext, TrieNext, AddRouteText
<1> QED BY <1>1, PTL DEF TextSpec, TrieSpec

\* For texts of any length and any tokens: what GetAllRoutes prints, given to AddRoute,
\* is the routes that are in the table, each on a line of its own
\* (RouteTrie.cpp:11-86, 193-214).
THEOREM ListingReadable == TextSpec => []ListingIsReadable
<1>1. TextSpec => []ListedInv
  BY ListedInit, ListedNext, PTL DEF TextSpec
<1> QED BY <1>1, InvImpliesReadable, PTL
=============================================================================
