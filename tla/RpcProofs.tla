------------------------------ MODULE RpcProofs ------------------------------
(***************************************************************************)
(* Safety of the transport, for any number of clients and calls.  The      *)
(* inductive invariant says in which order the ids of a connection occur:  *)
(* those that were handled, the one that is being handled, those on the    *)
(* way to the daemon, the last one given out.  That order is also what the *)
(* refinement of OrderedCalls (RpcChannel) rests on.                       *)
(***************************************************************************)
EXTENDS RpcChannel, SequenceTheorems, TLAPS

(* Id i of a client and all later ones have not been handled. *)
Fresh(handled, i) == \A j \in Ids : j >= i => handled[j] = "none"

Ordered ==
  \A c \in Clients :
    /\ Fresh(done[c], seq[c] + 1)
    /\ current[c] # NoRequest =>
         /\ worker[c] = "handling"
         /\ current[c].id <= seq[c]
         /\ Fresh(done[c], current[c].id)
    /\ \A k \in DOMAIN up[c] : up[c][k] \in Requests =>
         /\ up[c][k].id <= seq[c]
         /\ Fresh(done[c], up[c][k].id)
         /\ current[c] # NoRequest => current[c].id < up[c][k].id
         /\ \A j \in DOMAIN up[c] : up[c][j] \in Requests /\ j < k =>
              up[c][j].id < up[c][k].id

(* What is on the way to the client, and what it was told, is true. *)
Truthful ==
  \A c \in Clients :
    \A k \in DOMAIN down[c] : down[c][k] # Rest =>
      /\ down[c][k] \in Answers
      /\ done[c][down[c][k].id] = down[c][k].outcome

Connected ==
  \A c \in Clients :
    /\ pc[c] = "reading" => conn[c] = "open" /\ seq[c] \in Ids
    /\ conn[c] = "none" => worker[c] = "none"

(* Requests are cut off when the daemon ends, and none is handled later. *)
Halted ==
  \A c \in Clients :
    /\ serve = "exited" => worker[c] \in {"none", "gone"}
    /\ \A i \in Ids : done[c][i] = "cut" => serve = "exited"

ResultsAreTrue ==
  \A c \in Clients, i \in Ids :
    answer[c][i] \in Outcomes => answer[c][i] = done[c][i]

(* The answer to a call that still waits is in the connection. *)
NoAnswerLost ==
  \A c \in Clients :
    pc[c] = "reading" /\ done[c][seq[c]] \in Outcomes
      => Contains(down[c], Answer(seq[c], done[c][seq[c]]))

Inv == /\ TypeOK /\ Ordered /\ Truthful /\ ResultsAreTrue /\ Connected /\ Halted
       /\ NoAnswerLost

-----------------------------------------------------------------------------
(* Lines *)

LEMMA Lines ==
  /\ \A x \in Requests : x.id \in Ids /\ x.method \in Methods /\ x # NoRequest /\ x # Torn
  /\ \A i \in Ids, m \in Methods : Request(i, m) \in Requests /\ Request(i, m).id = i
  /\ \A x \in Answers : x.id \in Ids /\ x.outcome \in Outcomes /\ x # Rest
                        /\ x = Answer(x.id, x.outcome)
  /\ \A i \in Ids, o \in Outcomes :
       /\ Answer(i, o) \in Answers /\ Answer(i, o) # Rest
       /\ Answer(i, o).id = i /\ Answer(i, o).outcome = o
<1>1. 0 \notin Ids
  BY RpcBound DEF Ids
<1>2. /\ \A x \in Requests : x.id \in Ids /\ x.method \in Methods /\ x # NoRequest /\ x # Torn
      /\ \A i \in Ids, m \in Methods : Request(i, m) \in Requests /\ Request(i, m).id = i
  BY <1>1 DEF Requests, Request, NoRequest, Torn
<1>3. \A x \in Answers : x.id \in Ids /\ x.outcome \in Outcomes /\ x # Rest
                        /\ x = Answer(x.id, x.outcome)
  BY <1>1 DEF Answers, Answer, Rest
<1>4. \A i \in Ids, o \in Outcomes :
       /\ Answer(i, o) \in Answers /\ Answer(i, o) # Rest
       /\ Answer(i, o).id = i /\ Answer(i, o).outcome = o
  BY <1>1 DEF Answers, Answer, Rest
<1> QED
  BY <1>2, <1>3, <1>4

LEMMA TailOf ==
  ASSUME NEW S, NEW q \in Seq(S), q # <<>>
  PROVE  /\ Tail(q) \in Seq(S) /\ Head(q) \in S /\ Head(q) = q[1]
         /\ 1 \in DOMAIN q
         /\ \A k \in DOMAIN Tail(q) : k + 1 \in DOMAIN q /\ Tail(q)[k] = q[k + 1]
         /\ \A k \in DOMAIN q : k # 1 =>
              k - 1 \in DOMAIN Tail(q) /\ Tail(q)[k - 1] = q[k]
<1>1. /\ Head(q) \in S /\ Tail(q) \in Seq(S) /\ Len(Tail(q)) = Len(q) - 1
      /\ \A i \in 1 .. Len(Tail(q)) : Tail(q)[i] = q[i + 1]
  BY HeadTailProperties
<1>2. /\ Len(q) \in Nat /\ DOMAIN q = 1 .. Len(q) /\ Len(q) # 0
      /\ DOMAIN Tail(q) = 1 .. Len(Tail(q)) /\ Head(q) = q[1]
  BY <1>1, LenProperties, EmptySeq
<1> QED
  BY <1>1, <1>2

LEMMA AppendOf ==
  ASSUME NEW S, NEW q \in Seq(S), NEW e \in S
  PROVE  /\ Append(q, e) \in Seq(S)
         /\ \A k \in DOMAIN Append(q, e) :
              \/ k \in DOMAIN q /\ Append(q, e)[k] = q[k]
              \/ Append(q, e)[k] = e /\ \A j \in DOMAIN q : j < k
         /\ \A k \in DOMAIN q : k \in DOMAIN Append(q, e) /\ Append(q, e)[k] = q[k]
         /\ \E k \in DOMAIN Append(q, e) : Append(q, e)[k] = e
<1>1. /\ Append(q, e) \in Seq(S)
      /\ Len(Append(q, e)) = Len(q) + 1
      /\ \A i \in 1 .. Len(q) : Append(q, e)[i] = q[i]
      /\ Append(q, e)[Len(q) + 1] = e
  BY AppendProperties
<1>2. /\ Len(q) \in Nat /\ DOMAIN q = 1 .. Len(q)
      /\ DOMAIN Append(q, e) = 1 .. Len(q) + 1
  BY <1>1, LenProperties
<1> QED
  BY <1>1, <1>2

LEMMA ContainsMeans ==
  ASSUME NEW S, NEW q \in Seq(S), NEW e
  PROVE  Contains(q, e) <=> \E k \in DOMAIN q : q[k] = e
BY LenProperties DEF Contains

LEMMA ContainsTail ==
  ASSUME NEW S, NEW q \in Seq(S), q # <<>>, NEW x, x # Head(q), Contains(q, x)
  PROVE  Contains(Tail(q), x)
<1>1. /\ Tail(q) \in Seq(S) /\ Head(q) = q[1]
      /\ \A k \in DOMAIN q : k # 1 =>
           k - 1 \in DOMAIN Tail(q) /\ Tail(q)[k - 1] = q[k]
  BY TailOf
<1>2. PICK k \in DOMAIN q : q[k] = x
  BY ContainsMeans
<1>3. k - 1 \in DOMAIN Tail(q) /\ Tail(q)[k - 1] = x
  BY <1>1, <1>2
<1> QED
  BY <1>1, <1>3, ContainsMeans

LEMMA ContainsAppend ==
  ASSUME NEW S, NEW q \in Seq(S), NEW e \in S
  PROVE  /\ Contains(Append(q, e), e)
         /\ \A x : Contains(q, x) => Contains(Append(q, e), x)
<1> DEFINE p == Append(q, e)
<1>1. /\ p \in Seq(S) /\ \E k \in DOMAIN p : p[k] = e
      /\ \A k \in DOMAIN q : k \in DOMAIN p /\ p[k] = q[k]
  BY AppendOf
<1> HIDE DEF p
<1>2. \A x : Contains(p, x) <=> \E k \in DOMAIN p : p[k] = x
  BY <1>1, ContainsMeans
<1>3. \A x : Contains(q, x) <=> \E k \in DOMAIN q : q[k] = x
  BY ContainsMeans
<1> QED
  BY <1>1, <1>2, <1>3 DEF p

(* Of a line that was read in part the rest stays in its place. *)
LEMMA RestOf ==
  ASSUME NEW S, NEW q \in Seq(S), q # <<>>, NEW e \in S
  PROVE  /\ <<e>> \o Tail(q) \in Seq(S)
         /\ DOMAIN (<<e>> \o Tail(q)) = DOMAIN q
         /\ \A k \in DOMAIN q :
              (<<e>> \o Tail(q))[k] = IF k = 1 THEN e ELSE q[k]
<1>1. /\ Tail(q) \in Seq(S) /\ Len(Tail(q)) = Len(q) - 1
      /\ \A i \in 1 .. Len(Tail(q)) : Tail(q)[i] = q[i + 1]
  BY HeadTailProperties
<1>2. Len(q) \in Nat /\ DOMAIN q = 1 .. Len(q) /\ Len(q) # 0
  BY LenProperties, EmptySeq
<1>3. <<e>> \in Seq(S) /\ Len(<<e>>) = 1 /\ <<e>>[1] = e
  OBVIOUS
<1>4. /\ <<e>> \o Tail(q) \in Seq(S)
      /\ Len(<<e>> \o Tail(q)) = Len(q)
      /\ \A i \in 1 .. Len(q) :
           (<<e>> \o Tail(q))[i] = IF i <= 1 THEN <<e>>[i] ELSE Tail(q)[i - 1]
  BY <1>1, <1>2, <1>3, ConcatProperties
<1> QED
  BY <1>1, <1>2, <1>3, <1>4, LenProperties

-----------------------------------------------------------------------------
(* Types *)

LEMMA TypeStep == TypeOK /\ [Next]_vars => TypeOK'
<1> SUFFICES ASSUME TypeOK, [Next]_vars PROVE TypeOK'
  OBVIOUS
<1>1. ASSUME NEW c \in Clients, Dial(c) \/ Close(c) PROVE TypeOK'
  BY <1>1 DEF TypeOK, Dial, Close, daemonVars, clientVars
<1>2. ASSUME NEW c \in Clients, seq[c] < MaxCalls
      PROVE  seq[c] + 1 \in Ids /\ seq[c] + 1 \in 0 .. MaxCalls
  BY <1>2, RpcBound DEF TypeOK, Ids
<1>3. ASSUME NEW c \in Clients, NEW method \in Methods, Call(c, method) PROVE TypeOK'
  <2>1. Append(up[c], Request(seq[c] + 1, method)) \in Seq(Requests \cup {Torn})
    BY <1>2, <1>3, Lines, AppendOf DEF Call, TypeOK
  <2> QED
    BY <1>2, <1>3, <2>1 DEF TypeOK, Call, daemonVars
<1>4. ASSUME NEW c \in Clients, WriteFails(c) \/ CallBroken(c) PROVE TypeOK'
  <2>1. Append(up[c], Torn) \in Seq(Requests \cup {Torn})
    BY AppendOf DEF TypeOK
  <2>2. seq[c] + 1 \in Ids /\ seq[c] + 1 \in 0 .. MaxCalls
    BY <1>2, <1>4 DEF WriteFails, CallBroken
  <2>3. /\ seq' = [seq EXCEPT ![c] = @ + 1]
        /\ answer' = [answer EXCEPT ![c][seq[c] + 1] = "lost"]
        /\ up' \in {up, [up EXCEPT ![c] = Append(@, Torn)]}
        /\ conn' \in {conn, [conn EXCEPT ![c] = "broken"]}
        /\ UNCHANGED <<daemonVars, pc, down>>
    BY <1>4 DEF WriteFails, CallBroken
  <2>4. up' \in [Clients -> Seq(Requests \cup {Torn})]
    BY <2>1, <2>3 DEF TypeOK
  <2>5. /\ seq' \in [Clients -> 0 .. MaxCalls]
        /\ answer' \in [Clients -> [Ids -> Outcomes \cup {"none", "lost"}]]
        /\ conn' \in [Clients -> {"none", "open", "broken", "closed"}]
    BY <2>2, <2>3 DEF TypeOK
  <2> QED
    BY <2>3, <2>4, <2>5 DEF TypeOK, daemonVars
<1>5. ASSUME NEW c \in Clients, NEW o \in Outcomes \cup {"lost"}, Returns(c, o)
      PROVE  /\ pc' \in [Clients -> {"idle", "reading"}]
             /\ answer' \in [Clients -> [Ids -> Outcomes \cup {"none", "lost"}]]
  BY <1>5 DEF TypeOK, Returns
<1>6. ASSUME NEW c \in Clients, Receive(c) PROVE TypeOK'
  <2>1. /\ Tail(down[c]) \in Seq(Answers \cup {Rest})
        /\ Head(down[c]) \in Answers \cup {Rest}
    BY <1>6, TailOf DEF TypeOK, Receive
  <2>2. \/ \E o \in Outcomes \cup {"lost"} : Returns(c, o)
        \/ UNCHANGED <<pc, answer>>
    BY <1>6, <2>1, Lines DEF Receive
  <2>3. /\ pc' \in [Clients -> {"idle", "reading"}]
        /\ answer' \in [Clients -> [Ids -> Outcomes \cup {"none", "lost"}]]
    BY <1>5, <2>2 DEF TypeOK
  <2> QED
    BY <1>6, <2>1, <2>3 DEF TypeOK, Receive, daemonVars
<1>7. ASSUME NEW c \in Clients, ReadFails(c) \/ Timeout(c) PROVE TypeOK'
  <2>1. down[c] # <<>> => <<Rest>> \o Tail(down[c]) \in Seq(Answers \cup {Rest})
    BY RestOf DEF TypeOK
  <2>2. Returns(c, "lost")
    BY <1>7 DEF ReadFails, Timeout
  <2> QED
    BY <1>5, <1>7, <2>1, <2>2 DEF TypeOK, ReadFails, Timeout, daemonVars
<1>8. ASSUME NEW c \in Clients, Accept(c) \/ CheckContext(c) \/ ReadEOF(c) PROVE TypeOK'
  BY <1>8 DEF TypeOK, Accept, CheckContext, ReadEOF, Moves, OnlyWorker, clientVars
<1>9. ASSUME NEW c \in Clients, ReadRequest(c) PROVE TypeOK'
  <2>1. Tail(up[c]) \in Seq(Requests \cup {Torn}) /\ Head(up[c]) \in Requests
    BY <1>9, TailOf DEF TypeOK, ReadRequest
  <2> QED
    BY <1>9, <2>1 DEF TypeOK, ReadRequest, Moves, clientVars
<1>10. ASSUME NEW c \in Clients, NEW o \in Outcomes, HandlerEnds(c, o),
              current[c].id \in Ids
       PROVE  TypeOK'
  <2>1. Append(down[c], Answer(current[c].id, o)) \in Seq(Answers \cup {Rest})
    BY <1>10, Lines, AppendOf DEF TypeOK
  <2> QED
    BY <1>10, <2>1 DEF TypeOK, HandlerEnds, Respond, Moves, clientVars, Fates
<1>11. ASSUME NEW c \in Clients, current[c].method \in Methods
       PROVE  current[c].id \in Ids
  <2>1. current[c] # NoRequest
    BY <1>11 DEF NoRequest, Methods
  <2> QED
    BY <2>1, Lines DEF TypeOK
<1>12. ASSUME NEW c \in Clients, QuickEnds(c) \/ Interrupted(c) \/ WaitEnds(c)
       PROVE  TypeOK'
  BY <1>10, <1>11, <1>12 DEF QuickEnds, Interrupted, WaitEnds, Outcomes, Methods
<1>13. CASE Signal \/ CloseListener \/ ServeReturns \/ AcceptFails
  BY <1>13 DEF TypeOK, Signal, CloseListener, ServeReturns, AcceptFails, clientVars
<1>14. CASE UNCHANGED vars
  BY <1>14 DEF TypeOK, vars
<1>15. CASE Exit \/ Killed
  <2>1. /\ serve' = "exited" /\ UNCHANGED <<cancelled, clientVars, up, down>>
        /\ worker' \in [Clients -> {"none", "gone"}]
        /\ current' \in [Clients -> {NoRequest}]
        /\ done' \in [Clients -> [Ids -> Fates]]
    BY <1>15 DEF TypeOK, Exit, Killed, ProcessEnds, Fates
  <2>2. worker' \in [Clients -> {"none", "backlog", "top", "reading", "handling", "gone"}]
    BY <2>1
  <2>3. current' \in [Clients -> Requests \cup {NoRequest}]
    BY <2>1
  <2> QED
    BY <2>1, <2>2, <2>3 DEF TypeOK, clientVars
<1> QED
  BY <1>1, <1>3, <1>4, <1>6, <1>7, <1>8, <1>9, <1>12, <1>13, <1>14, <1>15
     DEF Next, ServeConn

-----------------------------------------------------------------------------
(* The order of the ids *)

LEMMA SendKeepsOrder ==
  ASSUME Inv, NEW c \in Clients, seq[c] < MaxCalls,
         UNCHANGED <<done, current, worker>>,
         seq' = [seq EXCEPT ![c] = seq[c] + 1],
         NEW line \in {Torn} \cup {Request(seq[c] + 1, m) : m \in Methods},
         up' \in {up, [up EXCEPT ![c] = Append(up[c], line)]}
  PROVE  Ordered'
<1>1. /\ seq \in [Clients -> 0 .. MaxCalls] /\ seq[c] + 1 \in Ids
      /\ up \in [Clients -> Seq(Requests \cup {Torn})] /\ seq[c] \in Nat
      /\ up[c] \in Seq(Requests \cup {Torn})
  BY RpcBound DEF Inv, TypeOK, Ids
<1>2. /\ line \in Requests \cup {Torn}
      /\ line \in Requests => line.id = seq[c] + 1
  BY <1>1, Lines
<1>3. ASSUME NEW d \in Clients, d # c
      PROVE  seq'[d] = seq[d] /\ up'[d] = up[d] /\ current'[d] = current[d]
  BY <1>1, <1>3
<1>4. /\ seq'[c] = seq[c] + 1
      /\ up'[c] = up[c] \/ up'[c] = Append(up[c], line)
  BY <1>1
<1>5. Fresh(done[c], seq[c] + 1) /\ Fresh(done[c], seq[c] + 2)
  BY <1>1 DEF Inv, Ordered, Fresh, Ids
<1>6. /\ current[c] # NoRequest =>
           /\ worker[c] = "handling" /\ current[c].id <= seq[c]
           /\ Fresh(done[c], current[c].id) /\ current[c].id \in Ids
  BY Lines DEF Inv, Ordered, TypeOK
<1>7. \A k \in DOMAIN up[c] : up[c][k] \in Requests =>
         /\ up[c][k].id <= seq[c] /\ up[c][k].id \in Ids
         /\ Fresh(done[c], up[c][k].id)
         /\ current[c] # NoRequest => current[c].id < up[c][k].id
         /\ \A j \in DOMAIN up[c] : up[c][j] \in Requests /\ j < k =>
              up[c][j].id < up[c][k].id
  BY Lines DEF Inv, Ordered
<1>8. \A k \in DOMAIN up'[c] :
         \/ k \in DOMAIN up[c] /\ up'[c][k] = up[c][k]
         \/ up'[c][k] = line /\ \A j \in DOMAIN up[c] : j < k
  BY <1>1, <1>2, <1>4, AppendOf
<1>9. ASSUME NEW k \in DOMAIN up'[c], up'[c][k] \in Requests
      PROVE  /\ up'[c][k].id <= seq[c] + 1
             /\ Fresh(done[c], up'[c][k].id)
             /\ current[c] # NoRequest => current[c].id < up'[c][k].id
             /\ \A j \in DOMAIN up'[c] : up'[c][j] \in Requests /\ j < k =>
                  up'[c][j].id < up'[c][k].id
  <2>1. CASE k \in DOMAIN up[c] /\ up'[c][k] = up[c][k]
    <3>1. /\ up[c][k].id <= seq[c] + 1 /\ Fresh(done[c], up[c][k].id)
          /\ current[c] # NoRequest => current[c].id < up[c][k].id
      BY <1>1, <1>7, <1>9, <2>1 DEF Ids
    <3>2. \A j \in DOMAIN up'[c] : j < k => j \in DOMAIN up[c] /\ up'[c][j] = up[c][j]
      <4>1. k \in Int /\ \A j \in DOMAIN up'[c] : j \in Int
        BY <1>1, <1>2, <1>4, <2>1, AppendOf, LenProperties
      <4> QED
        BY <1>8, <2>1, <4>1
    <3> QED
      BY <1>7, <1>9, <2>1, <3>1, <3>2
  <2>2. CASE up'[c][k] = line /\ \A j \in DOMAIN up[c] : j < k
    <3>1. line.id = seq[c] + 1
      BY <1>2, <1>9, <2>2
    <3>2. current[c] # NoRequest => current[c].id < seq[c] + 1
      BY <1>1, <1>6 DEF Ids
    <3>3. ASSUME NEW j \in DOMAIN up'[c], up'[c][j] \in Requests, j < k
          PROVE  up'[c][j].id < seq[c] + 1
      <4>1. CASE j \in DOMAIN up[c] /\ up'[c][j] = up[c][j]
        BY <1>1, <1>7, <3>3, <4>1 DEF Ids
      <4>2. CASE up'[c][j] = line /\ \A i \in DOMAIN up[c] : i < j
        <5>1. j \notin DOMAIN up[c] /\ k \notin DOMAIN up[c]
          BY <1>1, <2>2, <4>2, LenProperties
        <5>2. j = k
          <6>1. /\ DOMAIN up[c] = 1 .. Len(up[c]) /\ Len(up[c]) \in Nat
                /\ DOMAIN up'[c] = 1 .. Len(up'[c])
                /\ Len(up'[c]) \in {Len(up[c]), Len(up[c]) + 1}
            BY <1>1, <1>2, <1>4, AppendProperties, LenProperties
          <6> QED
            BY <1>9, <3>3, <5>1, <6>1
        <5>3. j \in Int
          BY <1>1, <1>2, <1>4, AppendOf, LenProperties
        <5> QED
          BY <3>3, <5>2, <5>3
      <4> QED
        BY <1>8, <4>1, <4>2
    <3> QED
      BY <1>1, <1>5, <2>2, <3>1, <3>2, <3>3
  <2> QED
    BY <1>8, <2>1, <2>2
<1>10. done' = done
  OBVIOUS
<1>11. \A d \in Clients : d # c =>
         /\ Fresh(done'[d], seq'[d] + 1)
         /\ current'[d] # NoRequest =>
              worker'[d] = "handling" /\ current'[d].id <= seq'[d] /\ Fresh(done'[d], current'[d].id)
         /\ \A k \in DOMAIN up'[d] : up'[d][k] \in Requests =>
              /\ up'[d][k].id <= seq'[d]
              /\ Fresh(done'[d], up'[d][k].id)
              /\ current'[d] # NoRequest => current'[d].id < up'[d][k].id
              /\ \A j \in DOMAIN up'[d] : up'[d][j] \in Requests /\ j < k =>
                   up'[d][j].id < up'[d][k].id
  BY <1>3, <1>10 DEF Inv, Ordered
<1>12. /\ Fresh(done'[c], seq'[c] + 1)
       /\ current'[c] # NoRequest =>
            worker'[c] = "handling" /\ current'[c].id <= seq'[c] /\ Fresh(done'[c], current'[c].id)
  BY <1>1, <1>4, <1>5, <1>6, <1>10 DEF Ids
<1> QED
  BY <1>4, <1>9, <1>10, <1>11, <1>12 DEF Ordered

LEMMA ReadKeepsOrder ==
  ASSUME Inv, NEW c \in Clients, ReadRequest(c)
  PROVE  /\ Ordered'
         /\ current[c] = NoRequest
         /\ current'[c] \in Requests /\ Fresh(done[c], current'[c].id)
         /\ \A k \in DOMAIN up'[c] :
              up'[c][k] \in Requests => up'[c][k].id > current'[c].id
         /\ \A d \in Clients : d # c => current'[d] = current[d]
<1> DEFINE q == up[c]
           x == Head(q)
<1>1. /\ q \in Seq(Requests \cup {Torn}) /\ q # <<>> /\ x \in Requests
      /\ current' = [current EXCEPT ![c] = x]
      /\ up' = [up EXCEPT ![c] = Tail(q)]
      /\ worker' = [worker EXCEPT ![c] = "handling"]
      /\ worker[c] = "reading" /\ UNCHANGED <<seq, done>>
      /\ up \in [Clients -> Seq(Requests \cup {Torn})]
      /\ current \in [Clients -> Requests \cup {NoRequest}]
      /\ worker \in [Clients -> {"none", "backlog", "top", "reading", "handling", "gone"}]
  BY DEF Inv, TypeOK, ReadRequest, Moves, clientVars
<1>2. current[c] = NoRequest
  BY <1>1 DEF Inv, Ordered
<1>3. /\ x = q[1] /\ 1 \in DOMAIN q
      /\ \A k \in DOMAIN Tail(q) : k + 1 \in DOMAIN q /\ Tail(q)[k] = q[k + 1]
      /\ Tail(q) \in Seq(Requests \cup {Torn})
  BY <1>1, TailOf
<1>4. \A k \in DOMAIN q : q[k] \in Requests =>
        /\ q[k].id <= seq[c] /\ q[k].id \in Ids
        /\ Fresh(done[c], q[k].id)
        /\ \A j \in DOMAIN q : q[j] \in Requests /\ j < k => q[j].id < q[k].id
  BY Lines DEF Inv, Ordered
<1>5. /\ current'[c] = x /\ up'[c] = Tail(q) /\ worker'[c] = "handling"
      /\ \A d \in Clients : d # c =>
           /\ current'[d] = current[d] /\ up'[d] = up[d] /\ worker'[d] = worker[d]
  BY <1>1
<1> HIDE DEF x, q
<1>6. x.id <= seq[c] /\ x.id \in Ids /\ Fresh(done[c], x.id)
  BY <1>1, <1>3, <1>4
<1>7. ASSUME NEW k \in DOMAIN Tail(q), Tail(q)[k] \in Requests
      PROVE  /\ Tail(q)[k].id <= seq[c] /\ Fresh(done[c], Tail(q)[k].id)
             /\ x.id < Tail(q)[k].id
             /\ \A j \in DOMAIN Tail(q) : Tail(q)[j] \in Requests /\ j < k =>
                  Tail(q)[j].id < Tail(q)[k].id
  <2>1. /\ \A j \in DOMAIN Tail(q) : j \in Nat \ {0} /\ j + 1 \in DOMAIN q
                                    /\ Tail(q)[j] = q[j + 1]
    BY <1>3, LenProperties
  <2>2. x.id < q[k + 1].id
    BY <1>1, <1>3, <1>4, <1>7, <2>1
  <2>3. ASSUME NEW j \in DOMAIN Tail(q), Tail(q)[j] \in Requests, j < k
        PROVE  q[j + 1].id < q[k + 1].id
    BY <1>4, <1>7, <2>1, <2>3
  <2> QED
    BY <1>4, <1>7, <2>1, <2>2, <2>3
<1>8. Ordered'
  <2> SUFFICES ASSUME NEW d \in Clients
               PROVE  /\ Fresh(done'[d], seq'[d] + 1)
                      /\ current'[d] # NoRequest =>
                           /\ worker'[d] = "handling"
                           /\ current'[d].id <= seq'[d]
                           /\ Fresh(done'[d], current'[d].id)
                      /\ \A k \in DOMAIN up'[d] : up'[d][k] \in Requests =>
                           /\ up'[d][k].id <= seq'[d]
                           /\ Fresh(done'[d], up'[d][k].id)
                           /\ current'[d] # NoRequest => current'[d].id < up'[d][k].id
                           /\ \A j \in DOMAIN up'[d] : up'[d][j] \in Requests /\ j < k =>
                                up'[d][j].id < up'[d][k].id
    BY DEF Ordered
  <2>1. CASE d = c
    BY <1>1, <1>5, <1>6, <1>7, <2>1 DEF Inv, Ordered
  <2>2. CASE d # c
    BY <1>1, <1>5, <2>2 DEF Inv, Ordered
  <2> QED
    BY <2>1, <2>2
<1>9. \A k \in DOMAIN up'[c] : up'[c][k] \in Requests => up'[c][k].id > x.id
  <2>1. \A k \in DOMAIN Tail(q) : Tail(q)[k] \in Requests =>
          Tail(q)[k].id \in Int /\ Tail(q)[k].id > x.id
    BY <1>6, <1>7, Lines DEF Ids
  <2> QED
    BY <1>5, <2>1
<1> QED
  BY <1>1, <1>2, <1>5, <1>6, <1>8, <1>9

LEMMA EndKeepsOrder ==
  ASSUME Inv, NEW c \in Clients, NEW o \in Outcomes, HandlerEnds(c, o),
         current[c] # NoRequest
  PROVE  /\ Ordered'
         /\ current[c].id \in Ids /\ done[c][current[c].id] = "none"
         /\ done' = [done EXCEPT ![c][current[c].id] = o]
<1> DEFINE i == current[c].id
<1>1. /\ current \in [Clients -> Requests \cup {NoRequest}]
      /\ done \in [Clients -> [Ids -> Fates]]
      /\ seq \in [Clients -> 0 .. MaxCalls]
      /\ worker \in [Clients -> {"none", "backlog", "top", "reading", "handling", "gone"}]
      /\ up \in [Clients -> Seq(Requests \cup {Torn})]
  BY DEF Inv, TypeOK
<1>2. i \in Ids /\ i <= seq[c] /\ Fresh(done[c], i)
  BY <1>1, Lines DEF Inv, Ordered
<1>3. done[c][i] = "none"
  BY <1>2 DEF Fresh, Ids
<1>4. /\ done' = [done EXCEPT ![c][i] = o]
      /\ current' = [current EXCEPT ![c] = NoRequest]
      /\ worker' = [worker EXCEPT ![c] = "top"]
      /\ UNCHANGED <<seq, up>>
  BY DEF HandlerEnds, Moves, clientVars
<1> HIDE DEF i
<1>5. ASSUME NEW j, j \in Int, i < j, Fresh(done[c], j)
      PROVE  Fresh(done'[c], j)
  BY <1>1, <1>2, <1>4, <1>5 DEF Fresh, Ids
<1>6. /\ current'[c] = NoRequest
      /\ \A d \in Clients : d # c =>
           /\ current'[d] = current[d] /\ done'[d] = done[d] /\ worker'[d] = worker[d]
  BY <1>1, <1>4
<1>7. /\ seq[c] + 1 \in Int /\ i < seq[c] + 1 /\ Fresh(done[c], seq[c] + 1)
  BY <1>1, <1>2 DEF Inv, Ordered, Ids
<1>8. \A k \in DOMAIN up[c] : up[c][k] \in Requests =>
        /\ up[c][k].id <= seq[c] /\ up[c][k].id \in Int
        /\ Fresh(done[c], up[c][k].id) /\ i < up[c][k].id
        /\ \A j \in DOMAIN up[c] : up[c][j] \in Requests /\ j < k =>
             up[c][j].id < up[c][k].id
  BY Lines DEF Inv, Ordered, i, Ids
<1>9. Ordered'
  <2> SUFFICES ASSUME NEW d \in Clients
               PROVE  /\ Fresh(done'[d], seq'[d] + 1)
                      /\ current'[d] # NoRequest =>
                           /\ worker'[d] = "handling"
                           /\ current'[d].id <= seq'[d]
                           /\ Fresh(done'[d], current'[d].id)
                      /\ \A k \in DOMAIN up'[d] : up'[d][k] \in Requests =>
                           /\ up'[d][k].id <= seq'[d]
                           /\ Fresh(done'[d], up'[d][k].id)
                           /\ current'[d] # NoRequest => current'[d].id < up'[d][k].id
                           /\ \A j \in DOMAIN up'[d] : up'[d][j] \in Requests /\ j < k =>
                                up'[d][j].id < up'[d][k].id
    BY DEF Ordered
  <2>1. CASE d = c
    BY <1>4, <1>5, <1>6, <1>7, <1>8, <2>1
  <2>2. CASE d # c
    BY <1>4, <1>6, <2>2 DEF Inv, Ordered
  <2> QED
    BY <2>1, <2>2
<1> QED
  BY <1>2, <1>3, <1>4, <1>9 DEF i

(* The other steps leave the ids alone. *)
LEMMA OthersKeepOrder ==
  ASSUME Inv, UNCHANGED <<seq, done, current, up>>,
         \A c \in Clients : worker[c] = "handling" => worker'[c] = "handling"
  PROVE  Ordered'
BY DEF Inv, Ordered

-----------------------------------------------------------------------------
(* Every step but the end of a handler leaves what was handled; every step *)
(* but these leaves both ends of the connections.                          *)

(* A handler ends. *)
Ends(c, o) == HandlerEnds(c, o) /\ current[c] # NoRequest

LEMMA HandlersEnd ==
  ASSUME NEW c \in Clients, QuickEnds(c) \/ Interrupted(c) \/ WaitEnds(c)
  PROVE  \E o \in Outcomes : Ends(c, o)
BY DEF QuickEnds, Interrupted, WaitEnds, Ends, Outcomes, NoRequest

(* The steps that neither read, write nor handle. *)
Quiet ==
  \/ \E c \in Clients : Dial(c) \/ Accept(c) \/ CheckContext(c) \/ ReadEOF(c)
  \/ Signal \/ CloseListener \/ ServeReturns \/ AcceptFails \/ UNCHANGED vars

(* The daemon ends with requests in hand. *)
Halt == Exit \/ Killed

LEMMA Steps ==
  ASSUME [Next]_vars
  PROVE  \/ \E c \in Clients, m \in Methods : Call(c, m)
         \/ \E c \in Clients : \/ WriteFails(c) \/ CallBroken(c) \/ Close(c)
                              \/ Receive(c) \/ ReadFails(c) \/ Timeout(c)
                              \/ ReadRequest(c)
         \/ \E c \in Clients, o \in Outcomes : Ends(c, o)
         \/ Quiet
         \/ Halt
<1>1. ASSUME NEW c \in Clients, ServeConn(c) \/ WaitEnds(c)
      PROVE  \/ CheckContext(c) \/ ReadRequest(c) \/ ReadEOF(c)
             \/ \E o \in Outcomes : Ends(c, o)
  BY <1>1, HandlersEnd DEF ServeConn
<1> QED
  BY <1>1, Zenon DEF Next, Quiet, Halt

(* The request in hand was not handled before. *)
LEMMA HaltCuts ==
  ASSUME Inv, Halt
  PROVE  /\ UNCHANGED <<seq, up, down, answer, pc, conn>>
         /\ serve' = "exited"
         /\ \A c \in Clients :
              /\ current'[c] = NoRequest
              /\ worker'[c] = IF worker[c] = "none" THEN "none" ELSE "gone"
              /\ current[c] = NoRequest => done'[c] = done[c]
              /\ current[c] # NoRequest =>
                   /\ current[c].id \in Ids /\ done[c][current[c].id] = "none"
                   /\ done'[c] = [done[c] EXCEPT ![current[c].id] = "cut"]
              /\ \A i \in Ids :
                   \/ done'[c][i] = done[c][i]
                   \/ done[c][i] = "none" /\ done'[c][i] = "cut" /\ i = current[c].id
<1>1. /\ UNCHANGED <<seq, up, down, answer, pc, conn>> /\ serve' = "exited"
      /\ ProcessEnds
  BY DEF Halt, Exit, Killed, ProcessEnds, clientVars
<1>2. /\ done \in [Clients -> [Ids -> Fates]]
      /\ current \in [Clients -> Requests \cup {NoRequest}]
  BY DEF Inv, TypeOK
<1>3. \A c \in Clients :
        done'[c] = [i \in Ids |-> IF i = current[c].id THEN "cut" ELSE done[c][i]]
  BY <1>1 DEF ProcessEnds
<1>4. ASSUME NEW c \in Clients, current[c] = NoRequest PROVE done'[c] = done[c]
  <2>1. current[c].id \notin Ids
    BY <1>4 DEF NoRequest, Ids
  <2> QED
    BY <1>2, <1>3, <2>1
<1>5. ASSUME NEW c \in Clients, current[c] # NoRequest
      PROVE  /\ current[c].id \in Ids /\ done[c][current[c].id] = "none"
             /\ done'[c] = [done[c] EXCEPT ![current[c].id] = "cut"]
  <2>1. current[c].id \in Ids /\ Fresh(done[c], current[c].id)
    BY <1>2, <1>5, Lines DEF Inv, Ordered
  <2>2. done[c][current[c].id] = "none"
    BY <2>1 DEF Fresh, Ids
  <2> QED
    BY <1>2, <1>3, <2>1, <2>2
<1>6. \A c \in Clients : /\ current'[c] = NoRequest
                          /\ worker'[c] = IF worker[c] = "none" THEN "none" ELSE "gone"
  BY <1>1 DEF ProcessEnds
<1>7. ASSUME NEW c \in Clients, NEW i \in Ids
      PROVE  \/ done'[c][i] = done[c][i]
             \/ done[c][i] = "none" /\ done'[c][i] = "cut" /\ i = current[c].id
  <2>1. CASE current[c] = NoRequest
    BY <1>4, <2>1
  <2>2. CASE current[c] # NoRequest
    <3>1. done'[c][i] = IF i = current[c].id THEN "cut" ELSE done[c][i]
      BY <1>3
    <3> QED
      BY <1>5, <2>2, <3>1
  <2> QED
    BY <2>1, <2>2
<1> QED
  BY <1>1, <1>4, <1>5, <1>6, <1>7

LEMMA QuietLeaves ==
  ASSUME Inv, Quiet
  PROVE  /\ UNCHANGED <<seq, done, current, up, down, answer, pc>>
         /\ \A c \in Clients : worker[c] = "handling" => worker'[c] = "handling"
         /\ \A c \in Clients : conn[c] = "open" => conn'[c] = "open"
<1>1. worker \in [Clients -> {"none", "backlog", "top", "reading", "handling", "gone"}]
      /\ conn \in [Clients -> {"none", "open", "broken", "closed"}]
  BY DEF Inv, TypeOK
<1>2. ASSUME NEW c \in Clients, Dial(c)
      PROVE  /\ UNCHANGED <<seq, done, current, up, down, answer, pc>>
             /\ worker' = [worker EXCEPT ![c] = "backlog"]
             /\ conn' = [conn EXCEPT ![c] = "open"]
             /\ worker[c] = "none"
  BY <1>2 DEF Dial, Inv, Connected
<1>3. ASSUME NEW c \in Clients, Accept(c) \/ CheckContext(c) \/ ReadEOF(c)
      PROVE  /\ UNCHANGED <<seq, done, current, up, down, answer, pc, conn>>
             /\ worker[c] # "handling"
             /\ \E x \in {"top", "gone", "reading"} : worker' = [worker EXCEPT ![c] = x]
  BY <1>3 DEF Accept, CheckContext, ReadEOF, Moves, OnlyWorker, clientVars
<1>4. CASE Signal \/ CloseListener \/ ServeReturns \/ AcceptFails \/ UNCHANGED vars
  BY <1>1, <1>4 DEF Signal, CloseListener, ServeReturns, AcceptFails, clientVars, vars
<1> QED
  BY <1>1, <1>2, <1>3, <1>4 DEF Quiet

LEMMA OrderStep == Inv /\ [Next]_vars => Ordered'
<1> SUFFICES ASSUME Inv, [Next]_vars PROVE Ordered'
  OBVIOUS
<1>1. ASSUME NEW c \in Clients, NEW m \in Methods, Call(c, m) PROVE Ordered'
  <2>1. /\ seq[c] < MaxCalls /\ seq' = [seq EXCEPT ![c] = seq[c] + 1]
        /\ up' = [up EXCEPT ![c] = Append(up[c], Request(seq[c] + 1, m))]
        /\ UNCHANGED <<done, current, worker>>
    BY <1>1 DEF Call, daemonVars
  <2>2. up' \in {up, [up EXCEPT ![c] = Append(up[c], Request(seq[c] + 1, m))]}
    BY <2>1
  <2>3. Request(seq[c] + 1, m) \in {Torn} \cup {Request(seq[c] + 1, n) : n \in Methods}
    OBVIOUS
  <2> QED
    BY <2>1, <2>2, <2>3, SendKeepsOrder, Zenon
<1>2. ASSUME NEW c \in Clients, WriteFails(c) \/ CallBroken(c) PROVE Ordered'
  <2>1. /\ seq[c] < MaxCalls /\ seq' = [seq EXCEPT ![c] = seq[c] + 1]
        /\ UNCHANGED <<done, current, worker>>
    BY <1>2 DEF WriteFails, CallBroken, daemonVars
  <2>2. up' \in {up, [up EXCEPT ![c] = Append(up[c], Torn)]}
    <3>1. CASE WriteFails(c)
      BY <3>1 DEF WriteFails
    <3>2. CASE CallBroken(c)
      BY <3>2 DEF CallBroken
    <3> QED
      BY <1>2, <3>1, <3>2
  <2>3. Torn \in {Torn} \cup {Request(seq[c] + 1, m) : m \in Methods}
    OBVIOUS
  <2> QED
    BY <2>1, <2>2, <2>3, SendKeepsOrder, Zenon
<1>3. ASSUME NEW c \in Clients, Close(c) \/ Receive(c) \/ ReadFails(c) \/ Timeout(c)
      PROVE  Ordered'
  <2>1. UNCHANGED <<seq, done, current, up, worker>>
    BY <1>3 DEF Close, Receive, ReadFails, Timeout, daemonVars
  <2> QED
    BY <2>1, OthersKeepOrder
<1>4. CASE Quiet
  BY <1>4, QuietLeaves, OthersKeepOrder
<1>5. CASE Halt
  <2> SUFFICES ASSUME NEW c \in Clients
               PROVE  /\ Fresh(done'[c], seq[c] + 1)
                      /\ \A k \in DOMAIN up[c] : up[c][k] \in Requests =>
                           Fresh(done'[c], up[c][k].id)
    BY <1>5, HaltCuts DEF Inv, Ordered
  <2>1. /\ Fresh(done[c], seq[c] + 1) /\ seq[c] \in Nat
        /\ \A k \in DOMAIN up[c] : up[c][k] \in Requests =>
             up[c][k].id \in Nat /\ Fresh(done[c], up[c][k].id)
    BY RpcBound, Lines DEF Inv, Ordered, TypeOK, Ids
  <2>2. CASE current[c] = NoRequest
    BY <1>5, <2>1, <2>2, HaltCuts
  <2>3. CASE current[c] # NoRequest
    <3> DEFINE i == current[c].id
    <3>1. /\ i \in Ids /\ done'[c] = [done[c] EXCEPT ![i] = "cut"]
          /\ i <= seq[c]
          /\ \A k \in DOMAIN up[c] : up[c][k] \in Requests => i < up[c][k].id
      BY <1>5, <2>3, HaltCuts DEF Inv, Ordered
    <3> HIDE DEF i
    <3>2. ASSUME NEW j \in Nat, i < j, Fresh(done[c], j) PROVE Fresh(done'[c], j)
      <4>1. \A h \in Ids : h >= j => h # i
        BY <3>1, <3>2 DEF Ids
      <4> QED
        BY <3>1, <3>2, <4>1 DEF Fresh
    <3>3. i < seq[c] + 1 /\ seq[c] + 1 \in Nat
      BY <2>1, <3>1 DEF Ids
    <3> QED
      BY <2>1, <3>1, <3>2, <3>3
  <2> QED
    BY <2>2, <2>3
<1> QED
  BY <1>1, <1>2, <1>3, <1>4, <1>5, Steps, ReadKeepsOrder, EndKeepsOrder DEF Ends

-----------------------------------------------------------------------------
(* The answers *)

LEMMA TruthStep == Inv /\ [Next]_vars => Truthful'
<1> SUFFICES ASSUME Inv, [Next]_vars PROVE Truthful'
  OBVIOUS
<1>0. /\ down \in [Clients -> Seq(Answers \cup {Rest})]
      /\ done \in [Clients -> [Ids -> Fates]]
      /\ \A c \in Clients : down[c] \in Seq(Answers \cup {Rest})
  BY DEF Inv, TypeOK
<1>1. CASE UNCHANGED <<down, done>>
  BY <1>1 DEF Inv, Truthful
<1>2. ASSUME NEW c \in Clients, Receive(c) PROVE Truthful'
  <2>1. /\ down[c] # <<>> /\ done' = done
        /\ down' = [down EXCEPT ![c] = Tail(down[c])]
    BY <1>2 DEF Receive, daemonVars
  <2>2. \A k \in DOMAIN Tail(down[c]) :
          k + 1 \in DOMAIN down[c] /\ Tail(down[c])[k] = down[c][k + 1]
    BY <1>0, <2>1, TailOf
  <2> QED
    BY <1>0, <2>1, <2>2 DEF Inv, Truthful
<1>3. ASSUME NEW c \in Clients, Timeout(c) PROVE Truthful'
  <2>1. /\ done' = done
        /\ \/ down' = down
           \/ /\ down[c] # <<>>
              /\ down' = [down EXCEPT ![c] = <<Rest>> \o Tail(down[c])]
    BY <1>3 DEF Timeout, daemonVars
  <2>2. CASE down[c] # <<>> /\ down' = [down EXCEPT ![c] = <<Rest>> \o Tail(down[c])]
    <3> DEFINE q == <<Rest>> \o Tail(down[c])
    <3>1. /\ DOMAIN q = DOMAIN down[c]
          /\ \A k \in DOMAIN down[c] : q[k] = IF k = 1 THEN Rest ELSE down[c][k]
      BY <1>0, <2>2, RestOf
    <3>2. down'[c] = q /\ \A d \in Clients : d # c => down'[d] = down[d]
      BY <1>0, <2>2
    <3> HIDE DEF q
    <3> QED
      BY <2>1, <3>1, <3>2 DEF Inv, Truthful
  <2> QED
    BY <1>1, <2>1, <2>2
<1>4. ASSUME NEW c \in Clients, NEW o \in Outcomes, Ends(c, o) PROVE Truthful'
  <2> DEFINE i == current[c].id
             x == Answer(i, o)
  <2>1. /\ i \in Ids /\ done[c][i] = "none"
        /\ done' = [done EXCEPT ![c][i] = o]
        /\ down' = down \/ down' = [down EXCEPT ![c] = Append(down[c], x)]
    BY <1>4, EndKeepsOrder DEF Ends, HandlerEnds, Respond
  <2> HIDE DEF i
  <2>2. x \in Answers /\ x.id = i /\ x.outcome = o
    BY <2>1, Lines
  <2> HIDE DEF x
  <2>3. \A d \in Clients : \A k \in DOMAIN down'[d] :
          \/ k \in DOMAIN down[d] /\ down'[d][k] = down[d][k]
          \/ d = c /\ down'[d][k] = x
    <3>1. CASE down' = down
      BY <3>1
    <3>2. CASE down' = [down EXCEPT ![c] = Append(down[c], x)]
      <4>1. down'[c] = Append(down[c], x) /\ \A d \in Clients : d # c => down'[d] = down[d]
        BY <1>0, <3>2
      <4>2. \A k \in DOMAIN Append(down[c], x) :
              \/ k \in DOMAIN down[c] /\ Append(down[c], x)[k] = down[c][k]
              \/ Append(down[c], x)[k] = x
        BY <1>0, <2>2, AppendOf
      <4> QED
        BY <4>1, <4>2
    <3> QED
      BY <2>1, <3>1, <3>2
  <2>4. done'[c][i] = o
    BY <1>0, <2>1
  <2>5. \A d \in Clients, j \in Ids : done[d][j] # "none" => done'[d][j] = done[d][j]
    BY <1>0, <2>1
  <2>6. \A d \in Clients : \A k \in DOMAIN down[d] : down[d][k] # Rest =>
          /\ down[d][k] \in Answers
          /\ done[d][down[d][k].id] = down[d][k].outcome
          /\ down[d][k].id \in Ids /\ down[d][k].outcome # "none"
    BY Lines DEF Inv, Truthful, Outcomes
  <2> QED
    BY <2>2, <2>3, <2>4, <2>5, <2>6 DEF Truthful
<1>5. ASSUME NEW c \in Clients,
             WriteFails(c) \/ CallBroken(c) \/ Close(c) \/ ReadFails(c) \/ ReadRequest(c)
      PROVE  UNCHANGED <<down, done>>
  BY <1>5 DEF WriteFails, CallBroken, Close, ReadFails, ReadRequest, daemonVars, clientVars
<1>6. ASSUME NEW c \in Clients, NEW m \in Methods, Call(c, m)
      PROVE  UNCHANGED <<down, done>>
  BY <1>6 DEF Call, daemonVars
<1>7. CASE Halt
  <2>1. down' = down /\ \A c \in Clients, i \in Ids : done[c][i] # "none" => done'[c][i] = done[c][i]
    BY <1>7, HaltCuts
  <2>2. \A c \in Clients : \A k \in DOMAIN down[c] : down[c][k] # Rest =>
          /\ down[c][k] \in Answers
          /\ done[c][down[c][k].id] = down[c][k].outcome
          /\ down[c][k].id \in Ids /\ down[c][k].outcome # "none"
    BY Lines DEF Inv, Truthful, Outcomes
  <2> QED
    BY <2>1, <2>2 DEF Truthful
<1> QED
  BY <1>1, <1>2, <1>3, <1>4, <1>5, <1>6, <1>7, Steps, QuietLeaves

(* What Receive makes of the line at the head. *)
LEMMA ReceiveTakes ==
  ASSUME Inv, NEW c \in Clients, Receive(c)
  PROVE  \/ Returns(c, "lost")
         \/ /\ done[c][seq[c]] \in Outcomes /\ Returns(c, done[c][seq[c]])
         \/ /\ UNCHANGED <<pc, answer>>
            /\ Head(down[c]) # Answer(seq[c], done[c][seq[c]])
<1> DEFINE x == Head(down[c])
<1>1. /\ down[c] # <<>> /\ down[c] \in Seq(Answers \cup {Rest})
      /\ \/ x = Rest /\ Returns(c, "lost")
         \/ x # Rest /\ x.id = seq[c] /\ Returns(c, x.outcome)
         \/ x.id # seq[c] /\ UNCHANGED <<pc, answer>>
  BY DEF Receive, Inv, TypeOK
<1>2. x = down[c][1] /\ 1 \in DOMAIN down[c]
  BY <1>1, TailOf
<1>3. x # Rest => x \in Answers /\ done[c][x.id] = x.outcome
  BY <1>2 DEF Inv, Truthful
<1> HIDE DEF x
<1>4. CASE x # Rest /\ x.id = seq[c] /\ Returns(c, x.outcome)
  BY <1>3, <1>4, Lines
<1>5. CASE x.id # seq[c] /\ UNCHANGED <<pc, answer>>
  BY <1>5 DEF x, Answer
<1> QED
  BY <1>1, <1>4, <1>5

(* A line that is whole does not end a call without a result. *)
LEMMA TakesAnswer ==
  ASSUME Inv, NEW c \in Clients, Receive(c), Head(down[c]) # Rest
  PROVE  (\E o \in Outcomes : Returns(c, o)) \/ answer' = answer
<1> DEFINE x == Head(down[c])
<1>1. /\ down[c] # <<>> /\ down[c] \in Seq(Answers \cup {Rest})
      /\ Returns(c, x.outcome) \/ answer' = answer
  BY DEF Receive, Inv, TypeOK
<1>2. x \in Answers
  BY <1>1, TailOf
<1> QED
  BY <1>1, <1>2, Lines

LEMMA AnswerStep == Inv /\ [Next]_vars => ResultsAreTrue'
<1> SUFFICES ASSUME Inv, [Next]_vars PROVE ResultsAreTrue'
  OBVIOUS
<1>0. /\ done \in [Clients -> [Ids -> Fates]]
      /\ answer \in [Clients -> [Ids -> Outcomes \cup {"none", "lost"}]]
      /\ "lost" \notin Outcomes /\ "none" \notin Outcomes
  BY DEF Inv, TypeOK, Outcomes
<1>1. CASE UNCHANGED <<answer, done>>
  BY <1>1 DEF Inv, ResultsAreTrue
<1>2. ASSUME NEW c \in Clients, NEW i, done' = done,
             answer' = [answer EXCEPT ![c][i] = "lost"]
      PROVE  ResultsAreTrue'
  BY <1>0, <1>2 DEF Inv, ResultsAreTrue
<1>3. ASSUME NEW c \in Clients, NEW i, done' = done,
             answer' = [answer EXCEPT ![c][i] = done[c][i]]
      PROVE  ResultsAreTrue'
  BY <1>0, <1>3 DEF Inv, ResultsAreTrue
<1>4. ASSUME NEW c \in Clients, Receive(c) PROVE ResultsAreTrue'
  <2>1. done' = done
    BY <1>4 DEF Receive, daemonVars
  <2> QED
    BY <1>1, <1>2, <1>3, <1>4, <2>1, ReceiveTakes DEF Returns
<1>5. ASSUME NEW c \in Clients, ReadFails(c) \/ Timeout(c) PROVE ResultsAreTrue'
  BY <1>2, <1>5 DEF ReadFails, Timeout, Returns, daemonVars
<1>6. ASSUME NEW c \in Clients, WriteFails(c) \/ CallBroken(c) PROVE ResultsAreTrue'
  BY <1>2, <1>6 DEF WriteFails, CallBroken, daemonVars
<1>7. ASSUME NEW c \in Clients, NEW o \in Outcomes, Ends(c, o) PROVE ResultsAreTrue'
  <2>1. /\ done[c][current[c].id] = "none" /\ answer' = answer
        /\ done' = [done EXCEPT ![c][current[c].id] = o]
    BY <1>7, EndKeepsOrder DEF Ends, HandlerEnds, clientVars
  <2> QED
    BY <1>0, <2>1 DEF Inv, ResultsAreTrue
<1>8. ASSUME NEW c \in Clients, Close(c) \/ ReadRequest(c)
      PROVE  UNCHANGED <<answer, done>>
  BY <1>8 DEF Close, ReadRequest, daemonVars, clientVars
<1>9. ASSUME NEW c \in Clients, NEW m \in Methods, Call(c, m)
      PROVE  UNCHANGED <<answer, done>>
  BY <1>9 DEF Call, daemonVars
<1>10. CASE Halt
  <2>1. answer' = answer /\ \A c \in Clients, i \in Ids : done[c][i] # "none" => done'[c][i] = done[c][i]
    BY <1>10, HaltCuts
  <2> QED
    BY <1>0, <2>1 DEF Inv, ResultsAreTrue
<1> QED
  BY <1>1, <1>4, <1>5, <1>6, <1>7, <1>8, <1>9, <1>10, Steps, QuietLeaves

-----------------------------------------------------------------------------
(* The ends of the connections *)

LEMMA ConnectedStep == Inv /\ [Next]_vars => Connected'
<1> SUFFICES ASSUME Inv, [Next]_vars PROVE Connected'
  OBVIOUS
<1>0. /\ worker \in [Clients -> {"none", "backlog", "top", "reading", "handling", "gone"}]
      /\ conn \in [Clients -> {"none", "open", "broken", "closed"}]
      /\ pc \in [Clients -> {"idle", "reading"}]
      /\ seq \in [Clients -> 0 .. MaxCalls]
      /\ \A d \in Clients : pc[d] = "reading" => conn[d] = "open" /\ seq[d] \in Ids
      /\ \A d \in Clients : conn[d] = "none" => worker[d] = "none"
  BY DEF Inv, TypeOK, Connected
<1>1. ASSUME NEW c \in Clients, Dial(c) \/ Close(c) PROVE Connected'
  BY <1>0, <1>1 DEF Dial, Close, daemonVars, Connected
<1>2. ASSUME NEW c \in Clients, NEW m \in Methods, Call(c, m) PROVE Connected'
  <2>1. seq[c] + 1 \in Ids
    BY <1>0, <1>2, RpcBound DEF Call, Ids
  <2> QED
    BY <1>0, <1>2, <2>1 DEF Call, daemonVars, Connected
<1>3. ASSUME NEW c \in Clients, WriteFails(c) \/ CallBroken(c) PROVE Connected'
  <2>1. pc[c] # "reading"
    BY <1>0, <1>3 DEF WriteFails, CallBroken
  <2> QED
    BY <1>0, <1>3, <2>1 DEF WriteFails, CallBroken, daemonVars, Connected
<1>4. ASSUME NEW c \in Clients, Receive(c) \/ ReadFails(c) \/ Timeout(c)
      PROVE  Connected'
  <2>1. /\ UNCHANGED <<conn, seq, worker>>
        /\ pc' \in {pc, [pc EXCEPT ![c] = "idle"]}
    BY <1>4 DEF Receive, ReadFails, Timeout, Returns, daemonVars
  <2> QED
    BY <1>0, <2>1 DEF Connected
<1>5. ASSUME NEW c \in Clients,
             \/ ReadRequest(c) \/ Accept(c) \/ CheckContext(c) \/ ReadEOF(c)
             \/ \E o \in Outcomes : Ends(c, o)
      PROVE  Connected'
  <2>1. /\ UNCHANGED <<conn, seq, pc>> /\ worker[c] # "none"
        /\ \E x : worker' = [worker EXCEPT ![c] = x]
    BY <1>5 DEF ReadRequest, Accept, CheckContext, ReadEOF, Ends, HandlerEnds, Moves,
                OnlyWorker, clientVars
  <2> QED
    BY <1>0, <2>1 DEF Connected
<1>6. CASE Signal \/ CloseListener \/ ServeReturns \/ AcceptFails \/ UNCHANGED vars
  BY <1>0, <1>6
     DEF Signal, CloseListener, ServeReturns, AcceptFails, clientVars, vars, Connected
<1>7. CASE Halt
  BY <1>0, <1>7, HaltCuts DEF Connected
<1> QED
  BY <1>1, <1>2, <1>3, <1>4, <1>5, <1>6, <1>7, Steps DEF Quiet

LEMMA HaltedStep == Inv /\ [Next]_vars => Halted'
<1> SUFFICES ASSUME Inv, [Next]_vars PROVE Halted'
  OBVIOUS
<1>0. /\ worker \in [Clients -> {"none", "backlog", "top", "reading", "handling", "gone"}]
      /\ done \in [Clients -> [Ids -> Fates]]
      /\ \A c \in Clients : serve = "exited" => worker[c] \in {"none", "gone"}
      /\ \A c \in Clients, i \in Ids : done[c][i] = "cut" => serve = "exited"
  BY DEF Inv, TypeOK, Halted
<1>1. CASE UNCHANGED <<serve, worker, done>>
  BY <1>1 DEF Inv, Halted
<1>2. ASSUME NEW c \in Clients,
             WriteFails(c) \/ CallBroken(c) \/ Close(c) \/ Receive(c) \/ ReadFails(c) \/ Timeout(c)
      PROVE  UNCHANGED <<serve, worker, done>>
  BY <1>2 DEF WriteFails, CallBroken, Close, Receive, ReadFails, Timeout, daemonVars
<1>3. ASSUME NEW c \in Clients, NEW m \in Methods, Call(c, m)
      PROVE  UNCHANGED <<serve, worker, done>>
  BY <1>3 DEF Call, daemonVars
<1>4. ASSUME NEW c \in Clients,
             Dial(c) \/ Accept(c) \/ CheckContext(c) \/ ReadEOF(c) \/ ReadRequest(c)
      PROVE  Halted'
  <2>1. /\ UNCHANGED <<serve, done>>
        /\ serve # "exited" \/ worker[c] \notin {"none", "gone"}
        /\ \E x : worker' = [worker EXCEPT ![c] = x]
    BY <1>4 DEF Dial, Accept, CheckContext, ReadEOF, ReadRequest, Moves, OnlyWorker, clientVars
  <2> QED
    BY <1>0, <2>1 DEF Halted
<1>5. ASSUME NEW c \in Clients, NEW o \in Outcomes, Ends(c, o) PROVE Halted'
  <2>1. /\ worker[c] = "handling" /\ worker' = [worker EXCEPT ![c] = "top"]
        /\ done' = [done EXCEPT ![c][current[c].id] = o] /\ o # "cut" /\ serve' = serve
    BY <1>5 DEF Ends, HandlerEnds, Moves, Outcomes
  <2>2. \A d \in Clients, i \in Ids : done'[d][i] = "cut" => done[d][i] = "cut"
    BY <1>0, <2>1
  <2>3. serve # "exited"
    BY <1>0, <2>1
  <2> QED
    BY <1>0, <2>1, <2>2, <2>3 DEF Halted
<1>6. CASE Signal \/ CloseListener \/ ServeReturns \/ AcceptFails \/ UNCHANGED vars
  <2>1. CASE CloseListener
    BY <1>0, <2>1 DEF CloseListener, Halted
  <2>2. CASE Signal \/ ServeReturns \/ AcceptFails \/ UNCHANGED vars
    BY <1>0, <2>2 DEF Signal, ServeReturns, AcceptFails, vars, Halted
  <2> QED
    BY <1>6, <2>1, <2>2
<1>7. CASE Halt
  BY <1>0, <1>7, HaltCuts DEF Halted
<1> QED
  BY <1>1, <1>2, <1>3, <1>4, <1>5, <1>6, <1>7, Steps DEF Quiet

LEMMA LostStep == Inv /\ [Next]_vars => NoAnswerLost'
<1> SUFFICES ASSUME Inv, [Next]_vars PROVE NoAnswerLost'
  OBVIOUS
<1>0. /\ done \in [Clients -> [Ids -> Fates]]
      /\ down \in [Clients -> Seq(Answers \cup {Rest})]
      /\ \A d \in Clients : down[d] \in Seq(Answers \cup {Rest})
      /\ pc \in [Clients -> {"idle", "reading"}]
      /\ seq \in [Clients -> 0 .. MaxCalls]
      /\ \A d \in Clients : pc[d] = "reading" => conn[d] = "open" /\ seq[d] \in Ids
  BY DEF Inv, TypeOK, Connected
<1>1. CASE UNCHANGED <<pc, seq, done, down>>
  BY <1>1 DEF Inv, NoAnswerLost
(* It is enough that a client that does not read any more owes nothing. *)
<1>2. ASSUME NEW c \in Clients, pc'[c] # "reading",
             \A d \in Clients : d # c =>
               pc'[d] = pc[d] /\ seq'[d] = seq[d] /\ done'[d] = done[d] /\ down'[d] = down[d]
      PROVE  NoAnswerLost'
  BY <1>2 DEF Inv, NoAnswerLost
<1>3. ASSUME NEW c \in Clients, NEW m \in Methods, Call(c, m) PROVE NoAnswerLost'
  <2>1. /\ seq' = [seq EXCEPT ![c] = seq[c] + 1] /\ seq[c] < MaxCalls
        /\ pc' = [pc EXCEPT ![c] = "reading"]
        /\ UNCHANGED <<done, down>>
    BY <1>3 DEF Call, daemonVars
  <2>2. done[c][seq[c] + 1] = "none"
    <3>1. seq[c] + 1 \in Ids /\ Fresh(done[c], seq[c] + 1)
      BY <1>0, <2>1, RpcBound DEF Inv, Ordered, Ids
    <3> QED
      BY <3>1 DEF Fresh, Ids
  <2> QED
    BY <1>0, <2>1, <2>2 DEF Inv, NoAnswerLost, Outcomes
<1>4. ASSUME NEW c \in Clients, WriteFails(c) \/ CallBroken(c) \/ Close(c)
      PROVE  NoAnswerLost'
  <2>1. /\ UNCHANGED <<done, down>> /\ pc' \in {pc, [pc EXCEPT ![c] = "idle"]}
        /\ pc[c] # "reading" \/ pc' = [pc EXCEPT ![c] = "idle"]
        /\ seq' \in {seq, [seq EXCEPT ![c] = seq[c] + 1]}
    BY <1>0, <1>4 DEF WriteFails, CallBroken, Close, daemonVars
  <2> QED
    BY <1>0, <1>2, <2>1
<1>5. ASSUME NEW c \in Clients, Receive(c) PROVE NoAnswerLost'
  <2>1. /\ UNCHANGED <<seq, done>> /\ down[c] # <<>>
        /\ down' = [down EXCEPT ![c] = Tail(down[c])]
    BY <1>5 DEF Receive, daemonVars
  <2>2. CASE \E o : Returns(c, o)
    BY <1>0, <1>2, <2>1, <2>2 DEF Returns
  <2>3. CASE UNCHANGED <<pc, answer>> /\ Head(down[c]) # Answer(seq[c], done[c][seq[c]])
    <3> DEFINE e == Answer(seq[c], done[c][seq[c]])
               q == down[c]
    <3>1. q \in Seq(Answers \cup {Rest}) /\ q # <<>> /\ e # Head(q)
      BY <1>0, <2>1, <2>3
    <3>2. Contains(q, e) => Contains(Tail(q), e)
      <4> HIDE DEF e, q
      <4> QED
        BY <3>1, ContainsTail
    <3>3. down'[c] = Tail(q) /\ \A d \in Clients : d # c => down'[d] = down[d]
      BY <1>0, <2>1
    <3> QED
      BY <2>1, <2>3, <3>2, <3>3 DEF Inv, NoAnswerLost
  <2> QED
    BY <1>5, <2>2, <2>3, ReceiveTakes
<1>6. ASSUME NEW c \in Clients, ReadFails(c) \/ Timeout(c) PROVE NoAnswerLost'
  <2>1. /\ UNCHANGED <<seq, done>> /\ pc' = [pc EXCEPT ![c] = "idle"]
        /\ down' \in {down, [down EXCEPT ![c] = <<Rest>> \o Tail(down[c])]}
    BY <1>6 DEF ReadFails, Timeout, Returns, daemonVars
  <2> QED
    BY <1>0, <1>2, <2>1
<1>7. ASSUME NEW c \in Clients, NEW o \in Outcomes, Ends(c, o) PROVE NoAnswerLost'
  <2> DEFINE i == current[c].id
             x == Answer(i, o)
  <2>1. /\ i \in Ids /\ done' = [done EXCEPT ![c][i] = o]
        /\ UNCHANGED <<pc, seq>>
        /\ down' = IF conn[c] # "closed" THEN [down EXCEPT ![c] = Append(down[c], x)]
                                         ELSE down
    BY <1>7, EndKeepsOrder DEF Ends, HandlerEnds, Respond, clientVars
  <2>2. x \in Answers
    BY <2>1, Lines
  <2> HIDE DEF i, x
  <2>3. /\ \A d \in Clients : d # c => done'[d] = done[d] /\ down'[d] = down[d]
        /\ done'[c] = [done[c] EXCEPT ![i] = o]
        /\ conn[c] = "open" => down'[c] = Append(down[c], x)
    BY <1>0, <2>1
  <2>4. ASSUME pc[c] = "reading", done'[c][seq[c]] \in Outcomes
        PROVE  Contains(down'[c], Answer(seq[c], done'[c][seq[c]]))
    <3>1. down'[c] = Append(down[c], x) /\ seq[c] \in Ids
      BY <1>0, <2>3, <2>4
    <3>2. /\ Contains(Append(down[c], x), x)
          /\ \A e : Contains(down[c], e) => Contains(Append(down[c], x), e)
      <4>1. down[c] \in Seq(Answers \cup {Rest}) /\ x \in Answers \cup {Rest}
        BY <1>0, <2>2
      <4> QED
        BY <4>1, ContainsAppend
    <3>3. CASE i = seq[c]
      <4>1. done'[c][seq[c]] = o
        BY <1>0, <2>1, <2>3, <3>3
      <4> QED
        BY <3>1, <3>2, <3>3, <4>1 DEF x
    <3>4. CASE i # seq[c]
      <4> DEFINE e == Answer(seq[c], done[c][seq[c]])
      <4>1. done'[c][seq[c]] = done[c][seq[c]]
        BY <1>0, <2>3, <3>1, <3>4
      <4>2. Contains(down[c], e)
        BY <2>4, <4>1 DEF Inv, NoAnswerLost
      <4> HIDE DEF e
      <4>3. Contains(Append(down[c], x), e)
        BY <3>2, <4>2
      <4> QED
        BY <3>1, <4>1, <4>3 DEF e
    <3> QED
      BY <3>3, <3>4
  <2>5. ASSUME NEW d \in Clients, d # c, pc[d] = "reading", done[d][seq[d]] \in Outcomes
        PROVE  Contains(down[d], Answer(seq[d], done[d][seq[d]]))
    BY <2>5 DEF Inv, NoAnswerLost
  <2> QED
    BY <2>1, <2>3, <2>4, <2>5 DEF NoAnswerLost
<1>8. ASSUME NEW c \in Clients, ReadRequest(c) PROVE UNCHANGED <<pc, seq, done, down>>
  BY <1>8 DEF ReadRequest, clientVars
<1>9. CASE Halt
  <2>1. /\ UNCHANGED <<pc, seq, down>>
        /\ \A c \in Clients, i \in Ids : done'[c][i] = done[c][i] \/ done'[c][i] = "cut"
    BY <1>9, HaltCuts
  <2>2. "cut" \notin Outcomes
    BY DEF Outcomes
  <2>3. ASSUME NEW c \in Clients, pc[c] = "reading", done'[c][seq[c]] \in Outcomes
        PROVE  Contains(down[c], Answer(seq[c], done'[c][seq[c]]))
    <3>1. done'[c][seq[c]] = done[c][seq[c]]
      BY <1>0, <2>1, <2>2, <2>3
    <3> QED
      BY <2>3, <3>1 DEF Inv, NoAnswerLost
  <2> QED
    BY <2>1, <2>3 DEF NoAnswerLost
<1> QED
  BY <1>1, <1>3, <1>4, <1>5, <1>6, <1>7, <1>8, <1>9, Steps, QuietLeaves

-----------------------------------------------------------------------------
(* Theorems *)

LEMMA InitInv == Init => Inv
<1> SUFFICES ASSUME Init PROVE Inv
  OBVIOUS
<1>1. TypeOK
  <2>1. up \in [Clients -> Seq(Requests \cup {Torn})]
    BY EmptySeq DEF Init
  <2>2. down \in [Clients -> Seq(Answers \cup {Rest})]
    BY EmptySeq DEF Init
  <2>3. seq \in [Clients -> 0 .. MaxCalls]
    BY RpcBound DEF Init
  <2>4. /\ done \in [Clients -> [Ids -> Fates]]
        /\ answer \in [Clients -> [Ids -> Outcomes \cup {"none", "lost"}]]
    BY DEF Init, Fates
  <2> QED
    BY <2>1, <2>2, <2>3, <2>4 DEF Init, TypeOK
<1>2. Ordered /\ Truthful
  BY DEF Init, Ordered, Truthful, Fresh
<1>3. ResultsAreTrue /\ Connected /\ Halted /\ NoAnswerLost
  BY DEF Init, ResultsAreTrue, Connected, Halted, NoAnswerLost, Outcomes
<1> QED
  BY <1>1, <1>2, <1>3 DEF Inv

LEMMA InvStep == Inv /\ [Next]_vars => Inv'
BY TypeStep, OrderStep, TruthStep, AnswerStep, ConnectedStep, HaltedStep, LostStep DEF Inv

LEMMA InvHolds == Spec => []Inv
BY InitInv, InvStep, PTL DEF Spec

(* The variables keep their types: ids stay in range, what is in a         *)
(* connection is a request, an answer or a part of one.                    *)
THEOREM TypeCorrect == Spec => []TypeOK
<1>1. Inv => TypeOK
  BY DEF Inv
<1> QED
  BY <1>1, InvHolds, PTL

(* Of a client without deadlines no line is torn, and its calls are lost   *)
(* only when ServeConn has returned or the daemon is gone.                 *)
Whole(c) ==
  /\ conn[c] # "broken"
  /\ \A k \in DOMAIN down[c] : down[c][k] # Rest
  /\ \A i \in Ids : answer[c][i] = "lost" => worker[c] = "gone" /\ done[c][i] \notin Outcomes

Untorn == \A c \in Clients \ Timed : Whole(c)

LEMMA UntornStep == Inv /\ Untorn /\ [Next]_vars => Untorn'
<1> SUFFICES ASSUME Inv, Untorn, [Next]_vars PROVE Untorn'
  OBVIOUS
<1>0. /\ conn \in [Clients -> {"none", "open", "broken", "closed"}]
      /\ worker \in [Clients -> {"none", "backlog", "top", "reading", "handling", "gone"}]
      /\ answer \in [Clients -> [Ids -> Outcomes \cup {"none", "lost"}]]
      /\ done \in [Clients -> [Ids -> Fates]]
      /\ down \in [Clients -> Seq(Answers \cup {Rest})]
      /\ "lost" \notin Outcomes
      /\ \A c \in Clients : conn[c] = "none" => worker[c] = "none"
  BY DEF Inv, TypeOK, Connected, Outcomes
(* A step of one connection that leaves what its client was told. *)
<1>1. ASSUME NEW c \in Clients, UNCHANGED answer,
             \A d \in Clients \ {c} : /\ conn'[d] = conn[d] /\ down'[d] = down[d]
                                      /\ worker'[d] = worker[d] /\ done'[d] = done[d],
             c \in Timed \/ conn'[c] # "broken",
             \A k \in DOMAIN down'[c] : down'[c][k] = Rest =>
               \E j \in DOMAIN down[c] : down[c][j] = Rest,
             worker[c] = "gone" => worker'[c] = "gone" /\ done'[c] = done[c]
      PROVE  Untorn'
  BY <1>1 DEF Untorn, Whole
<1>2. ASSUME NEW c \in Clients, NEW m \in Methods, Call(c, m) PROVE Untorn'
  BY <1>2 DEF Call, daemonVars, Untorn, Whole
<1>3. ASSUME NEW c \in Clients, WriteFails(c) \/ CallBroken(c) PROVE Untorn'
  <2>1. c \in Timed
    BY <1>3 DEF WriteFails, CallBroken, Untorn, Whole
  <2>2. \A d \in Clients \ {c} : conn'[d] = conn[d] /\ answer'[d] = answer[d]
    BY <1>0, <1>3 DEF WriteFails, CallBroken
  <2>3. UNCHANGED <<worker, down, done>>
    BY <1>3 DEF WriteFails, CallBroken, daemonVars
  <2> QED
    BY <2>1, <2>2, <2>3 DEF Untorn, Whole
<1>4. ASSUME NEW c \in Clients, Close(c) PROVE Untorn'
  BY <1>0, <1>1, <1>4 DEF Close, daemonVars
<1>5. ASSUME NEW c \in Clients, Receive(c) \/ Timeout(c) PROVE Untorn'
  <2>1. UNCHANGED <<worker, done, conn>>
    BY <1>5 DEF Receive, Timeout, daemonVars
  <2>2. \A d \in Clients \ {c} : answer'[d] = answer[d] /\ down'[d] = down[d]
    BY <1>0, <1>5, ReceiveTakes DEF Receive, Timeout, Returns
  <2>3. CASE c \in Timed
    BY <2>1, <2>2, <2>3 DEF Untorn, Whole
  <2>4. CASE c \notin Timed
    <3>1. Receive(c) /\ down[c] # <<>> /\ down'[c] = Tail(down[c])
      BY <1>0, <1>5, <2>4 DEF Receive, Timeout
    <3>2. Head(down[c]) # Rest /\ \A k \in DOMAIN down'[c] : down'[c][k] # Rest
      BY <1>0, <2>4, <3>1, TailOf DEF Untorn, Whole
    <3>3. (\E o \in Outcomes : Returns(c, o)) \/ answer' = answer
      BY <3>1, <3>2, TakesAnswer
    <3>4. \A i \in Ids : answer'[c][i] = "lost" => answer[c][i] = "lost"
      BY <1>0, <3>3 DEF Returns
    <3> QED
      BY <2>1, <2>2, <2>4, <3>2, <3>4 DEF Untorn, Whole
  <2> QED
    BY <2>3, <2>4
<1>6. ASSUME NEW c \in Clients, ReadFails(c) PROVE Untorn'
  <2>1. /\ worker[c] = "gone" /\ down[c] = <<>> /\ pc[c] = "reading" /\ Returns(c, "lost")
        /\ UNCHANGED <<worker, done, conn, down>>
    BY <1>6 DEF ReadFails, daemonVars
  <2>2. done[c][seq[c]] \notin Outcomes
    <3>1. ~Contains(down[c], Answer(seq[c], done[c][seq[c]]))
      BY <1>0, <2>1, ContainsMeans, EmptySeq
    <3> QED
      BY <2>1, <3>1 DEF Inv, NoAnswerLost
  <2>3. \A i \in Ids : answer'[c][i] = "lost" => i = seq[c] \/ answer[c][i] = "lost"
    BY <1>0, <2>1 DEF Returns
  <2>4. \A d \in Clients \ {c} : answer'[d] = answer[d]
    BY <1>0, <2>1 DEF Returns
  <2> QED
    BY <2>1, <2>2, <2>3, <2>4 DEF Untorn, Whole
<1>7. ASSUME NEW c \in Clients, ReadRequest(c) PROVE Untorn'
  BY <1>0, <1>1, <1>7 DEF ReadRequest, Moves, clientVars, Untorn, Whole
<1>8. ASSUME NEW c \in Clients, NEW o \in Outcomes, Ends(c, o) PROVE Untorn'
  <2>1. /\ worker[c] = "handling" /\ current[c].id \in Ids
        /\ worker' = [worker EXCEPT ![c] = "top"]
        /\ done' = [done EXCEPT ![c][current[c].id] = o]
        /\ UNCHANGED <<answer, conn>>
    BY <1>8, EndKeepsOrder DEF Ends, HandlerEnds, Moves, clientVars
  <2>2. down' = [down EXCEPT ![c] = Append(down[c], Answer(current[c].id, o))] \/ down' = down
    BY <1>8 DEF Ends, HandlerEnds, Respond
  <2>3. Answer(current[c].id, o) \in Answers /\ Answer(current[c].id, o) # Rest
    BY <2>1, Lines
  <2>4. \A k \in DOMAIN down'[c] : down'[c][k] = Rest =>
          \E j \in DOMAIN down[c] : down[c][j] = Rest
    <3>1. down'[c] = Append(down[c], Answer(current[c].id, o)) \/ down'[c] = down[c]
      BY <1>0, <2>2
    <3> DEFINE q == down[c]
               e == Answer(current[c].id, o)
    <3>2. q \in Seq(Answers \cup {Rest}) /\ e \in Answers \cup {Rest} /\ e # Rest
      BY <1>0, <2>3
    <3> HIDE DEF q, e
    <3>3. \A k \in DOMAIN Append(q, e) : Append(q, e)[k] = Rest => \E j \in DOMAIN q : q[j] = Rest
      BY <3>2, AppendOf
    <3> QED
      BY <3>1, <3>3 DEF q, e
  <2>5. \A d \in Clients \ {c} : /\ conn'[d] = conn[d] /\ down'[d] = down[d]
                                 /\ worker'[d] = worker[d] /\ done'[d] = done[d]
    BY <1>0, <2>1, <2>2
  <2> QED
    BY <1>1, <2>1, <2>4, <2>5 DEF Untorn, Whole
<1>9. CASE Quiet
  <2>1. UNCHANGED <<done, down, answer>>
    BY <1>9, QuietLeaves
  <2>2. \A c \in Clients : /\ conn'[c] = "broken" => conn[c] = "broken"
                           /\ worker[c] = "gone" => worker'[c] = "gone"
    <3>1. ASSUME NEW c \in Clients, Dial(c) \/ Accept(c) \/ CheckContext(c) \/ ReadEOF(c)
          PROVE  /\ conn' \in {conn, [conn EXCEPT ![c] = "open"]}
                 /\ worker[c] # "gone" /\ \E x : worker' = [worker EXCEPT ![c] = x]
      BY <1>0, <3>1 DEF Dial, Accept, CheckContext, ReadEOF, Moves, OnlyWorker, clientVars
    <3>2. CASE Signal \/ CloseListener \/ ServeReturns \/ AcceptFails \/ UNCHANGED vars
      BY <1>0, <3>2 DEF Signal, CloseListener, ServeReturns, AcceptFails, clientVars, vars
    <3> QED
      BY <1>0, <1>9, <3>1, <3>2 DEF Quiet
  <2> QED
    BY <2>1, <2>2 DEF Untorn, Whole
<1>10. CASE Halt
  <2>1. UNCHANGED <<down, answer, conn>>
    BY <1>10, HaltCuts
  <2>2. \A c \in Clients : worker[c] = "gone" => worker'[c] = "gone"
    BY <1>10, HaltCuts
  <2>3. \A c \in Clients, i \in Ids : done'[c][i] = done[c][i] \/ done'[c][i] = "cut"
    BY <1>10, HaltCuts
  <2> QED
    BY <2>1, <2>2, <2>3 DEF Untorn, Whole, Outcomes
<1> QED
  BY <1>2, <1>3, <1>4, <1>5, <1>6, <1>7, <1>8, <1>9, <1>10, Steps

(* A call that returns a result returns that of its own request, whatever  *)
(* timed out before it on the connection; one without a deadline that is   *)
(* told of no result was not handled to its end and will not be, and its   *)
(* handler was not even begun unless the daemon was killed or exits since  *)
(* Accept failed (Client.Call, Serve, daemonForeground).                   *)
THEOREM AnswersMatchHandlers == Spec => []AnswersAreTrue
<1>1. Init => Untorn
  BY DEF Init, Untorn, Whole
<1>2. Inv /\ Untorn => AnswersAreTrue
  BY DEF Inv, ResultsAreTrue, Halted, Untorn, Whole, AnswersAreTrue
<1> QED
  BY <1>1, <1>2, InvHolds, UntornStep, PTL DEF Spec

(* ServeConn handles the requests of a connection one at a time, in the    *)
(* order of the calls.                                                     *)
LEMMA HandlersInTurn ==
  ASSUME Inv, [Next]_vars, NEW c \in Clients,
         current'[c] # current[c], current'[c] # NoRequest
  PROVE  ReadRequest(c)
<1>0. current \in [Clients -> Requests \cup {NoRequest}]
  BY DEF Inv, TypeOK
<1>1. ASSUME NEW d \in Clients,
             WriteFails(d) \/ CallBroken(d) \/ Close(d) \/ Receive(d) \/ ReadFails(d) \/ Timeout(d)
      PROVE  current' = current
  BY <1>1 DEF WriteFails, CallBroken, Close, Receive, ReadFails, Timeout, daemonVars
<1>2. ASSUME NEW d \in Clients, NEW m \in Methods, Call(d, m) PROVE current' = current
  BY <1>2 DEF Call, daemonVars
<1>3. ASSUME NEW d \in Clients, ReadRequest(d) PROVE d = c
  BY <1>0, <1>3 DEF ReadRequest
<1>4. ASSUME NEW d \in Clients, NEW o \in Outcomes, Ends(d, o) PROVE FALSE
  BY <1>0, <1>4 DEF Ends, HandlerEnds
<1>5. CASE Quiet
  BY <1>5, QuietLeaves
<1>6. CASE Halt
  BY <1>6, HaltCuts
<1> QED
  BY <1>1, <1>2, <1>3, <1>4, <1>5, <1>6, Steps

(* ServeConn begins a handler only when the one before has ended, and the  *)
(* requests are handled in the order of their ids.                         *)
THEOREM OneRequestAtATime == Spec => OneAtATime
<1> DEFINE A == \A c \in Clients :
                  current'[c] # current[c] /\ current'[c] # NoRequest =>
                    /\ current[c] = NoRequest
                    /\ \A i \in Ids : i >= current'[c].id => done[c][i] = "none"
                    /\ \A k \in DOMAIN up'[c] :
                         up'[c][k] \in Requests => up'[c][k].id > current'[c].id
<1>1. Inv /\ [Next]_vars => [A]_vars
  BY HandlersInTurn, ReadKeepsOrder DEF Fresh
<1> QED
  BY <1>1, InvHolds, PTL DEF Spec, OneAtATime

-----------------------------------------------------------------------------
(* The calls of Peer are ordered calls *)

(* A call that reads was told nothing, one that has returned was told      *)
(* something, and one that was not made nothing.                           *)
ToldInTurn ==
  \A c \in Clients :
    /\ \A i \in Ids : i > seq[c] => answer[c][i] = "none"
    /\ pc[c] = "reading" => answer[c][seq[c]] = "none"
    /\ pc[c] = "idle" /\ conn[c] # "closed" /\ seq[c] > 0 => answer[c][seq[c]] # "none"

LEMMA ToldStep == Inv /\ ToldInTurn /\ [Next]_vars => ToldInTurn'
<1> SUFFICES ASSUME Inv, ToldInTurn, [Next]_vars PROVE ToldInTurn'
  OBVIOUS
<1>0. /\ answer \in [Clients -> [Ids -> Outcomes \cup {"none", "lost"}]]
      /\ pc \in [Clients -> {"idle", "reading"}]
      /\ seq \in [Clients -> 0 .. MaxCalls]
      /\ conn \in [Clients -> {"none", "open", "broken", "closed"}]
      /\ \A d \in Clients : pc[d] = "reading" => conn[d] = "open" /\ seq[d] \in Ids
      /\ \A d \in Clients : seq[d] \in Nat
  BY RpcBound DEF Inv, TypeOK, Connected
<1>1. ASSUME NEW c \in Clients, NEW m \in Methods, Call(c, m) PROVE ToldInTurn'
  <2>1. /\ seq[c] < MaxCalls /\ seq' = [seq EXCEPT ![c] = seq[c] + 1]
        /\ pc' = [pc EXCEPT ![c] = "reading"]
        /\ UNCHANGED <<conn, answer>>
    BY <1>1 DEF Call
  <2>2. seq[c] + 1 \in Ids /\ seq[c] + 1 > seq[c]
    BY <1>0, <2>1, RpcBound DEF Ids
  <2>3. \A i \in Ids : i > seq[c] + 1 => i > seq[c]
    BY <1>0 DEF Ids
  <2> QED
    BY <1>0, <2>1, <2>2, <2>3 DEF ToldInTurn
<1>2. ASSUME NEW c \in Clients, WriteFails(c) \/ CallBroken(c) PROVE ToldInTurn'
  <2>1. /\ seq[c] < MaxCalls /\ seq' = [seq EXCEPT ![c] = seq[c] + 1]
        /\ answer' = [answer EXCEPT ![c][seq[c] + 1] = "lost"]
        /\ pc' = pc /\ pc[c] = "idle"
        /\ \A d \in Clients : conn[d] = "closed" => conn'[d] = "closed"
        /\ \A d \in Clients \ {c} : conn'[d] = conn[d]
    BY <1>0, <1>2 DEF WriteFails, CallBroken, daemonVars
  <2>2. seq[c] + 1 \in Ids /\ seq[c] + 1 > seq[c]
    BY <1>0, <2>1, RpcBound DEF Ids
  <2>3. \A i \in Ids : i > seq[c] + 1 => i > seq[c] /\ i # seq[c] + 1
    BY <1>0 DEF Ids
  <2>4. answer'[c][seq'[c]] = "lost" /\ \A d \in Clients \ {c} : answer'[d] = answer[d] /\ seq'[d] = seq[d]
    BY <1>0, <2>1, <2>2
  <2>5. \A i \in Ids : i > seq'[c] => answer'[c][i] = "none"
    BY <1>0, <2>1, <2>3 DEF ToldInTurn
  <2> QED
    BY <2>1, <2>4, <2>5 DEF ToldInTurn
<1>3. ASSUME NEW c \in Clients, NEW x, x # "none", pc[c] = "reading", Returns(c, x),
             UNCHANGED <<seq, conn>>
      PROVE  ToldInTurn'
  <2>1. /\ pc' = [pc EXCEPT ![c] = "idle"]
        /\ answer' = [answer EXCEPT ![c][seq[c]] = x]
    BY <1>3 DEF Returns
  <2>2. \A i \in Ids : i > seq[c] => i # seq[c]
    BY <1>0 DEF Ids
  <2>3. answer'[c][seq[c]] = x /\ \A i \in Ids : i # seq[c] => answer'[c][i] = answer[c][i]
    BY <1>0, <1>3, <2>1
  <2> QED
    BY <1>0, <1>3, <2>1, <2>2, <2>3 DEF ToldInTurn
<1>4. ASSUME NEW c \in Clients, Receive(c) \/ ReadFails(c) \/ Timeout(c)
      PROVE  ToldInTurn'
  <2>1. pc[c] = "reading" /\ UNCHANGED <<seq, conn>>
    BY <1>4 DEF Receive, ReadFails, Timeout
  <2>2. Returns(c, "lost") \/ (\E x \in Outcomes : Returns(c, x)) \/ UNCHANGED <<pc, answer>>
    BY <1>4, ReceiveTakes DEF ReadFails, Timeout
  <2>3. "none" \notin Outcomes
    BY DEF Outcomes
  <2>4. CASE UNCHANGED <<pc, answer>>
    BY <2>1, <2>4 DEF ToldInTurn
  <2> QED
    BY <1>3, <2>1, <2>2, <2>3, <2>4
<1>5. ASSUME NEW c \in Clients, Close(c) PROVE ToldInTurn'
  BY <1>0, <1>5 DEF Close, ToldInTurn
<1>6. ASSUME UNCHANGED <<seq, answer, pc>>, \A c \in Clients : conn'[c] # conn[c] => seq[c] = 0
      PROVE  ToldInTurn'
  BY <1>0, <1>6 DEF ToldInTurn
<1>7. ASSUME NEW c \in Clients, ReadRequest(c) \/ \E o \in Outcomes : Ends(c, o)
      PROVE  ToldInTurn'
  <2>1. UNCHANGED <<seq, answer, pc, conn>>
    BY <1>7 DEF ReadRequest, Ends, HandlerEnds, clientVars
  <2> QED
    BY <1>6, <2>1
<1>8. CASE Quiet
  <2>1. UNCHANGED <<seq, answer, pc>>
    BY <1>8, QuietLeaves
  <2>2. \A c \in Clients : conn'[c] # conn[c] => conn'[c] # "closed" /\ conn[c] = "none"
    BY <1>0, <1>8
       DEF Quiet, Dial, Accept, CheckContext, ReadEOF, OnlyWorker, Signal, CloseListener,
           ServeReturns, AcceptFails, clientVars, vars
  <2> QED
    BY <1>0, <2>1, <2>2 DEF ToldInTurn
<1>9. CASE Halt
  BY <1>6, <1>9, HaltCuts
<1> QED
  BY <1>1, <1>2, <1>4, <1>5, <1>7, <1>8, <1>9, Steps

(* The ids of the requests among the lines of q. *)
IdsIn(q) == {q[k].id : k \in {j \in DOMAIN q : q[j] \in Requests}}

LEMMA IdsAppended ==
  ASSUME NEW q \in Seq(Requests \cup {Torn}), NEW e \in Requests \cup {Torn}
  PROVE  IdsIn(Append(q, e)) = IF e \in Requests THEN IdsIn(q) \cup {e.id} ELSE IdsIn(q)
<1> DEFINE p == Append(q, e)
<1>1. /\ \A k \in DOMAIN p : (k \in DOMAIN q /\ p[k] = q[k]) \/ p[k] = e
      /\ \A k \in DOMAIN q : k \in DOMAIN p /\ p[k] = q[k]
      /\ \E k \in DOMAIN p : p[k] = e
  BY AppendOf
<1> HIDE DEF p
<1> QED
  BY <1>1 DEF IdsIn, p

(* Of requests in the order of their ids the first has the least. *)
LEMMA IdsTaken ==
  ASSUME NEW q \in Seq(Requests \cup {Torn}), q # <<>>, Head(q) \in Requests,
         \A j, k \in DOMAIN q :
           q[j] \in Requests /\ q[k] \in Requests /\ j < k => q[j].id < q[k].id
  PROVE  /\ Head(q).id \in IdsIn(q)
         /\ \A i \in IdsIn(q) : Head(q).id <= i
         /\ IdsIn(Tail(q)) = IdsIn(q) \ {Head(q).id}
<1> DEFINE t == Tail(q)
<1>1. /\ Head(q) = q[1] /\ 1 \in DOMAIN q
      /\ \A k \in DOMAIN t : k + 1 \in DOMAIN q /\ t[k] = q[k + 1]
      /\ \A k \in DOMAIN q : k # 1 => k - 1 \in DOMAIN t /\ t[k - 1] = q[k]
  BY TailOf
<1>2. DOMAIN q \subseteq Nat \ {0} /\ DOMAIN t \subseteq Nat \ {0}
  BY TailOf, LenProperties
<1>3. \A x \in Requests : x.id \in Nat
  BY Lines DEF Ids
<1> HIDE DEF t
<1>4. \A k \in DOMAIN q : k # 1 => 1 < k
  BY <1>2
<1>5. \A k \in DOMAIN t : k + 1 # 1
  BY <1>2
<1>6. \A k \in DOMAIN q : q[k] \in Requests /\ k # 1 => q[1].id < q[k].id
  BY <1>1, <1>4
<1>7. Head(q).id \in IdsIn(q)
  BY <1>1 DEF IdsIn
<1>8. ASSUME NEW i \in IdsIn(q) PROVE Head(q).id <= i
  <2>1. PICK k \in DOMAIN q : q[k] \in Requests /\ i = q[k].id
    BY DEF IdsIn
  <2>2. q[1].id \in Nat /\ q[k].id \in Nat
    BY <1>1, <1>3, <2>1
  <2> QED
    BY <1>1, <1>6, <2>1, <2>2
<1>9. IdsIn(t) = IdsIn(q) \ {Head(q).id}
  <2>1. ASSUME NEW i \in IdsIn(t) PROVE i \in IdsIn(q) /\ i # Head(q).id
    <3>1. PICK k \in DOMAIN t : t[k] \in Requests /\ i = t[k].id
      BY DEF IdsIn
    <3>2. k + 1 \in DOMAIN q /\ q[k + 1] \in Requests /\ i = q[k + 1].id /\ k + 1 # 1
      BY <1>1, <1>5, <3>1
    <3>3. q[1].id < i /\ q[1].id \in Nat /\ i \in Nat
      BY <1>1, <1>3, <1>6, <3>2
    <3>4. i # q[1].id
      BY <3>3
    <3> QED
      BY <1>1, <3>2, <3>4 DEF IdsIn
  <2>2. ASSUME NEW i \in IdsIn(q), i # Head(q).id PROVE i \in IdsIn(t)
    <3>1. PICK k \in DOMAIN q : q[k] \in Requests /\ i = q[k].id
      BY DEF IdsIn
    <3>2. k # 1
      BY <1>1, <2>2, <3>1
    <3>3. k - 1 \in DOMAIN t /\ t[k - 1] \in Requests /\ i = t[k - 1].id
      BY <1>1, <3>1, <3>2
    <3> QED
      BY <3>3 DEF IdsIn
  <2> QED
    BY <2>1, <2>2
<1> QED
  BY <1>7, <1>8, <1>9 DEF t

(* The request of a call that waits and was not handled. *)
Pending(c) == current[c].id = seq[c] \/ seq[c] \in IdsIn(up[c])

NothingForgotten ==
  \A c \in Clients : pc[c] = "reading" /\ done[c][seq[c]] = "none" => Pending(c)

LEMMA ForgetStep == Inv /\ NothingForgotten /\ [Next]_vars => NothingForgotten'
<1> SUFFICES ASSUME Inv, NothingForgotten, [Next]_vars PROVE NothingForgotten'
  OBVIOUS
<1>0. /\ done \in [Clients -> [Ids -> Fates]]
      /\ up \in [Clients -> Seq(Requests \cup {Torn})]
      /\ current \in [Clients -> Requests \cup {NoRequest}]
      /\ pc \in [Clients -> {"idle", "reading"}]
      /\ seq \in [Clients -> 0 .. MaxCalls]
      /\ \A d \in Clients : pc[d] = "reading" => seq[d] \in Ids
  BY DEF Inv, TypeOK, Connected
(* Only what happens to one connection matters. *)
<1>1. ASSUME NEW c \in Clients,
             \A d \in Clients \ {c} : /\ pc'[d] = pc[d] /\ seq'[d] = seq[d] /\ done'[d] = done[d]
                                      /\ up'[d] = up[d] /\ current'[d] = current[d],
             pc'[c] = "reading" /\ done'[c][seq'[c]] = "none" => Pending(c)'
      PROVE  NothingForgotten'
  BY <1>1 DEF NothingForgotten, Pending, IdsIn
<1>2. ASSUME NEW c \in Clients, NEW m \in Methods, Call(c, m) PROVE NothingForgotten'
  <2>1. /\ seq[c] < MaxCalls /\ seq' = [seq EXCEPT ![c] = seq[c] + 1]
        /\ up' = [up EXCEPT ![c] = Append(up[c], Request(seq[c] + 1, m))]
        /\ pc' = [pc EXCEPT ![c] = "reading"]
        /\ UNCHANGED <<done, current>>
    BY <1>2 DEF Call, daemonVars
  <2>2. seq[c] + 1 \in Ids
    BY <1>0, <2>1, RpcBound DEF Ids
  <2>3. Request(seq[c] + 1, m) \in Requests /\ Request(seq[c] + 1, m).id = seq[c] + 1
    BY <2>2, Lines
  <2>4. seq[c] + 1 \in IdsIn(Append(up[c], Request(seq[c] + 1, m)))
    BY <1>0, <2>3, IdsAppended
  <2>5. Pending(c)'
    <3>1. up'[c] = Append(up[c], Request(seq[c] + 1, m)) /\ seq'[c] = seq[c] + 1
      BY <1>0, <2>1
    <3> QED
      BY <2>4, <3>1 DEF Pending, IdsIn
  <2> QED
    BY <1>0, <1>1, <2>1, <2>5
<1>3. ASSUME NEW c \in Clients, WriteFails(c) \/ CallBroken(c) \/ Close(c)
      PROVE  NothingForgotten'
  <2>1. pc'[c] = "idle"
    BY <1>0, <1>3 DEF WriteFails, CallBroken, Close, Inv, Connected
  <2>2. \A d \in Clients \ {c} : /\ pc'[d] = pc[d] /\ seq'[d] = seq[d] /\ done'[d] = done[d]
                                 /\ up'[d] = up[d] /\ current'[d] = current[d]
    BY <1>0, <1>3 DEF WriteFails, CallBroken, Close, daemonVars
  <2> QED
    BY <1>1, <2>1, <2>2
<1>4. ASSUME NEW c \in Clients, Receive(c) \/ ReadFails(c) \/ Timeout(c)
      PROVE  NothingForgotten'
  <2>1. /\ UNCHANGED <<seq, done, current, up>>
        /\ pc' \in {pc, [pc EXCEPT ![c] = "idle"]}
    BY <1>4 DEF Receive, ReadFails, Timeout, Returns, daemonVars
  <2>2. \A d \in Clients : pc'[d] = "reading" => pc[d] = "reading"
    BY <1>0, <2>1
  <2> QED
    BY <2>1, <2>2 DEF NothingForgotten, Pending, IdsIn
<1>5. ASSUME NEW c \in Clients, ReadRequest(c) PROVE NothingForgotten'
  <2> DEFINE q == up[c]
  <2>1. /\ q # <<>> /\ Head(q) \in Requests /\ q \in Seq(Requests \cup {Torn})
        /\ up'[c] = Tail(q) /\ current'[c] = Head(q)
        /\ UNCHANGED <<seq, done, pc>>
    BY <1>0, <1>5 DEF ReadRequest, clientVars
  <2>2. current[c].id \notin Ids
    BY <1>5, ReadKeepsOrder DEF NoRequest, Ids
  <2>3. \A j, k \in DOMAIN q :
          q[j] \in Requests /\ q[k] \in Requests /\ j < k => q[j].id < q[k].id
    BY DEF Inv, Ordered
  <2>4. \A d \in Clients \ {c} : up'[d] = up[d] /\ current'[d] = current[d]
    BY <1>0, <1>5 DEF ReadRequest
  <2>5. ASSUME pc[c] = "reading", done[c][seq[c]] = "none"
        PROVE  seq[c] = Head(q).id \/ seq[c] \in IdsIn(Tail(q))
    <3>1. seq[c] \in IdsIn(q)
      BY <1>0, <2>2, <2>5 DEF NothingForgotten, Pending
    <3> HIDE DEF q
    <3>2. IdsIn(Tail(q)) = IdsIn(q) \ {Head(q).id}
      BY <2>1, <2>3, IdsTaken
    <3> QED
      BY <3>1, <3>2
  <2>6. IdsIn(up[c])' = IdsIn(Tail(q))
    BY <2>1 DEF IdsIn
  <2>7. pc'[c] = "reading" /\ done'[c][seq'[c]] = "none" => Pending(c)'
    BY <2>1, <2>5, <2>6 DEF Pending
  <2> QED
    BY <1>1, <2>1, <2>4, <2>7
<1>6. ASSUME NEW c \in Clients, NEW o \in Outcomes, Ends(c, o) PROVE NothingForgotten'
  <2>1. /\ done' = [done EXCEPT ![c][current[c].id] = o]
        /\ current' = [current EXCEPT ![c] = NoRequest]
        /\ UNCHANGED <<pc, seq, up>> /\ o # "none"
    BY <1>6 DEF Ends, HandlerEnds, clientVars, Outcomes
  <2>2. ASSUME pc[c] = "reading", done'[c][seq[c]] = "none"
        PROVE  seq[c] \in IdsIn(up[c])
    <3>1. seq[c] # current[c].id
      BY <1>0, <2>1, <2>2
    <3>2. done[c][seq[c]] = "none"
      BY <1>0, <2>1, <2>2, <3>1
    <3> QED
      BY <2>2, <3>1, <3>2 DEF NothingForgotten, Pending
  <2>3. IdsIn(up[c])' = IdsIn(up[c])
    BY <2>1 DEF IdsIn
  <2> QED
    BY <1>0, <1>1, <2>1, <2>2, <2>3 DEF Pending
<1>7. CASE Quiet
  BY <1>7, QuietLeaves DEF NothingForgotten, Pending, IdsIn
<1>8. CASE Halt
  <2>1. ASSUME NEW c \in Clients, pc[c] = "reading", done'[c][seq[c]] = "none"
        PROVE  seq[c] \in IdsIn(up[c])
    <3>1. done[c][seq[c]] = "none" /\ (current[c] # NoRequest => seq[c] # current[c].id)
      <4>1. done'[c][seq[c]] # "cut" /\ seq[c] \in Ids
        BY <1>0, <2>1
      <4>2. done[c][seq[c]] = "none"
        BY <1>8, <2>1, <4>1, HaltCuts
      <4>3. current[c] # NoRequest => done'[c] = [done[c] EXCEPT ![current[c].id] = "cut"]
        BY <1>8, HaltCuts
      <4> QED
        BY <1>0, <4>1, <4>2, <4>3 DEF Fates
    <3>2. current[c] = NoRequest => current[c].id \notin Ids
      BY DEF NoRequest, Ids
    <3> QED
      BY <1>0, <2>1, <3>1, <3>2 DEF NothingForgotten, Pending
  <2> QED
    BY <1>8, <2>1, HaltCuts DEF NothingForgotten, Pending, IdsIn
<1> QED
  BY <1>2, <1>3, <1>4, <1>5, <1>6, <1>7, <1>8, Steps

(* No call that waits is lost or forgotten between Client.Call, the socket *)
(* and ServeConn, however the daemon ends: it has its answer in the        *)
(* connection, or its request is handled, or on the way, or the process of *)
(* the daemon ended during its handler (internal/rpc/rpc.go:99, 210, 284). *)
THEOREM NoCallIsLost == Spec => []NoCallLost
<1>1. Init => NothingForgotten
  BY DEF Init, NothingForgotten
<1>2. Inv /\ NothingForgotten => NoCallLost
  <2> SUFFICES ASSUME Inv, NothingForgotten, NEW c \in Clients, pc[c] = "reading",
                      done[c][seq[c]] \notin Outcomes, ~(current[c].id = seq[c])
               PROVE  \/ \E k \in DOMAIN up[c] : up[c][k] \in Requests /\ up[c][k].id = seq[c]
                      \/ done[c][seq[c]] = "cut" /\ serve = "exited"
    BY DEF Inv, NoAnswerLost, NoCallLost
  <2>1. seq[c] \in Ids /\ done[c][seq[c]] \in {"none", "cut"}
    BY DEF Inv, Connected, TypeOK, Fates
  <2>2. CASE done[c][seq[c]] = "none"
    BY <2>2 DEF NothingForgotten, Pending, IdsIn
  <2>3. CASE done[c][seq[c]] = "cut"
    BY <2>1, <2>3 DEF Inv, Halted
  <2> QED
    BY <2>1, <2>2, <2>3
<1> QED
  BY <1>1, <1>2, InvHolds, ForgetStep, PTL DEF Spec

(* A step of the ordered calls, or none. *)
PeerStep ==
  \/ Calls!Next
  \/ UNCHANGED <<seq[Peer], Sent(Peer), current[Peer].id, done[Peer], answer[Peer]>>

LEMMA SendIsStep ==
  ASSUME Inv, ToldInTurn, NEW c \in Clients,
         WriteFails(c) \/ CallBroken(c) \/ \E m \in Methods : Call(c, m)
  PROVE  PeerStep
<1>0. /\ seq \in [Clients -> 0 .. MaxCalls] /\ Peer \in Clients
      /\ up \in [Clients -> Seq(Requests \cup {Torn})]
      /\ answer \in [Clients -> [Ids -> Outcomes \cup {"none", "lost"}]]
      /\ pc \in [Clients -> {"idle", "reading"}]
  BY PeerAssumption DEF Inv, TypeOK
<1>1. /\ seq[c] < MaxCalls /\ seq' = [seq EXCEPT ![c] = seq[c] + 1]
      /\ UNCHANGED <<done, current>>
      /\ pc[c] = "idle" /\ conn[c] # "closed"
  BY <1>0 DEF Call, WriteFails, CallBroken, daemonVars, Inv, Connected
<1>4. Sent(Peer) = IdsIn(up[Peer]) /\ Sent(Peer)' = IdsIn(up'[Peer])
  BY DEF Sent, IdsIn
<1>2. CASE c # Peer
  <2>1. up'[Peer] = up[Peer] /\ answer'[Peer] = answer[Peer] /\ seq'[Peer] = seq[Peer]
    BY <1>0, <1>1, <1>2 DEF Call, WriteFails, CallBroken
  <2> QED
    BY <1>1, <2>1 DEF PeerStep, Sent
<1>3. CASE c = Peer
  <2>1. Calls!Returned /\ seq[Peer] + 1 \in Ids /\ seq'[Peer] = seq[Peer] + 1
    <3>1. seq[Peer] \in Nat /\ seq[Peer] + 1 \in Ids
      BY <1>0, <1>1, <1>3, RpcBound DEF Ids
    <3> QED
      BY <1>0, <1>1, <1>3, <3>1 DEF Calls!Returned, ToldInTurn
  <2>2. CASE \E m \in Methods : Call(c, m)
    <3>1. PICK m \in Methods : Call(c, m)
      BY <2>2
    <3>2. /\ up'[Peer] = Append(up[Peer], Request(seq[Peer] + 1, m)) /\ answer' = answer
      BY <1>0, <1>3, <3>1 DEF Call
    <3>3. Request(seq[Peer] + 1, m) \in Requests /\ Request(seq[Peer] + 1, m).id = seq[Peer] + 1
      BY <2>1, Lines
    <3>4. Sent(Peer)' = Sent(Peer) \cup {seq[Peer] + 1}
      BY <1>0, <1>4, <3>2, <3>3, IdsAppended
    <3>5. Calls!Send
      BY <1>1, <2>1, <3>2, <3>4 DEF Calls!Send
    <3> QED
      BY <3>5 DEF PeerStep, Calls!Next
  <2>3. CASE WriteFails(c) \/ CallBroken(c)
    <3>1. answer'[Peer] = [answer[Peer] EXCEPT ![seq[Peer] + 1] = "lost"]
      BY <1>0, <1>3, <2>3 DEF WriteFails, CallBroken
    <3>2. up'[Peer] = up[Peer] \/ up'[Peer] = Append(up[Peer], Torn)
      BY <1>0, <1>3, <2>3 DEF WriteFails, CallBroken
    <3>3. Torn \notin Requests
      BY Lines
    <3>4. Sent(Peer)' = Sent(Peer)
      BY <1>0, <1>4, <3>2, <3>3, IdsAppended
    <3>5. Calls!SendInVain
      BY <1>1, <2>1, <3>1, <3>4 DEF Calls!SendInVain
    <3> QED
      BY <3>5 DEF PeerStep, Calls!Next
  <2> QED
    BY <2>2, <2>3
<1> QED
  BY <1>2, <1>3

LEMMA ReturnIsStep ==
  ASSUME Inv, ToldInTurn, NEW c \in Clients, Receive(c) \/ ReadFails(c) \/ Timeout(c)
  PROVE  PeerStep
<1>0. /\ seq \in [Clients -> 0 .. MaxCalls] /\ Peer \in Clients
      /\ answer \in [Clients -> [Ids -> Outcomes \cup {"none", "lost"}]]
  BY PeerAssumption DEF Inv, TypeOK
<1>1. /\ UNCHANGED <<seq, done, current, up>> /\ pc[c] = "reading"
      /\ \/ Returns(c, "lost")
         \/ done[c][seq[c]] \in Outcomes /\ Returns(c, done[c][seq[c]])
         \/ answer' = answer
  BY ReceiveTakes DEF Receive, ReadFails, Timeout, daemonVars
<1>2. CASE c # Peer \/ answer' = answer
  <2>1. answer'[Peer] = answer[Peer]
    BY <1>0, <1>1, <1>2 DEF Returns
  <2> QED
    BY <1>1, <2>1 DEF PeerStep, Sent
<1>3. CASE c = Peer /\ answer' # answer
  <2>1. ~Calls!Returned
    <3>1. seq[Peer] \in Ids /\ answer[Peer][seq[Peer]] = "none"
      BY <1>1, <1>3 DEF Inv, Connected, ToldInTurn
    <3>2. seq[Peer] > 0
      BY <3>1 DEF Ids
    <3> QED
      BY <3>1, <3>2 DEF Calls!Returned
  <2>2. CASE Returns(c, "lost")
    <3>1. answer'[Peer] = [answer[Peer] EXCEPT ![seq[Peer]] = "lost"]
      BY <1>0, <1>3, <2>2 DEF Returns
    <3>2. Calls!GiveUp
      BY <1>1, <2>1, <3>1 DEF Calls!GiveUp, Sent
    <3> QED
      BY <3>2 DEF PeerStep, Calls!Next
  <2>3. CASE done[c][seq[c]] \in Outcomes /\ Returns(c, done[c][seq[c]])
    <3>1. answer'[Peer] = [answer[Peer] EXCEPT ![seq[Peer]] = done[Peer][seq[Peer]]]
          /\ done[Peer][seq[Peer]] \in Outcomes
      BY <1>0, <1>3, <2>3 DEF Returns
    <3>2. Calls!Tell
      BY <1>1, <2>1, <3>1 DEF Calls!Tell, Sent
    <3> QED
      BY <3>2 DEF PeerStep, Calls!Next
  <2> QED
    BY <1>1, <1>3, <2>2, <2>3
<1> QED
  BY <1>2, <1>3

LEMMA ReadIsStep ==
  ASSUME Inv, NEW c \in Clients, ReadRequest(c)
  PROVE  PeerStep
<1>0. /\ Peer \in Clients /\ up \in [Clients -> Seq(Requests \cup {Torn})]
      /\ current \in [Clients -> Requests \cup {NoRequest}]
  BY PeerAssumption DEF Inv, TypeOK
<1>1. /\ worker[c] = "reading" /\ up[c] # <<>> /\ Head(up[c]) \in Requests
      /\ current' = [current EXCEPT ![c] = Head(up[c])]
      /\ up' = [up EXCEPT ![c] = Tail(up[c])]
      /\ UNCHANGED <<seq, done, answer>>
  BY DEF ReadRequest, Moves, clientVars
<1>2. CASE c # Peer
  <2>1. up'[Peer] = up[Peer] /\ current'[Peer] = current[Peer]
    BY <1>0, <1>1, <1>2
  <2> QED
    BY <1>1, <2>1 DEF PeerStep, Sent
<1>3. CASE c = Peer
  <2> DEFINE q == up[Peer]
  <2>1. current[Peer].id = 0
    BY <1>0, <1>1, <1>3 DEF Inv, Ordered, NoRequest
  <2>2. /\ q \in Seq(Requests \cup {Torn}) /\ q # <<>> /\ Head(q) \in Requests
        /\ current'[Peer] = Head(q) /\ up'[Peer] = Tail(q)
    BY <1>0, <1>1, <1>3
  <2>3. \A j, k \in DOMAIN q :
          q[j] \in Requests /\ q[k] \in Requests /\ j < k => q[j].id < q[k].id
    BY <1>0 DEF Inv, Ordered
  <2>4. Sent(Peer) = IdsIn(q) /\ Sent(Peer)' = IdsIn(Tail(q))
    BY <2>2 DEF Sent, IdsIn
  <2> HIDE DEF q
  <2>5. /\ Head(q).id \in IdsIn(q)
        /\ \A i \in IdsIn(q) : Head(q).id <= i
        /\ IdsIn(Tail(q)) = IdsIn(q) \ {Head(q).id}
    BY <2>2, <2>3, IdsTaken
  <2>6. \A j \in Ids : done[Peer][j] # "cut"
    BY <1>0, <1>1, <1>3 DEF Inv, Halted
  <2>7. Calls!Begin(Head(q).id)
    BY <1>1, <2>1, <2>2, <2>4, <2>5, <2>6 DEF Calls!Begin
  <2> QED
    BY <2>4, <2>5, <2>7 DEF PeerStep, Calls!Next
<1> QED
  BY <1>2, <1>3

LEMMA EndIsStep ==
  ASSUME Inv, NEW c \in Clients, NEW o \in Outcomes, Ends(c, o)
  PROVE  PeerStep
<1>0. /\ Peer \in Clients /\ current \in [Clients -> Requests \cup {NoRequest}]
      /\ done \in [Clients -> [Ids -> Fates]]
  BY PeerAssumption DEF Inv, TypeOK
<1>1. /\ current[c] # NoRequest
      /\ done' = [done EXCEPT ![c][current[c].id] = o]
      /\ current' = [current EXCEPT ![c] = NoRequest]
      /\ UNCHANGED <<seq, answer, up>>
  BY DEF Ends, HandlerEnds, clientVars
<1>2. CASE c # Peer
  <2>1. done'[Peer] = done[Peer] /\ current'[Peer] = current[Peer]
    BY <1>0, <1>1, <1>2
  <2> QED
    BY <1>1, <2>1 DEF PeerStep, Sent
<1>3. CASE c = Peer
  <2>1. current[Peer].id # 0
    <3>1. current[Peer].id \in Ids
      BY <1>0, <1>1, <1>3, Lines
    <3> QED
      BY <3>1 DEF Ids
  <2>2. /\ done'[Peer] = [done[Peer] EXCEPT ![current[Peer].id] = o]
        /\ current'[Peer].id = 0
    BY <1>0, <1>1, <1>3 DEF NoRequest
  <2>3. Calls!End(o)
    BY <1>1, <2>1, <2>2 DEF Calls!End, Sent
  <2> QED
    BY <2>3 DEF PeerStep, Calls!Next
<1> QED
  BY <1>2, <1>3

LEMMA HaltIsStep ==
  ASSUME Inv, Halt
  PROVE  PeerStep
<1>0. Peer \in Clients /\ current \in [Clients -> Requests \cup {NoRequest}]
  BY PeerAssumption DEF Inv, TypeOK
<1>1. UNCHANGED <<seq, answer, up>> /\ current'[Peer].id = 0
  <2>1. current'[Peer] = NoRequest /\ UNCHANGED <<seq, answer, up>>
    BY <1>0, HaltCuts
  <2> QED
    BY <2>1 DEF NoRequest
<1>2. CASE current[Peer] = NoRequest
  <2>1. done'[Peer] = done[Peer]
    BY <1>0, <1>2, HaltCuts
  <2>2. current[Peer].id = 0
    BY <1>2 DEF NoRequest
  <2> QED
    BY <1>1, <2>1, <2>2 DEF PeerStep, Sent
<1>3. CASE current[Peer] # NoRequest
  <2>1. current[Peer].id # 0 /\ done'[Peer] = [done[Peer] EXCEPT ![current[Peer].id] = "cut"]
    BY <1>0, <1>3, HaltCuts DEF Ids
  <2>2. Calls!Cut
    BY <1>1, <2>1 DEF Calls!Cut, Sent
  <2> QED
    BY <2>2 DEF PeerStep, Calls!Next
<1> QED
  BY <1>2, <1>3

(* The transport implements the ordered calls for each client: Client.Call *)
(* and ServeConn, with every deadline, torn line, late answer and shutdown *)
(* and when the daemon is killed (internal/rpc/rpc.go:99, 210, 299).       *)
THEOREM ImplementsOrderedCalls == Spec => PeerIsServed
<1>1. Init => ToldInTurn /\ Calls!Init
  <2> SUFFICES ASSUME Init PROVE ToldInTurn /\ Calls!Init
    OBVIOUS
  <2>1. ToldInTurn
    BY DEF Init, ToldInTurn
  <2>2. Sent(Peer) = {} /\ current[Peer].id = 0
    BY PeerAssumption DEF Init, Sent, NoRequest
  <2> QED
    BY <2>1, <2>2, PeerAssumption DEF Init, Calls!Init
<1>2. Inv /\ ToldInTurn /\ [Next]_vars => [Calls!Next]_(Calls!vars)
  <2> SUFFICES ASSUME Inv, ToldInTurn, [Next]_vars PROVE PeerStep
    BY DEF PeerStep, Calls!vars
  <2>1. ASSUME UNCHANGED <<seq, up, current, done, answer>> PROVE PeerStep
    BY <2>1 DEF PeerStep, Sent
  <2>2. ASSUME NEW c \in Clients, Close(c) PROVE PeerStep
    BY <2>1, <2>2 DEF Close, daemonVars
  <2>3. CASE Quiet
    BY <2>1, <2>3, QuietLeaves
  <2> QED
    BY <2>2, <2>3, Steps, SendIsStep, ReturnIsStep, ReadIsStep, EndIsStep, HaltIsStep
<1> QED
  BY <1>1, <1>2, InvHolds, ToldStep, PTL DEF Spec, PeerIsServed, Calls!Spec

=============================================================================
