--------------------------- MODULE ToolRunProofs ---------------------------
(***************************************************************************)
(* Proofs about ToolRun: types, RunsAsAsked, EnvironmentIsolated,          *)
(* LastLeaseHeld, WithinCapacity, NoCycle and the refinement of            *)
(* FairSemaphore (ToolPlaces), for any number of runs, resources, rules,   *)
(* tools and variables, and any commands whose resources are in one order. *)
(* What the decisions of a run are is in DecisionProofs.                   *)
(***************************************************************************)
EXTENDS ToolPlaces, DecisionProofs

Busy == {"acquiring", "waiting", "running"}

(* A run that has come to its leases has a command that has a list of      *)
(* them; before, it has acquired none; one that waits, waits for one of    *)
(* them, and one that runs has been through all.                           *)
Commanded(r) ==
  /\ run[r].stage \in {"none", "accepted", "resolved"} => run[r].next = 1
  /\ run[r].stage \in Busy => run[r].request.command \in DOMAIN Needs
  /\ run[r].stage = "waiting" => run[r].next <= Len(Needed(r))
  /\ run[r].stage = "running" => run[r].next > Len(Needed(r))

(* What Accept, ResolveTool and Prepare have found holds until the run is  *)
(* over.                                                                   *)
Asked(r) ==
  /\ run[r].stage \notin {"none", "over"} =>
       /\ run[r].request \in config.requests
       /\ Permitted(config.rules, run[r].request.owner, "tool.execute")
  /\ run[r].stage \in Busy \cup {"resolved"} =>
       LET request == run[r].request
       IN  /\ run[r].tool \in Tools
           /\ ~run[r].tool.disabled
           /\ request.id = None => /\ SameType(run[r].tool.type, request.type)
                                   /\ Satisfies(run[r].tool.version, request)
  /\ run[r].stage \in {"acquiring", "waiting"} =>
       run[r].env = Build(config.env, config.host)

(* The leases of a run that is not over are of resources it has been       *)
(* through.                                                                *)
HeldBefore(r) ==
  run[r].stage # "over" =>
    \A x \in Resources : lease[r][x].state # "none" =>
      /\ run[r].stage \in Busy
      /\ \E k \in 1 .. run[r].next - 1 : k \in DOMAIN Needed(r) /\ Needed(r)[k] = x

(* The last lease of a run: it was acquired this instant when the process  *)
(* starts, or it never expires; and it does not expire before the process  *)
(* is killed, if the limit of the run is within the ttl.                   *)
LastFresh(r) ==
  /\ run[r].stage = "running" => now <= run[r].deadline
  /\ /\ run[r].stage \in Busy /\ Needed(r) # <<>> /\ run[r].next > Len(Needed(r))
     /\ run[r].stage = "running" => Timely(r)
     => LET last == lease[r][Scarcest(r)]
        IN  /\ last.state = "held"
            /\ run[r].stage = "acquiring" => last.exp \in {0, now + TTL}
            /\ run[r].stage = "running"   => last.exp = 0 \/ last.exp >= run[r].deadline

Fine(r) == Commanded(r) /\ Asked(r) /\ HeldBefore(r) /\ LastFresh(r)

(* Nobody waits while there is room, and nobody is let in when there is    *)
(* none.                                                                   *)
Full(x) == queue[x] # <<>> => Cardinality(Holders(x)) >= Capacity[x]
Room(x) == Cardinality(Holders(x)) <= Capacity[x]

Inv ==
  /\ config \in Scenarios
  /\ TypeOK
  /\ \A r \in Runs : Fine(r)
  /\ \A x \in Resources : Full(x) /\ Room(x)

-----------------------------------------------------------------------------
(* Decisions *)

(* What Evaluate grants, the rules permit.                                 *)
LEMMA EvaluateIsPermitted ==
  ASSUME NEW rules, NEW subject, Len(subject) \in Nat,
         Rules(rules), NEW capability, Evaluate(rules, subject, capability)
  PROVE  Permitted(rules, subject, capability)
<1>1. CASE Matching(rules, subject) = {}
  BY <1>1 DEF Evaluate, Permitted, Matching, Matches
<1>2. CASE Matching(rules, subject) # {}
  <2>. DEFINE c == Chosen(rules, subject)
  <2>1. c \in Matching(rules, subject)
        /\ \A j \in Matching(rules, subject) : Length(rules[j]) <= Length(rules[c])
    BY <1>2, ChosenIsLongest
  <2>2. Permits(rules[c], capability)
    BY <1>2 DEF Evaluate
  <2>3. {capability, Every} \cap rules[c].deny = {} /\ {capability, Every} \cap rules[c].allow # {}
    BY <2>2 DEF Permits, Lists
  <2>4. Matching(rules, subject) = {i \in DOMAIN rules : IsPrefix(rules[i].text, subject)}
    BY DEF Matching, Matches
  <2>. HIDE DEF c
  <2>. QED BY <2>1, <2>3, <2>4 DEF Permitted
<1>. QED BY <1>1, <1>2

-----------------------------------------------------------------------------
(* The steps of one run that leave the leases alone *)

LEMMA NeedsType ==
  ASSUME NEW command \in DOMAIN Needs
  PROVE  /\ Needs[command] \in Seq(Resources)
         /\ Len(Needs[command]) \in Nat
         /\ DOMAIN Needs[command] = 1 .. Len(Needs[command])
         /\ \A k \in 1 .. Len(Needs[command]) : Needs[command][k] \in Resources
<1>1. Needs[command] \in Seq(Resources)
  BY ToolRunConstants
<1>. QED BY <1>1, LenProperties, ElementOfSeq

(* Where a step takes the run: it ends, or it goes on with what the policy *)
(* and the registry have granted.                                          *)
Goes(r) ==
  \/ run'[r].stage = "over"
  \/ /\ run[r].stage = "none" /\ run'[r].stage = "accepted"
     /\ run'[r].request \in config.requests
     /\ Permitted(config.rules, run'[r].request.owner, "tool.execute")
     /\ run'[r].next = run[r].next
  \/ /\ run[r].stage = "accepted" /\ run'[r].stage = "resolved"
     /\ run'[r].request = run[r].request /\ run'[r].next = run[r].next
     /\ run'[r].tool \in Tools
     /\ ~run'[r].tool.disabled
     /\ run[r].request.id = None => /\ SameType(run'[r].tool.type, run[r].request.type)
                                    /\ Satisfies(run'[r].tool.version, run[r].request)
  \/ /\ run[r].stage = "resolved" /\ run'[r].stage = "acquiring"
     /\ run'[r].request = run[r].request /\ run'[r].next = run[r].next
     /\ run'[r].tool = run[r].tool /\ run'[r].env = Build(config.env, config.host)
     /\ run[r].request.command \in DOMAIN Needs
  \/ /\ run[r].stage = "acquiring" /\ run'[r].stage = "running"
     /\ run'[r].request = run[r].request /\ run'[r].next = run[r].next
     /\ run'[r].tool = run[r].tool
     /\ run[r].next > Len(Needed(r))
     /\ run'[r].deadline = now + RunLimit(run[r].request)

Alone(r) ==
  /\ UNCHANGED <<config, tools, now, lease, queue>>
  /\ run' \in [Runs -> Run]
  /\ \A q \in Runs \ {r} : run'[q] = run[q]
  /\ run[r].stage # "waiting"
  /\ run'[r].stage # "waiting"
  /\ Goes(r)

LEMMA OverRun ==
  ASSUME run \in [Runs -> Run], NEW r \in Runs, Over(r)
  PROVE  /\ run' \in [Runs -> Run]
         /\ \A q \in Runs \ {r} : run'[q] = run[q]
         /\ run'[r].stage = "over"
<1>1. [Idle EXCEPT !.stage = "over"] \in Run /\ [Idle EXCEPT !.stage = "over"].stage = "over"
  <2>1. <<>> \in Environments
    BY DEF Environments
  <2>. QED BY <2>1 DEF Idle, Run, Stage
<1>. QED BY <1>1 DEF Over

LEMMA LimitType ==
  ASSUME config \in Scenarios, NEW request \in config.requests,
         request.command \in DOMAIN Needs
  PROVE  RunLimit(request) \in Nat
<1>1. request.limit \in Nat
  BY ToolRunScenarios
<1>2. Limit[request.command] \in Nat
  BY ToolRunConstants
<1>. QED BY <1>1, <1>2 DEF RunLimit

LEMMA EnvironmentTypes ==
  /\ Build(config.env, config.host) \in Environments
  /\ \A tool \in Tools, request \in config.requests :
       ProcessEnv(Build(config.env, config.host), tool, request.command) \in Environments
BY DEF Environments, Commands

LEMMA AloneSteps ==
  ASSUME Inv, NEW r \in Runs,
         \/ \E request \in config.requests : Accept(r, request)
         \/ ResolveTool(r) \/ Prepare(r)
         \/ Launch(r) \/ LaunchFails(r) \/ ProcessEnds(r)
  PROVE  Alone(r)
<1>0. run \in [Runs -> Run] /\ run[r] \in Run /\ Commanded(r) /\ Asked(r) /\ TypeOK
  BY DEF Inv, TypeOK, Fine
<1>1. ASSUME NEW request \in config.requests, Accept(r, request)
      PROVE  Alone(r)
  <2>1. run[r].stage = "none" /\ UNCHANGED <<config, tools, now, lease, queue>>
    BY <1>1 DEF Accept, At
  <2>2. CASE Evaluate(config.rules, request.owner, "tool.execute")
    <3>1. run' = [run EXCEPT ![r].stage = "accepted", ![r].request = request]
      BY <1>1, <2>2 DEF Accept
    <3>2. [[run[r] EXCEPT !.stage = "accepted"] EXCEPT !.request = request] \in Run
      BY <1>0 DEF Run, Stage
    <3>3. run' \in [Runs -> Run] /\ \A q \in Runs \ {r} : run'[q] = run[q]
      BY <1>0, <3>1, <3>2
    <3>4. run'[r].stage = "accepted" /\ run'[r].request = request /\ run'[r].next = run[r].next
      BY <1>0, <3>1 DEF Run
    <3>5. Permitted(config.rules, request.owner, "tool.execute")
      <4>1. config \in Scenarios
        BY DEF Inv
      <4>2. Len(request.owner) \in Nat
            /\ \A i \in DOMAIN config.rules : i \in Nat /\ Len(config.rules[i].text) \in Nat
        BY <4>1, ToolRunScenarios
      <4>. QED BY <2>2, <4>2, EvaluateIsPermitted DEF Rules
    <3>. QED BY <2>1, <3>3, <3>4, <3>5 DEF Alone, Goes
  <2>3. CASE ~Evaluate(config.rules, request.owner, "tool.execute")
    BY <1>0, <1>1, <2>1, <2>3, OverRun DEF Accept, Alone, Goes
  <2>. QED BY <2>2, <2>3
<1>2. CASE ResolveTool(r)
  <2>1. run[r].stage = "accepted" /\ UNCHANGED <<config, tools, now, lease, queue>>
    BY <1>2 DEF ResolveTool, At
  <2>2. ASSUME NEW t \in ToolsFor(run[r].request), ~tools[t].disabled,
               tools[t].type \in Adapters,
               run' = [run EXCEPT ![r].stage = "resolved", ![r].tool = tools[t]]
        PROVE  Alone(r)
    <3>1. t \in DOMAIN tools
      BY <2>2, ResolvedSatisfies DEF ToolsFor
    <3>2. tools[t] \in Tools
      BY <1>0, <3>1 DEF TypeOK, Range
    <3>3. [[run[r] EXCEPT !.stage = "resolved"] EXCEPT !.tool = tools[t]] \in Run
      BY <1>0, <3>2 DEF Run, Stage
    <3>4. run' \in [Runs -> Run] /\ \A q \in Runs \ {r} : run'[q] = run[q]
      BY <1>0, <2>2, <3>3
    <3>5. run'[r].stage = "resolved" /\ run'[r].tool = tools[t]
          /\ run'[r].request = run[r].request /\ run'[r].next = run[r].next
      BY <1>0, <2>2 DEF Run
    <3>6. run[r].request.id = None => /\ SameType(tools[t].type, run[r].request.type)
                                      /\ Satisfies(tools[t].version, run[r].request)
      BY ResolvedSatisfies DEF ToolsFor
    <3>. QED BY <2>1, <2>2, <3>2, <3>4, <3>5, <3>6 DEF Alone, Goes
  <2>3. CASE Over(r)
    BY <1>0, <2>1, <2>3, OverRun DEF Alone, Goes
  <2>. QED BY <1>2, <2>2, <2>3 DEF ResolveTool
<1>3. CASE Prepare(r)
  <2>1. run[r].stage = "resolved" /\ UNCHANGED <<config, tools, now, lease, queue>>
    BY <1>3 DEF Prepare, At
  <2>2. CASE Prepared(r)
    <3>1. run' = [run EXCEPT ![r].stage = "acquiring", ![r].env = Build(config.env, config.host)]
      BY <1>3, <2>2 DEF Prepare
    <3>2. [[run[r] EXCEPT !.stage = "acquiring"] EXCEPT !.env = Build(config.env, config.host)]
            \in Run
      BY <1>0, EnvironmentTypes DEF Run, Stage
    <3>3. run' \in [Runs -> Run] /\ \A q \in Runs \ {r} : run'[q] = run[q]
      BY <1>0, <3>1, <3>2
    <3>4. run'[r].stage = "acquiring" /\ run'[r].tool = run[r].tool
          /\ run'[r].request = run[r].request /\ run'[r].next = run[r].next
          /\ run'[r].env = Build(config.env, config.host)
      BY <1>0, <3>1 DEF Run
    <3>5. run[r].request.command \in DOMAIN Needs
      BY <2>2, ToolRunConstants DEF Prepared
    <3>. QED BY <2>1, <3>3, <3>4, <3>5 DEF Alone, Goes
  <2>3. CASE ~Prepared(r)
    BY <1>0, <1>3, <2>1, <2>3, OverRun DEF Prepare, Alone, Goes
  <2>. QED BY <2>2, <2>3
<1>4. CASE Launch(r)
  <2>. DEFINE limit == RunLimit(run[r].request)
              env == ProcessEnv(run[r].env, run[r].tool, run[r].request.command)
  <2>1. run[r].stage = "acquiring" /\ UNCHANGED <<config, tools, now, lease, queue>>
        /\ run[r].next > Len(Needed(r))
        /\ run' = [run EXCEPT ![r].stage = "running", ![r].env = env, ![r].deadline = now + limit]
    BY <1>4 DEF Launch, At
  <2>2. run[r].request \in config.requests /\ run[r].tool \in Tools
        /\ run[r].env = Build(config.env, config.host)
    BY <1>0, <2>1 DEF Asked, Busy
  <2>3. env \in Environments
    BY <2>2, EnvironmentTypes
  <2>4. now + limit \in Nat
    <3>1. run[r].request.command \in DOMAIN Needs
      BY <1>0, <2>1 DEF Commanded, Busy
    <3>2. limit \in Nat
      BY <2>2, <3>1, LimitType DEF Inv
    <3>3. now \in Nat
      BY <1>0, ToolRunConstants DEF TypeOK, Time
    <3>. HIDE DEF limit
    <3>. QED BY <3>2, <3>3
  <2>. HIDE DEF limit, env
  <2>5. [[[run[r] EXCEPT !.stage = "running"] EXCEPT !.env = env] EXCEPT !.deadline = now + limit]
          \in Run
    BY <1>0, <2>3, <2>4 DEF Run, Stage
  <2>6. run' \in [Runs -> Run] /\ \A q \in Runs \ {r} : run'[q] = run[q]
    BY <1>0, <2>1, <2>5
  <2>7. run'[r].stage = "running" /\ run'[r].tool = run[r].tool
        /\ run'[r].request = run[r].request /\ run'[r].next = run[r].next
        /\ run'[r].deadline = now + limit
    BY <1>0, <2>1 DEF Run
  <2>. QED BY <2>1, <2>6, <2>7 DEF Alone, Goes, limit
<1>5. CASE LaunchFails(r) \/ ProcessEnds(r)
  BY <1>0, <1>5, OverRun DEF LaunchFails, ProcessEnds, At, Alone, Goes
<1>. QED BY <1>1, <1>2, <1>3, <1>4, <1>5

LEMMA SameConfig ==
  ASSUME UNCHANGED config
  PROVE  Tools' = Tools /\ Run' = Run
BY DEF Tools, Run, Environments, Commands, ProcessEnv

(* What is known of a run stays when neither it nor its leases change.     *)
LEMMA FineStays ==
  ASSUME NEW q \in Runs, Fine(q),
         UNCHANGED <<config, now>>, run'[q] = run[q], lease'[q] = lease[q]
  PROVE  Fine(q)'
BY SameConfig DEF Fine, Commanded, Asked, HeldBefore, LastFresh, Needed, Scarcest, Timely

(* The runs that wait for a resource.                                      *)
Waiting(x) == {r \in Runs : At(r, "waiting") /\ Wanted(r) = x}

Queued(x) == ToSet(queue[x]) = Waiting(x) /\ IsInjective(queue[x])

(* How far a run is.                                                       *)
Within1(r) == run[r].stage \in Busy => run[r].next \in 1 .. Len(Needed(r)) + 1

LEMMA TypeParts ==
  TypeOK <=> /\ now \in Time
             /\ Range(tools) \subseteq Tools
             /\ run \in [Runs -> Run]
             /\ \A r \in Runs : Within1(r)
             /\ lease \in [Runs -> [Resources -> [state: {"none", "held", "over"},
                                                  exp: 0 .. MaxTime + TTL]]]
             /\ queue \in [Resources -> Seq(Runs)]
             /\ \A x \in Resources : Queued(x)
BY DEF TypeOK, Within1, Queued, Waiting, Busy

LEMMA AloneInv ==
  ASSUME Inv, NEW r \in Runs, Alone(r)
  PROVE  Inv'
<1>. USE DEF Inv
<1>1. UNCHANGED <<config, tools, now, lease, queue>> /\ Tools' = Tools /\ Run' = Run
      /\ run' \in [Runs -> Run] /\ \A q \in Runs \ {r} : run'[q] = run[q]
  BY SameConfig DEF Alone
<1>2. Fine(r) /\ Within1(r) /\ run[r] \in Run
  BY TypeParts
<1>3. ASSUME NEW q \in Runs, q # r
      PROVE  Fine(q)' /\ Within1(q)'
  <2>1. run'[q] = run[q] /\ lease'[q] = lease[q] /\ Fine(q) /\ Within1(q)
    BY <1>1, <1>3, TypeParts
  <2>. QED BY <1>1, <2>1, FineStays DEF Within1, Needed
<1>4. Within1(r)'
  <2>1. ASSUME run'[r].stage = "acquiring" \/ run'[r].stage = "running"
        PROVE  /\ run'[r].request = run[r].request /\ run'[r].next = run[r].next
               /\ run'[r].next \in 1 .. Len(Needed(r)) + 1
    <3>1. CASE run[r].stage = "resolved"
      <4>1. run'[r].request = run[r].request /\ run'[r].next = run[r].next /\ run[r].next = 1
            /\ run[r].request.command \in DOMAIN Needs
        BY <1>2, <2>1, <3>1 DEF Alone, Goes, Fine, Commanded
      <4>. QED BY <4>1, NeedsType DEF Needed
    <3>2. CASE run[r].stage = "acquiring"
      BY <1>2, <2>1, <3>2 DEF Alone, Goes, Within1, Busy
    <3>. QED BY <2>1, <3>1, <3>2 DEF Alone, Goes
  <2>. QED BY <2>1 DEF Within1, Needed, Alone, Busy
<1>5. Commanded(r)'
  <2>1. run[r].stage = "acquiring" => run[r].request.command \in DOMAIN Needs
    BY <1>2 DEF Fine, Commanded, Busy
  <2>2. run[r].stage \in {"none", "accepted"} => run[r].next = 1
    BY <1>2 DEF Fine, Commanded
  <2>. QED BY <2>1, <2>2 DEF Alone, Goes, Commanded, Busy, Needed
<1>6. Asked(r)'
  <2>1. Asked(r)
    BY <1>2 DEF Fine
  <2>. QED BY <1>1, <2>1 DEF Alone, Goes, Asked, Busy
<1>7. HeldBefore(r)'
  <2>1. HeldBefore(r)
    BY <1>2 DEF Fine
  <2>. QED BY <1>1, <2>1 DEF Alone, Goes, HeldBefore, Busy, Needed
<1>8. LastFresh(r)'
  <2>1. CASE run[r].stage = "acquiring" /\ run'[r].stage = "running"
    <3>. DEFINE limit == RunLimit(run[r].request)
                last == lease[r][Scarcest(r)]
    <3>1. run'[r].request = run[r].request /\ run[r].next > Len(Needed(r))
          /\ run'[r].deadline = now + limit
      BY <2>1 DEF Alone, Goes
    <3>2. limit \in Nat /\ (Timely(r)' => limit <= TTL)
      <4>1. run[r].request.command \in DOMAIN Needs /\ run[r].request \in config.requests
        BY <1>2, <2>1 DEF Fine, Commanded, Asked, Busy
      <4>2. Timely(r)' => limit <= TTL
        BY <3>1 DEF Timely
      <4>. QED BY <4>1, <4>2, LimitType
    <3>3. now \in Nat /\ TTL \in Nat
      BY TypeParts, ToolRunConstants DEF Time
    <3>4. Needed(r) # <<>> => last.state = "held" /\ last.exp \in {0, now + TTL}
      BY <1>2, <2>1, <3>1 DEF Fine, LastFresh, Busy
    <3>5. Needed(r)' = Needed(r) /\ last' = last
      BY <1>1, <3>1 DEF Needed, Scarcest
    <3>6. (Timely(r)' => now + limit <= now + TTL) /\ now <= now + limit
      <4>. HIDE DEF limit
      <4>. QED BY <3>2, <3>3
    <3>. HIDE DEF last, limit
    <3>7. Needed(r) # <<>> /\ Timely(r)' =>
            last.state = "held" /\ (last.exp = 0 \/ last.exp >= run'[r].deadline)
      BY <3>1, <3>4, <3>6
    <3>8. now <= run'[r].deadline
      BY <3>1, <3>6
    <3>. QED BY <1>1, <2>1, <3>5, <3>7, <3>8 DEF LastFresh, last
  <2>2. CASE run'[r].stage = "acquiring"
    <3>1. run'[r].next = 1 /\ run'[r].request = run[r].request
          /\ run[r].request.command \in DOMAIN Needs
      BY <1>2, <2>2 DEF Alone, Goes, Fine, Commanded
    <3>2. Needs[run[r].request.command] # <<>> => ~(1 > Len(Needs[run[r].request.command]))
      BY <3>1, NeedsType, EmptySeq
    <3>3. Needed(r)' = Needs[run[r].request.command]
      BY <3>1 DEF Needed
    <3>. QED BY <2>2, <3>1, <3>2, <3>3 DEF LastFresh, Busy
  <2>3. CASE run'[r].stage \notin Busy
    BY <2>3 DEF LastFresh, Busy
  <2>. QED BY <2>1, <2>2, <2>3 DEF Alone, Goes, Busy
<1>9. ASSUME NEW x \in Resources
      PROVE  Queued(x)' /\ Full(x)' /\ Room(x)'
  <2>1. Waiting(x)' = Waiting(x)
    BY <1>1 DEF Waiting, At, Wanted, Needed, Alone
  <2>2. Holders(x)' = Holders(x)
    BY <1>1 DEF Holders
  <2>. QED BY <1>1, <2>1, <2>2, TypeParts DEF Queued, Full, Room
<1>10. now' \in Time /\ Range(tools') \subseteq Tools'
  BY <1>1, TypeParts
<1>11. TypeOK'
  <2>1. \A q \in Runs : Within1(q)'
    BY <1>3, <1>4
  <2>. QED BY <1>1, <1>9, <1>10, <2>1, TypeParts DEF TypeOK, Within1, Queued, Waiting, Busy
<1>. QED BY <1>1, <1>3, <1>5, <1>6, <1>7, <1>8, <1>9, <1>11 DEF Fine

-----------------------------------------------------------------------------
(* Queues and leases *)

LEMMA AppendQueue ==
  ASSUME NEW q \in Seq(Runs), IsInjective(q), NEW r \in Runs, r \notin ToSet(q)
  PROVE  /\ Append(q, r) \in Seq(Runs)
         /\ ToSet(Append(q, r)) = ToSet(q) \cup {r}
         /\ IsInjective(Append(q, r))
<1>. DEFINE a == Append(q, r)
            m == Len(q) + 1
<1>1. /\ a \in Seq(Runs) /\ Len(q) \in Nat /\ DOMAIN q = 1 .. Len(q)
      /\ DOMAIN a = 1 .. m /\ m \in Nat
      /\ \A i \in 1 .. Len(q) : a[i] = q[i]
      /\ a[m] = r
  BY AppendProperties, LenProperties
<1>2. \A i \in DOMAIN a : i \in DOMAIN q \/ i = m
  BY <1>1
<1>3. m \in DOMAIN a /\ DOMAIN q \subseteq DOMAIN a
  BY <1>1
<1>. HIDE DEF a, m
<1>4. \A i \in DOMAIN q : a[i] = q[i] /\ a[i] # r
  BY <1>1 DEF ToSet
<1>5. ToSet(a) = ToSet(q) \cup {r}
  <2>1. ASSUME NEW e \in ToSet(a)
        PROVE  e \in ToSet(q) \cup {r}
    <3>1. PICK i \in DOMAIN a : e = a[i]
      BY DEF ToSet
    <3>2. CASE i \in DOMAIN q
      BY <1>4, <3>1, <3>2 DEF ToSet
    <3>3. CASE i = m
      BY <1>1, <3>1, <3>3
    <3>. QED BY <1>2, <3>2, <3>3
  <2>2. ASSUME NEW e \in ToSet(q)
        PROVE  e \in ToSet(a)
    <3>1. PICK i \in DOMAIN q : e = q[i]
      BY DEF ToSet
    <3>2. i \in DOMAIN a /\ e = a[i]
      BY <1>3, <1>4, <3>1
    <3>. QED BY <3>2 DEF ToSet
  <2>3. r \in ToSet(a)
    BY <1>1, <1>3 DEF ToSet
  <2>. QED BY <2>1, <2>2, <2>3
<1>6. IsInjective(a)
  BY <1>1, <1>2, <1>4 DEF IsInjective
<1>. QED BY <1>1, <1>5, <1>6 DEF a

LEMMA TailQueue ==
  ASSUME NEW q \in Seq(Runs), IsInjective(q), q # <<>>
  PROVE  /\ Head(q) \in ToSet(q)
         /\ Tail(q) \in Seq(Runs)
         /\ ToSet(Tail(q)) = ToSet(q) \ {Head(q)}
         /\ IsInjective(Tail(q))
<1>. DEFINE t == Tail(q)
            n == Len(q)
<1>1. n \in Nat /\ n # 0 /\ DOMAIN q = 1 .. n
  BY EmptySeq, LenProperties
<1>2. t \in Seq(Runs) /\ Len(t) = n - 1 /\ \A i \in 1 .. Len(t) : t[i] = q[i + 1]
  BY HeadTailProperties
<1>3. DOMAIN t = 1 .. n - 1
  BY <1>2, LenProperties
<1>4. Head(q) = q[1]
  OBVIOUS
<1>. HIDE DEF t, n
<1>5. 1 \in DOMAIN q
  BY <1>1
<1>6. \A i \in DOMAIN t : i + 1 \in DOMAIN q /\ i + 1 # 1 /\ t[i] = q[i + 1]
  BY <1>1, <1>2, <1>3
<1>7. \A j \in DOMAIN q \ {1} : j - 1 \in DOMAIN t /\ t[j - 1] = q[j]
  <2>. TAKE j \in DOMAIN q \ {1}
  <2>1. j - 1 \in DOMAIN t /\ (j - 1) + 1 = j
    BY <1>1, <1>3
  <2>. QED BY <1>6, <2>1
<1>8. ToSet(t) = ToSet(q) \ {Head(q)}
  <2>1. ToSet(t) \subseteq ToSet(q) \ {Head(q)}
    BY <1>4, <1>5, <1>6 DEF ToSet, IsInjective
  <2>2. ToSet(q) \ {Head(q)} \subseteq ToSet(t)
    BY <1>4, <1>7 DEF ToSet
  <2>. QED BY <2>1, <2>2
<1>9. IsInjective(t)
  <2>. SUFFICES ASSUME NEW a \in DOMAIN t, NEW b \in DOMAIN t, t[a] = t[b]
                PROVE  a = b
    BY DEF IsInjective
  <2>1. a + 1 = b + 1
    BY <1>6 DEF IsInjective
  <2>. QED BY <1>1, <1>3, <2>1
<1>. QED BY <1>2, <1>4, <1>5, <1>8, <1>9 DEF ToSet, t

(* Whom a resource is held by is a finite number of runs.                  *)
LEMMA HoldersFinite ==
  ASSUME NEW x
  PROVE  IsFiniteSet(Holders(x)) /\ Cardinality(Holders(x)) \in Nat
<1>1. Holders(x) \subseteq Runs
  BY DEF Holders
<1>. QED BY <1>1, ToolRunConstants, FS_Subset, FS_CardinalityType

Leases == [Runs -> [Resources -> [state: {"none", "held", "over"}, exp: 0 .. MaxTime + TTL]]]

(* A run that comes to a resource it needs.                                *)
LEMMA WantedType ==
  ASSUME Inv, NEW r \in Runs, run[r].stage \in Busy, run[r].next <= Len(Needed(r))
  PROVE  /\ Wanted(r) \in Resources
         /\ run[r].next \in DOMAIN Needed(r)
         /\ Len(Needed(r)) \in Nat
         /\ run[r].next \in Nat
         /\ Needed(r) \in Seq(Resources)
<1>1. run[r].request.command \in DOMAIN Needs
  BY DEF Inv, Fine, Commanded
<1>2. run[r].next \in 1 .. Len(Needed(r)) + 1
  BY TypeParts DEF Inv, Within1
<1>3. Needed(r) \in Seq(Resources) /\ Len(Needed(r)) \in Nat
      /\ DOMAIN Needed(r) = 1 .. Len(Needed(r))
      /\ \A k \in 1 .. Len(Needed(r)) : Needed(r)[k] \in Resources
  BY <1>1, NeedsType DEF Needed
<1>4. run[r].next \in 1 .. Len(Needed(r))
  BY <1>2, <1>3
<1>. QED BY <1>3, <1>4 DEF Wanted

(* A run that is given what it wants, with a lease that is fresh.          *)
IsGiven(r, exp) ==
  LET x == Wanted(r)
  IN  /\ run'[r].stage = "acquiring"
      /\ run'[r].request = run[r].request /\ run'[r].tool = run[r].tool
      /\ run'[r].env = run[r].env
      /\ run'[r].next = run[r].next + 1
      /\ lease'[r][x] = Held(exp)
      /\ \A y \in Resources \ {x} : lease'[r][y] = lease[r][y]

LEMMA GivenFine ==
  ASSUME Inv, NEW r \in Runs, run[r].stage \in {"acquiring", "waiting"},
         run[r].next <= Len(Needed(r)),
         NEW exp \in {0, now + TTL}, IsGiven(r, exp), UNCHANGED <<config, now>>
  PROVE  Fine(r)' /\ Within1(r)'
<1>1. Fine(r) /\ run[r].stage \in Busy /\ run[r].request.command \in DOMAIN Needs
  BY DEF Inv, Fine, Commanded, Busy
<1>2. Wanted(r) \in Resources /\ run[r].next \in DOMAIN Needed(r) /\ Len(Needed(r)) \in Nat
      /\ run[r].next \in Nat
  BY <1>1, WantedType
<1>3. run[r].next \in 1 .. Len(Needed(r)) /\ run[r].next >= 1
  <2>1. run[r].next \in 1 .. Len(Needed(r)) + 1
    BY <1>1, TypeParts DEF Inv, Within1
  <2>. QED BY <1>2, <2>1
<1>4. Needed(r)' = Needed(r) /\ run'[r].next = run[r].next + 1 /\ run'[r].stage = "acquiring"
  BY DEF IsGiven, Needed
<1>5. Within1(r)'
  BY <1>2, <1>3, <1>4 DEF Within1
<1>6. Commanded(r)'
  BY <1>1, <1>4 DEF IsGiven, Commanded, Busy
<1>7. Asked(r)'
  <2>1. Asked(r)
    BY <1>1 DEF Fine
  <2>. QED BY <1>1, <2>1, SameConfig DEF IsGiven, Asked, Busy
<1>8. HeldBefore(r)'
  <2>. SUFFICES ASSUME NEW y \in Resources, lease'[r][y].state # "none"
                PROVE  \E k \in 1 .. run'[r].next - 1 : k \in DOMAIN Needed(r) /\ Needed(r)[k] = y
    BY <1>4 DEF HeldBefore, Busy
  <2>1. CASE y = Wanted(r)
    <3>1. run[r].next \in 1 .. run'[r].next - 1
      BY <1>2, <1>3, <1>4
    <3>. QED BY <1>2, <2>1, <3>1 DEF Wanted
  <2>2. CASE y # Wanted(r)
    <3>1. lease[r][y].state # "none"
      BY <2>2 DEF IsGiven
    <3>2. PICK k \in 1 .. run[r].next - 1 : k \in DOMAIN Needed(r) /\ Needed(r)[k] = y
      BY <1>1, <3>1 DEF Fine, HeldBefore, Busy
    <3>3. k \in 1 .. run'[r].next - 1
      BY <1>2, <1>4
    <3>. QED BY <3>2, <3>3
  <2>. QED BY <2>1, <2>2
<1>9. LastFresh(r)'
  <2>. SUFFICES ASSUME run'[r].next > Len(Needed(r))
                PROVE  /\ lease'[r][Scarcest(r)'].state = "held"
                       /\ lease'[r][Scarcest(r)'].exp \in {0, now + TTL}
    BY <1>4 DEF LastFresh
  <2>1. run[r].next = Len(Needed(r))
    BY <1>2, <1>3, <1>4
  <2>2. Scarcest(r)' = Wanted(r)
    BY <1>4, <2>1 DEF Scarcest, Last, Wanted
  <2>. QED BY <2>2 DEF IsGiven, Held
<1>. QED BY <1>5, <1>6, <1>7, <1>8, <1>9 DEF Fine

-----------------------------------------------------------------------------
(* The steps that change leases and queues *)

LEMMA AcquireNowInv ==
  ASSUME Inv, NEW r \in Runs, AcquireNow(r)
  PROVE  Inv'
<1>. SUFFICES ASSUME NEW x, x = Wanted(r)
              PROVE  Inv'
  OBVIOUS
<1>1. /\ run[r].stage = "acquiring" /\ run[r].next <= Len(Needed(r))
      /\ Cardinality(Holders(x)) < Capacity[x]
      /\ lease' = [lease EXCEPT ![r][x] = Held(now + TTL)]
      /\ run' = [run EXCEPT ![r].next = run[r].next + 1]
      /\ UNCHANGED <<config, tools, now, queue>>
  BY DEF AcquireNow, Acquiring, At
<1>2. run \in [Runs -> Run] /\ lease \in Leases
  BY TypeParts DEF Inv, Leases
<1>3. x \in Resources /\ run[r].next \in Nat
  BY <1>1, WantedType DEF Busy
<1>4. [run[r] EXCEPT !.next = run[r].next + 1] \in Run
  BY <1>2, <1>3 DEF Run
<1>5. run' \in [Runs -> Run] /\ \A q \in Runs \ {r} : run'[q] = run[q]
  BY <1>1, <1>2, <1>4
<1>6. now \in Nat /\ Held(now + TTL) \in [state: {"none", "held", "over"}, exp: 0 .. MaxTime + TTL]
  <2>1. now \in Time
    BY TypeParts DEF Inv
  <2>2. now \in Nat /\ now + TTL \in 0 .. MaxTime + TTL
    BY <2>1, ToolRunConstants DEF Time
  <2>. QED BY <2>2 DEF Held
<1>7. /\ lease' \in Leases
      /\ \A q \in Runs \ {r} : lease'[q] = lease[q]
      /\ lease'[r][x] = Held(now + TTL)
      /\ \A y \in Resources \ {x} : lease'[r][y] = lease[r][y]
  BY <1>1, <1>2, <1>3, <1>6 DEF Leases
<1>8. IsGiven(r, now + TTL)
  <2>1. run'[r] = [run[r] EXCEPT !.next = run[r].next + 1]
    BY <1>1, <1>2
  <2>2. /\ run'[r].stage = "acquiring" /\ run'[r].request = run[r].request
        /\ run'[r].tool = run[r].tool /\ run'[r].next = run[r].next + 1
        /\ run'[r].env = run[r].env
    BY <1>1, <1>2, <2>1 DEF Run
  <2>. QED BY <1>7, <2>2 DEF IsGiven
<1>9. Fine(r)' /\ Within1(r)'
  BY <1>1, <1>8, GivenFine
<1>10. ASSUME NEW q \in Runs, q # r
       PROVE  Fine(q)' /\ Within1(q)'
  <2>1. Fine(q) /\ Within1(q) /\ run'[q] = run[q] /\ lease'[q] = lease[q]
    BY <1>5, <1>7, <1>10, TypeParts DEF Inv
  <2>. QED BY <1>1, <2>1, FineStays DEF Within1, Needed
<1>11. ASSUME NEW y \in Resources
       PROVE  Queued(y)' /\ Full(y)' /\ Room(y)'
  <2>1. Queued(y) /\ Full(y) /\ Room(y)
    BY TypeParts DEF Inv
  <2>2. Waiting(y)' = Waiting(y)
    <3>1. run'[r].stage = "acquiring"
      BY <1>8 DEF IsGiven
    <3>. QED BY <1>1, <1>5, <3>1 DEF Waiting, At, Wanted, Needed
  <2>3. Queued(y)'
    BY <1>1, <2>1, <2>2 DEF Queued
  <2>4. CASE y = x
    <3>1. Holders(x)' = Holders(x) \cup {r}
      BY <1>7 DEF Holders, Held
    <3>2. Capacity[x] \in Nat
      BY <1>3, ToolRunConstants
    <3>3. Cardinality(Holders(x)') <= Capacity[x]
      <4>1. Cardinality(Holders(x) \cup {r}) <= Cardinality(Holders(x)) + 1
        BY HoldersFinite, FS_AddElement
      <4>2. Cardinality(Holders(x)) \in Nat /\ Cardinality(Holders(x) \cup {r}) \in Nat
        BY HoldersFinite, FS_AddElement, FS_CardinalityType
      <4>. QED BY <1>1, <3>1, <3>2, <4>1, <4>2
    <3>4. queue[x] = <<>>
      BY <1>1, <2>1, <2>4, <3>2, HoldersFinite DEF Full
    <3>. QED BY <1>1, <2>3, <2>4, <3>3, <3>4 DEF Full, Room
  <2>5. CASE y # x
    <3>1. Holders(y)' = Holders(y)
      BY <1>7, <2>5 DEF Holders
    <3>. QED BY <1>1, <2>1, <2>3, <3>1 DEF Full, Room
  <2>. QED BY <2>4, <2>5
<1>12. TypeOK'
  <2>1. now' \in Time /\ Range(tools') \subseteq Tools' /\ queue' \in [Resources -> Seq(Runs)]
        /\ Run' = Run
    BY <1>1, SameConfig, TypeParts DEF Inv
  <2>2. \A q \in Runs : Within1(q)'
    BY <1>9, <1>10
  <2>. QED BY <1>5, <1>7, <1>11, <2>1, <2>2
       DEF TypeOK, Within1, Queued, Waiting, Busy, Leases
<1>. QED BY <1>1, <1>9, <1>10, <1>11, <1>12 DEF Inv

LEMMA EnqueueInv ==
  ASSUME Inv, NEW r \in Runs, Enqueue(r)
  PROVE  Inv'
<1>. DEFINE x == Wanted(r)
<1>1. /\ run[r].stage = "acquiring" /\ run[r].next <= Len(Needed(r))
      /\ Cardinality(Holders(x)) >= Capacity[x]
      /\ queue' = [queue EXCEPT ![x] = Append(queue[x], r)]
      /\ run' = [run EXCEPT ![r].stage = "waiting"]
      /\ UNCHANGED <<config, tools, now, lease>>
  BY DEF Enqueue, Acquiring, At
<1>2. run \in [Runs -> Run] /\ queue \in [Resources -> Seq(Runs)]
  BY TypeParts DEF Inv
<1>3. x \in Resources
  BY <1>1, WantedType DEF Busy
<1>4. [run[r] EXCEPT !.stage = "waiting"] \in Run
  BY <1>2 DEF Run, Stage
<1>5. run' \in [Runs -> Run] /\ \A q \in Runs \ {r} : run'[q] = run[q]
  BY <1>1, <1>2, <1>4
<1>6. /\ run'[r].stage = "waiting" /\ run'[r].request = run[r].request
      /\ run'[r].tool = run[r].tool /\ run'[r].next = run[r].next
      /\ run'[r].env = run[r].env
  <2>1. run'[r] = [run[r] EXCEPT !.stage = "waiting"]
    BY <1>1, <1>2
  <2>. QED BY <1>2, <2>1 DEF Run
<1>7. Needed(r)' = Needed(r) /\ Wanted(r)' = x
  BY <1>6 DEF Needed, Wanted
<1>8. Fine(r)' /\ Within1(r)'
  <2>1. Fine(r) /\ Within1(r)
    BY TypeParts DEF Inv
  <2>2. Commanded(r)' /\ Within1(r)'
    BY <1>1, <1>6, <1>7, <2>1 DEF Fine, Commanded, Within1, Busy
  <2>3. Asked(r)'
    BY <1>1, <1>6, <2>1, SameConfig DEF Fine, Asked, Busy
  <2>4. HeldBefore(r)'
    BY <1>1, <1>6, <1>7, <2>1 DEF Fine, HeldBefore, Busy
  <2>5. ~(run'[r].next > Len(Needed(r)'))
    BY <1>1, <1>6, <1>7, WantedType DEF Busy
  <2>6. LastFresh(r)'
    BY <1>6, <2>5 DEF LastFresh
  <2>. QED BY <2>2, <2>3, <2>4, <2>6 DEF Fine
<1>9. ASSUME NEW q \in Runs, q # r
       PROVE  Fine(q)' /\ Within1(q)'
  <2>1. Fine(q) /\ Within1(q) /\ run'[q] = run[q] /\ lease'[q] = lease[q]
    BY <1>1, <1>5, <1>9, TypeParts DEF Inv
  <2>. QED BY <1>1, <2>1, FineStays DEF Within1, Needed
<1>10. r \notin Waiting(x)
  BY <1>1 DEF Waiting, At
<1>11. \A y \in Resources : Waiting(y)' = IF y = x THEN Waiting(x) \cup {r} ELSE Waiting(y)
  BY <1>1, <1>5, <1>6, <1>7 DEF Waiting, At, Wanted, Needed
<1>. HIDE DEF x
<1>12. \A y \in Resources : queue'[y] = IF y = x THEN Append(queue[x], r) ELSE queue[y]
  BY <1>1, <1>2, <1>3
<1>13. queue[x] \in Seq(Runs) /\ ToSet(queue[x]) = Waiting(x) /\ IsInjective(queue[x])
  BY <1>2, <1>3, TypeParts DEF Inv, Queued
<1>14. /\ Append(queue[x], r) \in Seq(Runs)
       /\ ToSet(Append(queue[x], r)) = Waiting(x) \cup {r}
       /\ IsInjective(Append(queue[x], r))
  BY <1>10, <1>13, AppendQueue
<1>15. ASSUME NEW y \in Resources
       PROVE  Queued(y)' /\ Full(y)' /\ Room(y)'
  <2>1. Queued(y) /\ Full(y) /\ Room(y)
    BY TypeParts DEF Inv
  <2>2. Holders(y)' = Holders(y)
    BY <1>1 DEF Holders
  <2>3. Queued(y)'
    BY <1>11, <1>12, <1>14, <2>1 DEF Queued
  <2>4. Full(y)'
    BY <1>1, <1>12, <2>1, <2>2 DEF Full
  <2>. QED BY <2>1, <2>2, <2>3, <2>4 DEF Room
<1>16. TypeOK'
  <2>1. now' \in Time /\ Range(tools') \subseteq Tools' /\ lease' \in Leases /\ Run' = Run
    BY <1>1, SameConfig, TypeParts DEF Inv, Leases
  <2>2. \A q \in Runs : Within1(q)'
    BY <1>8, <1>9
  <2>3. queue' \in [Resources -> Seq(Runs)]
    BY <1>1, <1>2, <1>14
  <2>. QED BY <1>5, <1>15, <2>1, <2>2, <2>3
       DEF TypeOK, Within1, Queued, Waiting, Busy, Leases
<1>. QED BY <1>1, <1>8, <1>9, <1>15, <1>16 DEF Inv

(* The place of each resource in the one order of NeedsOrdered.            *)
Orders == [Resources -> 0 .. Cardinality(Resources)]

InOrder(place) ==
  \A command \in DOMAIN Needs : \A j, k \in DOMAIN Needs[command] :
    j < k => place[Needs[command][j]] < place[Needs[command][k]]

LEMMA PlaceType ==
  ASSUME NEW place \in Orders, NEW x \in Resources
  PROVE  /\ place[x] \in Nat /\ Cardinality(Resources) \in Nat
         /\ Cardinality(Resources) - place[x] \in Nat
<1>1. Cardinality(Resources) \in Nat
  BY ToolRunConstants, FS_CardinalityType
<1>2. place[x] \in 0 .. Cardinality(Resources)
  BY DEF Orders
<1>. QED BY <1>1, <1>2

(* What a run waits for comes after all that it has.                       *)
LEMMA WaitsForLater ==
  ASSUME Inv, NEW place \in Orders, InOrder(place),
         NEW h \in Runs, run[h].stage = "waiting",
         NEW x \in Resources, h \in Holders(x)
  PROVE  Wanted(h) \in Resources /\ place[x] < place[Wanted(h)]
<1>1. Fine(h) /\ run[h].stage \in Busy /\ run[h].next <= Len(Needed(h))
      /\ run[h].request.command \in DOMAIN Needs
  BY DEF Inv, Fine, Commanded, Busy
<1>2. Wanted(h) \in Resources /\ run[h].next \in DOMAIN Needed(h) /\ run[h].next \in Nat
  BY <1>1, WantedType
<1>3. PICK k \in 1 .. run[h].next - 1 : k \in DOMAIN Needed(h) /\ Needed(h)[k] = x
  BY <1>1 DEF Fine, HeldBefore, Busy, Holders
<1>4. k < run[h].next
  BY <1>2, <1>3
<1>5. place[Needed(h)[k]] < place[Needed(h)[run[h].next]]
  BY <1>1, <1>2, <1>3, <1>4 DEF Needed, InOrder
<1>. QED BY <1>2, <1>3, <1>5 DEF Wanted

LEMMA WaitsForAnother ==
  ASSUME Inv, NEW h \in Runs, run[h].stage = "waiting"
  PROVE  h \notin Holders(Wanted(h))
<1>1. Wanted(h) \in Resources
  <2>1. run[h].stage \in Busy /\ run[h].next <= Len(Needed(h))
    BY DEF Inv, Fine, Commanded, Busy
  <2>. QED BY <2>1, WantedType
<1>2. PICK place \in Orders : InOrder(place)
  BY NeedsOrdered DEF Orders, InOrder
<1>3. h \in Holders(Wanted(h)) => place[Wanted(h)] < place[Wanted(h)]
  BY <1>1, <1>2, WaitsForLater
<1>4. place[Wanted(h)] \in Nat
  BY <1>1, <1>2, PlaceType
<1>. QED BY <1>3, <1>4

(* A lease that has expired is not the last of a run that may run.         *)
LEMMA ExpiredIsNotLast ==
  ASSUME Inv, NEW r \in Runs, NEW x \in Resources,
         lease[r][x].exp \in 1 .. now - 1,
         run[r].stage \in Busy, Needed(r) # <<>>, run[r].next > Len(Needed(r)),
         run[r].stage = "running" => Timely(r)
  PROVE  Scarcest(r) # x
<1>1. Fine(r)
  BY DEF Inv
<1>2. run[r].stage # "waiting"
  <2>1. run[r].stage = "waiting" => run[r].next <= Len(Needed(r))
    BY <1>1 DEF Fine, Commanded
  <2>2. Len(Needed(r)) \in Nat /\ run[r].next \in Nat
    <3>1. run[r].request.command \in DOMAIN Needs
      BY <1>1 DEF Fine, Commanded
    <3>2. Len(Needed(r)) \in Nat
      BY <3>1, NeedsType DEF Needed
    <3>3. run[r].next \in 1 .. Len(Needed(r)) + 1
      BY TypeParts DEF Inv, Within1
    <3>. QED BY <3>2, <3>3
  <2>. QED BY <2>1, <2>2
<1>3. now \in Nat /\ TTL \in Nat
  BY TypeParts, ToolRunConstants DEF Inv, Time
<1>4. run[r].deadline \in Nat
  <2>1. run[r] \in Run
    BY TypeParts DEF Inv
  <2>. QED BY <2>1 DEF Run
<1>. SUFFICES ASSUME Scarcest(r) = x
              PROVE  FALSE
  OBVIOUS
<1>5. CASE run[r].stage = "acquiring"
  <2>1. lease[r][x].exp \in {0, now + TTL}
    BY <1>1, <1>5 DEF Fine, LastFresh
  <2>. QED BY <1>3, <2>1
<1>6. CASE run[r].stage = "running"
  <2>1. now <= run[r].deadline /\ (lease[r][x].exp = 0 \/ lease[r][x].exp >= run[r].deadline)
    BY <1>1, <1>6 DEF Fine, LastFresh
  <2>. QED BY <1>3, <1>4, <2>1
<1>. QED BY <1>2, <1>5, <1>6 DEF Busy

(* What a run that loses an expired lease keeps.                           *)
LEMMA LoserFine ==
  ASSUME Inv, NEW r \in Runs, NEW x \in Resources,
         lease[r][x].state = "held", lease[r][x].exp \in 1 .. now - 1,
         UNCHANGED <<config, now>>, run'[r] = run[r],
         lease'[r][x].state = "over",
         \A y \in Resources \ {x} : lease'[r][y] = lease[r][y]
  PROVE  Fine(r)'
<1>1. Fine(r)
  BY DEF Inv
<1>2. Commanded(r)' /\ Asked(r)' /\ Needed(r)' = Needed(r)
  BY <1>1, SameConfig DEF Fine, Commanded, Asked, Needed
<1>3. HeldBefore(r)'
  BY <1>1, <1>2 DEF Fine, HeldBefore
<1>4. LastFresh(r)'
  <2>1. ASSUME run[r].stage \in Busy, Needed(r) # <<>>, run[r].next > Len(Needed(r)),
               run[r].stage = "running" => Timely(r)
        PROVE  lease'[r][Scarcest(r)] = lease[r][Scarcest(r)]
    <3>1. Scarcest(r) # x
      BY <2>1, ExpiredIsNotLast
    <3>2. Scarcest(r) \in Resources
      <4>1. run[r].request.command \in DOMAIN Needs
        BY <1>1, <2>1 DEF Fine, Commanded
      <4>2. /\ Needed(r) \in Seq(Resources) /\ Len(Needed(r)) \in Nat
            /\ \A k \in 1 .. Len(Needed(r)) : Needed(r)[k] \in Resources
        BY <4>1, NeedsType DEF Needed
      <4>3. Len(Needed(r)) \in 1 .. Len(Needed(r))
        BY <2>1, <4>2, EmptySeq
      <4>. QED BY <4>2, <4>3 DEF Scarcest, Last
    <3>. QED BY <3>1, <3>2
  <2>2. Scarcest(r)' = Scarcest(r)
    BY <1>2 DEF Scarcest
  <2>3. Timely(r)' <=> Timely(r)
    BY DEF Timely
  <2>. QED BY <1>1, <1>2, <2>1, <2>2, <2>3 DEF Fine, LastFresh
<1>. QED BY <1>2, <1>3, <1>4 DEF Fine

LEMMA ExpireInv ==
  ASSUME Inv, NEW r \in Runs, NEW x \in Resources, Expire(r, x)
  PROVE  Inv'
<1>1. /\ lease[r][x].state = "held" /\ lease[r][x].exp \in 1 .. now - 1
      /\ UNCHANGED <<config, tools, now>> /\ Run' = Run /\ Tools' = Tools
  BY SameConfig DEF Expire
<1>2. /\ run \in [Runs -> Run] /\ lease \in Leases /\ queue \in [Resources -> Seq(Runs)]
      /\ \A y \in Resources : Queued(y) /\ Full(y) /\ Room(y)
      /\ \A q \in Runs : Fine(q) /\ Within1(q)
  BY TypeParts DEF Inv, Leases
<1>3. now' \in Time /\ Range(tools') \subseteq Tools'
  BY <1>1, TypeParts DEF Inv
<1>4. [lease[r][x] EXCEPT !.state = "over"] \in [state: {"none", "held", "over"}, exp: 0 .. MaxTime + TTL]
      /\ [lease[r][x] EXCEPT !.state = "over"].state = "over"
  <2>1. lease[r][x] \in [state: {"none", "held", "over"}, exp: 0 .. MaxTime + TTL]
    BY <1>2 DEF Leases
  <2>2. \A T : \A l \in [state: {"none", "held", "over"}, exp: T] :
          /\ [l EXCEPT !.state = "over"] \in [state: {"none", "held", "over"}, exp: T]
          /\ [l EXCEPT !.state = "over"].state = "over"
    OBVIOUS
  <2>. QED BY <2>1, <2>2
<1>5. CASE queue[x] = <<>>
  <2>1. lease' = [lease EXCEPT ![r][x].state = "over"] /\ UNCHANGED <<run, queue>>
    BY <1>5 DEF Expire
  <2>2. /\ lease' \in Leases
        /\ \A q \in Runs \ {r} : lease'[q] = lease[q]
        /\ \A y \in Resources \ {x} : lease'[r][y] = lease[r][y]
        /\ lease'[r][x].state = "over"
    BY <1>2, <1>4, <2>1 DEF Leases
  <2>3. \A q \in Runs : Within1(q)'
    BY <1>2, <2>1 DEF Within1, Needed
  <2>4. ASSUME NEW q \in Runs PROVE Fine(q)'
    <3>1. CASE q = r
      BY <1>1, <2>1, <2>2, <3>1, LoserFine
    <3>2. CASE q # r
      BY <1>1, <1>2, <2>1, <2>2, <3>2, FineStays
    <3>. QED BY <3>1, <3>2
  <2>5. ASSUME NEW y \in Resources PROVE Queued(y)' /\ Full(y)' /\ Room(y)'
    <3>1. Queued(y)'
      BY <1>2, <2>1 DEF Queued, Waiting, At, Wanted, Needed
    <3>2. Holders(y)' = IF y = x THEN Holders(x) \ {r} ELSE Holders(y)
      BY <2>2 DEF Holders
    <3>3. Cardinality(Holders(y)') <= Cardinality(Holders(y))
          /\ Cardinality(Holders(y)') \in Nat
      <4>1. Holders(y)' \subseteq Holders(y)
        BY <3>2
      <4>. QED BY <4>1, HoldersFinite, FS_Subset, FS_CardinalityType
    <3>4. Capacity[y] \in Nat
      BY ToolRunConstants
    <3>5. Room(y)'
      BY <1>2, <3>3, <3>4, HoldersFinite DEF Room
    <3>6. Full(y)'
      BY <1>2, <1>5, <2>1, <3>2 DEF Full
    <3>. QED BY <3>1, <3>5, <3>6
  <2>. QED BY <1>1, <1>2, <1>3, <2>1, <2>2, <2>3, <2>4, <2>5
           DEF Inv, TypeOK, Within1, Queued, Waiting, Busy, Leases
<1>6. CASE queue[x] # <<>>
  <2>1. PICK head \in Runs : head = Head(queue[x])
    BY <1>2, <1>6, TailQueue, HeadTailProperties
  <2>2. /\ lease' = [lease EXCEPT ![r][x].state = "over", ![head][x] = Held(0)]
        /\ queue' = [queue EXCEPT ![x] = Tail(queue[x])]
        /\ run' = [run EXCEPT ![head].stage = "acquiring", ![head].next = run[head].next + 1]
    BY <1>6, <2>1 DEF Expire
  <2>3. /\ head \in Waiting(x)
        /\ Tail(queue[x]) \in Seq(Runs)
        /\ ToSet(Tail(queue[x])) = Waiting(x) \ {head}
        /\ IsInjective(Tail(queue[x]))
    BY <1>2, <1>6, <2>1, TailQueue DEF Queued
  <2>4. run[head].stage = "waiting" /\ Wanted(head) = x /\ head \notin Holders(x)
    BY <2>3, WaitsForAnother DEF Waiting, At
  <2>5. head # r
    BY <1>1, <2>4 DEF Holders
  <2>6. run[head].next \in Nat /\ run[head].next <= Len(Needed(head))
    <3>1. run[head].next <= Len(Needed(head))
      BY <1>2, <2>4 DEF Fine, Commanded
    <3>. QED BY <2>4, <3>1, WantedType DEF Busy
  <2>7. Held(0) \in [state: {"none", "held", "over"}, exp: 0 .. MaxTime + TTL]
        /\ Held(0).state = "held"
    BY ToolRunConstants DEF Held
  <2>8. /\ lease' \in Leases
        /\ \A q \in Runs \ {r, head} : lease'[q] = lease[q]
        /\ \A y \in Resources \ {x} : lease'[r][y] = lease[r][y] /\ lease'[head][y] = lease[head][y]
        /\ lease'[r][x].state = "over"
        /\ lease'[head][x] = Held(0)
    BY <1>2, <1>4, <2>2, <2>5, <2>7 DEF Leases
  <2>9. run' \in [Runs -> Run] /\ \A q \in Runs \ {head} : run'[q] = run[q]
    <3>1. [[run[head] EXCEPT !.stage = "acquiring"] EXCEPT !.next = run[head].next + 1] \in Run
      <4>1. run[head] \in Run /\ run[head].next + 1 \in Nat
        BY <1>2, <2>6
      <4>2. \A n \in Nat : [[run[head] EXCEPT !.stage = "acquiring"] EXCEPT !.next = n] \in Run
        BY <4>1 DEF Run, Stage
      <4>. QED BY <4>1, <4>2
    <3>. QED BY <1>2, <2>2, <3>1
  <2>10. /\ run'[head].stage = "acquiring" /\ run'[head].next = run[head].next + 1
         /\ run'[head].request = run[head].request /\ run'[head].tool = run[head].tool
         /\ run'[head].env = run[head].env
    BY <1>2, <2>2 DEF Run
  <2>11. Fine(head)' /\ Within1(head)'
    <3>1. IsGiven(head, 0)
      BY <2>4, <2>8, <2>10 DEF IsGiven
    <3>. QED BY <1>1, <2>4, <2>6, <3>1, GivenFine
  <2>12. ASSUME NEW q \in Runs PROVE Fine(q)' /\ Within1(q)'
    <3>1. CASE q = head
      BY <2>11, <3>1
    <3>2. CASE q = r
      BY <1>1, <1>2, <2>5, <2>8, <2>9, <3>2, LoserFine DEF Within1, Needed
    <3>3. CASE q # head /\ q # r
      <4>1. run'[q] = run[q] /\ lease'[q] = lease[q]
        BY <2>8, <2>9, <3>3
      <4>. QED BY <1>1, <1>2, <4>1, FineStays DEF Within1, Needed
    <3>. QED BY <3>1, <3>2, <3>3
  <2>13. \A y \in Resources : Waiting(y)' = IF y = x THEN Waiting(x) \ {head} ELSE Waiting(y)
    <3>. TAKE y \in Resources
    <3>1. ASSUME NEW q \in Runs
          PROVE  q \in Waiting(y)' <=> q \in Waiting(y) /\ q # head
      <4>1. CASE q = head
        BY <2>10, <4>1 DEF Waiting, At
      <4>2. CASE q # head
        BY <2>9, <4>2 DEF Waiting, At, Wanted, Needed
      <4>. QED BY <4>1, <4>2
    <3>2. y # x => head \notin Waiting(y)
      BY <2>4 DEF Waiting
    <3>3. Waiting(y)' \subseteq Runs /\ Waiting(y) \subseteq Runs
      BY DEF Waiting
    <3>. QED BY <3>1, <3>2, <3>3
  <2>14. \A y \in Resources : queue'[y] = IF y = x THEN Tail(queue[x]) ELSE queue[y]
    BY <1>2, <2>2
  <2>15. ASSUME NEW y \in Resources PROVE Queued(y)' /\ Full(y)' /\ Room(y)'
    <3>1. Queued(y)'
      BY <1>2, <2>3, <2>13, <2>14 DEF Queued
    <3>2. CASE y = x
      <4>1. Holders(x)' = (Holders(x) \ {r}) \cup {head}
        BY <2>5, <2>7, <2>8 DEF Holders
      <4>2. r \in Holders(x) /\ head \notin Holders(x)
        BY <1>1, <2>4 DEF Holders
      <4>3. IsFiniteSet(Holders(x) \ {r})
            /\ Cardinality(Holders(x) \ {r}) = Cardinality(Holders(x)) - 1
        BY <4>2, HoldersFinite, FS_RemoveElement
      <4>4. Cardinality((Holders(x) \ {r}) \cup {head}) = Cardinality(Holders(x) \ {r}) + 1
        BY <4>2, <4>3, FS_AddElement
      <4>5. Cardinality(Holders(x)') = Cardinality(Holders(x))
        BY <4>1, <4>3, <4>4, HoldersFinite
      <4>. QED BY <1>2, <1>6, <3>1, <3>2, <4>5 DEF Full, Room
    <3>3. CASE y # x
      <4>1. Holders(y)' = Holders(y)
        BY <2>8, <3>3 DEF Holders
      <4>. QED BY <1>2, <2>14, <3>1, <3>3, <4>1 DEF Full, Room
    <3>. QED BY <3>2, <3>3
  <2>16. queue' \in [Resources -> Seq(Runs)]
    BY <1>2, <2>2, <2>3
  <2>17. TypeOK'
    BY <1>1, <1>3, <2>8, <2>9, <2>12, <2>15, <2>16
       DEF TypeOK, Within1, Queued, Waiting, Busy, Leases
  <2>. QED BY <1>1, <2>12, <2>15, <2>17 DEF Inv
<1>. QED BY <1>5, <1>6

LEMMA TickInv ==
  ASSUME Inv, Tick
  PROVE  Inv'
<1>1. /\ now < config.time /\ now' = now + 1
      /\ UNCHANGED <<config, tools, run, lease, queue>> /\ Run' = Run /\ Tools' = Tools
  BY SameConfig DEF Tick
<1>2. now \in Nat /\ now' \in Time
  <2>1. config.time \in 0 .. MaxTime /\ MaxTime \in Nat /\ now \in Time
    BY TypeParts, ToolRunScenarios, ToolRunConstants DEF Inv
  <2>. QED BY <1>1, <2>1 DEF Time
<1>3. ASSUME NEW r \in Runs PROVE Fine(r)' /\ Within1(r)'
  <2>1. Fine(r) /\ Within1(r) /\ run[r] \in Run
    BY TypeParts DEF Inv
  <2>2. Commanded(r)' /\ Asked(r)' /\ HeldBefore(r)' /\ Within1(r)' /\ Needed(r)' = Needed(r)
    BY <1>1, <2>1 DEF Fine, Commanded, Asked, HeldBefore, Within1, Needed
  <2>3. run[r].stage # "acquiring" /\ (run[r].stage = "running" => now < run[r].deadline)
    BY DEF Tick, At
  <2>4. run[r].deadline \in Nat
    BY <2>1 DEF Run
  <2>5. run[r].stage = "running" => now' <= run[r].deadline
    BY <1>1, <1>2, <2>3, <2>4
  <2>6. LastFresh(r)'
    BY <1>1, <2>1, <2>2, <2>3, <2>5 DEF Fine, LastFresh, Scarcest, Timely
  <2>. QED BY <2>2, <2>6 DEF Fine
<1>4. \A x \in Resources : Queued(x)' /\ Full(x)' /\ Room(x)'
  BY <1>1, TypeParts DEF Inv, Queued, Full, Room, Waiting, At, Wanted, Needed, Holders
<1>5. /\ Range(tools') \subseteq Tools' /\ run' \in [Runs -> Run'] /\ lease' \in Leases
      /\ queue' \in [Resources -> Seq(Runs)]
  BY <1>1, TypeParts DEF Inv, Leases
<1>6. TypeOK'
  BY <1>2, <1>3, <1>4, <1>5 DEF TypeOK, Within1, Queued, Waiting, Busy, Leases
<1>. QED BY <1>1, <1>3, <1>4, <1>6 DEF Inv

LEMMA DetectToolsInv ==
  ASSUME Inv, DetectTools
  PROVE  Inv'
<1>1. /\ tools' = Detected(tools, config.found)
      /\ UNCHANGED <<config, now, run, lease, queue>> /\ Run' = Run /\ Tools' = Tools
  BY SameConfig DEF DetectTools
<1>2. Range(tools') \subseteq Tools'
  <2>1. Range(tools) \subseteq Tools
    BY TypeParts DEF Inv
  <2>2. \A t \in DOMAIN tools' :
          \/ t \in DOMAIN tools /\ tools'[t] = tools[t]
          \/ t \in DOMAIN config.found /\ tools'[t] = config.found[t]
    BY <1>1 DEF Detected
  <2>. QED BY <1>1, <2>1, <2>2 DEF Range, Tools
<1>3. ASSUME NEW r \in Runs PROVE Fine(r)' /\ Within1(r)'
  BY <1>1, FineStays, TypeParts DEF Inv, Within1, Needed
<1>4. \A x \in Resources : Queued(x)' /\ Full(x)' /\ Room(x)'
  BY <1>1, TypeParts DEF Inv, Queued, Full, Room, Waiting, At, Wanted, Needed, Holders
<1>5. /\ now' \in Time /\ run' \in [Runs -> Run'] /\ lease' \in Leases
      /\ queue' \in [Resources -> Seq(Runs)]
  BY <1>1, TypeParts DEF Inv, Leases
<1>6. TypeOK'
  BY <1>2, <1>3, <1>4, <1>5 DEF TypeOK, Within1, Queued, Waiting, Busy, Leases
<1>. QED BY <1>1, <1>3, <1>4, <1>6 DEF Inv

LEMMA InvInit == Init => Inv
<1>. SUFFICES ASSUME Init PROVE Inv
  OBVIOUS
<1>1. MaxTime \in Nat /\ MaxTime + TTL \in Nat
  BY ToolRunConstants
<1>2. Idle \in Run
  BY DEF Idle, Run, Stage, Environments
<1>3. \A r \in Runs : run[r] = Idle /\ run[r].stage = "none" /\ run[r].next = 1
  BY DEF Init, Idle
<1>4. \A r \in Runs, x \in Resources : lease[r][x] = NoLease /\ lease[r][x].state = "none"
  BY DEF Init, NoLease
<1>5. \A r \in Runs : Fine(r) /\ Within1(r)
  BY <1>3, <1>4 DEF Fine, Commanded, Asked, HeldBefore, LastFresh, Within1, Busy
<1>6. ASSUME NEW x \in Resources PROVE Queued(x) /\ Full(x) /\ Room(x)
  <2>1. queue[x] = <<>>
    BY DEF Init
  <2>2. Waiting(x) = {}
    BY <1>3 DEF Waiting, At
  <2>3. Holders(x) = {}
    BY <1>4 DEF Holders
  <2>4. Cardinality(Holders(x)) <= Capacity[x]
    BY <2>3, FS_EmptySet, ToolRunConstants
  <2>5. ToSet(queue[x]) = {} /\ IsInjective(queue[x])
    BY <2>1 DEF ToSet, IsInjective
  <2>. QED BY <2>1, <2>2, <2>4, <2>5 DEF Queued, Full, Room
<1>7. lease \in Leases
  BY <1>1 DEF Init, NoLease, Leases
<1>8. queue \in [Resources -> Seq(Runs)]
  BY EmptySeq DEF Init
<1>9. run \in [Runs -> Run] /\ Range(tools) \subseteq Tools /\ now \in Time
  BY <1>1, <1>2 DEF Init, Tools, Time
<1>10. TypeOK
  BY <1>5, <1>6, <1>7, <1>8, <1>9 DEF TypeOK, Within1, Queued, Waiting, Busy, Leases
<1>. QED BY <1>5, <1>6, <1>10 DEF Inv, Init

LEMMA InvNext == Inv /\ [Next]_vars => Inv'
<1>. SUFFICES ASSUME Inv, [Next]_vars PROVE Inv'
  OBVIOUS
<1>1. CASE UNCHANGED vars
  <2>1. UNCHANGED <<config, tools, now, run, lease, queue>> /\ Run' = Run /\ Tools' = Tools
    BY <1>1, SameConfig DEF vars
  <2>2. \A r \in Runs : Fine(r)' /\ Within1(r)'
    BY <2>1, FineStays, TypeParts DEF Inv, Within1, Needed
  <2>3. \A x \in Resources : Queued(x)' /\ Full(x)' /\ Room(x)'
    BY <2>1, TypeParts DEF Inv, Queued, Full, Room, Waiting, At, Wanted, Needed, Holders
  <2>4. /\ now' \in Time /\ run' \in [Runs -> Run'] /\ lease' \in Leases
        /\ queue' \in [Resources -> Seq(Runs)] /\ Range(tools') \subseteq Tools'
    BY <2>1, TypeParts DEF Inv, Leases
  <2>5. TypeOK'
    BY <2>2, <2>3, <2>4 DEF TypeOK, Within1, Queued, Waiting, Busy, Leases
  <2>. QED BY <2>1, <2>2, <2>3, <2>5 DEF Inv
<1>2. CASE Tick \/ DetectTools
  BY <1>2, TickInv, DetectToolsInv
<1>3. ASSUME NEW r \in config.runs, NEW request \in config.requests, r \in Runs,
             Accept(r, request)
      PROVE  Inv'
  BY <1>3, AloneSteps, AloneInv
<1>4. ASSUME NEW r \in Runs,
             \/ ResolveTool(r) \/ Prepare(r)
             \/ Launch(r) \/ LaunchFails(r) \/ ProcessEnds(r)
      PROVE  Inv'
  BY <1>4, AloneSteps, AloneInv
<1>5. ASSUME NEW r \in Runs,
             \/ AcquireNow(r) \/ Enqueue(r)
             \/ \E x \in Resources : Expire(r, x)
      PROVE  Inv'
  BY <1>5, AcquireNowInv, EnqueueInv, ExpireInv
<1>6. config.runs \subseteq Runs
  BY ToolRunScenarios DEF Inv
<1>. QED BY <1>1, <1>2, <1>3, <1>4, <1>5, <1>6 DEF Next

LEMMA Invariance == Spec => []Inv
BY InvInit, InvNext, PTL DEF Spec

-----------------------------------------------------------------------------
(* The theorems *)

(* Types, how far each run is in its resources, and each queue has exactly *)
(* the runs that wait for its resource, each once.                         *)
THEOREM TypeCorrect == Spec => []TypeOK
<1>1. Inv => TypeOK
  BY DEF Inv
<1>. QED BY <1>1, Invariance, PTL

(* A process has the environment of the session, or a value that the entry *)
(* of its tool or the accelerator gives it: so what is denied is there     *)
(* only because one of these gives it, an isolated root is the session's   *)
(* unless it is set or of the tool, and the daemon's own values are those  *)
(* inherited and the copies (internal/env/env.go:96,                       *)
(* internal/adapter/unity/unity.go:141).                                   *)
THEOREM EnvironmentIsIsolated == Spec => []EnvironmentIsolated
<1>1. ASSUME Inv PROVE EnvironmentIsolated
  <2>. DEFINE session == Build(config.env, config.host)
  <2>. SUFFICES ASSUME NEW r \in Runs, NEW n \in DOMAIN run[r].env
                PROVE  LET value == run[r].env[n]
                       IN  \/ value \in {OfTool, Cache} /\ (n \in Roots => value = OfTool)
                           \/ Isolates(config.env, n, value)
    <3>1. \A value : value \in {OfTool, Cache} => value.from # "host"
      BY DEF OfTool, Cache
    <3>2. \A n \in Isolated(config.env) : n \in Roots
      BY DEF Isolated, Roots
    <3>. QED BY <3>1, <3>2 DEF EnvironmentIsolated, Running, Isolates
  <2>1. \/ run[r].env \in {<<>>, session}
        \/ \E tool \in Tools, command \in Commands :
             run[r].env = ProcessEnv(session, tool, command)
    <3>1. run[r] \in Run
      BY <1>1, TypeParts DEF Inv
    <3>. QED BY <3>1 DEF Run, Environments
  <2>2. run[r].env # <<>>
    BY EmptySeq
  <2>3. CASE run[r].env = session
    BY <2>3, BuildIsolates
  <2>4. ASSUME NEW tool \in Tools, NEW command \in Commands,
               run[r].env = ProcessEnv(session, tool, command)
        PROVE  LET value == run[r].env[n]
               IN  \/ value \in {OfTool, Cache} /\ (n \in Roots => value = OfTool)
                   \/ Isolates(config.env, n, value)
    <3>. DEFINE cached == config.accelerator /\ command # "version"
    <3>1. run[r].env = Overlaid(session, cached, tool.env)
      BY <2>4 DEF ProcessEnv
    <3>. HIDE DEF session, cached
    <3>2. CASE n \in tool.env
      <4>1. run[r].env[n] = OfTool
        BY <3>1, <3>2 DEF Overlaid
      <4>. QED BY <4>1
    <3>3. CASE n \notin tool.env /\ cached /\ n = CacheServer
      <4>1. run[r].env[n] = Cache
        BY <3>1, <3>3 DEF Overlaid
      <4>. QED BY <3>3, <4>1, EnvironmentNames
    <3>4. CASE n \notin tool.env /\ ~(cached /\ n = CacheServer)
      <4>1. n \in DOMAIN session /\ run[r].env[n] = session[n]
        BY <3>1, <3>4 DEF Overlaid
      <4>. QED BY <4>1, BuildIsolates DEF session
    <3>. QED BY <3>2, <3>3, <3>4
  <2>. QED BY <2>1, <2>2, <2>3, <2>4
<1>. QED BY <1>1, Invariance, PTL

(* The tools that are known are as the registry keeps them, and what was   *)
(* accepted was asked for.                                                 *)
Registered ==
  /\ ToolTable(tools)
  /\ \A r \in Runs : run[r].stage = "accepted" => run[r].request \in config.requests

LEMMA RegisteredInit == Init => Registered
<1>. SUFFICES ASSUME Init PROVE Registered
  OBVIOUS
<1>1. \A r \in Runs : run[r].stage # "accepted"
  BY DEF Init, Idle
<1>2. ToolTable(tools)
  BY ToolRunScenarios DEF Init, ToolTable
<1>. QED BY <1>1, <1>2 DEF Registered

LEMMA RegisteredStep == Inv /\ Registered /\ [Next]_vars => Registered'
<1>. SUFFICES ASSUME Inv, Registered, [Next]_vars PROVE Registered'
  OBVIOUS
<1>0. run \in [Runs -> Run] /\ config \in Scenarios /\ config.runs \subseteq Runs
  BY TypeParts, ToolRunScenarios DEF Inv
<1>1. ToolTable(tools')
  <2>1. CASE DetectTools
    <3>1. ToolTable(config.found)
      BY <1>0, ToolRunScenarios DEF ToolTable
    <3>. QED BY <2>1, <3>1 DEF DetectTools, Detected, Registered, ToolTable
  <2>2. CASE ~DetectTools
    <3>1. UNCHANGED tools
      BY <2>2 DEF Next, vars, Tick, Accept, ResolveTool, Prepare, AcquireNow, Enqueue,
                  Expire, Launch, LaunchFails, ProcessEnds
    <3>. QED BY <3>1 DEF Registered, ToolTable
  <2>. QED BY <2>1, <2>2
<1>2. UNCHANGED config
  BY DEF Next, vars, Tick, DetectTools, Accept, ResolveTool, Prepare, AcquireNow, Enqueue,
         Expire, Launch, LaunchFails, ProcessEnds
<1>3. ASSUME NEW q \in Runs, run'[q].stage = "accepted"
      PROVE  run'[q].request \in config.requests
  <2>1. CASE UNCHANGED run
    BY <1>3, <2>1 DEF Registered
  <2>2. ASSUME NEW r \in Runs, NEW request \in config.requests, Accept(r, request)
        PROVE  run'[q].request \in config.requests
    <3>1. CASE run' = [run EXCEPT ![r].stage = "accepted", ![r].request = request]
      BY <1>0, <1>3, <3>1 DEF Registered, Run
    <3>2. CASE Over(r)
      BY <1>0, <1>3, <3>2, OverRun DEF Registered
    <3>. QED BY <2>2, <3>1, <3>2 DEF Accept
  <2>3. ASSUME NEW r \in Runs, NEW stage, stage # "accepted",
               run'[r].stage = stage, \A p \in Runs \ {r} : run'[p] = run[p]
        PROVE  run'[q].request \in config.requests
    BY <1>3, <2>3 DEF Registered
  <2>4. ASSUME NEW r \in Runs,
               ResolveTool(r) \/ Prepare(r) \/ Launch(r) \/ LaunchFails(r) \/ ProcessEnds(r)
        PROVE  run'[q].request \in config.requests
    <3>1. Alone(r)
      BY <2>4, AloneSteps
    <3>2. run'[r].stage # "accepted"
      <4>1. CASE Over(r)
        BY <1>0, <4>1, OverRun
      <4>2. CASE ~Over(r)
        BY <1>0, <2>4, <4>2
           DEF ResolveTool, Prepare, Launch, LaunchFails, ProcessEnds, Run
      <4>. QED BY <4>1, <4>2
    <3>. QED BY <2>3, <3>1, <3>2 DEF Alone
  <2>5. ASSUME NEW r \in Runs, AcquireNow(r) \/ Enqueue(r)
        PROVE  run'[q].request \in config.requests
    <3>1. run'[r].stage \in {"acquiring", "waiting"} /\ \A p \in Runs \ {r} : run'[p] = run[p]
      BY <1>0, <2>5 DEF AcquireNow, Enqueue, Acquiring, At, Run
    <3>. QED BY <2>3, <3>1
  <2>6. ASSUME NEW r \in Runs, NEW x \in Resources, Expire(r, x)
        PROVE  run'[q].request \in config.requests
    <3>1. CASE queue[x] = <<>>
      BY <2>1, <2>6, <3>1 DEF Expire
    <3>2. CASE queue[x] # <<>>
      <4>. DEFINE head == Head(queue[x])
      <4>1. head \in Runs
        BY <3>2, TypeParts, HeadTailProperties DEF Inv
      <4>2. run' = [run EXCEPT ![head].stage = "acquiring", ![head].next = @ + 1]
        BY <2>6, <3>2 DEF Expire
      <4>. HIDE DEF head
      <4>3. run'[head].stage = "acquiring" /\ \A p \in Runs \ {head} : run'[p] = run[p]
        BY <1>0, <4>1, <4>2 DEF Run
      <4>. QED BY <2>3, <4>1, <4>3
    <3>. QED BY <3>1, <3>2
  <2>7. CASE Tick \/ DetectTools \/ UNCHANGED vars
    BY <2>1, <2>7 DEF Tick, DetectTools, vars
  <2>. QED BY <1>0, <2>2, <2>4, <2>5, <2>6, <2>7 DEF Next
<1>. QED BY <1>1, <1>2, <1>3 DEF Registered, ToolTable

(* The tools that meet a requirement and have an adapter.                  *)
Adapted(request) == {t \in Fitting(tools, request) : tools[t].type \in Adapters}

(* Where a requirement leads: to a run with a tool that meets it and has   *)
(* an adapter, or to a refusal.                                            *)
Decided(r) ==
  LET request == run[r].request
  IN  \/ /\ run'[r].stage = "resolved"
         /\ \E t \in Adapted(request) : run'[r].tool = tools[t]
      \/ /\ run'[r].stage = "over"
         /\ Fitting(tools, request) = {} \/ Adapted(request) # Fitting(tools, request)

(* A requirement is refused only if no enabled tool meets it, or if one    *)
(* that does has a type without an adapter; else the run goes on with one  *)
(* that meets it and has an adapter: the comparison of scores always finds *)
(* a tool (internal/registry/registry.go:191,                              *)
(* internal/daemon/service.go:561, 571).                                   *)
THEOREM NoneIsRefusedATool == Spec => RefusedOnlyForWant
<1>1. ASSUME Inv, Registered, [Next]_vars,
             NEW r \in Runs, At(r, "accepted"), run'[r].stage # "accepted",
             run[r].request.id = None
      PROVE  Decided(r)
  <2>. DEFINE request == run[r].request
  <2>1. run \in [Runs -> Run] /\ run[r] \in Run
    BY <1>1, TypeParts DEF Inv
  <2>2. ResolveTool(r)
    <3>. SUFFICES ASSUME ~ResolveTool(r) PROVE run'[r] = run[r]
      BY <1>1 DEF At
    <3>0. run[r].stage = "accepted" /\ config.runs \subseteq Runs
      BY <1>1, ToolRunScenarios DEF At, Inv
    <3>1. ASSUME NEW q \in Runs, NEW asked \in config.requests, Accept(q, asked)
          PROVE  run'[r] = run[r]
      <4>1. Alone(q) /\ q # r
        BY <1>1, <3>0, <3>1, AloneSteps DEF Accept, At
      <4>. QED BY <4>1 DEF Alone
    <3>2. ASSUME NEW q \in Runs,
                 ResolveTool(q) \/ Prepare(q) \/ Launch(q) \/ LaunchFails(q) \/ ProcessEnds(q)
          PROVE  run'[r] = run[r]
      <4>1. Alone(q)
        BY <1>1, <3>2, AloneSteps
      <4>2. q # r
        BY <3>0, <3>2 DEF Prepare, Launch, LaunchFails, ProcessEnds, At
      <4>. QED BY <4>1, <4>2 DEF Alone
    <3>3. ASSUME NEW q \in Runs, AcquireNow(q) \/ Enqueue(q)
          PROVE  run'[r] = run[r]
      BY <2>1, <3>0, <3>3 DEF AcquireNow, Enqueue, Acquiring, At
    <3>4. ASSUME NEW q \in Runs, NEW x \in Resources, Expire(q, x)
          PROVE  run'[r] = run[r]
      <4>1. CASE queue[x] = <<>>
        BY <3>4, <4>1 DEF Expire
      <4>2. CASE queue[x] # <<>>
        <5>. DEFINE head == Head(queue[x])
        <5>1. head \in ToSet(queue[x])
          <6>1. queue[x] \in Seq(Runs)
            BY <1>1, TypeParts DEF Inv
          <6>2. 1 \in DOMAIN queue[x] /\ head = queue[x][1]
            BY <4>2, <6>1
          <6>. QED BY <6>2 DEF ToSet
        <5>2. run[head].stage = "waiting"
          BY <1>1, <5>1, TypeParts DEF Inv, Queued, Waiting, At
        <5>3. run' = [run EXCEPT ![head].stage = "acquiring", ![head].next = @ + 1]
          BY <3>4, <4>2 DEF Expire
        <5>. HIDE DEF head
        <5>. QED BY <2>1, <3>0, <5>2, <5>3
      <4>. QED BY <4>1, <4>2
    <3>5. CASE Tick \/ DetectTools \/ UNCHANGED vars
      BY <3>5 DEF Tick, DetectTools, vars
    <3>. QED BY <1>1, <3>0, <3>1, <3>2, <3>3, <3>4, <3>5 DEF Next
  <2>3. ToolTable(tools) /\ request.version \in Seq(Segments)
    BY <1>1, ToolRunScenarios DEF Registered, At, Inv
  <2>4. /\ Fitting(tools, request) # {} => Resolved(tools, request) # {}
        /\ Resolved(tools, request) \subseteq Fitting(tools, request)
    BY <2>3, ResolveFindsOne
  <2>5. \A t \in Resolved(tools, request) : ~tools[t].disabled
    BY <2>4 DEF Fitting, Candidates
  <2>. DEFINE found == {t \in Resolved(tools, request) : tools[t].type \in Adapters}
  <2>6. found = {t \in ToolsFor(request) : ~tools[t].disabled /\ tools[t].type \in Adapters}
    BY <1>1, <2>5 DEF ToolsFor
  <2>7. CASE Over(r) /\ found = {}
    <3>1. run'[r].stage = "over"
      BY <2>1, <2>7, OverRun
    <3>2. Fitting(tools, request) # {} => Adapted(request) # Fitting(tools, request)
      BY <2>4, <2>7 DEF Adapted
    <3>. QED BY <3>1, <3>2 DEF Decided
  <2>8. ASSUME NEW t \in found, run' = [run EXCEPT ![r].stage = "resolved", ![r].tool = tools[t]]
        PROVE  Decided(r)
    <3>1. run'[r].stage = "resolved" /\ run'[r].tool = tools[t]
      BY <2>1, <2>8 DEF Run
    <3>2. t \in Adapted(request)
      BY <2>4, <2>8 DEF Adapted
    <3>. QED BY <3>1, <3>2 DEF Decided
  <2>9. \/ \E t \in found : run' = [run EXCEPT ![r].stage = "resolved", ![r].tool = tools[t]]
        \/ found = {} /\ Over(r)
    <3>. HIDE DEF found
    <3>. QED BY <2>2, <2>6 DEF ResolveTool
  <2>. QED BY <2>7, <2>8, <2>9
<1>2. Inv /\ Registered /\ [Next]_vars =>
        [\A r \in Runs :
           LET request == run[r].request
               fitting == {t \in Candidates(tools, request) : Satisfies(tools[t].version, request)}
               adapted == {t \in fitting : tools[t].type \in Adapters}
           IN  At(r, "accepted") /\ run'[r].stage # "accepted" /\ request.id = None =>
                 \/ /\ run'[r].stage = "resolved"
                    /\ \E t \in adapted : run'[r].tool = tools[t]
                 \/ /\ run'[r].stage = "over"
                    /\ fitting = {} \/ adapted # fitting]_vars
  BY <1>1 DEF Fitting, Adapted, Decided
<1>. QED BY <1>2, Invariance, RegisteredInit, RegisteredStep, PTL DEF Spec, RefusedOnlyForWant

(* A process runs for a subject that the rules permit to use tools, with a *)
(* tool that nobody disabled and that meets what was required, whatever is *)
(* detected meanwhile (internal/daemon/service.go:546, 561, 568).          *)
THEOREM RunsAreAsAsked == Spec => []RunsAsAsked
<1>1. ASSUME Inv PROVE RunsAsAsked
  <2>. SUFFICES ASSUME NEW r \in Running
                PROVE  LET request == run[r].request
                       IN  /\ Permitted(config.rules, request.owner, "tool.execute")
                           /\ ~run[r].tool.disabled
                           /\ request.id = None =>
                                /\ SameType(run[r].tool.type, request.type)
                                /\ Satisfies(run[r].tool.version, request)
    BY DEF RunsAsAsked
  <2>1. r \in Runs /\ run[r].stage = "running"
    BY DEF Running, At
  <2>2. Asked(r)
    BY <1>1, <2>1 DEF Inv, Fine
  <2>. QED BY <2>1, <2>2 DEF Asked, Busy
<1>. QED BY <1>1, Invariance, PTL

LEMMA RunningHoldsLast ==
  ASSUME Inv, NEW r \in Running, Timely(r), Needed(r) # <<>>
  PROVE  r \in Runs /\ lease[r][Scarcest(r)].state = "held"
<1>1. r \in Runs /\ run[r].stage = "running"
  BY DEF Running, At
<1>2. Commanded(r) /\ LastFresh(r)
  BY <1>1 DEF Inv, Fine
<1>. QED BY <1>1, <1>2 DEF Commanded, LastFresh, Busy

(* A process whose limit is within the ttl has the lease that was acquired *)
(* last for it until it is killed at the latest, whatever limits other     *)
(* runs have (internal/adapter/unity/unity.go:93, 207).                    *)
THEOREM LastLeaseIsHeld == Spec => []LastLeaseHeld
<1>1. Inv => LastLeaseHeld
  BY RunningHoldsLast DEF LastLeaseHeld
<1>. QED BY <1>1, Invariance, PTL

(* Hence a resource that is acquired last is never used by more of these   *)
(* processes than it admits (internal/adapter/unity/unity.go:49).          *)
THEOREM StaysWithinCapacity == Spec => []WithinCapacity
<1>1. ASSUME Inv PROVE WithinCapacity
  <2>. SUFFICES ASSUME NEW x \in Resources
                PROVE  Cardinality({r \in Running : /\ Timely(r) /\ Needed(r) # <<>>
                                                    /\ Scarcest(r) = x}) <= Capacity[x]
    BY DEF WithinCapacity
  <2>. DEFINE users == {r \in Running : Timely(r) /\ Needed(r) # <<>> /\ Scarcest(r) = x}
  <2>1. users \subseteq Holders(x)
    BY <1>1, RunningHoldsLast DEF Holders
  <2>2. Cardinality(users) <= Cardinality(Holders(x)) /\ Cardinality(users) \in Nat
    BY <2>1, HoldersFinite, FS_Subset, FS_CardinalityType
  <2>3. Cardinality(Holders(x)) <= Capacity[x] /\ Capacity[x] \in Nat
    BY <1>1, ToolRunConstants DEF Inv, Room
  <2>. HIDE DEF users
  <2>4. Cardinality(users) <= Capacity[x]
    BY <2>2, <2>3, HoldersFinite
  <2>. QED BY <2>4 DEF users
<1>. QED BY <1>1, Invariance, PTL

(* Runs that wait never wait for each other in a cycle: the one that waits *)
(* for the resource with the last place waits for a run that does not wait *)
(* (internal/adapter/unity/unity.go:49, 92).                               *)
THEOREM NobodyWaitsInACycle == Spec => []NoCycle
<1>1. ASSUME Inv PROVE NoCycle
  <2>. SUFFICES ASSUME NEW rs \in SUBSET {r \in Runs : At(r, "waiting")}, rs # {},
                       \A r \in rs : Holders(Wanted(r)) \subseteq rs
                PROVE  FALSE
    BY DEF NoCycle
  <2>1. PICK place \in Orders : InOrder(place)
    BY NeedsOrdered DEF Orders, InOrder
  <2>2. ASSUME NEW r \in rs
        PROVE  r \in Runs /\ run[r].stage = "waiting" /\ Wanted(r) \in Resources
    <3>1. r \in Runs /\ run[r].stage = "waiting"
      BY DEF At
    <3>2. run[r].stage \in Busy /\ run[r].next <= Len(Needed(r))
      BY <1>1, <3>1 DEF Inv, Fine, Commanded, Busy
    <3>. QED BY <1>1, <3>1, <3>2, WantedType
  <2>. DEFINE Rest(r) == Cardinality(Resources) - place[Wanted(r)]
              Rests == {Rest(r) : r \in rs}
  <2>3. PICK m \in Rests : \A n \in Rests : m <= n
    <3>1. Rests \in SUBSET Nat /\ Rests # {}
      BY <2>1, <2>2, PlaceType
    <3>. HIDE DEF Rests
    <3>. QED BY <3>1, Least
  <2>4. PICK r \in rs : \A q \in rs : Rest(r) <= Rest(q)
    BY <2>3
  <2>5. PICK h \in Runs : h \in Holders(Wanted(r))
    <3>1. r \in ToSet(queue[Wanted(r)])
      BY <1>1, <2>2, TypeParts DEF Inv, Queued, Waiting, At
    <3>2. queue[Wanted(r)] # <<>>
      BY <3>1, EmptySeq DEF ToSet
    <3>3. Cardinality(Holders(Wanted(r))) >= Capacity[Wanted(r)]
      BY <1>1, <2>2, <3>2 DEF Inv, Full
    <3>4. Cardinality(Holders(Wanted(r))) # 0
      BY <2>2, <3>3, HoldersFinite, ToolRunConstants
    <3>5. Holders(Wanted(r)) # {}
      BY <3>4, FS_EmptySet
    <3>. QED BY <3>5 DEF Holders
  <2>6. h \in rs
    BY <2>4, <2>5
  <2>7. place[Wanted(r)] < place[Wanted(h)]
    BY <1>1, <2>1, <2>2, <2>4, <2>5, <2>6, WaitsForLater
  <2>8. place[Wanted(r)] \in Nat /\ place[Wanted(h)] \in Nat /\ Cardinality(Resources) \in Nat
    BY <2>1, <2>2, <2>4, <2>6, PlaceType
  <2>9. Rest(r) <= Rest(h)
    BY <2>4, <2>6
  <2>. QED BY <2>7, <2>8, <2>9
<1>. QED BY <1>1, Invariance, PTL

-----------------------------------------------------------------------------
(* The place is a fair semaphore *)

(* A step of the semaphore, or none. *)
PlaceStep ==
  \/ Places!Next
  \/ UNCHANGED <<Grantees(Place), Holders(Place), queue[Place]>>

(* What a run wants it was never given before: it has a lease only on what *)
(* it has been through, and no command has a resource twice.               *)
LEMMA NeverHad ==
  ASSUME Inv, NEW r \in Runs, run[r].stage \in {"acquiring", "waiting"},
         run[r].next <= Len(Needed(r))
  PROVE  lease[r][Wanted(r)].state = "none"
<1>1. Fine(r) /\ run[r].stage \in Busy /\ run[r].request.command \in DOMAIN Needs
  BY DEF Inv, Fine, Commanded, Busy
<1>2. Wanted(r) \in Resources /\ run[r].next \in DOMAIN Needed(r) /\ run[r].next \in Nat
  BY <1>1, WantedType
<1>3. PICK place \in Orders : InOrder(place)
  BY NeedsOrdered DEF Orders, InOrder
<1>4. place[Wanted(r)] \in Nat
  BY <1>2, <1>3, PlaceType
<1>. SUFFICES ASSUME lease[r][Wanted(r)].state # "none"
              PROVE  FALSE
  OBVIOUS
<1>5. PICK k \in 1 .. run[r].next - 1 : k \in DOMAIN Needed(r) /\ Needed(r)[k] = Wanted(r)
  BY <1>1, <1>2 DEF Fine, HeldBefore, Busy
<1>6. k < run[r].next
  BY <1>2, <1>5
<1>7. place[Needed(r)[k]] < place[Needed(r)[run[r].next]]
  BY <1>1, <1>2, <1>3, <1>5, <1>6 DEF Needed, InOrder
<1>8. place[Wanted(r)] < place[Wanted(r)]
  BY <1>5, <1>7 DEF Wanted
<1>. QED BY <1>4, <1>8

(* A lease on the place for a run that had none.                           *)
LEMMA GrantedToRun ==
  ASSUME NEW r \in Runs, lease[r][Place].state = "none", lease'[r][Place].state # "none",
         \A q \in Runs \ {r} : (lease'[q][Place].state # "none") <=> (lease[q][Place].state # "none")
  PROVE  Places!Grant(r, r)
<1>. DEFINE had == {q \in Runs : lease[q][Place].state # "none"}
            has == {q \in Runs : lease'[q][Place].state # "none"}
<1>1. has = had \cup {r} /\ r \notin had
  OBVIOUS
<1>2. Grantees(Place) = [q \in had |-> q] /\ Grantees(Place)' = [q \in has |-> q]
  BY DEF Grantees
<1>. HIDE DEF had, has
<1>3. DOMAIN Grantees(Place) = had
  BY <1>2
<1>4. [q \in has |-> q] = [q \in had \cup {r} |-> IF q = r THEN r ELSE Grantees(Place)[q]]
  BY <1>1, <1>2
<1>. QED BY <1>1, <1>2, <1>3, <1>4 DEF Places!Grant

LEMMA GranteesStay ==
  ASSUME \A q \in Runs : (lease'[q][Place].state # "none") <=> (lease[q][Place].state # "none")
  PROVE  Grantees(Place)' = Grantees(Place)
<1>1. {q \in Runs : lease'[q][Place].state # "none"} = {q \in Runs : lease[q][Place].state # "none"}
  OBVIOUS
<1>. QED BY <1>1 DEF Grantees

LEMMA AcquireNowIsStep ==
  ASSUME Inv, NEW r \in Runs, AcquireNow(r)
  PROVE  PlaceStep
<1>. SUFFICES ASSUME NEW x, x = Wanted(r)
              PROVE  PlaceStep
  OBVIOUS
<1>1. /\ run[r].stage = "acquiring" /\ run[r].next <= Len(Needed(r))
      /\ Cardinality(Holders(x)) < Capacity[x]
      /\ lease' = [lease EXCEPT ![r][x] = Held(now + TTL)]
      /\ UNCHANGED queue
  BY DEF AcquireNow, Acquiring, At
<1>2. lease \in Leases /\ x \in Resources /\ Place \in Resources
  BY <1>1, WantedType, TypeParts, PlaceAssumption DEF Inv, Leases, Busy
<1>3. /\ \A q \in Runs \ {r} : lease'[q] = lease[q]
      /\ lease'[r][x].state = "held"
      /\ \A y \in Resources \ {x} : lease'[r][y] = lease[r][y]
  BY <1>1, <1>2 DEF Leases, Held
<1>4. CASE x # Place
  <2>1. \A q \in Runs : lease'[q][Place] = lease[q][Place]
    BY <1>2, <1>3, <1>4
  <2>. QED BY <1>1, <2>1, GranteesStay DEF PlaceStep, Holders
<1>5. CASE x = Place
  <2>1. lease[r][Place].state = "none"
    BY <1>1, <1>5, NeverHad
  <2>2. Places!Grant(r, r)
    BY <1>3, <1>5, <2>1, GrantedToRun
  <2>3. Holders(Place)' = Holders(Place) \cup {r}
    BY <1>3, <1>5 DEF Holders
  <2>4. queue[Place] = <<>>
    <3>1. Capacity[Place] \in Nat /\ Full(Place)
      BY <1>2, ToolRunConstants DEF Inv
    <3>. QED BY <1>1, <1>5, <3>1, HoldersFinite DEF Full
  <2>5. Places!Take(r, r)
    BY <1>1, <1>5, <2>2, <2>3, <2>4 DEF Places!Take, Places!Cardinality, Cardinality
  <2>. QED BY <2>5 DEF PlaceStep, Places!Next
<1>. QED BY <1>4, <1>5

LEMMA EnqueueIsStep ==
  ASSUME Inv, NEW r \in Runs, Enqueue(r)
  PROVE  PlaceStep
<1>. SUFFICES ASSUME NEW x, x = Wanted(r)
              PROVE  PlaceStep
  OBVIOUS
<1>1. /\ Cardinality(Holders(x)) >= Capacity[x]
      /\ queue' = [queue EXCEPT ![x] = Append(queue[x], r)]
      /\ UNCHANGED lease
  BY DEF Enqueue
<1>2. queue \in [Resources -> Seq(Runs)] /\ Place \in Resources
  BY TypeParts, PlaceAssumption DEF Inv
<1>3. Grantees(Place)' = Grantees(Place) /\ Holders(Place)' = Holders(Place)
  BY <1>1 DEF Grantees, Holders
<1>4. CASE x # Place
  BY <1>1, <1>2, <1>3, <1>4 DEF PlaceStep
<1>5. CASE x = Place
  <2>1. Places!Join(r)
    BY <1>1, <1>2, <1>3, <1>5 DEF Places!Join, Places!Cardinality, Cardinality
  <2>. QED BY <2>1 DEF PlaceStep, Places!Next
<1>. QED BY <1>4, <1>5

LEMMA ExpireIsStep ==
  ASSUME Inv, NEW r \in Runs, NEW x \in Resources, Expire(r, x)
  PROVE  PlaceStep
<1>1. lease[r][x].state = "held"
  BY DEF Expire
<1>2. /\ lease \in Leases /\ queue \in [Resources -> Seq(Runs)] /\ Place \in Resources
      /\ Queued(x) /\ \A q \in Runs : Fine(q)
  BY TypeParts, PlaceAssumption DEF Inv, Leases
<1>3. CASE queue[x] = <<>>
  <2>1. lease' = [lease EXCEPT ![r][x].state = "over"] /\ UNCHANGED queue
    BY <1>3 DEF Expire
  <2>2. \A q \in Runs, y \in Resources :
          IF q = r /\ y = x THEN lease'[q][y].state = "over" ELSE lease'[q][y] = lease[q][y]
    BY <1>2, <2>1 DEF Leases
  <2>3. Grantees(Place)' = Grantees(Place)
    BY <1>1, <1>2, <2>2, GranteesStay
  <2>4. CASE x # Place
    <3>1. Holders(Place)' = Holders(Place)
      BY <1>2, <2>2, <2>4 DEF Holders
    <3>. QED BY <2>1, <2>3, <3>1 DEF PlaceStep
  <2>5. CASE x = Place
    <3>1. Holders(Place)' = Holders(Place) \ {r} /\ r \in Holders(Place)
      BY <1>1, <1>2, <2>2, <2>5 DEF Holders
    <3>2. Places!Return(r)
      BY <1>3, <2>1, <2>3, <2>5, <3>1 DEF Places!Return
    <3>. QED BY <3>1, <3>2 DEF PlaceStep, Places!Next
  <2>. QED BY <2>4, <2>5
<1>4. CASE queue[x] # <<>>
  <2>1. PICK head \in Runs : head = Head(queue[x])
    BY <1>2, <1>4, HeadTailProperties
  <2>2. /\ lease' = [lease EXCEPT ![r][x].state = "over", ![head][x] = Held(0)]
        /\ queue' = [queue EXCEPT ![x] = Tail(queue[x])]
    BY <1>4, <2>1 DEF Expire
  <2>3. run[head].stage = "waiting" /\ Wanted(head) = x
    <3>1. head \in Waiting(x)
      BY <1>2, <1>4, <2>1, TailQueue DEF Queued
    <3>. QED BY <3>1 DEF Waiting, At
  <2>4. lease[head][x].state = "none"
    <3>1. run[head].next <= Len(Needed(head))
      BY <1>2, <2>3 DEF Fine, Commanded
    <3>. QED BY <2>3, <3>1, NeverHad
  <2>5. head # r
    BY <1>1, <2>4
  <2>6. \A q \in Runs, y \in Resources :
          CASE q = r /\ y = x    -> lease'[q][y].state = "over"
            [] q = head /\ y = x -> lease'[q][y].state = "held"
            [] OTHER             -> lease'[q][y] = lease[q][y]
    BY <1>2, <2>2, <2>5 DEF Leases, Held
  <2>7. CASE x # Place
    <3>1. \A q \in Runs : lease'[q][Place] = lease[q][Place]
      BY <1>2, <2>6, <2>7
    <3>2. queue'[Place] = queue[Place]
      BY <1>2, <2>2, <2>7
    <3>. QED BY <3>1, <3>2, GranteesStay DEF PlaceStep, Holders
  <2>8. CASE x = Place
    <3>1. /\ lease'[r][Place].state = "over" /\ lease'[head][Place].state = "held"
          /\ \A q \in Runs \ {r, head} : lease'[q][Place] = lease[q][Place]
      BY <1>2, <2>5, <2>6, <2>8
    <3>2. Places!Grant(head, head)
      BY <1>1, <2>4, <2>8, <3>1, GrantedToRun
    <3>3. Holders(Place)' = (Holders(Place) \ {r}) \cup {head} /\ r \in Holders(Place)
      BY <1>1, <2>5, <2>8, <3>1 DEF Holders
    <3>4. queue'[Place] = Tail(queue[Place])
      BY <1>2, <2>2, <2>8
    <3>5. Places!PassOn(r, head)
      BY <1>4, <2>1, <2>8, <3>2, <3>3, <3>4 DEF Places!PassOn
    <3>. QED BY <3>3, <3>5 DEF PlaceStep, Places!Next
  <2>. QED BY <2>7, <2>8
<1>. QED BY <1>3, <1>4

(* Each resource is the same fair semaphore to the runs that need it: what *)
(* the policy, the registry, the clock or the end of a process do to a run *)
(* changes nothing in who has the place and who is next, and each run gets *)
(* it at most once (internal/adapter/unity/unity.go:92;                    *)
(* internal/lease/manager.go:297, 387).                                    *)
THEOREM PlacesAreSemaphores == Spec => PlaceIsSemaphore
<1>1. Init => Places!Init
  <2>. SUFFICES ASSUME Init PROVE Places!Init
    OBVIOUS
  <2>1. \A r \in Runs : lease[r][Place].state = "none"
    BY PlaceAssumption DEF Init, NoLease
  <2>2. Grantees(Place) = [g \in {} |-> {}] /\ Holders(Place) = {}
    BY <2>1 DEF Grantees, Holders
  <2>3. queue[Place] = <<>>
    BY PlaceAssumption DEF Init
  <2>. QED BY <2>2, <2>3 DEF Places!Init
<1>2. Inv /\ [Next]_vars => [Places!Next]_(Places!vars)
  <2>. SUFFICES ASSUME Inv, [Next]_vars PROVE PlaceStep
    BY DEF PlaceStep, Places!vars
  <2>1. CASE UNCHANGED <<lease, queue>>
    BY <2>1 DEF PlaceStep, Grantees, Holders
  <2>2. ASSUME NEW r \in Runs,
               \/ AcquireNow(r) \/ Enqueue(r)
               \/ \E x \in Resources : Expire(r, x)
        PROVE  PlaceStep
    BY <2>2, AcquireNowIsStep, EnqueueIsStep, ExpireIsStep
  <2>. QED BY <2>1, <2>2
           DEF Next, vars, Tick, DetectTools, Accept, ResolveTool, Prepare,
               Launch, LaunchFails, ProcessEnds
<1>. QED BY <1>1, <1>2, Invariance, PTL DEF Spec, PlaceIsSemaphore, Places!Spec

=============================================================================
