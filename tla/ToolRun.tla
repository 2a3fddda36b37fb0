------------------------------ MODULE ToolRun ------------------------------
(***************************************************************************)
(* The way of a tool run from the request to the end of its process:       *)
(* Execute (internal/daemon/service.go) asks the policy, resolves the      *)
(* tool, builds the environment and prepares the run; the Unity adapter    *)
(* (internal/adapter/unity/unity.go) acquires the leases of its command    *)
(* one after the other, in one order, and launches the process under a     *)
(* time limit.  The adapter gives each lease a ttl and releases none.      *)
(*                                                                         *)
(* Time counts in steps of half an hour.  The steps of the daemon take no  *)
(* time; waiting for a lease and running do.  Sweep ends leases whose ttl  *)
(* is over, at its next tick.                                              *)
(*                                                                         *)
(* Abstractions: no session is terminated (Daemon has that), so a lease    *)
(* ends by its ttl alone; the queue of a resource is the essence of what   *)
(* LeaseManager models; the output of a run and its test report are left   *)
(* out.                                                                    *)
(***************************************************************************)
EXTENDS Policy, Registry, Environment

CONSTANTS
  Runs,       \* runs of tools
  Resources,  \* ids of resources
  Capacity,   \* how many leases each resource admits
  Needs,      \* cmdResources: the resources of each command, in order
  Scripted,   \* commands that cannot do without --method
  Limit,      \* the time limit of each command by default
  Adapters,   \* the types of tools that there is an adapter for
  TTL,        \* the ttl of the adapter's leases
  Scenarios,  \* configurations, what is installed, what is asked for by
              \* which runs, and the bound of the clock
  None,       \* no tool, no request
  MaxTime     \* the greatest of these bounds

ASSUME ToolRunConstants ==
  /\ IsFiniteSet(Runs)
  /\ IsFiniteSet(Resources)
  /\ Capacity \in [Resources -> Nat \ {0}]
  /\ Needs \in [DOMAIN Needs -> Seq(Resources)]
  /\ "version" \in DOMAIN Needs
  /\ Limit \in [DOMAIN Needs -> Nat \ {0}]
  /\ TTL \in Nat \ {0}
  /\ MaxTime \in Nat

(* cmdResources has the resources of every command in one order: the slot, *)
(* the license, the gpu.                                                   *)
ASSUME NeedsOrdered ==
  \E place \in [Resources -> 0 .. Cardinality(Resources)] :
    \A command \in DOMAIN Needs : \A j, k \in DOMAIN Needs[command] :
      j < k => place[Needs[command][j]] < place[Needs[command][k]]

ASSUME ToolRunScenarios ==
  \A s \in Scenarios :
    /\ s.time \in 0 .. MaxTime
    /\ s.runs \subseteq Runs
    /\ \A i \in DOMAIN s.rules : i \in Nat /\ Len(s.rules[i].text) \in Nat
    /\ \A table \in {s.tools, s.found} : \A t \in DOMAIN table :
         t \in Nat /\ table[t].version \in Seq(Segments)
    /\ \A request \in s.requests :
         /\ Len(request.owner) \in Nat
         /\ request.version \in Seq(Segments)
         /\ request.limit \in Nat

VARIABLES
  config,  \* the scenario
  tools,   \* Registry.tools
  now,     \* the clock
  run,     \* the runs
  lease,   \* what each run has of each resource
  queue    \* waiters of each resource: runs, first come first

vars == <<config, tools, now, run, lease, queue>>

-----------------------------------------------------------------------------

Time == 0 .. MaxTime

(* "over": Execute or its goroutine is done, with or without an error;     *)
(* what it worked with is not kept.                                        *)
Stage == {"none", "accepted", "resolved", "acquiring", "waiting", "running", "over"}

Idle == [stage |-> "none", request |-> None, tool |-> None, env |-> <<>>,
         next |-> 1, deadline |-> 0]

NoLease == [state |-> "none", exp |-> 0]

(* Mutant: one command declares its resources in the opposite order. *)
NeededUnordered(r) ==
  LET order == Needs[run[r].request.command]
  IN  IF run[r].request.command = "build" THEN Reverse(order) ELSE order

Needed(r) == Needs[run[r].request.command]

Wanted(r) == Needed(r)[run[r].next]

(* timeoutMinutes: a limit in the request (0 is none) replaces the default *)
(* of the command, however long it is; version has a limit of its own.     *)
RunLimit(request) ==
  IF request.limit = 0 \/ request.command = "version"
    THEN Limit[request.command] ELSE request.limit

Holders(x) == {r \in Runs : lease[r][x].state = "held"}

Init ==
  /\ config \in Scenarios
  /\ tools = config.tools
  /\ now = 0
  /\ run = [r \in Runs |-> Idle]
  /\ lease = [r \in Runs |-> [x \in Resources |-> NoLease]]
  /\ queue = [x \in Resources |-> <<>>]

At(r, stage) == run[r].stage = stage

Over(r) == run' = [run EXCEPT ![r] = [Idle EXCEPT !.stage = "over"]]

-----------------------------------------------------------------------------
(* Execute *)

Accept(r, request) ==
  /\ At(r, "none")
  /\ IF Evaluate(config.rules, request.owner, "tool.execute")
       THEN run' = [run EXCEPT ![r].stage = "accepted", ![r].request = request]
       ELSE Over(r)
  /\ UNCHANGED <<config, tools, now, lease, queue>>

(* DetectTools, at any time. *)
DetectTools ==
  /\ tools' = Detected(tools, config.found)
  /\ UNCHANGED <<config, now, run, lease, queue>>

(* A request names a tool, or has a requirement. *)
ToolsFor(request) ==
  IF request.id # None THEN {request.id} \cap DOMAIN tools
                       ELSE Resolved(tools, request)

(* A disabled tool is refused, and one of a type without an adapter.       *)
ResolveTool(r) ==
  LET found == {t \in ToolsFor(run[r].request) :
                  ~tools[t].disabled /\ tools[t].type \in Adapters}
  IN  /\ At(r, "accepted")
      /\ \/ \E t \in found :
              run' = [run EXCEPT ![r].stage = "resolved", ![r].tool = tools[t]]
         \/ found = {} /\ Over(r)
      /\ UNCHANGED <<config, tools, now, lease, queue>>

(* SessionEnv, NewRun and Prepare of the adapter, which refuses a tool     *)
(* without executable, a session without workspace, unless the command     *)
(* is version, and a command that it does not know.                        *)
Prepared(r) ==
  /\ run[r].tool.executable
  /\ \/ run[r].request.command = "version"
     \/ run[r].request.workspace /\ run[r].request.command \in DOMAIN Needs

Prepare(r) ==
  /\ At(r, "resolved")
  /\ IF Prepared(r)
       THEN run' = [run EXCEPT ![r].stage = "acquiring",
                               ![r].env = Build(config.env, config.host)]
       ELSE Over(r)
  /\ UNCHANGED <<config, tools, now, lease, queue>>

-----------------------------------------------------------------------------
(* Leases *)

Acquiring(r) == At(r, "acquiring") /\ run[r].next <= Len(Needed(r))

Held(exp) == [state |-> "held", exp |-> exp]

(* Mutant: an off-by-one in the capacity test. *)
AcquireOneMore(r) ==
  LET x == Wanted(r)
  IN  /\ Acquiring(r)
      /\ Cardinality(Holders(x)) <= Capacity[x]
      /\ lease' = [lease EXCEPT ![r][x] = Held(now + TTL)]
      /\ run' = [run EXCEPT ![r].next = @ + 1]
      /\ UNCHANGED <<config, tools, now, queue>>

AcquireNow(r) ==
  LET x == Wanted(r)
  IN  /\ Acquiring(r)
      /\ Cardinality(Holders(x)) < Capacity[x]
      /\ lease' = [lease EXCEPT ![r][x] = Held(now + TTL)]
      /\ run' = [run EXCEPT ![r].next = @ + 1]
      /\ UNCHANGED <<config, tools, now, queue>>

Enqueue(r) ==
  LET x == Wanted(r)
  IN  /\ Acquiring(r)
      /\ Cardinality(Holders(x)) >= Capacity[x]
      /\ queue' = [queue EXCEPT ![x] = Append(@, r)]
      /\ run' = [run EXCEPT ![r].stage = "waiting"]
      /\ UNCHANGED <<config, tools, now, lease>>

(* Mutant: the waiter that is given a lease stays in the queue. *)
ExpireKeepsHead(r, x) ==
  /\ lease[r][x].state = "held"
  /\ lease[r][x].exp \in 1 .. now - 1
  /\ IF queue[x] = <<>>
       THEN /\ lease' = [lease EXCEPT ![r][x].state = "over"]
            /\ UNCHANGED run
       ELSE LET head == Head(queue[x])
            IN  /\ lease' = [lease EXCEPT ![r][x].state = "over", ![head][x] = Held(0)]
                /\ run' = [run EXCEPT ![head].stage = "acquiring", ![head].next = @ + 1]
  /\ UNCHANGED <<config, tools, now, queue>>

(* Sweep: the lease ends, and the head of the queue is given one that      *)
(* never expires.                                                          *)
Expire(r, x) ==
  /\ lease[r][x].state = "held"
  /\ lease[r][x].exp \in 1 .. now - 1
  /\ IF queue[x] = <<>>
       THEN /\ lease' = [lease EXCEPT ![r][x].state = "over"]
            /\ UNCHANGED <<run, queue>>
       ELSE LET head == Head(queue[x])
            IN  /\ lease' = [lease EXCEPT ![r][x].state = "over", ![head][x] = Held(0)]
                /\ queue' = [queue EXCEPT ![x] = Tail(@)]
                /\ run' = [run EXCEPT ![head].stage = "acquiring", ![head].next = @ + 1]
  /\ UNCHANGED <<config, tools, now>>

-----------------------------------------------------------------------------
(* The process *)

(* The environment of the process; version does without the accelerator. *)
ProcessEnv(env, tool, command) ==
  Overlaid(env, config.accelerator /\ command # "version", tool.env)

(* Mutant: the process runs without a limit. *)
LaunchUnlimited(r) ==
  /\ At(r, "acquiring")
  /\ run[r].next > Len(Needed(r))
  /\ run[r].request.command \in Scripted => run[r].request.method
  /\ run' = [run EXCEPT
               ![r].stage = "running",
               ![r].env = ProcessEnv(@, run[r].tool, run[r].request.command),
               ![r].deadline = MaxTime + TTL]
  /\ UNCHANGED <<config, tools, now, lease, queue>>

Launch(r) ==
  /\ At(r, "acquiring")
  /\ run[r].next > Len(Needed(r))
  /\ run[r].request.command \in Scripted => run[r].request.method
  /\ run' = [run EXCEPT
               ![r].stage = "running",
               ![r].env = ProcessEnv(@, run[r].tool, run[r].request.command),
               ![r].deadline = now + RunLimit(run[r].request)]
  /\ UNCHANGED <<config, tools, now, lease, queue>>

(* The command has no method, or the process cannot be started: the run    *)
(* ends with an error, after the leases were acquired.                     *)
LaunchFails(r) ==
  /\ At(r, "acquiring")
  /\ run[r].next > Len(Needed(r))
  /\ Over(r)
  /\ UNCHANGED <<config, tools, now, lease, queue>>

(* It exits, or it is killed at the time limit. *)
ProcessEnds(r) ==
  /\ At(r, "running")
  /\ Over(r)
  /\ UNCHANGED <<config, tools, now, lease, queue>>

(* Time passes while nothing is due: every run waits for a lease or for    *)
(* its process, and no process is at its limit.                            *)
Tick ==
  /\ now < config.time
  /\ \A r \in Runs : \/ At(r, "none") \/ At(r, "waiting") \/ At(r, "over")
                     \/ At(r, "running") /\ now < run[r].deadline
  /\ now' = now + 1
  /\ UNCHANGED <<config, tools, run, lease, queue>>

Next ==
  \/ Tick
  \/ DetectTools
  \/ \E r \in config.runs, request \in config.requests : Accept(r, request)
  \/ \E r \in Runs :
       \/ ResolveTool(r) \/ Prepare(r) \/ AcquireNow(r) \/ Enqueue(r)
       \/ \E x \in Resources : Expire(r, x)
       \/ Launch(r) \/ LaunchFails(r) \/ ProcessEnds(r)

Spec == Init /\ [][Next]_vars

-----------------------------------------------------------------------------
(* Properties *)

(* The tools that there are, or will be when they are detected. *)
Tools == Range(config.tools) \cup Range(config.found)

Commands == {request.command : request \in config.requests}

(* None before Prepare, then that of the session, then that of the process. *)
Environments ==
  LET session == Build(config.env, config.host)
  IN  {<<>>, session}
        \cup {ProcessEnv(session, tool, command) : tool \in Tools, command \in Commands}

Run == [stage: Stage, request: config.requests \cup {None}, tool: Tools \cup {None},
        env: Environments, next: Nat, deadline: Nat]

(* Types; how far a run is in its resources; and the queue of a resource   *)
(* has exactly the runs that wait for it, each once.                       *)
TypeOK ==
  /\ now \in Time
  /\ Range(tools) \subseteq Tools
  /\ run \in [Runs -> Run]
  /\ \A r \in Runs : run[r].stage \in {"acquiring", "waiting", "running"} =>
                      run[r].next \in 1 .. Len(Needed(r)) + 1
  /\ lease \in [Runs -> [Resources -> [state: {"none", "held", "over"},
                                       exp: 0 .. MaxTime + TTL]]]
  /\ queue \in [Resources -> Seq(Runs)]
  /\ \A x \in Resources :
       /\ ToSet(queue[x]) = {r \in Runs : At(r, "waiting") /\ Wanted(r) = x}
       /\ IsInjective(queue[x])

Running == {r \in Runs : At(r, "running")}

(* The resource that a command acquires last. *)
Scarcest(r) == Last(Needed(r))

(* The limit of the run is within the ttl of the leases. *)
Timely(r) == RunLimit(run[r].request) <= TTL

(* A process that runs has the lease that its run acquired last, although  *)
(* leases expire while it runs and earlier ones may be gone, if its time   *)
(* limit is within the ttl, as those by default are: a lease that was      *)
(* waited for does not expire (unity.go:93, 207; manager.go:362).  A       *)
(* request may set a limit beyond the ttl; its process goes on without.    *)
LastLeaseHeld ==
  \A r \in Running :
    Timely(r) /\ Needed(r) # <<>> => lease[r][Scarcest(r)].state = "held"

(* So no more of these processes at once than the resource admits: one     *)
(* that uses the license last, one that uses the gpu; whatever runs there  *)
(* are beside them whose limit is beyond the ttl.                          *)
WithinCapacity ==
  \A x \in Resources :
    Cardinality({r \in Running : /\ Timely(r) /\ Needed(r) # <<>>
                                /\ Scarcest(r) = x}) <= Capacity[x]

(* The runs never wait for each other in a cycle: each waits for a         *)
(* resource that comes after those it has in one order (unity.go:49, 92).  *)
NoCycle ==
  \A rs \in SUBSET {r \in Runs : At(r, "waiting")} :
    rs # {} => \E r \in rs : ~(Holders(Wanted(r)) \subseteq rs)

(* Some longest rule that matches permits it, or there is no rule.         *)
Permitted(rules, subject, capability) ==
  LET matching == {i \in DOMAIN rules : IsPrefix(rules[i].text, subject)}
      longest == {i \in matching : \A j \in matching : Length(rules[j]) <= Length(rules[i])}
  IN  \/ matching = {} /\ capability \in DefaultAllow
      \/ \E i \in longest : /\ {capability, Every} \cap rules[i].deny = {}
                            /\ {capability, Every} \cap rules[i].allow # {}

(* A process runs for a subject that a longest rule that matches lets use  *)
(* tools, or that no rule matches, with a tool that meets the requirement  *)
(* and that nobody has disabled (service.go:546, 561, 568).  A shorter     *)
(* rule that matches and denies does not count, although policy.go:4 has   *)
(* "no rule denies it".                                                    *)
RunsAsAsked ==
  \A r \in Running :
    LET request == run[r].request
    IN  /\ Permitted(config.rules, request.owner, "tool.execute")
        /\ ~run[r].tool.disabled
        /\ request.id = None => /\ SameType(run[r].tool.type, request.type)
                                /\ Satisfies(run[r].tool.version, request)

(* A process meets a value of the daemon's own environment only under a    *)
(* name that is inherited and not denied, or as the copy of an isolated    *)
(* root; an isolated root is the session's unless set: or the tool gives   *)
(* it; and what is denied is there only because the tool or the            *)
(* accelerator gives it (env.go:96, unity.go:141).                         *)
EnvironmentIsolated ==
  \A r \in Running : \A n \in DOMAIN run[r].env :
    LET value == run[r].env[n]
    IN  /\ Denied(config.env.deny, n) => value \in {OfTool, Cache}
        /\ n \in Isolated(config.env) => value \in {Private, Fixed, OfTool}
        /\ value.from = "host" =>
             \/ value = Host(n) /\ Inherits(config.env.inherit, n)
             \/ n = Original[value.name]

(* A requirement is refused only if no tool that is enabled and known by   *)
(* then meets it, or if one that does has a type without an adapter; else  *)
(* the run goes on with a tool that meets it and has an adapter            *)
(* (service.go:561, 571, registry.go:191).                                 *)
RefusedOnlyForWant ==
  [][\A r \in Runs :
       LET request == run[r].request
           fitting == {t \in Candidates(tools, request) : Satisfies(tools[t].version, request)}
           adapted == {t \in fitting : tools[t].type \in Adapters}
       IN  At(r, "accepted") /\ run'[r].stage # "accepted" /\ request.id = None =>
             \/ /\ run'[r].stage = "resolved"
                /\ \E t \in adapted : run'[r].tool = tools[t]
             \/ /\ run'[r].stage = "over"
                /\ fitting = {} \/ adapted # fitting]_vars

(* The tool that a requirement with a version is resolved to is the        *)
(* highest version that satisfies it (registry.go:204, 257;                *)
(* docs/tool-adapters.md:77).                                              *)
HighestChosen ==
  [][\A r \in Runs :
       LET request == run[r].request
           chosen  == run'[r].tool
       IN  At(r, "accepted") /\ run'[r].stage = "resolved"
             /\ request.id = None /\ request.version # <<>> =>
           \A t \in Candidates(tools, request) :
             Satisfies(tools[t].version, request) =>
               Compare(tools[t].version, chosen.version) <= 0]_vars
=============================================================================
