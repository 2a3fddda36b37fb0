----------------------------- MODULE MCToolRun -----------------------------
EXTENDS ToolPlaces, TLC

CONSTANTS r1, r2, r3

MCCommands == {"version", "compile", "test.editmode", "test.playmode", "build"}

MCNeeds == [c \in MCCommands |->
  CASE c = "version"       -> <<>>
    [] c = "compile"       -> <<"slot">>
    [] c = "test.playmode" -> <<"slot", "license", "gpu">>
    [] OTHER               -> <<"slot", "license">>]

MCCapacity == [x \in {"slot", "license", "gpu"} |-> IF x = "slot" THEN 2 ELSE 1]
MCLimit == [c \in MCCommands |-> IF c = "test.playmode" THEN 2 ELSE 1]
MCDefault == {"tool.execute"}
MCReserved == {"tool.install"}

MCValue == [s \in {"0", "2", "10"} |-> CASE s = "0" -> 0 [] s = "2" -> 2 [] OTHER -> 10]
MCRank == [s \in {"0", "10", "1a", "2"} |->
             CASE s = "0" -> 0 [] s = "10" -> 1 [] s = "1a" -> 2 [] OTHER -> 3]

MCFolded == [t \in {"unity", "Unity"} |-> "unity"]

MCStarts == {<<n, n>> : n \in Names} \cup {<<n, "">> : n \in Names}
              \cup {<<"LC_ALL", "LC_">>, <<"HOME_ORIG", "HOME">>}
MCOriginal == [n \in {"HOME", "TMPDIR"} |-> IF n = "HOME" THEN "HOME_ORIG" ELSE "TMPDIR_ORIG"]

(* Configurations. *)
Rule(text, star, allow, deny) ==
  [text |-> text, star |-> star, allow |-> allow, deny |-> deny]

Tool(type, version, disabled, executable, env) ==
  [type |-> type, version |-> version, disabled |-> disabled,
   executable |-> executable, env |-> env]

Pattern(text, star) == [text |-> text, star |-> star]

Env(inherit, deny, set, isolate) ==
  [inherit |-> inherit, deny |-> deny, set |-> set, redact |-> {},
   home |-> isolate, temp |-> isolate, xdg |-> isolate]

Plain == Env({Pattern("PATH", FALSE)}, {Pattern("TOKEN", FALSE)}, {"TOKEN"}, TRUE)

Ask(id, constraint, version, command, method, workspace, limit) ==
  [owner |-> <<"a", "b">>, id |-> id, type |-> "unity", constraint |-> constraint,
   version |-> version, command |-> command, method |-> method,
   workspace |-> workspace, limit |-> limit]

Scenario(rules, table, found, env, requests) ==
  [rules |-> rules, tools |-> table, found |-> found, env |-> env,
   host |-> {"HOME", "PATH", "LC_ALL", "TOKEN", "TMPDIR"}, requests |-> requests,
   accelerator |-> TRUE, runs |-> {r1}, time |-> 1]

One == (1 :> Tool("unity", <<"2">>, FALSE, TRUE, {}))

(* Several runs of every command under one configuration; the limit of one *)
(* is beyond the ttl.                                                      *)
Contention ==
  [Scenario(<<>>, One, One, Plain,
            {Ask(1, "", <<>>, c, TRUE, TRUE, IF c = "test.editmode" THEN TTL + 2 ELSE 0) :
               c \in MCCommands \ {"version"}})
     EXCEPT !.runs = Runs, !.time = MaxTime]

(* Rules of every shape, also two that match and are equally long. *)
RuleChoices == {Rule(t, s, a, d) : t \in {<<>>, <<"a">>, <<"a", "b">>, <<"b">>},
                  s \in BOOLEAN, a \in {{}, {"tool.execute"}},
                  d \in {{}, {"*"}}}

Subjects ==
  {Scenario(rules, One, One, Plain, {Ask(1, "", <<>>, "version", FALSE, FALSE, 0)}) :
     rules \in {<<a, b>> : a, b \in RuleChoices}}

(* Versions and requirements. *)
Versions == {<<>>, <<"2">>, <<"10">>, <<"1a">>, <<"2", "0">>, <<"2", "10">>}
Constraints == {"", "=", ">=", ">", "<=", "<", "^"}

Requirements ==
  {Scenario(<<>>,
            1 :> Tool(type, v, disabled, TRUE, {}) @@ 2 :> Tool("unity", w, FALSE, ~disabled, {}),
            3 :> Tool("unity", <<"2", "0">>, FALSE, TRUE, {}), Plain,
            {Ask(None, c, q, "compile", FALSE, TRUE, 0)}) :
     type \in {"unity", "Unity"}, v, w \in Versions,
     q \in {<<>>, <<"2">>, <<"2", "0">>}, c \in Constraints, disabled \in BOOLEAN}

(* Environments, and what the tool adds to them. *)
Patterns == {Pattern("HOME", FALSE), Pattern("HOME", TRUE), Pattern("LC_", TRUE),
             Pattern("", TRUE)}

Surroundings ==
  {Scenario(<<>>, 1 :> Tool("unity", <<"2">>, FALSE, TRUE, given), <<>>,
            Env(inherit, deny, set, isolate),
            {Ask(1, "", <<>>, c, FALSE, TRUE, 0) : c \in {"version", "compile"}}) :
     inherit \in SUBSET Patterns, deny \in SUBSET Patterns,
     set \in SUBSET {"HOME", "TOKEN"}, given \in {{}, {"HOME", "LC_ALL"}},
     isolate \in BOOLEAN}

MCScenarios == {Contention} \cup Subjects \cup Requirements \cup Surroundings

Symmetry == Permutations(Runs \ {r1})
=============================================================================
