---------------------------- MODULE Environment ----------------------------
(***************************************************************************)
(* The environment of a session's processes (internal/env/env.go).         *)
(*                                                                         *)
(* A variable is a model value, and so is a text that names begin with;    *)
(* Starts says which name begins with which text (a name begins with       *)
(* itself, and every name with Empty).  A pattern is a text, with a star   *)
(* or without.  A value is where it comes from: the daemon's variable of   *)
(* some name, the session's directories, the configuration (set:), the     *)
(* Unity accelerator, or the entry of the tool.                            *)
(***************************************************************************)
EXTENDS Integers

CONSTANTS
  Names,       \* names of variables and the texts of patterns
  Empty,       \* the empty text
  Starts,      \* <<name, text>>: the name begins with the text
  HomeRoots,   \* HOME, USERPROFILE, APPDATA, LOCALAPPDATA
  TempRoots,   \* TMP, TEMP, TMPDIR
  XdgRoots,    \* XDG_CONFIG_HOME, XDG_CACHE_HOME, XDG_STATE_HOME
  Original,    \* the *_ORIG name of each root that has one
  CacheServer  \* UNITY_CACHE_SERVER

Roots == HomeRoots \cup TempRoots \cup XdgRoots

ASSUME EnvironmentNames ==
  /\ Empty \in Names
  /\ Starts \subseteq Names \X Names
  /\ \A n \in Names : <<n, n>> \in Starts /\ <<n, Empty>> \in Starts
  /\ Roots \subseteq Names
  /\ CacheServer \in Names \ Roots
  /\ DOMAIN Original \subseteq Roots
  /\ \A n \in DOMAIN Original : Original[n] \in Names \ Roots

Star == [text |-> Empty, star |-> TRUE]

Host(name) == [from |-> "host", name |-> name]
Private    == [from |-> "session", name |-> Empty]
Fixed      == [from |-> "config", name |-> Empty]
Cache      == [from |-> "accelerator", name |-> Empty]
OfTool     == [from |-> "tool", name |-> Empty]

(* matchesAllow.  A pattern with a star other than "*" matches the name    *)
(* that equals its text and no longer one: the test asks for both.         *)
Inherits(allow, name) == Star \in allow \/ \E a \in allow : a.text = name

(* isDenied. *)
Denied(deny, name) ==
  \E d \in deny : IF d.star THEN <<name, d.text>> \in Starts ELSE d.text = name

Isolated(cfg) ==
  (IF cfg.home THEN HomeRoots ELSE {}) \cup (IF cfg.temp THEN TempRoots ELSE {})
    \cup (IF cfg.xdg THEN XdgRoots ELSE {})

(* The copies of the daemon's values of the isolated roots. *)
Copied(cfg, host) == {n \in Isolated(cfg) : n \in DOMAIN Original /\ n \in host}

Inherited(cfg, host) == {n \in host : ~Denied(cfg.deny, n) /\ Inherits(cfg.inherit, n)}

Given(cfg) == {n \in cfg.set : ~Denied(cfg.deny, n)}

(* Mutant: what is inherited replaces the isolated roots. *)
BuildInheritsLast(cfg, host) ==
  LET copies == {Original[n] : n \in Copied(cfg, host)}
      names == Inherited(cfg, host) \cup copies \cup Isolated(cfg) \cup Given(cfg)
  IN  [n \in {m \in names : ~Denied(cfg.deny, m)} |->
         IF n \in Given(cfg) THEN Fixed
         ELSE IF n \in Inherited(cfg, host) THEN Host(n)
         ELSE IF n \in Isolated(cfg) THEN Private
         ELSE Host(CHOOSE root \in Copied(cfg, host) : Original[root] = n)]

(* Build, from the names of the daemon's variables: inherited ones, then   *)
(* the isolated roots and their copies, then set:, less what is denied.    *)
Build(cfg, host) ==
  LET copies == {Original[n] : n \in Copied(cfg, host)}
      names == Inherited(cfg, host) \cup copies \cup Isolated(cfg) \cup Given(cfg)
  IN  [n \in {m \in names : ~Denied(cfg.deny, m)} |->
         IF n \in Given(cfg) THEN Fixed
         ELSE IF n \in Isolated(cfg) THEN Private
         ELSE IF n \in copies THEN Host(CHOOSE root \in Copied(cfg, host) : Original[root] = n)
         ELSE Host(n)]

(* What the adapter appends to the environment of the session, with no     *)
(* look at the lists of the configuration: the cache server and the        *)
(* variables of the tool.  Of two values of a name the last counts.        *)
Overlaid(env, cached, given) ==
  [n \in DOMAIN env \cup given \cup (IF cached THEN {CacheServer} ELSE {}) |->
     IF n \in given THEN OfTool
     ELSE IF cached /\ n = CacheServer THEN Cache ELSE env[n]]

(* Redact: the names whose values the run record shows. *)
Shown(cfg, env) ==
  {n \in DOMAIN env : ~Denied(cfg.redact, n) /\ ~Denied(cfg.deny, n)}
=============================================================================
