--------------------------- MODULE MCAwsCredentials ---------------------------
(* Instances of AwsCredentials for TLC: families of invocations, each varying
   what one part of the choice depends on. *)
EXTENDS AwsCredentials
CONSTANTS r1, r2

Node(types, sso) == [types |-> types, sso |-> sso]
Of(nodes) == [readable |-> TRUE, nodes |-> nodes, mfa |-> FALSE, region |-> TRUE]
Sso     == Of(<<Node({}, "full")>>)
Process == Of(<<Node({}, "none"), Node({"process"}, "none")>>)
Keys    == Of(<<Node({"keys"}, "none")>>)
Absent  == [Of(<<Node({}, "none")>>) EXCEPT !.readable = FALSE]

OneNode ==
  {Of(<<Node(types, sso)>>) :
     types \in {S \in SUBSET Kinds : Cardinality(S) <= 2},
     sso \in {"none", "partial", "full"}}
TwoNodes ==
  {Of(<<Node({}, top), Node(types, sso)>>) :
     top \in {"none", "full"},
     types \in {S \in SUBSET Kinds : Cardinality(S) <= 1},
     sso \in {"none", "partial", "full"}}
AllShapes ==
  OneNode \cup TwoNodes \cup {Absent}
    \cup {[s EXCEPT !.mfa = TRUE, !.region = FALSE] : s \in {Sso, Process, Keys}}

Terminal == [machine |-> FALSE, nonInteractive |-> FALSE, tty |-> TRUE,
             owns |-> FALSE, typed |-> TRUE]
Agent    == [machine |-> TRUE, nonInteractive |-> TRUE, tty |-> FALSE,
             owns |-> TRUE, typed |-> FALSE]
Linux    == [flag |-> "unset", env |-> "unset", file |-> "unset",
             goos |-> "linux", probe |-> "available"]
Plain(shape, dflt) ==
  [keys |-> "none", web |-> FALSE, named |-> {"config.toml"}, region |-> "none",
   shape |-> shape, dflt |-> dflt]

\* Every shape of a profile, the SDK's default one included.
ByShape ==
  {[policy |-> Agent, machine |-> Linux, calls |-> {r1},
    setup |-> [Plain(s, d) EXCEPT !.named = n, !.keys = k]] :
     s \in AllShapes, d \in {Absent, Sso}, n \in {{"BMCP_PROFILE"}, {"config.toml"}},
     k \in {"none", "dated"}}
  \cup
  {[policy |-> Agent, machine |-> Linux, calls |-> {r1},
    setup |-> [Plain(Absent, d) EXCEPT !.named = {}]] : d \in AllShapes}

\* Every environment and place a profile is named in.
ByEnvironment ==
  {[policy |-> Terminal, machine |-> Linux, calls |-> {r1},
    setup |-> [keys |-> k, web |-> w, named |-> n, region |-> g, shape |-> s,
               dflt |-> d]] :
     k \in {"none", "lasting", "dated"}, w \in BOOLEAN,
     n \in {{}, {"--profile", "AWS_PROFILE"}, {"BMCP_PROFILE"}, {"AWS_PROFILE"},
            {"AWS_DEFAULT_PROFILE", "config.toml"}, {"config.toml"}},
     g \in {"given", "env", "none"}, s \in {Sso, Keys}, d \in {Absent, Sso}}

\* Every policy of the streams, with an abandoned retrieval before the second.
ByPolicy ==
  {[policy |-> p, machine |-> Linux, calls |-> {r1, r2},
    setup |-> Plain(Process, Absent)] : p \in {q \in Policies : q.owns => ~q.typed}}

\* Every choice of a store.
ByMachine ==
  {[policy |-> p, machine |-> m, calls |-> {r1}, setup |-> Plain(Sso, Absent)] :
     p \in {Terminal, Agent},
     m \in {x \in Machines : x.env \in {"unset", "auto", "file"}
                             /\ x.file \in {"unset", "keychain"}}}

MCInputs == ByShape \cup ByEnvironment \cup ByPolicy \cup ByMachine
=============================================================================
