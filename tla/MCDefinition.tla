---------------------------- MODULE MCDefinition ----------------------------
(***************************************************************************)
(* Files and patterns for model checking Definition.                       *)
(***************************************************************************)
EXTENDS Definition

\* A directory, one inside it, one beside it, one file of each, and everything.
SomePatterns == {<<"docs", "**">>, <<"docs", "api", "*">>, <<"web", "**">>, <<"**">>,
                 <<"secrets", "*">>}
SomePaths == {<<"docs", "x">>, <<"docs", "api", "x">>, <<"web", "x">>, <<"secrets", "x">>}

\* Every relation between three stages, of three agents.
AnyDeps ==
    [ids : {Ids}, deps : [Ids -> SUBSET Ids], repeated : BOOLEAN,
     agent : {[s \in Ids |-> CASE s = "a" -> "be" [] s = "b" -> "fe" [] OTHER -> "publisher"]}]

\* Every choice of agents for at most two stages, which may name one that is missing.
AnyAgents ==
    {p \in [ids : {{}, {"a"}, {"a", "b"}}, deps : [Ids -> {{}, {"b"}}], repeated : {FALSE},
             agent : [Ids -> Agents]] :
       p.deps["b"] = {} /\ p.deps["c"] = {} /\ p.agent["c"] = BuiltIn}

SomePipelines == AnyDeps \cup AnyAgents

SomeAgents == {f \in AgentSpecs : Cardinality(f.paths) <= 2}
=============================================================================
