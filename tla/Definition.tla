------------------------------ MODULE Definition ------------------------------
(***************************************************************************)
(* How a task's definition is read before the task exists: LoadDefinition  *)
(* of internal/agentdef with ParsePipeline and Levels of internal/pipeline *)
(* and checkWriteConflicts.  The other modules rest on what is accepted    *)
(* here: a pipeline without a cycle (PipelineAssumption of Domain) and     *)
(* stages that own different files (Workspace).                            *)
(*                                                                         *)
(* A pipeline is its set of stages; that some list of the file (stages or  *)
(* dependencies) names an entry twice is the flag `repeated`.  A path or a *)
(* pattern is the sequence of its segments.                                *)
(***************************************************************************)
EXTENDS Integers, Sequences, FiniteSets

CONSTANTS
    Ids,         \* names a file may use for stages
    Agents,      \* names a file may use for agents
    Patterns,    \* the write_paths that occur: sequences of segments
    PipelineFiles, \* what a pipeline.yaml may say
    AgentFiles,  \* what the front matter of a persona.md may say
    Paths,       \* the files that an agent may try to write
    Wild,        \* segments with a wildcard; "**" stands for any number of segments
    Guarded,     \* segments that pathguard.Protected refuses
    BuiltIn      \* the agent "publisher", which is not read from a file

Profiles == {"docs-writer", "code-writer", "reader", "publisher"}

Pipelines == [ids : SUBSET Ids, deps : [Ids -> SUBSET Ids], agent : [Ids -> Agents],
              repeated : BOOLEAN]
AgentSpecs == [profile : Profiles, paths : SUBSET Patterns]

ASSUME DefinitionAssumption ==
    /\ BuiltIn \in Agents
    /\ PipelineFiles \subseteq Pipelines
    /\ AgentFiles \subseteq AgentSpecs
    /\ \A q \in Patterns \cup Paths : q \in Seq(STRING) /\ q # <<>>
    /\ "**" \in Wild

VARIABLES
    pc,          \* what LoadDefinition does next; "accepted" and "rejected" are its answers
    pipe,        \* out.Pipeline
    done,        \* done of Levels: the stages that have a level
    levels,      \* out of Levels
    specs        \* out.Agents: what has been read of the agents

vars == <<pc, pipe, done, levels, specs>>

(***************************************************************************)
(* Paths.  GlobMatch is doublestar, which is external: a wildcard segment  *)
(* matches any one segment, "**" any number of them.  cut[j] is the number *)
(* of segments of the name that the first j of the pattern take up.        *)
(***************************************************************************)
GlobMatch(name, pattern) ==
    \E cut \in [0..Len(pattern) -> 0..Len(name)] :
        /\ cut[0] = 0 /\ cut[Len(pattern)] = Len(name)
        /\ \A j \in 1..Len(pattern) :
            \/ pattern[j] = "**" /\ cut[j - 1] <= cut[j]
            \/ /\ pattern[j] # "**" /\ cut[j] = cut[j - 1] + 1
               /\ pattern[j] \in Wild \/ pattern[j] = name[cut[j]]

Protected(name) == \E i \in DOMAIN name : name[i] \in Guarded

\* The segments in front of the first wildcard.
literalRoot(pattern) ==
    LET n == CHOOSE n \in 0..Len(pattern) :
               /\ \A i \in 1..n : pattern[i] \notin Wild
               /\ n < Len(pattern) => pattern[n + 1] \in Wild
    IN SubSeq(pattern, 1, n)

StartsWith(x, y) == Len(y) <= Len(x) /\ SubSeq(x, 1, Len(y)) = y

\* Mutant: only equal roots conflict, nested ones do not.
FlatRootsConflict(x, y) == x = <<>> \/ y = <<>> \/ x = y

RootsConflict(x, y) == x = <<>> \/ y = <<>> \/ StartsWith(x, y) \/ StartsWith(y, x)

\* workspace.owned: the files that Reset and Accept handle for these patterns.
owned(name, patterns) == ~Protected(name) /\ \E q \in patterns : GlobMatch(name, q)

\* Sandbox.check for a write, in a tree without symbolic links.
MayWrite(name, spec) ==
    /\ ~Protected(name)
    /\ spec.profile # "publisher"
    /\ \E q \in spec.paths : GlobMatch(name, q)

(***************************************************************************)
(* ParsePipeline, the part before Levels.                                  *)
(***************************************************************************)
ValidPipeline(p) ==
    /\ p.ids # {}
    /\ ~p.repeated
    /\ \A s \in p.ids : p.deps[s] \subseteq p.ids \ {s}

Init ==
    /\ pc = "parse"
    /\ pipe = [ids |-> {}, deps |-> [s \in Ids |-> {}], agent |-> [s \in Ids |-> BuiltIn],
               repeated |-> FALSE]
    /\ done = {} /\ levels = <<>> /\ specs = <<>>

ParsePipeline ==
    /\ pc = "parse"
    /\ \E p \in PipelineFiles :
         /\ pipe' = p
         /\ pc' = IF ValidPipeline(p) THEN "levels" ELSE "rejected"
    /\ UNCHANGED <<done, levels, specs>>

(***************************************************************************)
(* Levels: one turn of the outer loop.                                     *)
(***************************************************************************)
\* Mutant: a stage is ready when one of its dependencies is done.
HastyReadyStages ==
    {s \in pipe.ids \ done : pipe.deps[s] = {} \/ pipe.deps[s] \cap done # {}}

ReadyStages == {s \in pipe.ids \ done : pipe.deps[s] \subseteq done}

\* Mutant: a cycle is not noticed.
EndlessLevels ==
    /\ pc = "levels"
    /\ IF done = pipe.ids
         THEN pc' = "agents" /\ UNCHANGED <<done, levels>>
         ELSE /\ levels' = IF ReadyStages = {} THEN levels ELSE Append(levels, ReadyStages)
              /\ done' = done \cup ReadyStages
              /\ pc' = pc
    /\ UNCHANGED <<pipe, specs>>

Levels ==
    /\ pc = "levels"
    /\ \/ /\ done = pipe.ids
          /\ pc' = "agents"
          /\ UNCHANGED <<done, levels>>
       \/ /\ done # pipe.ids /\ ReadyStages = {}
          /\ pc' = "rejected"
          /\ UNCHANGED <<done, levels>>
       \/ /\ done # pipe.ids /\ ReadyStages # {}
          /\ levels' = Append(levels, ReadyStages)
          /\ done' = done \cup ReadyStages
          /\ pc' = pc
    /\ UNCHANGED <<pipe, specs>>

(***************************************************************************)
(* LoadDefinition: one turn of the loop over the stages reads one agent.   *)
(* A second stage of the same agent finds it already read.                 *)
(***************************************************************************)
Unread == {pipe.agent[s] : s \in pipe.ids} \ DOMAIN specs

WithDefault(spec) ==
    IF spec.profile = "docs-writer" /\ spec.paths = {}
      THEN [spec EXCEPT !.paths = {<<"docs", "**">>}] ELSE spec

ValidAgent(spec) ==
    /\ spec.profile = "code-writer" => spec.paths # {}
    /\ spec.profile \in {"reader", "publisher"} => \A q \in spec.paths : Len(q) > 1 /\ q[1] = "docs"

LoadAgent(a) ==
    /\ pc = "agents"
    /\ a \in Unread
    /\ \/ /\ a = BuiltIn
          /\ specs' = [b \in DOMAIN specs \cup {a} |->
                         IF b = a THEN [profile |-> "publisher", paths |-> {}] ELSE specs[b]]
          /\ pc' = pc
       \/ /\ a # BuiltIn
          /\ \E read \in AgentFiles :
               IF ValidAgent(read)
                 THEN /\ specs' = [b \in DOMAIN specs \cup {a} |->
                                     IF b = a THEN WithDefault(read) ELSE specs[b]]
                      /\ pc' = pc
                 ELSE pc' = "rejected" /\ UNCHANGED specs
    /\ UNCHANGED <<pipe, done, levels>>

\* A file that cannot be read, or is not what it should be.
LoadFails ==
    /\ pc = "agents" /\ Unread \ {BuiltIn} # {}
    /\ pc' = "rejected"
    /\ UNCHANGED <<pipe, done, levels, specs>>

(***************************************************************************)
(* checkWriteConflicts.                                                    *)
(***************************************************************************)
PathsOf(s) == specs[pipe.agent[s]].paths

WriteConflict ==
    \/ \E s \in pipe.ids : \E q \in PathsOf(s) : Protected(q)
    \/ \E s, t \in pipe.ids :
         s # t /\ \E q \in PathsOf(s), r \in PathsOf(t) :
                     RootsConflict(literalRoot(q), literalRoot(r))

checkWriteConflicts ==
    /\ pc = "agents" /\ Unread = {}
    /\ pc' = IF WriteConflict THEN "rejected" ELSE "accepted"
    /\ UNCHANGED <<pipe, done, levels, specs>>

\* CreateTask goes on with an accepted definition or answers 400.
Answered == pc \in {"accepted", "rejected"} /\ UNCHANGED vars

Next ==
    \/ ParsePipeline \/ Levels \/ LoadFails \/ checkWriteConflicts \/ Answered
    \/ \E a \in Agents : LoadAgent(a)

Spec == Init /\ [][Next]_vars

\* Reading a definition is one request that runs to its end.
FairSpec == Spec /\ WF_vars(Next)

(***************************************************************************)
(* Properties.                                                             *)
(***************************************************************************)
\* Every variable has its type; no level is empty.
TypeOK ==
    /\ pc \in {"parse", "levels", "agents", "accepted", "rejected"}
    /\ pipe \in Pipelines
    /\ done \subseteq pipe.ids
    /\ levels \in Seq((SUBSET Ids) \ {{}})
    /\ DOMAIN specs \subseteq Agents
    /\ \A a \in DOMAIN specs :
         /\ specs[a].profile \in Profiles
         /\ specs[a].paths \subseteq Patterns \cup {<<"docs", "**">>}

\* No set of stages in which each one depends on another one of the set.
Acyclic(part) ==
    \A t \in SUBSET part : t # {} => \E s \in t : pipe.deps[s] \cap t = {}

\* Levels finds a cycle exactly when there is one: what passes it has none, and
\* a valid pipeline that it refuses has one.
CyclesFound ==
    /\ pc \in {"agents", "accepted"} => Acyclic(pipe.ids)
    /\ (pc = "rejected" /\ ValidPipeline(pipe) /\ done # pipe.ids) => ~Acyclic(pipe.ids)

\* In an accepted definition no two stages own the same file: what one may write,
\* Reset and Accept of another never touch.  (Holds with the types of the variables.)
OneOwner ==
    /\ TypeOK
    /\ pc = "accepted" =>
        \A s, t \in pipe.ids, name \in Paths :
            (s # t /\ MayWrite(name, specs[pipe.agent[s]])) => ~owned(name, PathsOf(t))

\* Reading a definition always ends.
Ends == <>(pc \in {"accepted", "rejected"})
=============================================================================
