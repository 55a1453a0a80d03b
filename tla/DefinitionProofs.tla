--------------------------- MODULE DefinitionProofs ---------------------------
(***************************************************************************)
(* What LoadDefinition accepts, for all files: Levels finds exactly the    *)
(* cycles, and checkWriteConflicts keeps the files of stages apart.        *)
(***************************************************************************)
EXTENDS Definition, SequenceTheorems, Induction

(***************************************************************************)
(* Levels.  The loop keeps the set `done` closed under dependencies and    *)
(* free of cycles; when it gives up, the stages that are left depend on    *)
(* each other.                                                             *)
(***************************************************************************)

\* The dependencies of a finished stage are finished.
Closed == \A s \in done : pipe.deps[s] \subseteq done

\* What the loop of Levels leaves behind when it ends, either way.
Left ==
    /\ pc \in {"agents", "accepted"} => done = pipe.ids
    /\ (pc = "rejected" /\ ValidPipeline(pipe) /\ done # pipe.ids) => ReadyStages = {}

LevelsInv ==
    /\ pc = "parse" => done = {}
    /\ pipe \in Pipelines
    /\ done \subseteq pipe.ids
    /\ Closed
    /\ Acyclic(done)
    /\ Left

\* The initial state satisfies the invariant of the loop.
LEMMA InitLevels == ASSUME Init PROVE LevelsInv
<1>1. pipe \in Pipelines
  BY DefinitionAssumption DEF Init, Pipelines
<1>2. Acyclic(done)
  BY DEF Init, Acyclic
<1>. QED BY <1>1, <1>2 DEF Init, LevelsInv, Closed, Left

\* A turn of the loop that finishes a level adds no cycle: a set of stages that
\* reaches into the finished ones has a free stage there, any other set lies
\* in the new level.
LEMMA LevelAcyclic ==
    ASSUME pipe \in Pipelines, done \subseteq pipe.ids, Closed, Acyclic(done),
           pipe' = pipe, done' = done \cup ReadyStages
    PROVE Closed' /\ Acyclic(done)'
<1>1. \A s \in ReadyStages : pipe.deps[s] \subseteq done
  BY DEF ReadyStages
<1>2. Closed'
  BY <1>1 DEF Closed
<1>3. ASSUME NEW t \in SUBSET (done \cup ReadyStages), t # {}
      PROVE \E s \in t : pipe.deps[s] \cap t = {}
  <2>1. CASE t \cap done # {}
    <3>1. PICK s \in t \cap done : pipe.deps[s] \cap (t \cap done) = {}
      BY <2>1 DEF Acyclic
    <3>2. pipe.deps[s] \subseteq done
      BY <3>1 DEF Closed
    <3>. QED BY <3>1, <3>2
  <2>2. CASE t \cap done = {}
    <3>1. PICK s \in t : s \in ReadyStages
      BY <1>3, <2>2
    <3>. QED BY <3>1, <1>1, <2>2
  <2>. QED BY <2>1, <2>2
<1>4. Acyclic(done)'
  BY <1>3 DEF Acyclic
<1>. QED BY <1>2, <1>4

\* Every step keeps the invariant of the loop.
LEMMA NextLevels == ASSUME LevelsInv, [Next]_vars PROVE LevelsInv'
<1>. USE DEF LevelsInv
<1>1. CASE ParsePipeline
  <2>. USE <1>1 DEF ParsePipeline
  <2>1. PICK p \in PipelineFiles :
          pipe' = p /\ pc' = IF ValidPipeline(p) THEN "levels" ELSE "rejected"
    OBVIOUS
  <2>2. done = {} /\ done' = {}
    OBVIOUS
  <2>3. pipe' \in Pipelines /\ (pc' = "rejected" => ~ValidPipeline(pipe)')
    BY <2>1, DefinitionAssumption DEF ValidPipeline
  <2>4. Closed' /\ Acyclic(done)'
    BY <2>2 DEF Closed, Acyclic
  <2>5. Left' /\ pc' # "parse"
    BY <2>1, <2>3 DEF Left
  <2>. QED BY <2>2, <2>3, <2>4, <2>5
<1>2. CASE Levels
  <2>. USE <1>2 DEF Levels
  <2>1. CASE done' = done
    BY <2>1 DEF Closed, Acyclic, Left, ReadyStages, ValidPipeline
  <2>2. CASE done' # done
    <3>1. done # pipe.ids /\ ReadyStages # {} /\ done' = done \cup ReadyStages
          /\ pc' = "levels" /\ pipe' = pipe
      BY <2>2
    <3>2. Closed' /\ Acyclic(done)'
      BY <3>1, LevelAcyclic
    <3>3. done' \subseteq pipe'.ids
      BY <3>1 DEF ReadyStages
    <3>. QED BY <3>1, <3>2, <3>3 DEF Left
  <2>. QED BY <2>1, <2>2
<1>3. ASSUME pc \in {"agents", "accepted", "rejected"}, UNCHANGED <<pipe, done>>,
             pc = "agents" \/ pc' = pc, pc' \in {"agents", "accepted", "rejected"}
      PROVE LevelsInv'
  BY <1>3 DEF Closed, Acyclic, Left, ReadyStages, ValidPipeline
<1>4. CASE LoadFails
  BY <1>3, <1>4 DEF LoadFails
<1>5. CASE checkWriteConflicts
  BY <1>3, <1>5 DEF checkWriteConflicts
<1>6. CASE Answered
  BY <1>3, <1>6 DEF Answered, vars
<1>7. CASE \E a \in Agents : LoadAgent(a)
  BY <1>3, <1>7 DEF LoadAgent
<1>8. CASE UNCHANGED vars
  BY <1>8 DEF vars, Closed, Acyclic, Left, ReadyStages, ValidPipeline
<1>. QED BY <1>1, <1>2, <1>4, <1>5, <1>6, <1>7, <1>8 DEF Next

\* A set of stages of which none is ready is a cycle.
LEMMA StuckIsCycle ==
    ASSUME LevelsInv, ValidPipeline(pipe), done # pipe.ids, ReadyStages = {}
    PROVE ~Acyclic(pipe.ids)
<1>1. pipe.ids \ done # {}
  BY DEF LevelsInv
<1>2. \A s \in pipe.ids \ done : pipe.deps[s] \cap (pipe.ids \ done) # {}
  BY DEF ReadyStages, ValidPipeline
<1>. QED BY <1>1, <1>2 DEF Acyclic

\* Levels refuses a valid pipeline exactly when it has a cycle: the absence of
\* cycles that Orchestrator assumes is what LoadDefinition checks.
THEOREM LevelsFindCycles == Spec => []CyclesFound
<1>1. Init => LevelsInv
  BY InitLevels
<1>2. LevelsInv /\ [Next]_vars => LevelsInv'
  BY NextLevels
<1>3. LevelsInv => CyclesFound
  BY StuckIsCycle DEF LevelsInv, Left, CyclesFound
<1>. QED BY <1>1, <1>2, <1>3, PTL DEF Spec


(***************************************************************************)
(* checkWriteConflicts.  The literal root of a pattern is the beginning of *)
(* every name that it matches; two beginnings of one name contain each     *)
(* other, which is what RootsConflict refuses.                             *)
(***************************************************************************)

\* literalRoot is the part of the pattern in front of its first wildcard.
LEMMA RootIsLiteral ==
    ASSUME NEW Segments, NEW pattern \in Seq(Segments)
    PROVE  \E n \in 0..Len(pattern) :
             /\ \A i \in 1..n : pattern[i] \notin Wild
             /\ literalRoot(pattern) = SubSeq(pattern, 1, n)
<1> DEFINE IsRoot(n) == /\ \A i \in 1..n : pattern[i] \notin Wild
                        /\ n < Len(pattern) => pattern[n + 1] \in Wild
           wilds == {i \in 1..Len(pattern) : pattern[i] \in Wild}
<1>1. \E n \in 0..Len(pattern) : IsRoot(n)
  <2>1. CASE wilds = {}
    BY <2>1
  <2>2. CASE wilds # {}
    <3>0. wilds \subseteq Nat
      OBVIOUS
    <3>1. PICK w \in wilds : \A i \in wilds : w <= i
      <4> HIDE DEF wilds
      <4> QED
        BY <2>2, <3>0, LeastNatural
    <3>2. w - 1 \in 0..Len(pattern) /\ IsRoot(w - 1)
      BY <3>1
    <3> QED
      BY <3>2
  <2> QED
    BY <2>1, <2>2
<1>2. (CHOOSE n \in 0..Len(pattern) : IsRoot(n)) \in 0..Len(pattern)
      /\ IsRoot(CHOOSE n \in 0..Len(pattern) : IsRoot(n))
  BY <1>1
<1> QED
  BY <1>2 DEF literalRoot

\* What a pattern matches starts with its literal root.
LEMMA MatchStartsWithRoot ==
    ASSUME NEW Segments, NEW name \in Seq(Segments), NEW pattern \in Seq(Segments), "**" \in Wild,
           GlobMatch(name, pattern)
    PROVE  StartsWith(name, literalRoot(pattern)) /\ literalRoot(pattern) \in Seq(Segments)
<1>1. PICK n \in 0..Len(pattern) :
             /\ \A i \in 1..n : pattern[i] \notin Wild
             /\ literalRoot(pattern) = SubSeq(pattern, 1, n)
  BY RootIsLiteral
<1>2. PICK cut \in [0..Len(pattern) -> 0..Len(name)] :
        /\ cut[0] = 0 /\ cut[Len(pattern)] = Len(name)
        /\ \A j \in 1..Len(pattern) :
            \/ pattern[j] = "**" /\ cut[j - 1] <= cut[j]
            \/ /\ pattern[j] # "**" /\ cut[j] = cut[j - 1] + 1
               /\ pattern[j] \in Wild \/ pattern[j] = name[cut[j]]
  BY DEF GlobMatch
<1> DEFINE S == {j \in 0..n : cut[j] = j}
<1>3. 0..n \subseteq S
  <2>1. 0 \in S
    BY <1>2
  <2>2. ASSUME NEW k \in 0..(n - 1), k \in S
        PROVE  k + 1 \in S
    <3>1. k + 1 \in 1..Len(pattern) /\ (k + 1) - 1 = k /\ k + 1 \in 1..n /\ cut[k] = k
      BY <2>2
    <3> QED
      BY <3>1, <1>1, <1>2
  <2>3. n \in Nat
    OBVIOUS
  <2> HIDE DEF S
  <2> QED
    BY <2>1, <2>2, <2>3, CountUp
<1>4. ASSUME NEW j \in 1..n
      PROVE  pattern[j] = name[j]
  <2>1. cut[j] = j
    BY <1>3
  <2>2. j \in 1..Len(pattern) /\ pattern[j] \notin Wild
    BY <1>1
  <2> QED
    BY <1>2, <2>1, <2>2, Zenon
<1>5. n <= Len(name)
  BY <1>2, <1>3
<1> DEFINE root == SubSeq(pattern, 1, n)
<1>6. root \in Seq(Segments) /\ Len(root) = n /\ \A j \in 1..n : root[j] = pattern[j]
  OBVIOUS
<1>7. SubSeq(name, 1, n) \in Seq(Segments) /\ Len(SubSeq(name, 1, n)) = n
      /\ \A j \in 1..n : SubSeq(name, 1, n)[j] = name[j]
  BY <1>5
<1>8. SubSeq(name, 1, n) = root
  BY <1>4, <1>6, <1>7, SeqEqual
<1> QED
  BY <1>1, <1>5, <1>6, <1>8 DEF StartsWith

\* Of two beginnings of one name, one begins with the other.
LEMMA BeginningsNest ==
    ASSUME NEW Segments, NEW name \in Seq(Segments), NEW x \in Seq(Segments), NEW y \in Seq(Segments),
           StartsWith(name, x), StartsWith(name, y)
    PROVE  StartsWith(x, y) \/ StartsWith(y, x)
<1>1. ASSUME NEW u \in Seq(Segments), NEW v \in Seq(Segments), Len(v) <= Len(u),
             StartsWith(name, u), StartsWith(name, v)
      PROVE  StartsWith(u, v)
  <2>1. \A i \in 1..Len(u) : u[i] = name[i]
    BY <1>1 DEF StartsWith
  <2>2. \A i \in 1..Len(v) : v[i] = name[i]
    BY <1>1 DEF StartsWith
  <2>3. SubSeq(u, 1, Len(v)) \in Seq(Segments) /\ Len(SubSeq(u, 1, Len(v))) = Len(v)
        /\ \A i \in 1..Len(v) : SubSeq(u, 1, Len(v))[i] = u[i]
    BY <1>1
  <2>4. SubSeq(u, 1, Len(v)) = v
    BY <1>1, <2>1, <2>2, <2>3, SeqEqual
  <2> QED
    BY <1>1, <2>4 DEF StartsWith
<1>2. Len(x) <= Len(y) \/ Len(y) <= Len(x)
  OBVIOUS
<1> QED
  BY <1>1, <1>2


(***************************************************************************)
(* What has been read has its type, and only a definition in which no two  *)
(* roots nest is accepted.                                                 *)
(***************************************************************************)
Read == {a \in DOMAIN specs : /\ specs[a].profile \in Profiles
                              /\ specs[a].paths \subseteq Patterns \cup {<<"docs", "**">>}}

Typed ==
    /\ pc \in {"parse", "levels", "agents", "accepted", "rejected"}
    /\ levels \in Seq((SUBSET Ids) \ {{}})
    /\ DOMAIN specs \subseteq Agents
    /\ DOMAIN specs \subseteq Read

Apart == pc = "accepted" => Unread = {} /\ ~WriteConflict

\* The agents that have been read stay as they are; the one that is read now is
\* what its file says, or the default of its profile.
LEMMA AgentTyped ==
    ASSUME NEW a \in Agents, LoadAgent(a), Typed
    PROVE  Typed'
<1>1. ASSUME NEW spec, spec.profile \in Profiles,
             spec.paths \subseteq Patterns \cup {<<"docs", "**">>},
             specs' = [b \in DOMAIN specs \cup {a} |-> IF b = a THEN spec ELSE specs[b]]
      PROVE  DOMAIN specs' \subseteq Agents /\ DOMAIN specs' \subseteq Read'
  BY <1>1 DEF Typed, Read
<1>2. ASSUME NEW read \in AgentFiles
      PROVE  /\ WithDefault(read).profile \in Profiles
             /\ WithDefault(read).paths \subseteq Patterns \cup {<<"docs", "**">>}
  BY DefinitionAssumption DEF WithDefault, AgentSpecs
<1>3. pc' \in {"agents", "rejected"} /\ levels' = levels
  BY DEF LoadAgent
<1>4. DOMAIN specs' \subseteq Agents /\ DOMAIN specs' \subseteq Read'
  <2>1. CASE a = BuiltIn
    <3> DEFINE spec == [profile |-> "publisher", paths |-> {}]
    <3>1. spec.profile \in Profiles /\ spec.paths \subseteq Patterns \cup {<<"docs", "**">>}
      BY DEF Profiles
    <3>2. specs' = [b \in DOMAIN specs \cup {a} |-> IF b = a THEN spec ELSE specs[b]]
      BY <2>1 DEF LoadAgent
    <3> HIDE DEF spec
    <3> QED
      BY <1>1, <3>1, <3>2
  <2>2. CASE a # BuiltIn /\ specs' = specs
    BY <2>2 DEF Typed, Read
  <2>3. CASE a # BuiltIn /\ specs' # specs
    <3>1. PICK read \in AgentFiles :
            specs' = [b \in DOMAIN specs \cup {a} |->
                        IF b = a THEN WithDefault(read) ELSE specs[b]]
      BY <2>3 DEF LoadAgent
    <3> QED
      BY <1>1, <1>2, <3>1
  <2> QED
    BY <2>1, <2>2, <2>3
<1> QED
  BY <1>3, <1>4 DEF Typed

\* Every step keeps the types.
LEMMA NextTyped ==
    ASSUME Typed, LevelsInv, [Next]_vars
    PROVE  Typed'
<1>1. CASE /\ UNCHANGED <<specs, levels>>
           /\ pc' \in {"parse", "levels", "agents", "accepted", "rejected"}
  BY <1>1 DEF Typed, Read
<1>2. CASE Levels /\ levels' # levels
  <2>0. ReadyStages # {} /\ levels' = Append(levels, ReadyStages)
    BY <1>2 DEF Levels
  <2>1. ReadyStages \in SUBSET Ids
    <3>1. pipe.ids \subseteq Ids
      BY DEF LevelsInv, Pipelines
    <3> QED
      BY <3>1 DEF ReadyStages
  <2>2. levels' \in Seq((SUBSET Ids) \ {{}})
    <3> DEFINE T == (SUBSET Ids) \ {{}}
    <3>0. levels \in Seq(T)
      BY DEF Typed
    <3>1. ReadyStages \in T
      BY <2>0, <2>1, Zenon
    <3> HIDE DEF T
    <3>2. Append(levels, ReadyStages) \in Seq(T)
      BY <3>0, <3>1
    <3> QED
      BY <2>0, <3>2 DEF T
  <2>3. specs' = specs /\ pc' = "levels"
    BY <1>2 DEF Levels
  <2> QED
    BY <2>2, <2>3 DEF Typed, Read
<1>3. CASE ParsePipeline
  BY <1>1, <1>3 DEF ParsePipeline
<1>4. CASE Levels /\ levels' = levels
  BY <1>1, <1>4 DEF Levels
<1>5. CASE LoadFails \/ checkWriteConflicts
  BY <1>1, <1>5 DEF LoadFails, checkWriteConflicts
<1>6. CASE UNCHANGED vars
  BY <1>1, <1>6 DEF vars, Typed
<1> QED
  BY <1>2, <1>3, <1>4, <1>5, <1>6, AgentTyped DEF Next, Answered

\* Only checkWriteConflicts accepts, and nothing changes afterwards.
LEMMA NextApart ==
    ASSUME Apart, [Next]_vars
    PROVE  Apart'
<1>1. CASE pc' # "accepted"
  BY <1>1 DEF Apart
<1>2. CASE pc' = "accepted" /\ checkWriteConflicts
  BY <1>2 DEF checkWriteConflicts, Apart, Unread, WriteConflict, PathsOf
<1>3. CASE pc' = "accepted" /\ UNCHANGED vars
  BY <1>3 DEF vars, Apart, Unread, WriteConflict, PathsOf
<1> QED
  BY <1>1, <1>2, <1>3
  DEF Next, ParsePipeline, Levels, LoadFails, LoadAgent, Answered

\* Two stages with patterns for one name have roots that conflict.
LEMMA ApartMeansOneOwner ==
    ASSUME Typed, LevelsInv, Apart
    PROVE  OneOwner
<1>1. TypeOK
  BY DEF Typed, Read, LevelsInv, TypeOK
<1>2. ASSUME pc = "accepted", NEW s \in pipe.ids, NEW t \in pipe.ids, NEW name \in Paths,
             s # t, MayWrite(name, specs[pipe.agent[s]]), owned(name, PathsOf(t))
      PROVE  FALSE
  <2>1. pipe.agent[s] \in DOMAIN specs /\ pipe.agent[t] \in DOMAIN specs
    BY <1>2 DEF Apart, Unread
  <2>2. PICK q \in PathsOf(s) : GlobMatch(name, q)
    BY <1>2 DEF MayWrite, PathsOf
  <2>3. PICK r \in PathsOf(t) : GlobMatch(name, r)
    BY <1>2 DEF owned
  <2> DEFINE Segments == STRING \cup {"docs", "**"}
  <2>0. Seq(STRING) \subseteq Seq(Segments)
    BY SeqMonotonic
  <2>4. name \in Seq(Segments) /\ "**" \in Wild
    BY <2>0, DefinitionAssumption
  <2>5. q \in Patterns \cup {<<"docs", "**">>} /\ r \in Patterns \cup {<<"docs", "**">>}
    BY <2>1 DEF Typed, Read, PathsOf
  <2>6. q \in Seq(Segments) /\ r \in Seq(Segments)
    <3>1. \A p \in Patterns : p \in Seq(Segments)
      BY <2>0, DefinitionAssumption
    <3>2. "docs" \in Segments /\ "**" \in Segments
      OBVIOUS
    <3>3. \A x, y \in Segments : <<x, y>> \in Seq(Segments)
      OBVIOUS
    <3> HIDE DEF Segments
    <3> QED
      BY <2>5, <3>1, <3>2, <3>3
  <2> HIDE DEF Segments
  <2>7. /\ StartsWith(name, literalRoot(q)) /\ literalRoot(q) \in Seq(Segments)
        /\ StartsWith(name, literalRoot(r)) /\ literalRoot(r) \in Seq(Segments)
    BY <2>2, <2>3, <2>4, <2>6, MatchStartsWithRoot
  <2>8. RootsConflict(literalRoot(q), literalRoot(r))
    BY <2>4, <2>7, BeginningsNest DEF RootsConflict
  <2> QED
    BY <1>2, <2>8 DEF Apart, WriteConflict
<1> QED
  BY <1>1, <1>2 DEF OneOwner

\* No file has two owners, for every accepted definition and every path: what
\* Workspace assumes of the owners of files is what checkWriteConflicts ensures.
THEOREM FilesHaveOneOwner == Spec => []OneOwner
<1>1. Init => LevelsInv /\ Typed /\ Apart
  <2>1. Init => Typed /\ Apart
    BY DEF Init, Typed, Read, Apart
  <2> QED
    BY <2>1, InitLevels
<1>2. (LevelsInv /\ Typed /\ Apart) /\ [Next]_vars => (LevelsInv /\ Typed /\ Apart)'
  BY NextLevels, NextTyped, NextApart
<1>3. LevelsInv /\ Typed /\ Apart => OneOwner
  BY ApartMeansOneOwner
<1> QED
  BY <1>1, <1>2, <1>3, PTL DEF Spec
=============================================================================
