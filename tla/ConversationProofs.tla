-------------------------- MODULE ConversationProofs --------------------------
(***************************************************************************)
(* The conversations of a stage, for any number of attempts, turns, tool   *)
(* calls, faults and lost processes.                                       *)
(***************************************************************************)
EXTENDS Conversation, SequenceTheorems, Induction

(***************************************************************************)
(* One runner.                                                             *)
(***************************************************************************)
Places == {"none", "reset", "check", "think", "chat", "usage", "call", "tool", "result",
           "limit", "read", "header", "commit", "fail", "ended"}
Message == [role : {"user", "assistant", "tool"}, calls : Seq(Nat), of : Nat]

Runner == [pc : Places, i : Nat, turn : Seq(Calls), made : Nat, messages : Seq(Message),
           primary : Files \cup {NoFile}, content : Content, unpaid : Nat]

\* There is a call to make or to answer.
InTurn(r) == r.pc \in {"call", "tool", "result"} => r.turn # <<>>

\* A turn may begin only below the limit; between the answer of the model and its
\* usage event, and nowhere else, a model call is not accounted for.
Paid(r) ==
    /\ r.i <= Limit
    /\ r.pc \in {"reset", "check", "think", "chat", "usage"} => r.i < Limit
    /\ r.unpaid = 0 \/ (r.unpaid = 1 /\ r.pc \in {"usage", "fail", "ended"})
    /\ r.pc = "usage" => r.unpaid = 1

\* There is a file to read; what Read returned is not large, so that writing it
\* back loses nothing.
Chosen(r) ==
    /\ r.pc \in {"read", "header"} => r.primary \in Files
    /\ r.pc = "header" => r.content.text # "large"

Sound(r) ==
    r \in Runner /\ Len(r.turn) <= setup.calls /\ InTurn(r) /\ Paid(r) /\ Chosen(r)

\* The part of the inductive invariant about single runners.
Runs == run \in [Attempts -> Runner] /\ \A a \in Attempts : Sound(run[a])

\* What the assumptions on the constants say of the setup.
LEMMA SetupFacts ==
    ASSUME setup \in Setups
    PROVE  /\ Limit \in Nat \ {0} /\ setup.calls \in Nat /\ setup.bounds \in Limits
           /\ setup.agent.own \subseteq Files
BY ConversationAssumption DEF Limit, Agent

\* An attempt writes contents.
LEMMA WrittenType ==
    ASSUME NEW a \in 0..MaxAttempts, NEW text \in Texts \cup {"none", "cut"},
           NEW header \in BOOLEAN
    PROVE  Written(a, text, header) \in Content
BY DEF Written, Content

\* A missing file and the committed tree have their types.
LEMMA AbsentType == Absent \in Content /\ Committed \in [Files -> Content]
<1>1. 0 \in 0..MaxAttempts
  BY ConversationAssumption
<1>2. Absent \in Content /\ Written(0, "small", FALSE) \in Content
  BY <1>1, WrittenType DEF Absent, Texts
<1> QED
  BY <1>2 DEF Committed

\* Read gives a content that is not large.
LEMMA ReadType ==
    ASSUME files \in [Files -> Content], NEW f \in Files
    PROVE  /\ Read(f) \in Content /\ Read(f).text # "large"
           /\ Read(f).header = files[f].header
BY DEF Read, Content, Texts

\* A runner that does not run, starts or has ended is sound.
LEMMA NotRunningSound ==
    ASSUME setup \in Setups
    PROVE  Sound(NotRunning)
<1>1. NotRunning \in Runner
  BY AbsentType, EmptySeq DEF NotRunning, Runner, Places
<1>2. Len(NotRunning.turn) = 0 /\ NotRunning.turn = <<>>
  BY DEF NotRunning
<1> QED
  BY <1>1, <1>2, SetupFacts DEF NotRunning, Sound, InTurn, Paid, Chosen

\* A runner whose calls are paid goes on to any place that suits its turn.
LEMMA GoesOn ==
    ASSUME NEW r, Sound(r), r.unpaid = 0, NEW pc \in Places \ {"usage", "read", "header"},
           pc \in {"call", "tool", "result"} => r.turn # <<>>,
           pc \in {"reset", "check", "think", "chat"} => r.i < Limit
    PROVE  Sound([r EXCEPT !.pc = pc])
BY DEF Sound, Runner, Places, InTurn, Paid, Chosen

\* A runner starts sound, before its Reset or its first budget check.
LEMMA StartedSound ==
    ASSUME setup \in Setups
    PROVE  Sound(Started) /\ Started.pc \in {"reset", "check"}
<1>1. Sound(NotRunning)
  BY NotRunningSound
<1>2. UserMessage \in Message
  BY EmptySeq DEF UserMessage, Message
<1>3. <<UserMessage>> \in Seq(Message)
  BY <1>2
<1> DEFINE pc == IF setup.mode = "execute" THEN "reset" ELSE "check"
           r == [NotRunning EXCEPT !.pc = pc]
<1>4. Sound(r)
  <2>1. NotRunning.i < Limit /\ NotRunning.unpaid = 0
    BY SetupFacts DEF NotRunning
  <2>2. pc \in {"reset", "check"}
    OBVIOUS
  <2> QED
    BY <1>1, <2>1, <2>2, GoesOn DEF Places
<1>5. Started = [r EXCEPT !.messages = <<UserMessage>>]
  BY DEF Started, NotRunning
<1> QED
  BY <1>3, <1>4, <1>5 DEF NotRunning, Sound, Runner, InTurn, Paid, Chosen

\* A runner that ends keeps only whether a call is unpaid, and is sound.
LEMMA EndedSound ==
    ASSUME setup \in Setups, NEW r, r.unpaid \in 0..1
    PROVE  Sound(Ended(r)) /\ Ended(r).pc = "ended"
<1>1. Sound(NotRunning) /\ NotRunning.i = 0
  BY NotRunningSound DEF NotRunning
<1>2. PICK u \in 0..1 : u = r.unpaid
  OBVIOUS
<1>3. Ended(r) = [NotRunning EXCEPT !.pc = "ended", !.unpaid = u]
  BY <1>2 DEF Ended
<1>4. Ended(r) \in Runner
  <2>1. NotRunning \in Runner /\ u \in Nat
    BY <1>1 DEF Sound
  <2>2. \A n \in Runner, m \in Nat : [n EXCEPT !.pc = "ended", !.unpaid = m] \in Runner
    BY DEF Runner, Places
  <2> QED
    BY <1>3, <2>1, <2>2
<1>5. /\ Ended(r).pc = "ended" /\ Ended(r).unpaid = u /\ Ended(r).i = NotRunning.i
      /\ Ended(r).turn = NotRunning.turn
  BY <1>1, <1>3 DEF Sound, Runner
<1> QED
  BY <1>1, <1>4, <1>5, SetupFacts DEF Sound, InTurn, Paid, Chosen

\* A runner may fail anywhere.
LEMMA FailSound ==
    ASSUME setup \in Setups, NEW r, Sound(r)
    PROVE  Sound([r EXCEPT !.pc = "fail"])
BY DEF Sound, Runner, Places, InTurn, Paid, Chosen

\* The calls of a turn.
LEMMA TurnType ==
    ASSUME setup \in Setups, NEW turn \in Turns
    PROVE  turn \in Seq(Calls) /\ Len(turn) <= setup.calls
<1> DEFINE calls == {c \in Calls : setup.provider = "anthropic" => c.args # "broken"}
<1>1. PICK n \in 0..setup.calls : turn \in [1..n -> calls]
  BY DEF Turns
<1>2. n \in Nat /\ turn \in [1..n -> Calls]
  BY <1>1, SetupFacts
<1>3. turn \in Seq(Calls)
  BY <1>2, SeqDef
<1>4. Len(turn) = n
  BY <1>2, <1>3, LenProperties
<1> QED
  BY <1>1, <1>3, <1>4, SetupFacts

(***************************************************************************)
(* The steps of a runner.                                                  *)
(***************************************************************************)

\* A runner goes on with a sound record; the others stay as they are.
LEMMA GotoRuns ==
    ASSUME Runs, UNCHANGED setup, NEW a \in Attempts, NEW next, Sound(next), Goto(a, next)
    PROVE  Runs'
<1>1. run' \in [Attempts -> Runner]
  BY DEF Runs, Goto, Sound
<1>2. \A b \in Attempts : Sound(run'[b])
  BY DEF Runs, Goto
<1>3. \A r : Sound(r) => Sound(r)'
  BY DEF Sound, Paid, InTurn, Chosen, Limit
<1> QED
  BY <1>1, <1>2, <1>3 DEF Runs

\* A bound that is spent stays a natural number.
LEMMA SpendLimits ==
    ASSUME left \in Limits, NEW what \in {"faults", "losses", "requests"}, Spend(what)
    PROVE  left' \in Limits
BY DEF Limits, Spend

\* Emit: on with the next record, to the failure, or to the end.
LEMMA EmitRuns ==
    ASSUME setup \in Setups, Runs, left \in Limits, UNCHANGED setup,
           NEW a \in Attempts, NEW next, Sound(next), Emit(a, next)
    PROVE  Runs' /\ left' \in Limits
<1>1. Sound(run[a])
  BY DEF Runs
<1>2. Sound(To(a, "fail"))
  BY <1>1, FailSound DEF To
<1>3. Sound(Ended(run[a]))
  BY <1>1, EndedSound DEF Sound, Paid
<1> QED
  BY <1>2, <1>3, GotoRuns, SpendLimits DEF Emit

\* Finish: the loop is over.
LEMMA FinishSound ==
    ASSUME NEW r, Sound(r), r.unpaid = 0
    PROVE  Sound(Finish(r))
<1>1. CASE r.primary = NoFile
  BY <1>1, GoesOn DEF Finish, Places
<1>2. CASE r.primary # NoFile
  BY <1>2 DEF Finish, Sound, Runner, Places, InTurn, Paid, Chosen
<1> QED
  BY <1>1, <1>2

\* The answer of the model, once it is paid for.
LEMMA AnsweredSound ==
    ASSUME setup \in Setups, NEW r, Sound(r), r.pc = "usage"
    PROVE  /\ Sound(Answered(r))
           /\ Answered(r).pc = "commit" => Answered(r).primary = NoFile
<1> DEFINE calls == [k \in DOMAIN r.turn |-> r.made + k]
           answer == AssistantMessage(calls)
           next == [r EXCEPT !.unpaid = @ - 1, !.i = @ + 1, !.messages = Append(@, answer)]
<1>1. r \in Runner /\ r.unpaid = 1 /\ r.i < Limit /\ Len(r.turn) <= setup.calls
  BY DEF Sound, Paid
<1>2. calls \in Seq(Nat)
  <2>1. Len(r.turn) \in Nat /\ DOMAIN r.turn = 1..Len(r.turn)
    BY <1>1, LenProperties DEF Runner
  <2>2. calls \in [1..Len(r.turn) -> Nat]
    BY <1>1, <2>1 DEF Runner
  <2> QED
    BY <2>1, <2>2, SeqDef
<1>3. answer \in Message
  BY <1>2 DEF AssistantMessage, Message
<1>4. Append(r.messages, answer) \in Seq(Message)
  BY <1>1, <1>3 DEF Runner
<1>5. r.unpaid - 1 = 0 /\ r.i + 1 \in Nat /\ r.i + 1 <= Limit
  BY <1>1, SetupFacts DEF Runner
<1>6. /\ next \in Runner /\ next.unpaid = 0 /\ next.i = r.i + 1 /\ next.turn = r.turn
      /\ next.pc = "usage"
  <2>1. PICK u \in Nat, n \in Nat, m \in Seq(Message) :
            u = r.unpaid - 1 /\ n = r.i + 1 /\ m = Append(r.messages, answer)
    BY <1>4, <1>5
  <2>2. next = [r EXCEPT !.unpaid = u, !.i = n, !.messages = m]
    BY <2>1, Zenon
  <2> HIDE DEF next
  <2>3. /\ next \in Runner /\ next.unpaid = u /\ next.i = n /\ next.turn = r.turn
        /\ next.pc = r.pc
    BY <1>1, <2>1, <2>2 DEF Runner
  <2> QED
    BY <1>5, <2>1, <2>3
<1> HIDE DEF next
<1>7. ASSUME NEW pc \in {"fail", "call", "commit", "read"}, pc = "call" => r.turn # <<>>,
             pc = "read" => next.primary # NoFile
      PROVE  /\ Sound([next EXCEPT !.pc = pc])
             /\ [next EXCEPT !.pc = pc].pc = pc
             /\ [next EXCEPT !.pc = pc].primary = next.primary
  BY <1>1, <1>5, <1>6, <1>7 DEF Sound, Runner, Places, InTurn, Paid, Chosen
<1>8. CASE r.turn = <<>>
  BY <1>7, <1>8 DEF Answered, Finish, next
<1>9. CASE r.turn # <<>>
  BY <1>7, <1>9 DEF Answered, next
<1> QED
  BY <1>8, <1>9

\* After the first of several calls another one is left.
LEMMA MoreCalls ==
    ASSUME NEW S, NEW s \in Seq(S), Len(s) > 1
    PROVE  Tail(s) # <<>>
<1>1. s # <<>>
  OBVIOUS
<1>2. Len(Tail(s)) = Len(s) - 1 /\ Len(s) \in Nat
  BY <1>1, HeadTailProperties, LenProperties
<1>3. \A n \in Nat : n > 1 => n - 1 # 0
  OBVIOUS
<1>4. Len(<<>>) = 0
  BY EmptySeq
<1> QED
  BY <1>2, <1>3, <1>4, Zenon

\* The answer to a call.
LEMMA CallAnsweredSound ==
    ASSUME setup \in Setups, NEW r, Sound(r), r.pc = "result"
    PROVE  Sound(CallAnswered(r)) /\ CallAnswered(r).pc # "commit"
<1> DEFINE next == [r EXCEPT !.turn = Tail(@), !.made = @ + 1,
                             !.messages = Append(@, ToolMessage(r.made + 1))]
<1>1. /\ r \in Runner /\ r.unpaid = 0 /\ r.i <= Limit /\ r.turn # <<>>
      /\ Len(r.turn) <= setup.calls
  BY DEF Sound, Paid, InTurn
<1>2. Tail(r.turn) \in Seq(Calls) /\ Len(Tail(r.turn)) = Len(r.turn) - 1 /\ Len(r.turn) \in Nat
  BY <1>1, HeadTailProperties, LenProperties DEF Runner
<1>3. ToolMessage(r.made + 1) \in Message
  BY <1>1, EmptySeq DEF ToolMessage, Message, Runner
<1>4. Append(r.messages, ToolMessage(r.made + 1)) \in Seq(Message)
  BY <1>1, <1>3 DEF Runner
<1>5. /\ next \in Runner /\ next.unpaid = 0 /\ next.i = r.i /\ next.turn = Tail(r.turn)
      /\ next.pc = "result"
  <2>1. PICK t \in Seq(Calls), n \in Nat, m \in Seq(Message) :
            t = Tail(r.turn) /\ n = r.made + 1 /\ m = Append(r.messages, ToolMessage(r.made + 1))
    <3>1. r.made + 1 \in Nat
      BY <1>1 DEF Runner
    <3> QED
      BY <1>2, <1>4, <3>1, Zenon
  <2>2. next = [r EXCEPT !.turn = t, !.made = n, !.messages = m]
    BY <2>1, Zenon
  <2> HIDE DEF next
  <2>3. /\ next \in Runner /\ next.unpaid = r.unpaid /\ next.i = r.i /\ next.turn = t
        /\ next.pc = r.pc
    BY <1>1, <2>1, <2>2 DEF Runner
  <2> QED
    BY <1>1, <2>1, <2>3
<1>6. Len(next.turn) <= setup.calls
  BY <1>1, <1>2, <1>5, SetupFacts
<1> HIDE DEF next
<1>7. Len(r.turn) > 1 => Tail(r.turn) # <<>>
  <2>1. r.turn \in Seq(Calls)
    BY <1>1 DEF Runner
  <2> QED
    BY <2>1, MoreCalls, Zenon
<1>8. ASSUME NEW pc \in {"call", "check", "limit"}, pc = "call" => Len(r.turn) > 1,
             pc = "check" => r.i < Limit
      PROVE  Sound([next EXCEPT !.pc = pc]) /\ [next EXCEPT !.pc = pc].pc = pc
  <2>1. pc = "call" => next.turn # <<>>
    BY <1>5, <1>7, <1>8
  <2> QED
    BY <1>1, <1>5, <1>6, <1>8, <2>1 DEF Sound, Runner, Places, InTurn, Paid, Chosen
<1> QED
  BY <1>8 DEF CallAnswered, next

\* The types of what the runners share.
Rows ==
    /\ setup \in Setups
    /\ row \in [attempt : 0..MaxAttempts, status : {"working", "review", "approved"}]
    /\ over \in BOOLEAN
    /\ deliverable \in [by : 0..MaxAttempts, ref : Files \cup {NoFile}, content : Content]
    /\ files \in [Files -> Content]
    /\ split \in BOOLEAN /\ stray \subseteq Attempts /\ cancelled \subseteq Attempts
    /\ late \in [Attempts -> Nat] /\ left \in Limits

\* The types with what is known of the runners.
Typed == Rows /\ Runs

\* Every step of a runner leaves it sound.
LEMMA StepRuns ==
    ASSUME Typed, NEW a \in Attempts, Step(a)
    PROVE  Runs' /\ left' \in Limits
<1> DEFINE r == run[a]
<1>1. /\ setup \in Setups /\ Runs /\ left \in Limits /\ Sound(r) /\ r \in Runner
      /\ files \in [Files -> Content]
  BY DEF Typed, Rows, Runs
<1>2. UNCHANGED setup
  BY DEF Step, Reset, CheckBudget, Think, Chat, RecordUsage, BeginCall, CallTool, EndCall,
         HitLimit, ReadPrimary, WriteHeader, Commit, Fail
<1>3. Sound(To(a, "fail")) /\ Sound(Ended(r))
  BY <1>1, FailSound, EndedSound DEF To, Sound, Paid
<1>4. ASSUME NEW next, Sound(next), Goto(a, next)
      PROVE  Runs'
  BY <1>1, <1>2, <1>4, GotoRuns
<1>5. ASSUME NEW next, Sound(next), Emit(a, next)
      PROVE  Runs' /\ left' \in Limits
  BY <1>1, <1>2, <1>5, EmitRuns
<1>6. r.pc \notin {"usage", "fail", "ended"} => r.unpaid = 0
  BY <1>1 DEF Sound, Paid
<1>7. ASSUME NEW pc \in Places \ {"usage", "read", "header"}, r.pc \notin {"usage", "fail", "ended"},
             pc \in {"call", "tool", "result"} => r.turn # <<>>,
             pc \in {"reset", "check", "think", "chat"} => r.i < Limit
      PROVE  Sound(To(a, pc))
  BY <1>1, <1>6, <1>7, GoesOn DEF To
<1>8. r.pc \in {"reset", "check", "think", "chat"} => r.i < Limit
  BY <1>1 DEF Sound, Paid
<1>9. CASE Reset(a)
  <2>1. Sound(To(a, "check"))
    BY <1>7, <1>8, <1>9 DEF Reset, At, Places
  <2> QED
    BY <1>1, <1>3, <1>4, <1>9, <2>1, SpendLimits DEF Reset
<1>10. CASE CheckBudget(a)
  <2>1. Sound(To(a, "think"))
    BY <1>7, <1>8, <1>10 DEF CheckBudget, At, Places
  <2> QED
    BY <1>1, <1>3, <1>4, <1>10, <2>1, SpendLimits DEF CheckBudget
<1>11. CASE Think(a)
  <2>1. Sound(To(a, "chat"))
    BY <1>7, <1>8, <1>11 DEF Think, At, Places
  <2> QED
    BY <1>5, <1>11, <2>1 DEF Think
<1>12. CASE Chat(a)
  <2> DEFINE asked == [r EXCEPT !.unpaid = @ + 1]
  <2>1. r.pc = "chat" /\ r.unpaid = 0 /\ r.i < Limit
    BY <1>6, <1>8, <1>12 DEF Chat, At
  <2>2. asked.unpaid = 1
    BY <1>1, <2>1 DEF Runner
  <2>3. Sound(Ended(asked))
    <3> HIDE DEF asked
    <3> QED
      BY <1>1, <2>2, EndedSound
  <2>4. asked \in Runner /\ asked.i = r.i /\ asked.turn = r.turn
    BY <1>1, <2>1 DEF Runner
  <2> HIDE DEF asked
  <2>5. Sound([asked EXCEPT !.pc = "fail"])
    BY <1>1, <2>1, <2>2, <2>4 DEF Sound, Runner, Places, InTurn, Paid, Chosen
  <2>6. ASSUME NEW turn \in Turns
        PROVE  Sound([asked EXCEPT !.pc = "usage", !.turn = turn])
    <3>1. turn \in Seq(Calls) /\ Len(turn) <= setup.calls
      BY <1>1, TurnType
    <3>2. [asked EXCEPT !.pc = "usage", !.turn = turn] \in Runner
      BY <2>4, <3>1 DEF Runner, Places
    <3> QED
      BY <1>1, <2>1, <2>2, <2>4, <3>1, <3>2 DEF Sound, Runner, InTurn, Paid, Chosen
  <2> QED
    BY <1>1, <1>4, <1>12, <2>3, <2>5, <2>6, SpendLimits DEF Chat, asked
<1>13. CASE RecordUsage(a)
  BY <1>1, <1>5, <1>13, AnsweredSound DEF RecordUsage, At
<1>14. CASE BeginCall(a)
  <2>1. Sound(To(a, "tool"))
    BY <1>1, <1>7, <1>14 DEF BeginCall, At, Places, Sound, InTurn
  <2> QED
    BY <1>5, <1>14, <2>1 DEF BeginCall
<1>15. CASE CallTool(a)
  <2> DEFINE c == r.turn[1]
             primary == IF Succeeds(c) /\ c.tool = "write_file" THEN c.file ELSE r.primary
  <2>1. r.pc = "tool" /\ r.turn # <<>> /\ r.turn \in Seq(Calls)
    BY <1>1, <1>15 DEF CallTool, At, Sound, InTurn, Runner
  <2>2. c.file \in Files
    BY <2>1, ConversationAssumption
  <2>3. primary \in Files \cup {NoFile}
    BY <1>1, <2>2 DEF Runner
  <2>4. Sound([r EXCEPT !.pc = "result", !.primary = primary])
    <3> HIDE DEF primary
    <3> QED
      BY <1>1, <2>1, <2>3 DEF Sound, Runner, Places, InTurn, Paid, Chosen
  <2> QED
    BY <1>1, <1>4, <1>15, <2>4 DEF CallTool
<1>16. CASE EndCall(a)
  BY <1>1, <1>5, <1>16, CallAnsweredSound DEF EndCall, At
<1>17. CASE HitLimit(a)
  BY <1>1, <1>5, <1>6, <1>17, FinishSound DEF HitLimit, At
<1>18. CASE ReadPrimary(a)
  <2> DEFINE f == r.primary
             pc == IF files[f].header THEN "commit" ELSE "header"
  <2>1. r.pc = "read" /\ f \in Files /\ r.unpaid = 0
    BY <1>1, <1>6, <1>18 DEF ReadPrimary, At, Sound, Chosen
  <2>2. Read(f) \in Content /\ Read(f).text # "large"
    BY <1>1, <2>1, ReadType
  <2>3. pc \in {"commit", "header"}
    OBVIOUS
  <2>4. Sound([r EXCEPT !.content = Read(f), !.pc = pc])
    <3> HIDE DEF pc
    <3> QED
      BY <1>1, <2>1, <2>2, <2>3 DEF Sound, Runner, Places, InTurn, Paid, Chosen
  <2> QED
    BY <1>1, <1>3, <1>4, <1>18, <2>4 DEF ReadPrimary
<1>19. CASE WriteHeader(a)
  <2> DEFINE content == [r.content EXCEPT !.header = TRUE]
  <2>1. r.pc = "header" /\ r.unpaid = 0
    BY <1>6, <1>19 DEF WriteHeader, At
  <2>2. content \in Content
    BY <1>1 DEF Runner, Content
  <2>3. Sound([r EXCEPT !.pc = "commit", !.content = content])
    <3> HIDE DEF content
    <3> QED
      BY <1>1, <2>1, <2>2 DEF Sound, Runner, Places, InTurn, Paid, Chosen
  <2> QED
    BY <1>1, <1>4, <1>19, <2>3 DEF WriteHeader
<1>20. CASE Commit(a)
  BY <1>3, <1>5, <1>20 DEF Commit
<1>21. CASE Fail(a)
  BY <1>1, <1>3, <1>4, <1>21 DEF Fail
<1> QED
  BY <1>9, <1>10, <1>11, <1>12, <1>13, <1>14, <1>15, <1>16, <1>17, <1>18, <1>19, <1>20, <1>21
     DEF Step

\* A step that changes files of the tree keeps its type.
LEMMA TouchType ==
    ASSUME late \in [Attempts -> Nat], NEW a \in Attempts, NEW tree \in [Files -> Content],
           Touch(a, tree)
    PROVE  files' \in [Files -> Content] /\ late' \in [Attempts -> Nat]
BY DEF Touch

\* Every step of a runner keeps the types.
LEMMA StepTyped ==
    ASSUME Typed, NEW a \in Attempts, Step(a)
    PROVE  Typed'
<1>1. Runs' /\ left' \in Limits
  BY StepRuns
<1>2. Rows /\ Sound(run[a]) /\ run[a] \in Runner /\ a \in 0..MaxAttempts
  BY DEF Typed, Runs, Attempts
<1>3. CASE UNCHANGED <<rowVars, files, procVars, setup, late>>
  BY <1>1, <1>2, <1>3 DEF Typed, Rows, rowVars, procVars
<1>4. ASSUME NEW tree \in [Files -> Content], Touch(a, tree),
             UNCHANGED <<rowVars, procVars, setup>>
      PROVE  Typed'
  BY <1>1, <1>2, <1>4, TouchType DEF Typed, Rows, rowVars, procVars
<1>5. CASE Reset(a)
  <2>1. [f \in Files |-> IF f \in setup.agent.own THEN Committed[f] ELSE files[f]]
            \in [Files -> Content]
    BY <1>2, AbsentType DEF Rows
  <2> QED
    BY <1>3, <1>4, <1>5, <2>1 DEF Reset
<1>6. CASE CallTool(a)
  <2> DEFINE c == run[a].turn[1]
             tree == [files EXCEPT ![c.file] = Written(a, c.text, c.header)]
  <2>1. c \in Calls
    BY <1>2, <1>6 DEF CallTool, At, Sound, InTurn, Runner
  <2>2. c.text \in Texts /\ c.header \in BOOLEAN
    BY <2>1, ConversationAssumption
  <2>3. Written(a, c.text, c.header) \in Content
    BY <1>2, <2>2, WrittenType
  <2>4. tree \in [Files -> Content]
    BY <1>2, <2>3 DEF Rows
  <2> QED
    BY <1>3, <1>4, <1>6, <2>4 DEF CallTool
<1>7. CASE WriteHeader(a)
  <2> DEFINE content == [run[a].content EXCEPT !.header = TRUE]
             tree == [files EXCEPT ![run[a].primary] = content]
  <2>1. content \in Content
    BY <1>2 DEF Runner, Content
  <2>2. tree \in [Files -> Content]
    BY <1>2, <2>1 DEF Rows
  <2> QED
    BY <1>4, <1>7, <2>2 DEF WriteHeader
<1>8. CASE Commit(a)
  <2>1. row' \in [attempt : 0..MaxAttempts, status : {"working", "review", "approved"}]
    BY <1>2, <1>8 DEF Commit, Rows
  <2>2. deliverable' \in [by : 0..MaxAttempts, ref : Files \cup {NoFile}, content : Content]
    BY <1>2, <1>8 DEF Commit, Rows, Runner
  <2> QED
    BY <1>1, <1>2, <1>8, <2>1, <2>2 DEF Commit, Typed, Rows, procVars
<1>9. CASE Fail(a)
  BY <1>1, <1>2, <1>9 DEF Fail, Typed, Rows, procVars
<1> QED
  BY <1>3, <1>5, <1>6, <1>7, <1>8, <1>9
     DEF Step, CheckBudget, Think, Chat, RecordUsage, BeginCall, EndCall, HitLimit, ReadPrimary

\* Every step keeps the types.
LEMMA TypedStep ==
    ASSUME Typed, [Next]_vars
    PROVE  Typed'
<1>1. CASE UNCHANGED vars
  BY <1>1 DEF Typed, Rows, Runs, Sound, InTurn, Paid, Chosen, Limit, vars
<1>2. ASSUME UNCHANGED <<setup, run>>
      PROVE  Runs'
  BY <1>2 DEF Typed, Runs, Sound, InTurn, Paid, Chosen, Limit
<1>3. ASSUME NEW a \in Attempts, Claim(a)
      PROVE  Typed'
  <2>1. Runs'
    BY <1>3, StartedSound, GotoRuns DEF Claim, Typed, Rows
  <2>2. row' \in [attempt : 0..MaxAttempts, status : {"working", "review", "approved"}]
    BY <1>3 DEF Claim, Typed, Rows, Attempts
  <2>3. stray' \subseteq Attempts
    BY <1>3 DEF Claim, Typed, Rows
  <2> QED
    BY <1>3, <2>1, <2>2, <2>3 DEF Claim, Typed, Rows
<1>4. ASSUME NEW a \in Attempts, Step(a)
      PROVE  Typed'
  BY <1>4, StepTyped
<1>5. ASSUME NEW a \in Attempts, StopProcess(a) \/ Crash(a)
      PROVE  Typed'
  <2>1. Sound(Ended(run[a]))
    BY EndedSound DEF Typed, Rows, Runs, Sound, Paid
  <2>2. Runs'
    BY <1>2, <1>5, <2>1, GotoRuns DEF StopProcess, Crash, Typed
  <2>3. left' \in Limits
    BY <1>5, SpendLimits DEF StopProcess, Crash, Stops, Typed, Rows
  <2> QED
    BY <1>5, <2>2, <2>3 DEF StopProcess, Crash, Stops, Typed, Rows, rowVars
<1>6. CASE Decide
  BY <1>2, <1>6 DEF Decide, Typed, Rows, procVars
<1>7. CASE CancelTask
  <2>1. cancelled' \subseteq Attempts
    BY <1>7 DEF CancelTask, Typed, Rows
  <2> QED
    BY <1>2, <1>7, <2>1, SpendLimits DEF CancelTask, Typed, Rows
<1>8. CASE LoseSession
  BY <1>2, <1>8, SpendLimits DEF LoseSession, Typed, Rows, rowVars
<1> QED
  BY <1>1, <1>3, <1>4, <1>5, <1>6, <1>7, <1>8 DEF Next, Rest

\* The types hold at the start.
LEMMA TypedInit ==
    ASSUME Init
    PROVE  Typed
<1>1. setup \in Setups /\ MaxAttempts \in Nat
  BY ConversationAssumption DEF Init
<1>2. Runs
  BY <1>1, NotRunningSound DEF Init, Runs, Sound
<1>3. deliverable \in [by : 0..MaxAttempts, ref : Files \cup {NoFile}, content : Content]
  BY <1>1, AbsentType DEF Init, NoResult
<1>4. files \in [Files -> Content] /\ left \in Limits
  BY <1>1, AbsentType, SetupFacts DEF Init
<1>5. row \in [attempt : 0..MaxAttempts, status : {"working", "review", "approved"}]
  BY <1>1 DEF Init
<1>6. late \in [Attempts -> Nat]
  BY DEF Init
<1>7. Rows
  BY <1>1, <1>3, <1>4, <1>5, <1>6 DEF Init, Rows
<1> QED
  BY <1>2, <1>7 DEF Typed

\* The invariant gives the types and the account.
LEMMA TypedAccounts ==
    ASSUME Typed
    PROVE  Accounted
<1>1. ASSUME NEW a \in Attempts
      PROVE  /\ run[a].i \in Nat /\ Len(run[a].turn) <= setup.calls
             /\ run[a].primary \in Files \cup {NoFile} /\ run[a].content \in Content
             /\ run[a].i <= Limit /\ run[a].unpaid <= 1
  <2>1. run[a] \in Runner /\ Sound(run[a])
    BY DEF Typed, Runs
  <2> QED
    BY <2>1 DEF Sound, Runner, Paid
<1>2. TypeOK
  BY <1>1 DEF Typed, Rows, TypeOK
<1> QED
  BY <1>1, <1>2 DEF Accounted

(***************************************************************************)
(* The claim.                                                              *)
(***************************************************************************)
\* Where a runner may be that has changed a file without its claim: the next event
\* ends it.
Leaving == {"check", "think", "result", "commit", "fail"}

\* A runner is not of the future; while the row has its attempt the stage is at work;
\* and a late change is the last one, because the claim does not come back.
Claimed ==
    \A a \in Attempts :
        /\ a > row.attempt => run[a].pc = "none" /\ late[a] = 0
        /\ Active(a) /\ row.attempt = a => row.status = "working"
        /\ late[a] <= 1
        /\ Active(a) /\ late[a] # 0 => ~Holds(a) /\ run[a].pc \in Leaving

\* An attempt that asks for its claim goes on only if it has changed nothing late.
LEMMA EmitClaimed ==
    ASSUME Typed, Claimed, NEW a \in Attempts, Active(a), NEW next, Emit(a, next),
           UNCHANGED <<row, over, late>>
    PROVE  Claimed'
<1>1. CASE Holds(a)
  <2>1. late[a] = 0
    BY <1>1 DEF Claimed
  <2>2. \A b \in Attempts : b # a => run'[b] = run[b]
    BY DEF Emit, Goto, Typed, Runs
  <2>3. a <= row.attempt /\ row.status = "working"
    BY <1>1 DEF Holds, Typed, Rows, Attempts
  <2> QED
    BY <2>1, <2>2, <2>3 DEF Claimed, Active, Holds, Typed, Rows, Attempts
<1>2. CASE ~Holds(a)
  <2>1. run' = [run EXCEPT ![a] = Ended(run[a])]
    BY <1>2 DEF Emit, Goto
  <2>2. run'[a].pc = "ended"
    BY <2>1 DEF Typed, Runs, Ended, NotRunning
  <2>3. a <= row.attempt
    BY DEF Claimed, Active, Typed, Rows, Attempts
  <2> QED
    BY <2>1, <2>2, <2>3 DEF Claimed, Active, Holds, Typed, Rows, Runs, Attempts
<1> QED
  BY <1>1, <1>2

\* A step that changes files from a place where nothing was late yet.
LEMMA TouchClaimed ==
    ASSUME Typed, Claimed, NEW a \in Attempts, Active(a), run[a].pc \notin Leaving,
           NEW next, next.pc \in Leaving, Goto(a, next), NEW tree, Touch(a, tree),
           UNCHANGED <<row, over>>
    PROVE  Claimed'
<1>1. late[a] = 0
  BY DEF Claimed, Typed, Rows
<1>2. \A b \in Attempts : b # a => run'[b] = run[b] /\ late'[b] = late[b]
  BY DEF Goto, Touch, Typed, Runs, Rows
<1>3. run'[a] = next /\ late'[a] \in {0, 1} /\ (late'[a] # 0 => ~Holds(a))
  BY <1>1 DEF Goto, Touch, Typed, Runs, Rows
<1>4. a <= row.attempt
  BY DEF Claimed, Active, Typed, Rows, Attempts
<1> QED
  BY <1>2, <1>3, <1>4 DEF Claimed, Active, Holds, Typed, Rows, Attempts

\* A step of one runner alone that ends it, or keeps it where it may leave, or starts
\* where nothing was late.
LEMMA MoveClaimed ==
    ASSUME Typed, Claimed, NEW a \in Attempts, Active(a), NEW next, Goto(a, next),
           \/ next.pc = "ended" \/ next.pc \in Leaving \/ run[a].pc \notin Leaving,
           UNCHANGED <<row, late>>, over' \in {over, TRUE}
    PROVE  Claimed'
<1>1. \A b \in Attempts : b # a => run'[b] = run[b]
  BY DEF Goto, Typed, Runs
<1>2. run'[a] = next
  BY DEF Goto, Typed, Runs
<1>3. a <= row.attempt /\ late[a] \in Nat
  BY DEF Claimed, Active, Typed, Rows, Attempts
<1> QED
  BY <1>1, <1>2, <1>3 DEF Claimed, Active, Holds, Typed, Rows, Attempts

\* The steps of a runner keep what is known of the claim.
LEMMA StepClaimed ==
    ASSUME Typed, Claimed, NEW a \in Attempts, Step(a)
    PROVE  Claimed'
<1>1. Active(a) /\ run[a] \in Runner
  BY DEF Typed, Runs, Step, Active, At, Reset, CheckBudget, Think, Chat, RecordUsage, BeginCall,
         CallTool, EndCall, HitLimit, ReadPrimary, WriteHeader, Commit, Fail
<1>2. /\ Ended(run[a]).pc = "ended"
      /\ \A pc \in Places : To(a, pc).pc = pc
  BY <1>1 DEF Ended, NotRunning, To, Runner
<1>3. CASE Reset(a)
  BY <1>1, <1>2, <1>3, TouchClaimed, MoveClaimed DEF Reset, At, Leaving, Places, rowVars
<1>4. CASE CheckBudget(a)
  BY <1>1, <1>2, <1>4, MoveClaimed DEF CheckBudget, Leaving, Places, rowVars
<1>5. CASE Chat(a)
  <2>1. run[a].pc \notin Leaving /\ UNCHANGED <<row, over, late>>
    BY <1>5 DEF Chat, At, Leaving, rowVars
  <2>2. \E next : Goto(a, next)
    BY <1>5 DEF Chat
  <2> QED
    BY <1>1, <2>1, <2>2, MoveClaimed
<1>6. CASE Think(a) \/ RecordUsage(a) \/ BeginCall(a) \/ EndCall(a) \/ HitLimit(a)
  <2>1. UNCHANGED <<row, over, late>>
    BY <1>6 DEF Think, RecordUsage, BeginCall, EndCall, HitLimit, rowVars
  <2>2. \E next : Emit(a, next)
    BY <1>6 DEF Think, RecordUsage, BeginCall, EndCall, HitLimit
  <2> QED
    BY <1>1, <2>1, <2>2, EmitClaimed
<1>7. CASE CallTool(a)
  <2> DEFINE c == run[a].turn[1]
             writes == Succeeds(c) /\ c.tool = "write_file"
             next == [run[a] EXCEPT !.pc = "result", !.primary = IF writes THEN c.file ELSE @]
  <2>1. next.pc = "result" /\ Goto(a, next) /\ UNCHANGED <<row, over>> /\ run[a].pc \notin Leaving
    BY <1>1, <1>7 DEF CallTool, Runner, rowVars, At, Leaving
  <2>2. (\E tree : Touch(a, tree)) \/ UNCHANGED late
    BY <1>7 DEF CallTool
  <2> HIDE DEF next
  <2> QED
    BY <1>1, <2>1, <2>2, TouchClaimed, MoveClaimed DEF Leaving
<1>8. CASE ReadPrimary(a)
  <2>1. run[a].pc \notin Leaving /\ UNCHANGED <<row, over, late>>
    BY <1>8 DEF ReadPrimary, At, Leaving, rowVars
  <2>2. \E next : Goto(a, next)
    BY <1>8 DEF ReadPrimary
  <2> QED
    BY <1>1, <2>1, <2>2, MoveClaimed
<1>9. CASE WriteHeader(a)
  <2> DEFINE content == [run[a].content EXCEPT !.header = TRUE]
             next == [run[a] EXCEPT !.pc = "commit", !.content = content]
  <2>1. next.pc = "commit" /\ Goto(a, next) /\ UNCHANGED <<row, over>> /\ run[a].pc \notin Leaving
    BY <1>1, <1>9 DEF WriteHeader, Runner, rowVars, At, Leaving
  <2>2. \E tree : Touch(a, tree)
    BY <1>9 DEF WriteHeader
  <2> HIDE DEF next
  <2> QED
    BY <1>1, <2>1, <2>2, TouchClaimed DEF Leaving
<1>10. CASE Commit(a)
  <2>1. CASE UNCHANGED row
    BY <1>1, <1>10, <2>1, EmitClaimed DEF Commit
  <2>2. CASE row' = [row EXCEPT !.status = "review"] /\ Holds(a) /\ run'[a].pc = "ended"
    <3>1. \A b \in Attempts : b # a => run'[b] = run[b]
      BY <1>10 DEF Commit, Emit, Goto, Typed, Runs
    <3>2. row.attempt = a /\ row'.attempt = a /\ late' = late
      BY <1>10, <2>2 DEF Commit, Holds, Typed, Rows
    <3> QED
      BY <2>2, <3>1, <3>2 DEF Claimed, Active, Holds, Typed, Rows, Attempts
  <2> QED
    BY <1>10, <2>1, <2>2 DEF Commit
<1>11. CASE Fail(a)
  <2>1. over' \in {over, TRUE}
    BY <1>11 DEF Fail, Typed, Rows
  <2> QED
    BY <1>1, <1>2, <1>11, <2>1, MoveClaimed DEF Fail
<1> QED
  BY <1>3, <1>4, <1>5, <1>6, <1>7, <1>8, <1>9, <1>10, <1>11 DEF Step

\* Every step keeps what is known of the claim: a rejection gives a row back to an
\* attempt whose runner has ended, and a new claim starts a new attempt.
LEMMA ClaimedStep ==
    ASSUME Typed, Claimed, [Next]_vars
    PROVE  Claimed'
<1>1. CASE UNCHANGED <<row, over, run, late>>
  BY <1>1 DEF Claimed, Active, Holds
<1>2. ASSUME NEW a \in Attempts, Claim(a)
      PROVE  Claimed'
  <2>1. row.attempt = a - 1 /\ row'.attempt = a /\ row'.status = "working" /\ late' = late
    BY <1>2 DEF Claim, Typed, Rows
  <2>2. run[a].pc = "none" /\ late[a] = 0
    BY <2>1 DEF Claimed, Attempts
  <2>3. \A b \in Attempts : b # a => run'[b] = run[b]
    BY <1>2 DEF Claim, Goto, Typed, Runs
  <2> QED
    BY <2>1, <2>2, <2>3 DEF Claimed, Active, Holds, Typed, Rows, Attempts
<1>3. ASSUME NEW a \in Attempts, Step(a)
      PROVE  Claimed'
  BY <1>3, StepClaimed
<1>4. ASSUME NEW a \in Attempts, Crash(a)
      PROVE  Claimed'
  <2>1. Ended(run[a]).pc = "ended"
    BY DEF Ended, NotRunning
  <2> QED
    BY <1>4, <2>1, MoveClaimed DEF Crash, Stops, rowVars
<1>5. CASE Decide
  <2>1. ~Active(row.attempt) \/ row.attempt \notin Attempts
    BY <1>5 DEF Decide, Claimed
  <2>2. row'.attempt = row.attempt /\ UNCHANGED <<over, run, late>>
    BY <1>5 DEF Decide, Typed, Rows
  <2> QED
    BY <2>1, <2>2 DEF Claimed, Active, Holds
<1>6. CASE CancelTask
  BY <1>6 DEF CancelTask, Claimed, Active, Holds
<1> QED
  BY <1>1, <1>2, <1>3, <1>4, <1>5, <1>6 DEF Next, Rest, vars, StopProcess, LoseSession, rowVars

\* At the start nobody runs and nothing was changed late.
LEMMA ClaimedInit ==
    ASSUME Init
    PROVE  Claimed
BY DEF Init, Claimed, Active, NotRunning

(***************************************************************************)
(* What the reviewer sees.                                                 *)
(***************************************************************************)
\* An earlier attempt changed a file when its claim was gone.
Disturbed(a) == \E b \in Attempts : b < a /\ late[b] > 0

\* What is about to be handed in lies in the working tree.
Ready(r) == r.pc = "commit" /\ r.primary # NoFile => Read(r.primary) = r.content

Intact ==
    /\ row.status # "working" => deliverable.by = row.attempt
    /\ SubmittedIntact
    /\ \A a \in Attempts : Holds(a) => Ready(run[a]) \/ Disturbed(a)

\* A step of one runner that changes no file.
LEMMA MoveIntact ==
    ASSUME Typed, Intact, NEW a \in Attempts, Ready(run'[a]),
           \A b \in Attempts : b # a => run'[b] = run[b],
           UNCHANGED <<row, deliverable, files, late>>, over' \in {over, TRUE}
    PROVE  Intact'
<1>1. \A b \in Attempts : Holds(b)' => Holds(b)
  BY DEF Holds
<1>2. \A b \in Attempts : Disturbed(b)' = Disturbed(b)
  BY DEF Disturbed
<1>3. \A r : Ready(r)' = Ready(r)
  BY DEF Ready, Read
<1>4. SubmittedIntact'
  BY DEF Intact, SubmittedIntact, Read
<1>5. ASSUME NEW b \in Attempts, Holds(b)'
      PROVE  Ready(run[b])' \/ Disturbed(b)'
  BY <1>1, <1>2, <1>3, <1>5 DEF Intact, Ready, Read
<1> QED
  BY <1>4, <1>5 DEF Intact

\* A step that changes files: every other attempt that is concerned is a later one,
\* so that the change is late.
LEMMA TouchIntact ==
    ASSUME Typed, Claimed, Intact, NEW a \in Attempts, Active(a), NEW tree, Touch(a, tree),
           Ready(run[a])', \A b \in Attempts : b # a => run'[b] = run[b],
           UNCHANGED <<row, deliverable, over>>
    PROVE  Intact'
<1>1. a <= row.attempt
  BY DEF Claimed, Active, Typed, Rows, Attempts
<1>2. late[a] \in Nat /\ (~Holds(a) => late'[a] > 0)
  BY DEF Touch, Typed, Rows
<1>3. ASSUME NEW b \in Attempts, Holds(b)
      PROVE  Ready(run[b])' \/ Disturbed(b)'
  <2>1. CASE b = a
    BY <2>1
  <2>2. CASE b # a
    <3>1. row.attempt = b /\ a < b /\ ~Holds(a)
      BY <1>1, <1>3, <2>2 DEF Holds, Typed, Rows, Attempts
    <3> QED
      BY <1>2, <3>1 DEF Disturbed
  <2> QED
    BY <2>1, <2>2
<1>4. ASSUME row.status # "working"
      PROVE  \E b \in Attempts : b < deliverable.by /\ late'[b] > 0
  <2>1. deliverable.by = row.attempt /\ row.attempt # a
    BY <1>4 DEF Intact, Claimed
  <2>2. a < deliverable.by /\ ~Holds(a)
    BY <1>1, <2>1 DEF Holds, Typed, Rows, Attempts
  <2> QED
    BY <1>2, <2>2
<1>5. SubmittedIntact'
  BY <1>4 DEF SubmittedIntact
<1> QED
  BY <1>3, <1>5 DEF Intact, Holds

\* Finish goes to the commit only without a file.
LEMMA FinishReady ==
    ASSUME NEW r \in Runner
    PROVE  Ready(Finish(r))
BY DEF Ready, Finish, Runner

\* Emit hands nothing in, unless the record it goes on with is ready.
LEMMA EmitIntact ==
    ASSUME Typed, Intact, NEW a \in Attempts, NEW next, Ready(next), Emit(a, next),
           UNCHANGED <<row, deliverable, files, late, over>>
    PROVE  Intact'
<1>1. run[a] \in Runner /\ run \in [Attempts -> Runner]
  BY DEF Typed, Runs
<1>2. Ready(To(a, "fail")) /\ Ready(Ended(run[a]))
  BY <1>1 DEF Ready, To, Ended, NotRunning, Runner
<1>3. Ready(run'[a]) /\ \A b \in Attempts : b # a => run'[b] = run[b]
  BY <1>1, <1>2 DEF Emit, Goto
<1> QED
  BY <1>3, MoveIntact

\* The steps of a runner.
LEMMA StepIntact ==
    ASSUME Typed, Claimed, Intact, NEW a \in Attempts, Step(a)
    PROVE  Intact'
<1>1. /\ Active(a) /\ run[a] \in Runner /\ Sound(run[a]) /\ run \in [Attempts -> Runner]
      /\ setup \in Setups /\ files \in [Files -> Content]
  BY DEF Typed, Rows, Runs, Step, Active, At, Reset, CheckBudget, Think, Chat, RecordUsage,
         BeginCall, CallTool, EndCall, HitLimit, ReadPrimary, WriteHeader, Commit, Fail
<1>2. ASSUME NEW next, Goto(a, next)
      PROVE  run'[a] = next /\ \A b \in Attempts : b # a => run'[b] = run[b]
  BY <1>1, <1>2 DEF Goto
<1>3. ASSUME NEW next, Goto(a, next), next.pc # "commit",
             UNCHANGED <<row, deliverable, files, late>>, over' \in {over, TRUE}
      PROVE  Intact'
  BY <1>2, <1>3, MoveIntact DEF Ready
<1>4. ASSUME NEW next, Goto(a, next), next.pc # "commit", NEW tree, Touch(a, tree),
             UNCHANGED <<row, deliverable, over>>
      PROVE  Intact'
  <2>1. Ready(run[a])'
    BY <1>2, <1>4 DEF Ready
  <2> QED
    BY <1>1, <1>2, <1>4, <2>1, TouchIntact
<1>5. /\ Ended(run[a]).pc = "ended"
      /\ \A pc \in Places : To(a, pc).pc = pc
  BY <1>1 DEF Ended, NotRunning, To, Runner
<1>6. CASE Reset(a)
  BY <1>3, <1>4, <1>5, <1>6 DEF Reset, Places, rowVars
<1>7. CASE CheckBudget(a)
  BY <1>3, <1>5, <1>7 DEF CheckBudget, Places, rowVars
<1>8. CASE Think(a) \/ BeginCall(a)
  <2>1. Ready(To(a, "chat")) /\ Ready(To(a, "tool"))
    BY <1>5 DEF Ready, Places
  <2> QED
    BY <1>8, <2>1, EmitIntact DEF Think, BeginCall, rowVars
<1>9. CASE Chat(a)
  <2> DEFINE asked == [run[a] EXCEPT !.unpaid = @ + 1]
  <2>1. /\ Ended(asked).pc = "ended" /\ [asked EXCEPT !.pc = "fail"].pc = "fail"
        /\ \A turn : [asked EXCEPT !.pc = "usage", !.turn = turn].pc = "usage"
    BY <1>1 DEF Ended, NotRunning, Runner
  <2> HIDE DEF asked
  <2> QED
    BY <1>3, <1>9, <2>1 DEF Chat, rowVars, asked
<1>10. CASE RecordUsage(a)
  <2>1. Ready(Answered(run[a]))
    BY <1>1, <1>10, AnsweredSound DEF RecordUsage, At, Ready
  <2> QED
    BY <1>10, <2>1, EmitIntact DEF RecordUsage, rowVars
<1>11. CASE CallTool(a)
  <2> DEFINE c == run[a].turn[1]
             writes == Succeeds(c) /\ c.tool = "write_file"
             next == [run[a] EXCEPT !.pc = "result", !.primary = IF writes THEN c.file ELSE @]
  <2>1. next.pc = "result" /\ Goto(a, next) /\ UNCHANGED <<row, deliverable, over>>
    BY <1>1, <1>11 DEF CallTool, Runner, rowVars
  <2>2. (\E tree : Touch(a, tree)) \/ UNCHANGED <<files, late>>
    BY <1>11 DEF CallTool
  <2> HIDE DEF next
  <2> QED
    BY <1>3, <1>4, <2>1, <2>2
<1>12. CASE EndCall(a)
  <2>1. Ready(CallAnswered(run[a]))
    BY <1>1, <1>12, CallAnsweredSound DEF EndCall, At, Ready
  <2> QED
    BY <1>12, <2>1, EmitIntact DEF EndCall, rowVars
<1>13. CASE HitLimit(a)
  BY <1>1, <1>13, FinishReady, EmitIntact DEF HitLimit, rowVars
<1>14. CASE ReadPrimary(a)
  <2> DEFINE f == run[a].primary
             pc == IF files[f].header THEN "commit" ELSE "header"
             next == [run[a] EXCEPT !.content = Read(f), !.pc = pc]
  <2>1. Ready(To(a, "fail"))
    BY <1>5 DEF Ready, Places
  <2>2. Ready(next)
    BY <1>1 DEF Ready, Runner
  <2>3. (Goto(a, next) \/ Goto(a, To(a, "fail"))) /\ UNCHANGED <<row, deliverable, files, late, over>>
    BY <1>14 DEF ReadPrimary, rowVars
  <2> HIDE DEF next
  <2> QED
    BY <1>2, <2>1, <2>2, <2>3, MoveIntact
<1>15. CASE WriteHeader(a)
  <2>1. PICK f \in Files, content \in Content :
            f = run[a].primary /\ content = [run[a].content EXCEPT !.header = TRUE]
    BY <1>1, <1>15 DEF WriteHeader, At, Sound, Chosen, Runner, Content
  <2> DEFINE next == [run[a] EXCEPT !.pc = "commit", !.content = content]
             tree == [files EXCEPT ![f] = content]
  <2>2. Goto(a, next) /\ Touch(a, tree) /\ UNCHANGED <<row, deliverable, over>>
    BY <1>15, <2>1 DEF WriteHeader, rowVars
  <2>3. content.text # "large"
    BY <1>1, <1>15, <2>1 DEF WriteHeader, At, Sound, Chosen, Runner, Content
  <2>4. next.primary = f /\ next.content = content
    BY <1>1, <2>1 DEF Runner
  <2>5. files'[f] = content
    BY <1>1, <2>2 DEF Touch
  <2>6. run'[a] = next
    BY <1>2, <2>2
  <2>7. Ready(run[a])'
    <3> HIDE DEF next
    <3> QED
      BY <2>3, <2>4, <2>5, <2>6 DEF Ready, Read
  <2> QED
    BY <1>1, <1>2, <2>2, <2>7, TouchIntact
<1>16. CASE Commit(a)
  <2>1. CASE UNCHANGED <<row, deliverable>>
    <3>1. Ready(Ended(run[a]))
      BY <1>5 DEF Ready
    <3> QED
      BY <1>16, <2>1, <3>1, EmitIntact DEF Commit
  <2>2. CASE /\ Holds(a) /\ row' = [row EXCEPT !.status = "review"]
             /\ deliverable' = [by |-> a, ref |-> run[a].primary, content |-> run[a].content]
    <3>1. row'.status = "review" /\ row'.attempt = a
      BY <2>2 DEF Holds, Typed, Rows
    <3>2. Ready(run[a]) \/ Disturbed(a)
      BY <2>2 DEF Intact
    <3>3. UNCHANGED <<files, late>> /\ run[a].pc = "commit"
      BY <1>16 DEF Commit, At
    <3>4. SubmittedIntact'
      BY <2>2, <3>2, <3>3 DEF SubmittedIntact, Ready, Disturbed, Read
    <3>5. \A b \in Attempts : ~Holds(b)'
      BY <3>1 DEF Holds
    <3> QED
      BY <2>2, <3>1, <3>4, <3>5 DEF Intact
  <2> QED
    BY <1>16, <2>1, <2>2 DEF Commit
<1>17. CASE Fail(a)
  <2>1. over' \in {over, TRUE}
    BY <1>17 DEF Fail, Typed, Rows
  <2> QED
    BY <1>3, <1>5, <1>17, <2>1 DEF Fail
<1> QED
  BY <1>6, <1>7, <1>8, <1>9, <1>10, <1>11, <1>12, <1>13, <1>14, <1>15, <1>16, <1>17 DEF Step

\* Every step keeps what the reviewer sees.
LEMMA IntactStep ==
    ASSUME Typed, Claimed, Intact, [Next]_vars
    PROVE  Intact'
<1>1. CASE UNCHANGED <<row, over, deliverable, files, run, late>>
  BY <1>1 DEF Intact, SubmittedIntact, Holds, Ready, Disturbed, Read
<1>2. ASSUME NEW a \in Attempts, Claim(a)
      PROVE  Intact'
  <2>1. row'.attempt = a /\ row'.status = "working"
    BY <1>2 DEF Claim, Typed, Rows
  <2>2. run'[a].pc # "commit"
    BY <1>2, StartedSound DEF Claim, Goto, Typed, Rows, Runs
  <2> QED
    BY <2>1, <2>2 DEF Intact, SubmittedIntact, Holds, Ready
<1>3. ASSUME NEW a \in Attempts, Step(a)
      PROVE  Intact'
  BY <1>3, StepIntact
<1>4. ASSUME NEW a \in Attempts, Crash(a)
      PROVE  Intact'
  <2>1. Ready(run'[a]) /\ \A b \in Attempts : b # a => run'[b] = run[b]
    BY <1>4 DEF Crash, Goto, Ready, Ended, NotRunning, Typed, Runs
  <2> QED
    BY <1>4, <2>1, MoveIntact DEF Crash, rowVars
<1>5. CASE Decide
  <2>1. row.status = "review" /\ row'.attempt = row.attempt
    BY <1>5 DEF Decide, Typed, Rows
  <2>2. UNCHANGED <<over, deliverable, files, run, late>>
    BY <1>5 DEF Decide
  <2>3. SubmittedIntact'
    BY <2>1, <2>2 DEF Intact, SubmittedIntact, Read
  <2>4. ASSUME NEW b \in Attempts, Holds(b)'
        PROVE  Ready(run[b])'
    <3>1. row.attempt = b
      BY <2>1, <2>4 DEF Holds
    <3>2. run[b].pc # "commit"
      BY <2>1, <3>1 DEF Claimed, Active
    <3> QED
      BY <2>2, <3>2 DEF Ready
  <2> QED
    BY <2>1, <2>2, <2>3, <2>4 DEF Intact
<1>6. CASE CancelTask
  BY <1>6 DEF CancelTask, Intact, SubmittedIntact, Holds, Read
<1> QED
  BY <1>1, <1>2, <1>3, <1>4, <1>5, <1>6 DEF Next, Rest, vars, StopProcess, LoseSession, rowVars

\* At the start nothing was handed in.
LEMMA IntactInit ==
    ASSUME Init
    PROVE  Intact
BY DEF Init, Intact, SubmittedIntact, Ready, NotRunning, NoResult

(***************************************************************************)
(* What the providers are sent.                                            *)
(***************************************************************************)
Blocks == [role : {"user", "assistant", "tool"}, uses : Seq(Nat), results : Seq(Nat)]

\* A message that joins what is sent to Anthropic keeps its type.
LEMMA AnthropicAppendType ==
    ASSUME NEW sent \in Seq(Blocks), NEW m \in Message
    PROVE  AnthropicAppend(sent, m) \in Seq(Blocks)
<1>1. /\ <<m.of>> \in Seq(Nat) /\ <<>> \in Seq(Nat)
      /\ \A u \in Seq(Nat) : Append(u, m.of) \in Seq(Nat)
  BY DEF Message
<1>2. Block(m.role, m.calls, <<>>) \in Blocks /\ Block("user", <<>>, <<m.of>>) \in Blocks
  BY <1>1 DEF Block, Blocks, Message
<1>3. CASE m.role = "tool" /\ sent # <<>> /\ Last(sent).role = "user"
  <2>1. Len(sent) \in 1..Len(sent)
    BY <1>3
  <2>2. PICK last \in Blocks : last = sent[Len(sent)]
    BY <2>1
  <2>3. PICK b : b = [last EXCEPT !.results = Append(@, m.of)]
    OBVIOUS
  <2>4. PICK new \in Seq(Nat) : new = Append(last.results, m.of)
    BY <1>1, <2>2 DEF Blocks
  <2>5. b \in Blocks
    BY <2>3, <2>4 DEF Blocks
  <2>6. AnthropicAppend(sent, m) = [sent EXCEPT ![Len(sent)] = b]
    BY <1>3, <2>2, <2>3 DEF AnthropicAppend
  <2> QED
    BY <2>1, <2>5, <2>6
<1>4. CASE ~(m.role = "tool" /\ sent # <<>> /\ Last(sent).role = "user")
  BY <1>2, <1>4 DEF AnthropicAppend
<1> QED
  BY <1>3, <1>4

\* anthropic.Chat goes through the messages in their order.
LEMMA AnthropicRuns ==
    ASSUME NEW m \in Seq(Message), NEW n, n = Len(m), NEW F,
           F = [p \in Seq(Blocks) \X (1..n) |-> AnthropicAppend(p[1], m[p[2]])]
    PROVE  /\ F \in [Seq(Blocks) \X (1..n) -> Seq(Blocks)]
           /\ \E h : IsRun(h, Seq(Blocks), F, <<>>, n) /\ h[n] = AnthropicMessages(m)
<1> DEFINE T == Seq(Blocks)
           base == <<>>
           Iter(iter) ==
             iter = [s \in SUBSET (DOMAIN m) |->
                       IF s = {} THEN base ELSE AnthropicAppend(iter[s \ {Max(s)}], m[Max(s)])]
<1>1. n \in Nat /\ base \in T /\ DOMAIN m = 1..n /\ \A k \in 1..n : m[k] \in Message
  OBVIOUS
<1>2. \A t \in T, k \in 1..n : AnthropicAppend(t, m[k]) \in T
  BY <1>1, AnthropicAppendType
<1>3. AnthropicMessages(m) = (CHOOSE iter : Iter(iter))[DOMAIN m]
  BY DEF AnthropicMessages, FoldLeft, MapThenFoldSet
<1> HIDE DEF T, base
<1>4. F \in [T \X (1..n) -> T] /\ \A t \in T, k \in 1..n : F[<<t, k>>] = AnthropicAppend(t, m[k])
  BY <1>2 DEF T
<1>5. \A s \in SUBSET (1..n) : s # {} => Max(s) \in 1..n
  BY <1>1, MaxInSet
<1>6. PICK g : IsFold(g, T, F, base, n)
  BY <1>1, <1>4, FoldExists
<1>7. Iter(g)
  <2>1. ASSUME NEW s \in SUBSET (1..n), s # {}
        PROVE  g[s] = AnthropicAppend(g[s \ {Max(s)}], m[Max(s)])
    <3>1. g[s \ {Max(s)}] \in T
      BY <1>6 DEF IsFold
    <3> QED
      BY <1>4, <1>5, <1>6, <2>1, <3>1 DEF IsFold
  <2>2. g[{}] = base
    BY <1>6 DEF IsFold
  <2>3. g = [s \in SUBSET (1..n) |-> g[s]]
    BY <1>6 DEF IsFold
  <2> QED
    BY <1>1, <2>1, <2>2, <2>3
<1>8. PICK iter : Iter(iter) /\ AnthropicMessages(m) = iter[1..n]
  <2> HIDE DEF Iter
  <2> QED
    BY <1>1, <1>3, <1>7
<1>9. iter[{}] = base
  BY <1>8
<1>10. ASSUME NEW s \in SUBSET (1..n), s # {}, iter[s \ {Max(s)}] \in T
       PROVE  iter[s] = F[<<iter[s \ {Max(s)}], Max(s)>>]
  <2>1. iter[s] = AnthropicAppend(iter[s \ {Max(s)}], m[Max(s)])
    BY <1>1, <1>8, <1>10
  <2> QED
    BY <1>4, <1>5, <1>10, <2>1
<1>11. FoldsIn(iter, T, F, base, n)
  BY <1>1, <1>4, <1>9, <1>10 DEF FoldsIn
<1>12. \E h : IsRun(h, T, F, base, n) /\ h[n] = iter[1..n]
  BY <1>11, FoldRuns
<1> QED
  BY <1>4, <1>8, <1>12 DEF T, base

\* A message at the end of the transcript is the last one that anthropic.Chat adds.
LEMMA AnthropicOneMore ==
    ASSUME NEW m \in Seq(Message), NEW x \in Message
    PROVE  /\ AnthropicMessages(m) \in Seq(Blocks)
           /\ AnthropicMessages(Append(m, x)) = AnthropicAppend(AnthropicMessages(m), x)
<1> DEFINE n == Len(m)
           all == Append(m, x)
           F == [p \in Seq(Blocks) \X (1..n) |-> AnthropicAppend(p[1], m[p[2]])]
           G == [p \in Seq(Blocks) \X (1..(n + 1)) |-> AnthropicAppend(p[1], all[p[2]])]
<1>1. /\ n \in Nat /\ all \in Seq(Message) /\ Len(all) = n + 1 /\ all[n + 1] = x
      /\ \A k \in 1..n : all[k] = m[k]
  OBVIOUS
<1>2. PICK h : IsRun(h, Seq(Blocks), F, <<>>, n) /\ h[n] = AnthropicMessages(m)
  BY AnthropicRuns
<1>3. PICK g : IsRun(g, Seq(Blocks), G, <<>>, n + 1) /\ g[n + 1] = AnthropicMessages(all)
  <2> HIDE DEF all, n
  <2> QED
    BY <1>1, AnthropicRuns
<1>4. \A t \in Seq(Blocks), k \in 1..n : F[<<t, k>>] = AnthropicAppend(t, m[k])
  OBVIOUS
<1>5. \A t \in Seq(Blocks), k \in 1..(n + 1) : G[<<t, k>>] = AnthropicAppend(t, all[k])
  OBVIOUS
<1> HIDE DEF F, G, all, n
<1>6. \A k \in 1..n : k \in 1..(n + 1) /\ k - 1 \in 0..n /\ k - 1 \in 0..(n + 1)
  BY <1>1
<1>7. \A k \in 1..n : g[k] = F[<<g[k - 1], k>>] /\ h[k] = F[<<h[k - 1], k>>]
  <2> SUFFICES ASSUME NEW k \in 1..n
               PROVE  g[k] = F[<<g[k - 1], k>>] /\ h[k] = F[<<h[k - 1], k>>]
    OBVIOUS
  <2>1. g[k - 1] \in Seq(Blocks) /\ h[k - 1] \in Seq(Blocks)
    BY <1>2, <1>3, <1>6 DEF IsRun
  <2>2. g[k] = G[<<g[k - 1], k>>] /\ h[k] = F[<<h[k - 1], k>>]
    BY <1>2, <1>3, <1>6 DEF IsRun
  <2>3. G[<<g[k - 1], k>>] = AnthropicAppend(g[k - 1], m[k])
    BY <1>1, <1>5, <1>6, <2>1
  <2>4. F[<<g[k - 1], k>>] = AnthropicAppend(g[k - 1], m[k])
    BY <1>4, <2>1
  <2> QED
    BY <2>2, <2>3, <2>4
<1>8. g[n] = h[n]
  <2>1. g[0] = h[0]
    BY <1>2, <1>3 DEF IsRun
  <2>2. n \in Nat
    BY <1>1
  <2>3. RunAlike(g, h, F, n)
    BY <1>7, <2>1 DEF RunAlike
  <2> QED
    BY <2>2, <2>3, SameRuns
<1>9. n + 1 \in 1..(n + 1) /\ (n + 1) - 1 = n /\ n \in 0..(n + 1) /\ n \in 0..n
  BY <1>1
<1>10. g[n + 1] = AnthropicAppend(g[n], x) /\ h[n] \in Seq(Blocks)
  BY <1>1, <1>2, <1>3, <1>5, <1>9 DEF IsRun
<1> QED
  BY <1>2, <1>3, <1>8, <1>10 DEF all

(***************************************************************************)
(* Transcripts.                                                            *)
(***************************************************************************)

\* A transcript of the OpenAI interface of whose calls p are still to be answered, the
\* next one with the number made + 1.
OpenAIOpen(m, made, p) ==
    /\ \A k \in 1..Len(m) :
        /\ k + Len(m[k].calls) <= Len(m) + p
        /\ \A j \in 1..Len(m[k].calls) :
            IF k + j <= Len(m) THEN m[k + j] = ToolMessage(m[k].calls[j])
            ELSE m[k].calls[j] = made + ((k + j) - Len(m))
        /\ m[k].role = "tool" => \E b \in 1..(k - 1) : k - b \in 1..Len(m[b].calls)
    /\ p > 0 => \E k \in 1..Len(m) : k + Len(m[k].calls) = Len(m) + p

\* uses are the answered calls and then p more, the next one with the number made + 1.
Awaits(answers, uses, made, p) ==
    /\ Len(uses) = Len(answers) + p
    /\ \A j \in 1..Len(answers) : uses[j] = answers[j]
    /\ \A j \in 1..p : uses[Len(answers) + j] = made + j

\* What anthropic.Chat makes of a transcript of whose calls p are still to be answered.
AnthropicOpen(sent, made, p) ==
    LET n == Len(sent)
    IN  /\ n > 0
        /\ \A k \in 1..n : sent[k].role = IF k % 2 = 1 THEN "user" ELSE "assistant"
        /\ \A k \in 1..n : sent[k].role = "user" => sent[k].uses = <<>>
        /\ \A k \in 1..n : k < n \/ p = 0 \/ sent[n].role # "user" =>
             sent[k].results = IF k = 1 THEN <<>> ELSE sent[k - 1].uses
        /\ p = 0 => sent[n].role = "user"
        /\ p > 0 /\ sent[n].role = "user" =>
             n > 1 /\ Awaits(sent[n].results, sent[n - 1].uses, made, p)
        /\ p > 0 /\ sent[n].role # "user" => Awaits(<<>>, sent[n].uses, made, p)

\* The calls of the messages of a transcript.
LEMMA MessageCalls ==
    ASSUME NEW m \in Seq(Message)
    PROVE  /\ Len(m) \in Nat /\ DOMAIN m = 1..Len(m)
           /\ \A k \in 1..Len(m) :
                /\ m[k] \in Message /\ m[k].calls \in Seq(Nat) /\ Len(m[k].calls) \in Nat
                /\ DOMAIN m[k].calls = 1..Len(m[k].calls)
<1>1. Len(m) \in Nat /\ DOMAIN m = 1..Len(m) /\ \A k \in 1..Len(m) : m[k] \in Message
  BY LenProperties, ElementOfSeq
<1>2. \A x \in Message : x.calls \in Seq(Nat)
  BY DEF Message
<1>3. \A c \in Seq(Nat) : Len(c) \in Nat /\ DOMAIN c = 1..Len(c)
  BY LenProperties
<1> QED
  BY <1>1, <1>2, <1>3

\* The numbers that the calls of a turn get.
LEMMA CallNumbers ==
    ASSUME NEW made \in Nat, NEW p \in Nat
    PROVE  LET calls == [k \in 1..p |-> made + k]
           IN  calls \in Seq(Nat) /\ Len(calls) = p /\ \A j \in 1..p : calls[j] = made + j
<1> DEFINE calls == [k \in 1..p |-> made + k]
<1>1. calls \in [1..p -> Nat]
  OBVIOUS
<1>2. calls \in Seq(Nat)
  BY <1>1, SeqDef
<1>3. Len(calls) = p
  BY <1>1, <1>2, LenProperties
<1> QED
  BY <1>2, <1>3

\* The answer of the model opens its calls.
LEMMA OpenAIAnswer ==
    ASSUME NEW m \in Seq(Message), NEW made \in Nat, OpenAIOpen(m, made, 0), NEW p \in Nat,
           NEW calls \in Seq(Nat), Len(calls) = p, \A j \in 1..p : calls[j] = made + j
    PROVE  OpenAIOpen(Append(m, AssistantMessage(calls)), made, p)
<1> DEFINE x == AssistantMessage(calls)
           n == Len(m)
<1>1. x.calls = calls /\ x.role = "assistant" /\ x \in Message
  BY DEF AssistantMessage, Message
<1> HIDE DEF x
<1>2. PICK all : all = Append(m, x)
  OBVIOUS
<1>3. n \in Nat /\ Len(all) = n + 1 /\ all[n + 1] = x /\ \A k \in 1..n : all[k] = m[k]
  BY <1>1, <1>2
<1>4. \A k \in 1..n : m[k] \in Message /\ m[k].calls \in Seq(Nat) /\ Len(m[k].calls) \in Nat
  BY MessageCalls
<1>5. \A k \in 1..(n + 1) : k \in 1..n \/ k = n + 1
  BY <1>3
<1>6. ASSUME NEW k \in 1..n
      PROVE  /\ k + Len(m[k].calls) <= n
             /\ \A j \in 1..Len(m[k].calls) : m[k + j] = ToolMessage(m[k].calls[j])
             /\ m[k].role = "tool" => \E b \in 1..(k - 1) : k - b \in 1..Len(m[b].calls)
  <2>1. k + Len(m[k].calls) <= n
    BY <1>3, <1>4 DEF OpenAIOpen
  <2>2. \A j \in 1..Len(m[k].calls) : k + j <= n
    BY <1>3, <1>4, <2>1
  <2> QED
    BY <2>1, <2>2 DEF OpenAIOpen
<1> HIDE DEF n
<1>7. ASSUME NEW k \in 1..(n + 1)
      PROVE  /\ k + Len(all[k].calls) <= Len(all) + p
             /\ \A j \in 1..Len(all[k].calls) :
                  IF k + j <= Len(all) THEN all[k + j] = ToolMessage(all[k].calls[j])
                  ELSE all[k].calls[j] = made + ((k + j) - Len(all))
             /\ all[k].role = "tool" => \E b \in 1..(k - 1) : k - b \in 1..Len(all[b].calls)
  <2>1. CASE k = n + 1
    <3>1. all[k] = x /\ all[k].calls = calls /\ Len(all[k].calls) = p /\ all[k].role # "tool"
      BY <1>1, <1>3, <2>1
    <3>2. k \in Nat /\ Len(all) = k
      BY <1>3, <2>1
    <3>3. ASSUME NEW j \in 1..p
          PROVE  ~(k + j <= k) /\ calls[j] = made + ((k + j) - k)
      BY <3>2
    <3>4. k + p <= k + p
      BY <3>2
    <3> QED
      BY <3>1, <3>2, <3>3, <3>4
  <2>2. CASE k \in 1..n
    <3>1. k + Len(m[k].calls) <= Len(all) + p
      BY <1>3, <1>4, <1>6, <2>2
    <3>2. \A j \in 1..Len(m[k].calls) : k + j \in 1..n /\ m[k + j] = ToolMessage(m[k].calls[j])
      BY <1>3, <1>4, <1>6, <2>2
    <3>3. \A j \in 1..Len(m[k].calls) : k + j <= Len(all) /\ all[k + j] = ToolMessage(m[k].calls[j])
      <4>1. \A i \in 1..n : i <= n + 1
        BY <1>3
      <4> QED
        BY <1>3, <3>2, <4>1
    <3>4. \A b \in 1..(k - 1) : all[b] = m[b]
      BY <1>3, <2>2
    <3> QED
      BY <1>3, <1>6, <2>2, <3>1, <3>3, <3>4
  <2> QED
    BY <1>5, <2>1, <2>2
<1>8. n + 1 \in 1..(n + 1) /\ (n + 1) + Len(all[n + 1].calls) = Len(all) + p
  <2>1. all[n + 1].calls = calls
    BY <1>1, <1>3
  <2>2. n + 1 \in 1..(n + 1)
    BY <1>3
  <2> QED
    BY <1>3, <2>1, <2>2
<1> QED
  BY <1>2, <1>3, <1>7, <1>8 DEF OpenAIOpen, x

\* The answer to the next call closes it.
LEMMA OpenAITool ==
    ASSUME NEW m \in Seq(Message), NEW made \in Nat, NEW p \in Nat \ {0}, OpenAIOpen(m, made, p)
    PROVE  OpenAIOpen(Append(m, ToolMessage(made + 1)), made + 1, p - 1)
<1> DEFINE x == ToolMessage(made + 1)
           n == Len(m)
<1>1. x.calls = <<>> /\ x.role = "tool" /\ x \in Message
  BY EmptySeq DEF ToolMessage, Message
<1> HIDE DEF x
<1>2. PICK all : all = Append(m, x)
  OBVIOUS
<1>3. n \in Nat /\ Len(all) = n + 1 /\ all[n + 1] = x /\ \A k \in 1..n : all[k] = m[k]
  BY <1>1, <1>2
<1>4. \A k \in 1..n : m[k] \in Message /\ m[k].calls \in Seq(Nat) /\ Len(m[k].calls) \in Nat
  BY MessageCalls
<1>5. \A k \in 1..(n + 1) : k \in 1..n \/ k = n + 1
  BY <1>3
<1>6. PICK o \in 1..n : o + Len(m[o].calls) = n + p
  BY DEF OpenAIOpen
<1> HIDE DEF n
<1>7. ASSUME NEW k \in 1..(n + 1)
      PROVE  /\ k + Len(all[k].calls) <= Len(all) + (p - 1)
             /\ \A j \in 1..Len(all[k].calls) :
                  IF k + j <= Len(all) THEN all[k + j] = ToolMessage(all[k].calls[j])
                  ELSE all[k].calls[j] = (made + 1) + ((k + j) - Len(all))
             /\ all[k].role = "tool" => \E b \in 1..(k - 1) : k - b \in 1..Len(all[b].calls)
  <2>1. CASE k = n + 1
    <3>1. Len(all[k].calls) = 0
      BY <1>1, <1>3, <2>1
    <3>2. o \in 1..(k - 1) /\ all[o] = m[o]
      BY <1>3, <2>1
    <3>3. k - o \in 1..Len(all[o].calls)
      BY <1>3, <1>4, <1>6, <2>1, <3>2
    <3>4. k + 0 <= (n + 1) + (p - 1) /\ 1..0 = {}
      BY <1>3, <2>1
    <3> QED
      BY <1>3, <3>1, <3>2, <3>3, <3>4
  <2>2. CASE k \in 1..n
    <3>0. /\ k + Len(m[k].calls) <= n + p
          /\ \A j \in 1..Len(m[k].calls) :
               IF k + j <= n THEN m[k + j] = ToolMessage(m[k].calls[j])
               ELSE m[k].calls[j] = made + ((k + j) - n)
          /\ m[k].role = "tool" => \E b \in 1..(k - 1) : k - b \in 1..Len(m[b].calls)
      BY <2>2 DEF OpenAIOpen, n
    <3>1. k + Len(m[k].calls) <= Len(all) + (p - 1)
      BY <1>3, <1>4, <2>2, <3>0
    <3>2. ASSUME NEW j \in 1..Len(m[k].calls)
          PROVE  IF k + j <= Len(all) THEN all[k + j] = ToolMessage(m[k].calls[j])
                 ELSE m[k].calls[j] = (made + 1) + ((k + j) - Len(all))
      <4>1. j \in Nat /\ k \in Nat
        BY <1>4, <2>2, <3>2
      <4>2. CASE k + j <= n
        <5>1. k + j \in 1..n /\ k + j <= Len(all)
          BY <1>3, <2>2, <4>1, <4>2
        <5> QED
          BY <1>3, <3>0, <4>2, <5>1
      <4>3. CASE k + j = n + 1
        <5>1. m[k].calls[j] = made + 1
          BY <1>3, <3>0, <4>1, <4>3
        <5> QED
          BY <1>3, <4>1, <4>3, <5>1 DEF x
      <4>4. CASE k + j > n + 1
        BY <1>3, <3>0, <4>1, <4>4
      <4> QED
        BY <1>3, <4>1, <4>2, <4>3, <4>4
    <3>4. \A b \in 1..(k - 1) : all[b] = m[b]
      BY <1>3, <2>2
    <3> QED
      BY <1>3, <2>2, <3>0, <3>1, <3>2, <3>4
  <2> QED
    BY <1>5, <2>1, <2>2
<1>8. o \in 1..(n + 1) /\ o + Len(all[o].calls) = Len(all) + (p - 1)
  <2>1. all[o] = m[o] /\ o \in 1..(n + 1)
    BY <1>3
  <2>2. n + p = (n + 1) + (p - 1)
    BY <1>3
  <2> QED
    BY <1>3, <1>6, <2>1, <2>2
<1> QED
  BY <1>2, <1>3, <1>7, <1>8 DEF OpenAIOpen, x

\* A transcript without open calls is one that the OpenAI interface accepts.
LEMMA OpenAIClosed ==
    ASSUME NEW m \in Seq(Message), NEW made, OpenAIOpen(m, made, 0)
    PROVE  OpenAIAccepts(m)
<1>1. /\ DOMAIN m = 1..Len(m) /\ Len(m) \in Nat
      /\ \A k \in 1..Len(m) : /\ m[k].calls \in Seq(Nat) /\ Len(m[k].calls) \in Nat
                              /\ DOMAIN m[k].calls = 1..Len(m[k].calls)
  BY MessageCalls
<1>2. ASSUME NEW k \in 1..Len(m)
      PROVE  /\ k + Len(m[k].calls) <= Len(m)
             /\ \A j \in 1..Len(m[k].calls) : m[k + j] = ToolMessage(m[k].calls[j])
             /\ m[k].role = "tool" => \E b \in 1..(k - 1) : k - b \in 1..Len(m[b].calls)
  <2>1. k + Len(m[k].calls) <= Len(m)
    BY <1>1 DEF OpenAIOpen
  <2>2. \A j \in 1..Len(m[k].calls) : k + j <= Len(m)
    BY <1>1, <2>1
  <2> QED
    BY <2>1, <2>2 DEF OpenAIOpen
<1>3. \A k \in 1..Len(m) : \A b \in 1..(k - 1) : b \in 1..Len(m)
  BY <1>1
<1> QED
  BY <1>1, <1>2, <1>3 DEF OpenAIAccepts

\* The blocks that anthropic.Chat sends.
LEMMA BlockFacts ==
    ASSUME NEW sent \in Seq(Blocks)
    PROVE  /\ Len(sent) \in Nat /\ DOMAIN sent = 1..Len(sent)
           /\ \A k \in 1..Len(sent) :
                /\ sent[k] \in Blocks /\ sent[k].uses \in Seq(Nat) /\ sent[k].results \in Seq(Nat)
                /\ Len(sent[k].uses) \in Nat /\ Len(sent[k].results) \in Nat
<1>1. Len(sent) \in Nat /\ DOMAIN sent = 1..Len(sent) /\ \A k \in 1..Len(sent) : sent[k] \in Blocks
  BY LenProperties, ElementOfSeq
<1>2. \A x \in Blocks : x.uses \in Seq(Nat) /\ x.results \in Seq(Nat)
  BY DEF Blocks
<1>3. \A c \in Seq(Nat) : Len(c) \in Nat
  BY LenProperties
<1> QED
  BY <1>1, <1>2, <1>3

\* Positions take turns.
LEMMA Parity == \A n \in Nat : (n + 1) % 2 = 1 <=> n % 2 # 1
OBVIOUS

\* All calls are answered.
LEMMA AwaitsNothing ==
    ASSUME NEW answers \in Seq(Nat), NEW uses \in Seq(Nat), NEW made, Awaits(answers, uses, made, 0)
    PROVE  answers = uses
<1>1. Len(answers) \in Nat /\ Len(uses) = Len(answers)
  BY LenProperties DEF Awaits
<1>2. \A j \in 1..Len(answers) : answers[j] = uses[j]
  BY DEF Awaits
<1> QED
  BY <1>1, <1>2, SeqEqual

\* One more of the calls is answered.
LEMMA AwaitsLess ==
    ASSUME NEW answers \in Seq(Nat), NEW uses \in Seq(Nat), NEW made \in Nat,
           NEW p \in Nat \ {0}, Awaits(answers, uses, made, p)
    PROVE  Awaits(Append(answers, made + 1), uses, made + 1, p - 1)
<1>1. PICK more : more = Append(answers, made + 1)
  OBVIOUS
<1>2. PICK n \in Nat : n = Len(answers)
  BY LenProperties
<1>3. Len(more) = n + 1 /\ more[n + 1] = made + 1 /\ \A j \in 1..n : more[j] = answers[j]
  BY <1>1, <1>2, AppendProperties
<1>4. /\ Len(uses) = n + p /\ \A j \in 1..n : uses[j] = answers[j]
      /\ \A j \in 1..p : uses[n + j] = made + j
  BY <1>2 DEF Awaits
<1>5. Len(uses) = (n + 1) + (p - 1)
  BY <1>4
<1>6. uses[n + 1] = made + 1
  BY <1>4
<1>7. \A j \in 1..(n + 1) : j \in 1..n \/ j = n + 1
  BY <1>2
<1>8. ASSUME NEW j \in 1..(p - 1)
      PROVE  uses[(n + 1) + j] = (made + 1) + j
  <2>1. j + 1 \in 1..p /\ (n + 1) + j = n + (j + 1) /\ (made + 1) + j = made + (j + 1)
    OBVIOUS
  <2> QED
    BY <1>4, <2>1
<1> QED
  BY <1>1, <1>3, <1>4, <1>5, <1>6, <1>7, <1>8 DEF Awaits

\* The answer of the model opens its calls.
LEMMA AnthropicAnswer ==
    ASSUME NEW sent \in Seq(Blocks), NEW made \in Nat, AnthropicOpen(sent, made, 0),
           NEW p \in Nat \ {0}, NEW calls \in Seq(Nat), Len(calls) = p,
           \A j \in 1..p : calls[j] = made + j
    PROVE  AnthropicOpen(AnthropicAppend(sent, AssistantMessage(calls)), made, p)
<1>1. PICK x : x = Block("assistant", calls, <<>>)
  OBVIOUS
<1>2. x \in Blocks /\ x.role = "assistant" /\ x.uses = calls /\ x.results = <<>>
  BY <1>1, EmptySeq DEF Block, Blocks
<1>3. AnthropicAppend(sent, AssistantMessage(calls)) = Append(sent, x)
  BY <1>1 DEF AnthropicAppend, AssistantMessage
<1>4. PICK all : all = Append(sent, x)
  OBVIOUS
<1>5. PICK n \in Nat : n = Len(sent)
  BY LenProperties
<1>6. /\ Len(all) = n + 1 /\ all[n + 1] = x /\ \A k \in 1..n : all[k] = sent[k]
  BY <1>2, <1>4, <1>5, AppendProperties
<1>7. /\ n > 0 /\ sent[n].role = "user"
      /\ \A k \in 1..n : /\ sent[k].role = IF k % 2 = 1 THEN "user" ELSE "assistant"
                         /\ sent[k].role = "user" => sent[k].uses = <<>>
                         /\ sent[k].results = IF k = 1 THEN <<>> ELSE sent[k - 1].uses
  BY <1>5 DEF AnthropicOpen
<1>8. n \in 1..n /\ n + 1 \in 1..(n + 1) /\ (n + 1) - 1 = n /\ n + 1 # 1
      /\ \A k \in 1..(n + 1) : k \in 1..n \/ k = n + 1
  BY <1>7
<1>9. n % 2 = 1 /\ (n + 1) % 2 # 1 /\ sent[n].uses = <<>>
  BY <1>7, <1>8, Parity
<1>10. ASSUME NEW k \in 1..(n + 1)
       PROVE  /\ all[k].role = IF k % 2 = 1 THEN "user" ELSE "assistant"
              /\ all[k].role = "user" => all[k].uses = <<>>
              /\ all[k].results = IF k = 1 THEN <<>> ELSE all[k - 1].uses
  <2>1. CASE k = n + 1
    BY <1>2, <1>6, <1>8, <1>9, <2>1
  <2>2. CASE k \in 1..n
    <3>1. k # 1 => k - 1 \in 1..n
      BY <2>2
    <3> QED
      BY <1>6, <1>7, <2>2, <3>1
  <2> QED
    BY <1>8, <2>1, <2>2
<1>11. Awaits(<<>>, all[n + 1].uses, made, p)
  <2>1. Len(<<>>) = 0 /\ 1..0 = {} /\ 0 + p = p /\ \A j \in 1..p : 0 + j = j
    OBVIOUS
  <2> QED
    BY <1>2, <1>6, <2>1 DEF Awaits
<1>12. all[n + 1].role # "user" /\ p # 0 /\ n + 1 > 0
  BY <1>2, <1>6
<1>13. AnthropicOpen(all, made, p)
  BY <1>6, <1>10, <1>11, <1>12, Zenon DEF AnthropicOpen
<1> QED
  BY <1>3, <1>4, <1>13

\* The answer to the next call closes it: the first one of a turn becomes a message,
\* the others join it.
LEMMA AnthropicTool ==
    ASSUME NEW sent \in Seq(Blocks), NEW made \in Nat, NEW p \in Nat \ {0},
           AnthropicOpen(sent, made, p)
    PROVE  AnthropicOpen(AnthropicAppend(sent, ToolMessage(made + 1)), made + 1, p - 1)
<1>1. PICK n \in Nat : n = Len(sent)
  BY LenProperties
<1>2. /\ n > 0
      /\ \A k \in 1..n : sent[k].role = IF k % 2 = 1 THEN "user" ELSE "assistant"
      /\ \A k \in 1..n : sent[k].role = "user" => sent[k].uses = <<>>
      /\ \A k \in 1..n : k < n \/ sent[n].role # "user" =>
             sent[k].results = IF k = 1 THEN <<>> ELSE sent[k - 1].uses
      /\ sent[n].role = "user" =>
             n > 1 /\ Awaits(sent[n].results, sent[n - 1].uses, made, p)
      /\ sent[n].role # "user" => Awaits(<<>>, sent[n].uses, made, p)
  BY <1>1 DEF AnthropicOpen
<1>3. \A k \in 1..n : sent[k] \in Blocks /\ sent[k].uses \in Seq(Nat) /\ sent[k].results \in Seq(Nat)
  BY <1>1, BlockFacts
<1>4. n \in 1..n /\ sent # <<>> /\ Last(sent) = sent[n]
  BY <1>1, <1>2 DEF Last
<1>5. p - 1 \in Nat /\ (p - 1 = 0 \/ p - 1 > 0)
  OBVIOUS
<1>6. ToolMessage(made + 1).role = "tool" /\ ToolMessage(made + 1).of = made + 1
  BY DEF ToolMessage
<1>7. CASE sent[n].role # "user"
  <2>1. PICK x : x = Block("user", <<>>, <<made + 1>>)
    OBVIOUS
  <2>2. <<made + 1>> \in Seq(Nat) /\ <<made + 1>> = Append(<<>>, made + 1)
    OBVIOUS
  <2>3. x \in Blocks /\ x.role = "user" /\ x.uses = <<>> /\ x.results = <<made + 1>>
    BY <2>1, <2>2, EmptySeq DEF Block, Blocks
  <2>4. PICK all : all = Append(sent, x)
    OBVIOUS
  <2>5. AnthropicAppend(sent, ToolMessage(made + 1)) = all
    BY <1>4, <1>6, <1>7, <2>1, <2>4 DEF AnthropicAppend
  <2>6. Len(all) = n + 1 /\ all[n + 1] = x /\ \A k \in 1..n : all[k] = sent[k]
    BY <1>1, <2>3, <2>4, AppendProperties
  <2>7. n + 1 \in 1..(n + 1) /\ (n + 1) - 1 = n /\ n + 1 # 1 /\ n + 1 > 1 /\ n + 1 > 0
        /\ \A k \in 1..(n + 1) : k \in 1..n \/ k = n + 1
    <3>1. n > 0
      BY <1>2
    <3> QED
      BY <3>1
  <2>8. (n + 1) % 2 = 1
    BY <1>2, <1>4, <1>7, Parity
  <2>9. Awaits(x.results, sent[n].uses, made + 1, p - 1)
    <3>1. <<>> \in Seq(Nat) /\ sent[n].uses \in Seq(Nat)
      BY <1>3, <1>4, EmptySeq
    <3>2. Awaits(<<>>, sent[n].uses, made, p)
      BY <1>2, <1>7
    <3> QED
      BY <2>2, <2>3, <3>1, <3>2, AwaitsLess
  <2>10. p - 1 = 0 => x.results = sent[n].uses
    BY <1>3, <1>4, <2>2, <2>3, <2>9, AwaitsNothing
  <2>11. ASSUME NEW k \in 1..(n + 1)
         PROVE  /\ all[k].role = IF k % 2 = 1 THEN "user" ELSE "assistant"
                /\ all[k].role = "user" => all[k].uses = <<>>
                /\ k < n + 1 \/ p - 1 = 0 =>
                     all[k].results = IF k = 1 THEN <<>> ELSE all[k - 1].uses
    <3>1. CASE k = n + 1
      <4>1. ~(k < n + 1) /\ all[k] = x /\ all[k - 1] = sent[n] /\ k # 1 /\ k % 2 = 1
        BY <1>4, <2>6, <2>7, <2>8, <3>1
      <4> QED
        BY <2>3, <2>10, <4>1
    <3>2. CASE k \in 1..n
      <4>1. (k # 1 => k - 1 \in 1..n) /\ k < n + 1
        BY <3>2
      <4> QED
        BY <1>2, <1>7, <2>6, <3>2, <4>1
    <3> QED
      BY <2>7, <3>1, <3>2
  <2>12. all[n + 1].role = "user" /\ Awaits(all[n + 1].results, all[(n + 1) - 1].uses, made + 1, p - 1)
    BY <1>4, <2>3, <2>6, <2>7, <2>9
  <2>13. AnthropicOpen(all, made + 1, p - 1)
    BY <2>6, <2>7, <2>11, <2>12 DEF AnthropicOpen
  <2> QED
    BY <2>5, <2>13, Zenon
<1>8. CASE sent[n].role = "user"
  <2>1. PICK results \in Seq(Nat) : results = Append(sent[n].results, made + 1)
    <3>1. made + 1 \in Nat /\ sent[n].results \in Seq(Nat)
      BY <1>3, <1>4
    <3> QED
      BY <3>1, AppendProperties
  <2>2. PICK x : x = [sent[n] EXCEPT !.results = results]
    OBVIOUS
  <2>3. x \in Blocks /\ x.role = "user" /\ x.uses = <<>> /\ x.results = results
    <3>1. sent[n] \in Blocks /\ sent[n].uses = <<>>
      BY <1>2, <1>3, <1>4, <1>8
    <3> QED
      BY <1>8, <2>1, <2>2, <3>1 DEF Blocks
  <2>4. PICK all : all = [sent EXCEPT ![n] = x]
    OBVIOUS
  <2>5. AnthropicAppend(sent, ToolMessage(made + 1)) = all
    BY <1>1, <1>4, <1>6, <1>8, <2>1, <2>2, <2>4, Zenon DEF AnthropicAppend
  <2>6. Len(all) = n /\ all[n] = x /\ \A k \in 1..n : k # n => all[k] = sent[k]
    BY <1>1, <1>4, <2>3, <2>4, ExceptSeq
  <2>7. n - 1 \in 1..n /\ n > 1 /\ n - 1 # n /\ n # 1 /\ Awaits(sent[n].results, sent[n - 1].uses, made, p)
    BY <1>2, <1>8
  <2>8. Awaits(x.results, sent[n - 1].uses, made + 1, p - 1)
    <3>1. sent[n].results \in Seq(Nat) /\ sent[n - 1].uses \in Seq(Nat)
      BY <1>3, <1>4, <2>7
    <3> QED
      BY <2>1, <2>3, <2>7, <3>1, AwaitsLess
  <2>9. p - 1 = 0 => x.results = sent[n - 1].uses
    BY <1>3, <2>1, <2>3, <2>7, <2>8, AwaitsNothing
  <2>10. all[n - 1] = sent[n - 1]
    BY <2>6, <2>7
  <2>11. ASSUME NEW k \in 1..n
         PROVE  /\ all[k].role = IF k % 2 = 1 THEN "user" ELSE "assistant"
                /\ all[k].role = "user" => all[k].uses = <<>>
                /\ k < n \/ p - 1 = 0 =>
                     all[k].results = IF k = 1 THEN <<>> ELSE all[k - 1].uses
    <3>1. CASE k = n
      <4>1. n % 2 = 1
        BY <1>2, <1>4, <1>8
      <4> QED
        BY <2>3, <2>6, <2>7, <2>9, <2>10, <3>1, <4>1
    <3>2. CASE k # n
      <4>1. (k # 1 => k - 1 \in 1..n /\ k - 1 # n) /\ k < n
        BY <3>2
      <4> QED
        BY <1>2, <2>6, <3>2, <4>1
    <3> QED
      BY <3>1, <3>2
  <2>12. all[n].role = "user" /\ Awaits(all[n].results, all[n - 1].uses, made + 1, p - 1)
    BY <2>3, <2>6, <2>8, <2>10
  <2>13. n > 0
    BY <1>2
  <2>14. AnthropicOpen(all, made + 1, p - 1)
    BY <2>6, <2>7, <2>11, <2>12, <2>13 DEF AnthropicOpen
  <2> QED
    BY <2>5, <2>14, Zenon
<1> QED
  BY <1>7, <1>8

\* Without open calls it is what the Anthropic interface accepts.
LEMMA AnthropicClosed ==
    ASSUME NEW sent \in Seq(Blocks), NEW made, AnthropicOpen(sent, made, 0)
    PROVE  AnthropicAccepts(sent)
<1>1. DOMAIN sent = 1..Len(sent) /\ Len(sent) > 0
  BY BlockFacts DEF AnthropicOpen
<1>2. Last(sent) = sent[Len(sent)]
  BY DEF Last
<1> QED
  BY <1>1, <1>2 DEF AnthropicOpen, AnthropicAccepts

\* The first message.
LEMMA FirstMessage ==
    /\ <<UserMessage>> \in Seq(Message)
    /\ OpenAIOpen(<<UserMessage>>, 0, 0)
    /\ AnthropicOpen(AnthropicMessages(<<UserMessage>>), 0, 0)
<1>1. UserMessage \in Message /\ UserMessage.calls = <<>> /\ UserMessage.role = "user"
  BY EmptySeq DEF UserMessage, Message
<1>2. PICK u : u = UserMessage
  OBVIOUS
<1>3. <<u>> \in Seq(Message) /\ Len(<<u>>) = 1 /\ <<u>>[1] = u /\ Len(u.calls) = 0
  BY <1>1, <1>2
<1>4. OpenAIOpen(<<u>>, 0, 0)
  <2>1. \A k \in 1..1 : k = 1
    OBVIOUS
  <2>2. 1 + 0 <= 1 + 0 /\ 1..0 = {} /\ ~(0 > 0)
    OBVIOUS
  <2> QED
    BY <1>1, <1>2, <1>3, <2>1, <2>2 DEF OpenAIOpen
<1>5. AnthropicMessages(<<>>) = <<>>
  <2>1. <<>> \in Seq(Message) /\ Len(<<>>) = 0
    BY EmptySeq
  <2>2. PICK h, F : IsRun(h, Seq(Blocks), F, <<>>, 0) /\ h[0] = AnthropicMessages(<<>>)
    BY <2>1, AnthropicRuns
  <2> QED
    BY <2>2 DEF IsRun
<1>6. AnthropicMessages(<<u>>) = <<Block("user", <<>>, <<>>)>>
  <2>1. <<>> \in Seq(Message) /\ Append(<<>>, u) = <<u>>
    BY EmptySeq
  <2>2. AnthropicMessages(<<u>>) = AnthropicAppend(<<>>, u)
    BY <1>1, <1>2, <1>5, <2>1, AnthropicOneMore
  <2> QED
    BY <1>1, <1>2, <2>2 DEF AnthropicAppend
<1>7. AnthropicOpen(<<Block("user", <<>>, <<>>)>>, 0, 0)
  <2>1. PICK b : b = Block("user", <<>>, <<>>)
    OBVIOUS
  <2>2. b.role = "user" /\ b.uses = <<>> /\ b.results = <<>>
    BY <2>1 DEF Block
  <2>3. PICK s : s = <<b>>
    OBVIOUS
  <2>4. Len(s) = 1 /\ s[1] = b
    BY <2>3
  <2>5. (\A k \in 1..1 : k = 1) /\ 1 % 2 = 1 /\ 1 > 0 /\ ~(0 > 0)
    OBVIOUS
  <2>6. AnthropicOpen(s, 0, 0)
    BY <2>2, <2>4, <2>5 DEF AnthropicOpen
  <2> QED
    BY <2>1, <2>3, <2>6
<1> QED
  BY <1>2, <1>3, <1>4, <1>6, <1>7

\* Where a runner goes on with its conversation, and how many calls are open there.
Talking == {"reset", "check", "think", "chat", "usage", "call", "tool", "result"}

Pending(r) == IF r.pc \in {"call", "tool", "result"} THEN Len(r.turn) ELSE 0

\* The transcript of a runner is open by exactly the calls that it has still to make.
Open(r) ==
    r.pc \in Talking =>
        /\ OpenAIOpen(r.messages, r.made, Pending(r))
        /\ AnthropicOpen(AnthropicMessages(r.messages), r.made, Pending(r))

\* The part of the inductive invariant about transcripts.
Talks == \A a \in Attempts : Open(run[a])

\* A runner that adds nothing to its transcript.
LEMMA SameOpen ==
    ASSUME NEW r, Open(r), NEW next,
           next.pc \in Talking => /\ r.pc \in Talking /\ next.messages = r.messages
                                  /\ next.made = r.made /\ Pending(next) = Pending(r)
    PROVE  Open(next)
BY DEF Open

\* The answer of the model is added to the transcript.
LEMMA AnsweredOpen ==
    ASSUME setup \in Setups, NEW r, Sound(r), Open(r), r.pc = "usage"
    PROVE  Open(Answered(r))
<1> DEFINE calls == [k \in DOMAIN r.turn |-> r.made + k]
           answer == AssistantMessage(calls)
           next == [r EXCEPT !.unpaid = @ - 1, !.i = @ + 1, !.messages = Append(@, answer)]
<1>1. r \in Runner /\ r.turn \in Seq(Calls) /\ r.made \in Nat /\ r.messages \in Seq(Message)
  BY DEF Sound, Runner
<1>2. PICK p \in Nat : p = Len(r.turn) /\ DOMAIN r.turn = 1..p
  BY <1>1, LenProperties
<1>3. calls \in Seq(Nat) /\ Len(calls) = p /\ \A j \in 1..p : calls[j] = r.made + j
  BY <1>1, <1>2, CallNumbers
<1> HIDE DEF calls
<1>4. answer \in Message
  BY <1>3 DEF AssistantMessage, Message
<1>5. Pending(r) = 0 /\ OpenAIOpen(r.messages, r.made, 0)
      /\ AnthropicOpen(AnthropicMessages(r.messages), r.made, 0)
  BY DEF Open, Pending, Talking
<1>6. OpenAIOpen(Append(r.messages, answer), r.made, p)
  BY <1>1, <1>3, <1>5, OpenAIAnswer
<1>7. p # 0 => AnthropicOpen(AnthropicMessages(Append(r.messages, answer)), r.made, p)
  <2>1. /\ AnthropicMessages(r.messages) \in Seq(Blocks)
        /\ AnthropicMessages(Append(r.messages, answer))
             = AnthropicAppend(AnthropicMessages(r.messages), answer)
    BY <1>1, <1>4, AnthropicOneMore
  <2> QED
    BY <1>1, <1>3, <1>5, <2>1, AnthropicAnswer
<1> HIDE DEF answer
<1>8. next.messages = Append(r.messages, answer) /\ next.made = r.made /\ next.turn = r.turn
  BY <1>1 DEF Runner
<1>9. \A pc \in Places :
        /\ [next EXCEPT !.pc = pc].pc = pc /\ [next EXCEPT !.pc = pc].messages = next.messages
        /\ [next EXCEPT !.pc = pc].made = next.made /\ [next EXCEPT !.pc = pc].turn = next.turn
  BY <1>1 DEF Runner
<1>10. Answered(r) \in {[next EXCEPT !.pc = "call"], [next EXCEPT !.pc = "fail"],
                        [next EXCEPT !.pc = "commit"], [next EXCEPT !.pc = "read"]}
       /\ (Answered(r) = [next EXCEPT !.pc = "call"] => r.turn # <<>>)
  <2> HIDE DEF next
  <2>1. CASE r.turn = <<>>
    <3>1. Answered(r) = [next EXCEPT !.pc = "commit"] \/ Answered(r) = [next EXCEPT !.pc = "read"]
      BY <2>1 DEF Answered, Finish, next, answer, calls
    <3>2. [next EXCEPT !.pc = "commit"] # [next EXCEPT !.pc = "call"]
          /\ [next EXCEPT !.pc = "read"] # [next EXCEPT !.pc = "call"]
      BY <1>9 DEF Places
    <3> QED
      BY <3>1, <3>2
  <2>2. CASE r.turn # <<>>
    BY <2>2 DEF Answered, next, answer, calls
  <2> QED
    BY <2>1, <2>2
<1>11. r.turn # <<>> => p # 0
  BY <1>1, <1>2
<1>12. Open([next EXCEPT !.pc = "call"]) \/ r.turn = <<>>
  BY <1>2, <1>6, <1>7, <1>8, <1>9, <1>11 DEF Open, Pending, Places
<1>13. \A pc \in {"fail", "commit", "read"} : Open([next EXCEPT !.pc = pc])
  BY <1>9 DEF Open, Talking, Places
<1> HIDE DEF next
<1> QED
  BY <1>10, <1>12, <1>13

\* The answer to a call is added to the transcript.
LEMMA CallAnsweredOpen ==
    ASSUME setup \in Setups, NEW r, Sound(r), Open(r), r.pc = "result"
    PROVE  Open(CallAnswered(r))
<1> DEFINE answer == ToolMessage(r.made + 1)
           next == [r EXCEPT !.turn = Tail(@), !.made = @ + 1, !.messages = Append(@, answer)]
<1>1. /\ r \in Runner /\ r.turn \in Seq(Calls) /\ r.turn # <<>> /\ r.made \in Nat
      /\ r.messages \in Seq(Message)
  BY DEF Sound, Runner, InTurn
<1>2. PICK p \in Nat \ {0} : p = Len(r.turn)
  BY <1>1, LenProperties
<1>3. Len(Tail(r.turn)) = p - 1
  BY <1>1, <1>2, HeadTailProperties
<1>4. answer \in Message
  BY <1>1, EmptySeq DEF ToolMessage, Message
<1>5. OpenAIOpen(r.messages, r.made, p) /\ AnthropicOpen(AnthropicMessages(r.messages), r.made, p)
  BY <1>2 DEF Open, Pending, Talking
<1>6. OpenAIOpen(Append(r.messages, answer), r.made + 1, p - 1)
  BY <1>1, <1>5, OpenAITool
<1>7. AnthropicOpen(AnthropicMessages(Append(r.messages, answer)), r.made + 1, p - 1)
  <2>1. /\ AnthropicMessages(r.messages) \in Seq(Blocks)
        /\ AnthropicMessages(Append(r.messages, answer))
             = AnthropicAppend(AnthropicMessages(r.messages), answer)
    BY <1>1, <1>4, AnthropicOneMore
  <2> QED
    BY <1>1, <1>5, <2>1, AnthropicTool
<1> HIDE DEF answer
<1>8. /\ next.messages = Append(r.messages, answer) /\ next.made = r.made + 1
      /\ next.turn = Tail(r.turn)
  BY <1>1 DEF Runner
<1>9. \A pc \in Places :
        /\ [next EXCEPT !.pc = pc].pc = pc /\ [next EXCEPT !.pc = pc].messages = next.messages
        /\ [next EXCEPT !.pc = pc].made = next.made /\ [next EXCEPT !.pc = pc].turn = next.turn
  BY <1>1 DEF Runner
<1> HIDE DEF next
<1>10. \/ CallAnswered(r) = [next EXCEPT !.pc = "call"]
       \/ CallAnswered(r) = [next EXCEPT !.pc = "check"] /\ Len(r.turn) = 1
       \/ CallAnswered(r) = [next EXCEPT !.pc = "limit"]
  BY DEF CallAnswered, next, answer
<1>11. Open([next EXCEPT !.pc = "call"])
  <2>1. PICK u : u = [next EXCEPT !.pc = "call"]
    OBVIOUS
  <2>2. /\ u.pc = "call" /\ u.messages = Append(r.messages, answer) /\ u.made = r.made + 1
        /\ u.turn = Tail(r.turn)
    BY <1>8, <1>9, <2>1 DEF Places
  <2>3. Pending(u) = p - 1
    BY <1>3, <2>2 DEF Pending
  <2>4. Open(u)
    BY <1>6, <1>7, <2>2, <2>3, Zenon DEF Open
  <2> QED
    BY <2>1, <2>4
<1>12. Len(r.turn) = 1 => Open([next EXCEPT !.pc = "check"])
  <2>1. PICK u : u = [next EXCEPT !.pc = "check"]
    OBVIOUS
  <2>2. u.pc = "check" /\ u.messages = Append(r.messages, answer) /\ u.made = r.made + 1
    BY <1>8, <1>9, <2>1 DEF Places
  <2>3. Pending(u) = 0 /\ (Len(r.turn) = 1 => p - 1 = 0)
    BY <1>2, <2>2 DEF Pending
  <2>4. Len(r.turn) = 1 => Open(u)
    BY <1>6, <1>7, <2>2, <2>3, Zenon DEF Open
  <2> QED
    BY <2>1, <2>4
<1>13. Open([next EXCEPT !.pc = "limit"])
  BY <1>9 DEF Open, Talking, Places
<1> QED
  BY <1>10, <1>11, <1>12, <1>13

\* A runner goes on with an open transcript.
LEMMA GotoTalks ==
    ASSUME Typed, Talks, NEW a \in Attempts, NEW next, Open(next), Goto(a, next)
    PROVE  Talks'
<1>1. run \in [Attempts -> Runner]
  BY DEF Typed, Runs
<1>2. \A b \in Attempts : run'[b] = IF b = a THEN next ELSE run[b]
  BY <1>1 DEF Goto
<1>3. \A b \in Attempts : Open(run'[b])
  BY <1>2 DEF Talks
<1>4. \A b \in Attempts : Open(run[b])' <=> Open(run'[b])
  BY DEF Open, Pending
<1> QED
  BY <1>3, <1>4 DEF Talks

\* Every step of a runner leaves its transcript open by the calls it has to make.
LEMMA StepTalks ==
    ASSUME Typed, Talks, NEW a \in Attempts, Step(a)
    PROVE  Talks'
<1> DEFINE r == run[a]
<1>1. setup \in Setups /\ Sound(r) /\ r \in Runner /\ Open(r)
  BY DEF Typed, Rows, Runs, Talks
<1>2. ASSUME NEW x, x.pc \notin Talking
      PROVE  Open(x)
  BY <1>2 DEF Open
<1>3. /\ Ended(r).pc = "ended"
      /\ \A pc \in Places : /\ To(a, pc).pc = pc /\ To(a, pc).messages = r.messages
                            /\ To(a, pc).made = r.made /\ To(a, pc).turn = r.turn
  BY <1>1 DEF Ended, NotRunning, To, Runner
<1>4. Open(Ended(r)) /\ Open(To(a, "fail"))
  BY <1>2, <1>3 DEF Talking, Places
<1>5. ASSUME NEW next, Open(next), Goto(a, next)
      PROVE  Talks'
  BY <1>5, GotoTalks
<1>6. ASSUME NEW next, Open(next), Emit(a, next)
      PROVE  Talks'
  BY <1>4, <1>5, <1>6 DEF Emit
<1>7. ASSUME NEW pc \in {"check", "think", "chat"}, r.pc \in {"reset", "check", "think"}
      PROVE  Open(To(a, pc))
  BY <1>1, <1>3, <1>7, SameOpen DEF Pending, Talking, Places
<1>8. CASE Reset(a)
  BY <1>4, <1>5, <1>7, <1>8 DEF Reset, At
<1>9. CASE CheckBudget(a)
  BY <1>4, <1>5, <1>7, <1>9 DEF CheckBudget, At
<1>10. CASE Think(a)
  BY <1>6, <1>7, <1>10 DEF Think, At
<1>11. CASE Chat(a)
  <2> DEFINE asked == [r EXCEPT !.unpaid = @ + 1]
  <2>1. r.pc = "chat"
    BY <1>11 DEF Chat, At
  <2>2. /\ [asked EXCEPT !.pc = "fail"].pc = "fail" /\ Ended(asked).pc = "ended"
        /\ \A turn : LET u == [asked EXCEPT !.pc = "usage", !.turn = turn]
                     IN  u.pc = "usage" /\ u.messages = r.messages /\ u.made = r.made
    BY <1>1 DEF Runner, Ended, NotRunning
  <2> HIDE DEF asked
  <2>3. Open([asked EXCEPT !.pc = "fail"]) /\ Open(Ended(asked))
    BY <1>2, <2>2 DEF Talking
  <2>4. \A turn : Open([asked EXCEPT !.pc = "usage", !.turn = turn])
    BY <1>1, <2>1, <2>2, SameOpen DEF Pending, Talking
  <2> QED
    BY <1>5, <1>11, <2>3, <2>4 DEF Chat, asked
<1>12. CASE RecordUsage(a)
  BY <1>1, <1>6, <1>12, AnsweredOpen DEF RecordUsage, At
<1>13. CASE BeginCall(a)
  <2>1. Open(To(a, "tool"))
    BY <1>1, <1>3, <1>13, SameOpen DEF BeginCall, At, Pending, Talking, Places
  <2> QED
    BY <1>6, <1>13, <2>1 DEF BeginCall
<1>14. CASE CallTool(a)
  <2>1. r.pc = "tool"
    BY <1>14 DEF CallTool, At
  <2>2. \A primary : LET u == [r EXCEPT !.pc = "result", !.primary = primary]
                     IN  /\ u.pc = "result" /\ u.messages = r.messages /\ u.made = r.made
                         /\ u.turn = r.turn
    BY <1>1 DEF Runner
  <2>3. ASSUME NEW primary
        PROVE  Open([r EXCEPT !.pc = "result", !.primary = primary])
    <3>1. PICK u : u = [r EXCEPT !.pc = "result", !.primary = primary]
      OBVIOUS
    <3>2. u.messages = r.messages /\ u.made = r.made /\ Pending(u) = Pending(r) /\ r.pc \in Talking
      BY <2>1, <2>2, <3>1 DEF Pending, Talking
    <3> QED
      BY <1>1, <3>1, <3>2, SameOpen
  <2> QED
    BY <1>5, <1>14, <2>3 DEF CallTool
<1>15. CASE EndCall(a)
  BY <1>1, <1>6, <1>15, CallAnsweredOpen DEF EndCall, At
<1>16. CASE HitLimit(a)
  <2>1. Finish(r).pc \in {"commit", "read"}
    BY <1>1 DEF Finish, Runner
  <2> QED
    BY <1>2, <1>6, <1>16, <2>1 DEF HitLimit, Talking
<1>17. CASE ReadPrimary(a)
  <2>1. \A content : \A pc \in {"commit", "header"} : [r EXCEPT !.content = content, !.pc = pc].pc = pc
    BY <1>1 DEF Runner
  <2>2. \A content : \A pc \in {"commit", "header"} : Open([r EXCEPT !.content = content, !.pc = pc])
    BY <1>2, <2>1 DEF Talking
  <2> QED
    BY <1>4, <1>5, <1>17, <2>2 DEF ReadPrimary
<1>18. CASE WriteHeader(a)
  <2>1. \A content : [r EXCEPT !.pc = "commit", !.content = content].pc = "commit"
    BY <1>1 DEF Runner
  <2>2. \A content : Open([r EXCEPT !.pc = "commit", !.content = content])
    BY <1>2, <2>1 DEF Talking
  <2> QED
    BY <1>5, <1>18, <2>2 DEF WriteHeader
<1>19. CASE Commit(a)
  BY <1>4, <1>6, <1>19 DEF Commit
<1>20. CASE Fail(a)
  BY <1>4, <1>5, <1>20 DEF Fail
<1> QED
  BY <1>8, <1>9, <1>10, <1>11, <1>12, <1>13, <1>14, <1>15, <1>16, <1>17, <1>18, <1>19, <1>20
     DEF Step

\* Every step keeps the transcripts open by the calls that are still to be made.
LEMMA TalksStep ==
    ASSUME Typed, Talks, [Next]_vars
    PROVE  Talks'
<1>1. CASE UNCHANGED run
  BY <1>1 DEF Talks, Open, Pending
<1>2. ASSUME NEW a \in Attempts, Claim(a)
      PROVE  Talks'
  <2>1. /\ Started.messages = <<UserMessage>> /\ Started.made = 0
        /\ Started.pc \in {"reset", "check"}
    BY DEF Started, NotRunning
  <2>2. Open(Started)
    BY <2>1, FirstMessage DEF Open, Pending
  <2> QED
    BY <1>2, <2>2, GotoTalks DEF Claim
<1>3. ASSUME NEW a \in Attempts, Crash(a)
      PROVE  Talks'
  <2>1. Ended(run[a]).pc = "ended"
    BY DEF Ended, NotRunning
  <2>2. Open(Ended(run[a]))
    BY <2>1 DEF Open, Talking
  <2> QED
    BY <1>3, <2>2, GotoTalks DEF Crash
<1> QED
  BY <1>1, <1>2, <1>3, StepTalks
     DEF Next, StopProcess, Decide, CancelTask, LoseSession, Rest, vars

\* No runner talks at the start.
LEMMA TalksInit ==
    ASSUME Init
    PROVE  Talks
BY DEF Init, Talks, Open, Talking, NotRunning

(***************************************************************************)
(* The theorems.                                                           *)
(***************************************************************************)
\* The inductive invariant.
Inv == Typed /\ Claimed /\ Intact /\ Talks

\* The four parts together are inductive.
LEMMA InvHolds == Spec => []Inv
<1>1. Init => Inv
  BY TypedInit, ClaimedInit, IntactInit, TalksInit DEF Inv
<1>2. Inv /\ [Next]_vars => Inv'
  BY TypedStep, ClaimedStep, IntactStep, TalksStep DEF Inv
<1> QED
  BY <1>1, <1>2, PTL DEF Spec

\* Whatever the model answers and whatever fails, a conversation has at most Limit
\* turns and at most one model call without a usage event; and the types hold.
THEOREM CallsAreAccounted == Spec => []Accounted
<1>1. Inv => Accounted
  BY TypedAccounts DEF Inv
<1> QED
  BY <1>1, InvHolds, PTL

\* However many processes lose their session, an attempt without its claim changes
\* the files at most once: Reset, the tools and the header stand between two events.
THEOREM LateChangesAreFew == Spec => []OneLateChange
<1>1. Inv => OneLateChange
  BY DEF Inv, Claimed, OneLateChange
<1> QED
  BY <1>1, InvHolds, PTL

\* What was handed in for review, and is accepted, is what lies in the working tree,
\* unless an earlier attempt changed a file after it had lost its claim.
THEOREM SubmissionsAreIntact == Spec => []SubmittedIntact
<1>1. Inv => SubmittedIntact
  BY DEF Inv, Intact
<1> QED
  BY <1>1, InvHolds, PTL

\* Every request is one that its provider accepts, for any number of turns and of calls
\* in a turn: the transcript is always open by exactly the calls that the runner has
\* still to make, and at the next request there are none.
THEOREM TranscriptsAreSound == Spec => []TranscriptSound
<1>1. ASSUME Inv
      PROVE  TranscriptSound
  <2>1. ASSUME NEW a \in Attempts, At(a, "chat")
        PROVE  /\ OpenAIAccepts(run[a].messages)
               /\ AnthropicAccepts(AnthropicMessages(run[a].messages))
    <3>1. Open(run[a]) /\ run[a].messages \in Seq(Message)
      BY <1>1 DEF Inv, Talks, Typed, Runs, Runner
    <3>2. /\ OpenAIOpen(run[a].messages, run[a].made, 0)
          /\ AnthropicOpen(AnthropicMessages(run[a].messages), run[a].made, 0)
      BY <2>1, <3>1 DEF Open, Pending, Talking, At
    <3>3. AnthropicMessages(run[a].messages) \in Seq(Blocks)
      <4>1. UserMessage \in Message
        BY EmptySeq DEF UserMessage, Message
      <4> QED
        BY <3>1, <4>1, AnthropicOneMore
    <3> QED
      BY <3>1, <3>2, <3>3, OpenAIClosed, AnthropicClosed
  <2> QED
    BY <2>1 DEF TranscriptSound
<1> QED
  BY <1>1, InvHolds, PTL
=============================================================================
