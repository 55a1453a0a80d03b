---------------------------- MODULE Conversation ----------------------------
(***************************************************************************)
(* The attempts of one stage: the conversation of the stage runner with a  *)
(* model (internal/stage/runner.go), what the model adapters send          *)
(* (internal/llm), what the tools do to the files (internal/tools), and    *)
(* the claim of the stage row that fences it (orchestrator.go).            *)
(*                                                                         *)
(* A process that lost its PostgreSQL session is not stopped at once: the  *)
(* runner of its attempt goes on beside the attempt of its successor, in   *)
(* the same working tree.  The row is fenced, the files are not.  Orchest- *)
(* rator has the rows in full, Workspace the git commands; here a Reset is *)
(* one step and the plan is there already when the mode is "execute".      *)
(***************************************************************************)
EXTENDS Integers, Sequences, SequencesExt, FiniteSets

CONSTANTS
    MaxAttempts,    \* bound: attempts of the stage
    MaxIterations,  \* policy.max_iterations
    Files,          \* the files that a tool call may name
    ProtectedFiles, \* those that pathguard.Protected refuses
    Tracked,        \* those that HEAD has
    Calls,          \* the tool calls that a model may make
    Setups          \* the stage and what happens to it; Init chooses one

Attempts == 1..MaxAttempts
Profiles == {"docs-writer", "code-writer", "reader", "publisher"}
ToolNames == {"read_file", "list_dir", "search", "write_file", "run_tests"}
Texts == {"small", "large"}     \* "large": between the limits of Read and of Write
Limits == [faults : Nat, losses : Nat, requests : Nat]

\* calls: bound of the tool calls of one turn.  bounds: how many faults, lost
\* sessions or crashes, and requests happen.
\* allowed: the stage's own list of tools; tests: it has a test_command.
Agent == [profile : Profiles, own : SUBSET Files, tests : BOOLEAN, allowed : SUBSET ToolNames]

ASSUME ConversationAssumption ==
    /\ MaxAttempts \in Nat \ {0} /\ MaxIterations \in Nat \ {0}
    /\ ProtectedFiles \subseteq Files /\ Tracked \subseteq Files
    /\ Calls \subseteq [tool : ToolNames, file : Files, text : Texts, header : BOOLEAN,
                        args : {"good", "mistyped", "broken"}]
    /\ Setups \subseteq [mode : {"plan", "execute"}, agent : Agent,
                         provider : {"anthropic", "openai"}, calls : Nat, bounds : Limits]

VARIABLES
    setup,       \* mode, agent, provider, calls and bounds; never changes
    row,         \* the stage row: its attempt and status
    over,        \* the task failed or was cancelled
    deliverable, \* the deliverable row: what the reviewer sees
    files,       \* the working tree
    run,         \* run[a]: the runner of attempt a
    split,       \* does a process that lost its session still run?
    stray,       \* the attempts of that process
    cancelled,   \* attempts whose context is cancelled
    late,        \* history: late[a] counts the file changes of a without its claim
    left         \* what is left of the bounds

vars == <<setup, row, over, deliverable, files, run, split, stray, cancelled, late, left>>

(***************************************************************************)
(* Data.                                                                   *)
(***************************************************************************)
\* A file: who wrote its text, which text, and whether it begins with "> Task:".
\* "cut" is a text that Read cut off at its limit.
Content == [by : 0..MaxAttempts, text : Texts \cup {"none", "cut"}, header : BOOLEAN]

Written(a, text, header) == [by |-> a, text |-> text, header |-> header]
Absent == Written(0, "none", FALSE)
Committed == [f \in Files |-> IF f \in Tracked THEN Written(0, "small", FALSE) ELSE Absent]

\* A message of the transcript: an assistant message has the numbers of its calls,
\* a tool message the number of the call it answers.
UserMessage == [role |-> "user", calls |-> <<>>, of |-> 0]
AssistantMessage(calls) == [role |-> "assistant", calls |-> calls, of |-> 0]
ToolMessage(call) == [role |-> "tool", calls |-> <<>>, of |-> call]

NoFile == "none"
NoResult == [by |-> 0, ref |-> NoFile, content |-> Absent]

\* i: completed turns.  turn: the calls of the current turn that are not answered
\* yet; made: calls of the conversation that are.  primary: the last of
\* WrittenPaths.  unpaid: history, the model calls without a usage event.
NotRunning == [pc |-> "none", i |-> 0, turn |-> <<>>, made |-> 0, messages |-> <<>>,
               primary |-> NoFile, content |-> Absent, unpaid |-> 0]

Started == [NotRunning EXCEPT !.pc = IF setup.mode = "execute" THEN "reset" ELSE "check",
                              !.messages = <<UserMessage>>]

Ended(r) == [NotRunning EXCEPT !.pc = "ended", !.unpaid = r.unpaid]

Active(a) == run[a].pc \notin {"none", "ended"}

Init ==
    /\ setup \in Setups
    /\ row = [attempt |-> 0, status |-> "working"]
    /\ over = FALSE /\ deliverable = NoResult
    /\ files = Committed
    /\ run = [a \in Attempts |-> NotRunning]
    /\ split = FALSE /\ stray = {} /\ cancelled = {}
    /\ late = [a \in Attempts |-> 0]
    /\ left = setup.bounds

Spend(what) == left[what] > 0 /\ left' = [left EXCEPT ![what] = @ - 1]

rowVars == <<row, over, deliverable>>
procVars == <<split, stray, cancelled>>

(***************************************************************************)
(* The sandbox.                                                            *)
(***************************************************************************)
\* Tools: what the profile offers, cut down to what the stage allows.
Tools ==
    LET writer == setup.agent.profile # "publisher" /\ setup.agent.own # {}
        tester == setup.agent.profile = "code-writer" /\ setup.agent.tests
    IN  setup.agent.allowed \cap
        ({"read_file", "list_dir", "search"}
            \cup (IF writer THEN {"write_file"} ELSE {})
            \cup (IF tester THEN {"run_tests"} ELSE {}))

\* check: whether a file may be read, or written.
Check(f, write) ==
    /\ f \notin ProtectedFiles
    /\ write => setup.agent.profile # "publisher" /\ f \in setup.agent.own

\* Read: a large text is cut off.
Read(f) == IF files[f].text = "large" THEN [files[f] EXCEPT !.text = "cut"] ELSE files[f]

\* Call: whether a tool call succeeds; every failure becomes an observation.  A
\* search pattern or a test command that does not parse counts as bad arguments.
Succeeds(c) ==
    /\ c.tool \in Tools /\ c.args = "good"
    /\ c.tool = "write_file" => Check(c.file, TRUE)
    /\ c.tool \in {"read_file", "list_dir"} => Check(c.file, FALSE) /\ files[c.file] # Absent

(***************************************************************************)
(* The adapters.                                                           *)
(***************************************************************************)
Block(role, uses, results) == [role |-> role, uses |-> uses, results |-> results]

\* Mutant: every answer becomes a message of its own.
SplitAnthropicAppend(sent, m) ==
    Append(sent, IF m.role = "tool" THEN Block("user", <<>>, <<m.of>>)
                 ELSE Block(m.role, m.calls, <<>>))

\* One message of anthropic.Chat: an answer joins the user message before it.
AnthropicAppend(sent, m) ==
    IF m.role = "tool"
    THEN IF sent # <<>> /\ Last(sent).role = "user"
         THEN [sent EXCEPT ![Len(sent)].results = Append(@, m.of)]
         ELSE Append(sent, Block("user", <<>>, <<m.of>>))
    ELSE Append(sent, Block(m.role, m.calls, <<>>))

AnthropicMessages(messages) == FoldLeft(AnthropicAppend, <<>>, messages)

(***************************************************************************)
(* The claim.                                                              *)
(***************************************************************************)
\* progress, commit: the row still has this attempt at work and the task goes on.
Holds(a) == row.attempt = a /\ row.status = "working" /\ ~over

At(a, pc) == run[a].pc = pc
Goto(a, next) == run' = [run EXCEPT ![a] = next]
To(a, pc) == [run[a] EXCEPT !.pc = pc]

\* Mutant: progress does not compare the attempt with the row.
UnfencedEmit(a, next) ==
    \/ a \notin cancelled /\ Goto(a, next) /\ UNCHANGED left
    \/ a \in cancelled /\ Goto(a, Ended(run[a])) /\ UNCHANGED left

\* Emit of a progress event: the runner goes on with next only if it was stored.
\* A lost claim and a cancelled context just end it; another error fails the task.
Emit(a, next) ==
    \/ Holds(a) /\ a \notin cancelled /\ Goto(a, next) /\ UNCHANGED left
    \/ Holds(a) /\ a \notin cancelled /\ Goto(a, To(a, "fail")) /\ Spend("faults")
    \/ (~Holds(a) \/ a \in cancelled) /\ Goto(a, Ended(run[a])) /\ UNCHANGED left

\* A step that changes files; it is late when the claim is gone.
Touch(a, tree) ==
    /\ files' = tree
    /\ late' = IF Holds(a) THEN late ELSE [late EXCEPT ![a] = @ + 1]

\* Reconcile claims a stage that is at work without a runner of its own process,
\* in the process that has the lock or in the one that lost it.
Claim(a) ==
    /\ ~over /\ row.status = "working" /\ row.attempt = a - 1
    /\ \/ /\ \A b \in Attempts : Active(b) => b \in stray
          /\ UNCHANGED stray
       \/ /\ split /\ \A b \in stray : ~Active(b)
          /\ stray' = stray \cup {a}
    /\ row' = [row EXCEPT !.attempt = a]
    /\ Goto(a, Started)
    /\ UNCHANGED <<setup, over, deliverable, files, split, cancelled, late, left>>

(***************************************************************************)
(* The runner of attempt a.                                                *)
(***************************************************************************)
\* Workspace.Reset before the conversation: the agent's files are those of HEAD.
\* Its git commands do not start under a cancelled context.
Reset(a) ==
    /\ At(a, "reset")
    /\ \/ /\ a \notin cancelled
          /\ Goto(a, To(a, "check"))
          /\ Touch(a, [f \in Files |-> IF f \in setup.agent.own THEN Committed[f] ELSE files[f]])
          /\ UNCHANGED left
       \/ /\ a \notin cancelled /\ Spend("faults")
          /\ Goto(a, To(a, "fail"))
          /\ UNCHANGED <<files, late>>
       \/ /\ a \in cancelled
          /\ Goto(a, Ended(run[a]))
          /\ UNCHANGED <<files, late, left>>
    /\ UNCHANGED <<setup, rowVars, procVars>>

\* budget.Check: an exhausted budget ends the runner and leaves the stage claimed.
CheckBudget(a) ==
    /\ At(a, "check")
    /\ \/ a \notin cancelled /\ Goto(a, To(a, "think")) /\ UNCHANGED left
       \/ /\ a \notin cancelled /\ Spend("faults")
          /\ \E next \in {Ended(run[a]), To(a, "fail")} : Goto(a, next)
       \/ a \in cancelled /\ Goto(a, Ended(run[a])) /\ UNCHANGED left
    /\ UNCHANGED <<setup, rowVars, files, procVars, late>>

\* Emit of agent.thinking.
Think(a) ==
    /\ At(a, "think")
    /\ Emit(a, To(a, "chat"))
    /\ UNCHANGED <<setup, rowVars, files, procVars, late>>

\* What the model may answer: no call, or a few.  The arguments of a call are part
\* of Anthropic's JSON; OpenAI's are a string that may hold anything.
Turns ==
    LET calls == {c \in Calls : setup.provider = "anthropic" => c.args # "broken"}
    IN  UNION {[1..n -> calls] : n \in 0..setup.calls}

\* The OpenAI adapter refuses a turn with arguments that are no JSON object.
Refused(turn) ==
    setup.provider = "openai" /\ \E k \in DOMAIN turn : turn[k].args = "broken"

\* model.Chat: an answer, or an error after the retries of the library.
Chat(a) ==
    /\ At(a, "chat")
    /\ LET asked == [run[a] EXCEPT !.unpaid = @ + 1]
       IN  \/ \E turn \in Turns :
                /\ a \notin cancelled
                /\ Goto(a, IF Refused(turn) THEN [asked EXCEPT !.pc = "fail"]
                           ELSE [asked EXCEPT !.pc = "usage", !.turn = turn])
                /\ UNCHANGED left
           \/ a \notin cancelled /\ Goto(a, [asked EXCEPT !.pc = "fail"]) /\ Spend("faults")
           \/ a \in cancelled /\ Goto(a, Ended(asked)) /\ UNCHANGED left
    /\ UNCHANGED <<setup, rowVars, files, procVars, late>>

Limit == IF setup.mode = "plan" THEN 1 ELSE MaxIterations

\* After the last turn: the last written file is read, if there is one.
Finish(r) == [r EXCEPT !.pc = IF r.primary = NoFile THEN "commit" ELSE "read"]

\* The transcript grows by the answer.  A turn without calls ends the loop; a plan
\* may not have any.
Answered(r) ==
    LET answer == AssistantMessage([k \in DOMAIN r.turn |-> r.made + k])
        next == [r EXCEPT !.unpaid = @ - 1, !.i = @ + 1, !.messages = Append(@, answer)]
    IN  CASE r.turn = <<>> -> Finish(next)
          [] r.turn # <<>> /\ setup.mode = "plan" -> [next EXCEPT !.pc = "fail"]
          [] OTHER -> [next EXCEPT !.pc = "call"]

\* Mutant: a usage event that cannot be stored is passed over.
CarelessRecordUsage(a) ==
    /\ At(a, "usage")
    /\ \/ Emit(a, Answered(run[a]))
       \/ Spend("faults") /\ Goto(a, [Answered(run[a]) EXCEPT !.unpaid = @ + 1])
    /\ UNCHANGED <<setup, rowVars, files, procVars, late>>

\* Emit of usage, then the loop looks at the answer.
RecordUsage(a) ==
    /\ At(a, "usage")
    /\ Emit(a, Answered(run[a]))
    /\ UNCHANGED <<setup, rowVars, files, procVars, late>>

\* ctx.Err and Emit of agent.tool_call.
BeginCall(a) ==
    /\ At(a, "call")
    /\ Emit(a, To(a, "tool"))
    /\ UNCHANGED <<setup, rowVars, files, procVars, late>>

\* sandbox.Call: nothing between the event before it and the one after it asks for
\* the claim or for the context.
CallTool(a) ==
    LET c == run[a].turn[1]
        writes == Succeeds(c) /\ c.tool = "write_file"
    IN  /\ At(a, "tool")
        /\ Goto(a, [run[a] EXCEPT !.pc = "result", !.primary = IF writes THEN c.file ELSE @])
        /\ IF writes THEN Touch(a, [files EXCEPT ![c.file] = Written(a, c.text, c.header)])
           ELSE UNCHANGED <<files, late>>
        /\ UNCHANGED <<setup, rowVars, procVars, left>>

\* The answer to a call joins the transcript; after the last one the next turn
\* begins, or the limit is reached.
CallAnswered(r) ==
    LET next == [r EXCEPT !.turn = Tail(@), !.made = @ + 1,
                          !.messages = Append(@, ToolMessage(r.made + 1))]
    IN  CASE Len(r.turn) > 1 -> [next EXCEPT !.pc = "call"]
          [] Len(r.turn) = 1 /\ r.i < Limit -> [next EXCEPT !.pc = "check"]
          [] OTHER -> [next EXCEPT !.pc = "limit"]

\* Mutant: a call that failed is made again.
StubbornEndCall(a) ==
    /\ At(a, "result")
    /\ Emit(a, IF Succeeds(run[a].turn[1]) THEN CallAnswered(run[a]) ELSE To(a, "call"))
    /\ UNCHANGED <<setup, rowVars, files, procVars, late>>

\* Emit of agent.tool_result.
EndCall(a) ==
    /\ At(a, "result")
    /\ Emit(a, CallAnswered(run[a]))
    /\ UNCHANGED <<setup, rowVars, files, procVars, late>>

\* Emit of agent.message with hit_limit.
HitLimit(a) ==
    /\ At(a, "limit")
    /\ Emit(a, Finish(run[a]))
    /\ UNCHANGED <<setup, rowVars, files, procVars, late>>

\* sandbox.Read of the last written file; it may be gone.
ReadPrimary(a) ==
    LET f == run[a].primary
    IN  /\ At(a, "read")
        /\ Goto(a, IF files[f] = Absent THEN To(a, "fail")
                   ELSE [run[a] EXCEPT !.content = Read(f),
                                       !.pc = IF files[f].header THEN "commit" ELSE "header"])
        /\ UNCHANGED <<setup, rowVars, files, procVars, late, left>>

\* Mutant: the header goes only into the stored deliverable.
VirtualWriteHeader(a) ==
    /\ At(a, "header")
    /\ Goto(a, [run[a] EXCEPT !.pc = "commit", !.content.header = TRUE])
    /\ UNCHANGED <<setup, rowVars, files, procVars, late, left>>

\* sandbox.Write of header and content; neither claim nor context is asked for.
WriteHeader(a) ==
    LET content == [run[a].content EXCEPT !.header = TRUE]
    IN  /\ At(a, "header")
        /\ Goto(a, [run[a] EXCEPT !.pc = "commit", !.content = content])
        /\ Touch(a, [files EXCEPT ![run[a].primary] = content])
        /\ UNCHANGED <<setup, rowVars, procVars, left>>

\* commit: the result is stored and the stage waits for its review.
Commit(a) ==
    /\ At(a, "commit")
    /\ Emit(a, Ended(run[a]))
    /\ IF run'[a].pc = "ended" /\ Holds(a) /\ a \notin cancelled
       THEN /\ row' = [row EXCEPT !.status = "review"]
            /\ deliverable' = [by |-> a, ref |-> run[a].primary, content |-> run[a].content]
       ELSE UNCHANGED <<row, deliverable>>
    /\ UNCHANGED <<setup, over, files, procVars, late>>

\* run after an error: fail ends the task if the stage still has this attempt.
Fail(a) ==
    /\ At(a, "fail")
    /\ Goto(a, Ended(run[a]))
    /\ over' = (over \/ (row.attempt = a /\ a \notin cancelled))
    /\ UNCHANGED <<setup, row, deliverable, files, procVars, late, left>>

Step(a) ==
    \/ Reset(a) \/ CheckBudget(a) \/ Think(a) \/ Chat(a) \/ RecordUsage(a)
    \/ BeginCall(a) \/ CallTool(a) \/ EndCall(a) \/ HitLimit(a)
    \/ ReadPrimary(a) \/ WriteHeader(a) \/ Commit(a) \/ Fail(a)

(***************************************************************************)
(* What happens to a runner.                                               *)
(***************************************************************************)
\* The reviewer decides; a rejection sends the stage back to work.
Decide ==
    /\ row.status = "review" /\ ~over
    /\ \E status \in {"approved", "working"} : row' = [row EXCEPT !.status = status]
    /\ UNCHANGED <<setup, over, deliverable, files, run, procVars, late, left>>

\* A user cancels the task: the process that serves the request cancels its
\* runners, the other one does not hear of it.
CancelTask ==
    /\ ~over /\ row.status # "approved" /\ Spend("requests")
    /\ over' = TRUE
    /\ \E served \in {Attempts \ stray} \cup (IF split THEN {stray} ELSE {}) :
        cancelled' = cancelled \cup {a \in served : Active(a)}
    /\ UNCHANGED <<setup, row, deliverable, files, run, split, stray, late>>

\* PostgreSQL drops the session and with it the instance lock: a successor starts.
LoseSession ==
    /\ ~split /\ Spend("losses")
    /\ split' = TRUE
    /\ stray' = {a \in Attempts : Active(a)}
    /\ UNCHANGED <<setup, rowVars, files, run, cancelled, late>>

\* The process of an attempt stops, as a stray one is bound to do sooner or later.
Stops(a) ==
    /\ Active(a)
    /\ split' = (split /\ a \notin stray)
    /\ IF a \in stray THEN UNCHANGED left ELSE Spend("losses")

\* It stops in good order: engine.Close cancels the contexts ...
StopProcess(a) ==
    /\ a \notin cancelled /\ Stops(a)
    /\ cancelled' = cancelled \cup {a}
    /\ UNCHANGED <<setup, rowVars, files, run, stray, late>>

\* ... or it is killed.
Crash(a) ==
    /\ Stops(a)
    /\ Goto(a, Ended(run[a]))
    /\ UNCHANGED <<setup, rowVars, files, stray, cancelled, late>>

\* The stage is decided, or the bounds leave it without another attempt.
Rest ==
    /\ \A a \in Attempts : ~Active(a)
    /\ over \/ row.status = "approved" \/ row.attempt = MaxAttempts
    /\ UNCHANGED vars

Next ==
    \/ \E a \in Attempts : Claim(a) \/ Step(a) \/ StopProcess(a) \/ Crash(a)
    \/ Decide \/ CancelTask \/ LoseSession \/ Rest

\* A goroutine that can run does run, and a request to a provider is answered:
\* the libraries limit its time and its retries.
Spec == Init /\ [][Next]_vars
FairSpec == Spec /\ \A a \in Attempts : WF_vars(Step(a))

(***************************************************************************)
(* Properties.                                                             *)
(***************************************************************************)
\* The types of the variables.
TypeOK ==
    /\ setup \in Setups
    /\ row \in [attempt : 0..MaxAttempts, status : {"working", "review", "approved"}]
    /\ over \in BOOLEAN
    /\ deliverable \in [by : 0..MaxAttempts, ref : Files \cup {NoFile}, content : Content]
    /\ files \in [Files -> Content]
    /\ \A a \in Attempts :
        /\ run[a].i \in Nat /\ Len(run[a].turn) <= setup.calls
        /\ run[a].primary \in Files \cup {NoFile} /\ run[a].content \in Content
    /\ split \in BOOLEAN /\ stray \subseteq Attempts /\ cancelled \subseteq Attempts
    /\ late \in [Attempts -> Nat] /\ left \in Limits

\* An attempt that lost its claim changes files at most once more: every Reset,
\* tool call and header stands between two events that ask for the claim
\* (progress), whatever process the attempt runs in.
OneLateChange == \A a \in Attempts : late[a] <= 1

\* What the reviewer sees is what lies in the working tree and will be accepted,
\* unless an attempt that had lost its claim changed a file (commit, header).
SubmittedIntact ==
    deliverable.ref # NoFile /\ row.status # "working" =>
        \/ Read(deliverable.ref) = deliverable.content
        \/ \E a \in Attempts : a < deliverable.by /\ late[a] > 0

\* What the OpenAI interface demands of a request: the calls of a message are
\* answered one by one directly after it, and nothing else is an answer.
OpenAIAccepts(messages) ==
    \A k \in DOMAIN messages :
        /\ k + Len(messages[k].calls) <= Len(messages)
        /\ \A j \in DOMAIN messages[k].calls :
            messages[k + j] = ToolMessage(messages[k].calls[j])
        /\ messages[k].role = "tool" =>
            \E b \in 1..(k - 1) : k - b \in DOMAIN messages[b].calls

\* What the Anthropic interface demands: user and assistant take turns, and the
\* message after an assistant's holds the answers to all of its calls.
AnthropicAccepts(sent) ==
    /\ \A k \in DOMAIN sent : sent[k].role = IF k % 2 = 1 THEN "user" ELSE "assistant"
    /\ \A k \in DOMAIN sent : sent[k].results = IF k = 1 THEN <<>> ELSE sent[k - 1].uses
    /\ Last(sent).role = "user"

\* Every request of every conversation is one that its provider accepts: denied,
\* failed and mistyped calls are answered as well, each once and in order
\* (AgentRunner.Run, anthropic.Chat, openai.Chat).
TranscriptSound ==
    \A a \in Attempts : At(a, "chat") =>
        IF setup.provider = "openai" THEN OpenAIAccepts(run[a].messages)
        ELSE AnthropicAccepts(AnthropicMessages(run[a].messages))

\* What a conversation costs: at most Limit turns, and of its model calls at most the
\* last one has no usage event, also when events cannot be stored (Run: the usage is
\* stored before anything is done with the answer).
Accounted ==
    /\ TypeOK
    /\ \A a \in Attempts : run[a].i <= Limit /\ run[a].unpaid <= 1

\* Every runner returns, stray and cancelled ones too, whatever the model answers.
RunsEnd == \A a \in Attempts : Active(a) ~> ~Active(a)

\* A file that the agent may write is still whole when its attempt has handed it
\* in: docs/19 limits a read to 200 KB and a write to 2 MB, and asks only for a
\* header (AgentRunner.Run after the loop).
DeliverableWhole ==
    row.status # "working" /\ deliverable.ref # NoFile =>
        files[deliverable.ref].text # "cut"
=============================================================================
