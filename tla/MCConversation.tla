---------------------------- MODULE MCConversation ----------------------------
(***************************************************************************)
(* Agents, tool calls and bounds for model checking Conversation.          *)
(***************************************************************************)
EXTENDS Conversation

\* The agent owns "doc", which HEAD has, and "env", which is protected all the
\* same; "code" belongs to another agent.
TreeFiles == {"doc", "code", "env"}

CallOf(tool, file, text, header, args) ==
    [tool |-> tool, file |-> file, text |-> text, header |-> header, args |-> args]

\* A write, a write that is denied, and a read whose arguments do not parse.
SomeCalls == {CallOf("write_file", "doc", "small", FALSE, "good"),
              CallOf("write_file", "code", "small", FALSE, "good"),
              CallOf("read_file", "code", "small", FALSE, "broken")}
\* A text that Write takes and Read cuts off.
LargeCalls == {CallOf("write_file", "doc", "large", FALSE, "good")}

Writer == [profile |-> "docs-writer", own |-> {"doc", "env"}, tests |-> FALSE, allowed |-> ToolNames]
Reader == [profile |-> "reader", own |-> {}, tests |-> FALSE, allowed |-> ToolNames]

Bound(faults, losses, requests) == [faults |-> faults, losses |-> losses, requests |-> requests]

SetupOf(mode, agent, provider, calls, bounds) ==
    [mode |-> mode, agent |-> agent, provider |-> provider, calls |-> calls, bounds |-> bounds]

\* Two processes and a user; a lost process in the middle of a turn of several
\* calls; everything that can fail; a plan.
SomeSetups == {SetupOf("execute", Writer, "anthropic", 1, Bound(0, 1, 1)),
               SetupOf("execute", Writer, "anthropic", 2, Bound(0, 0, 1)),
               SetupOf("execute", Writer, "openai", 2, Bound(2, 0, 1)),
               SetupOf("plan", Reader, "openai", 2, Bound(1, 1, 1))}
OneSetup == {SetupOf("execute", Writer, "anthropic", 1, Bound(0, 0, 0))}
=============================================================================
