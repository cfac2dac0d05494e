----------------------------- MODULE ToolCards ------------------------------
(***************************************************************************)
(* The cards of tool calls in the client: commands with their terminals,   *)
(* MCP calls, web searches, images, sub-agents and edits                   *)
(* (thread/features/tool_events, collab, file; thread/core/                *)
(* terminal_updates.rs).  The output of a command is counted in chunks;    *)
(* output[c] is the chunks a card shows, in order.                         *)
(***************************************************************************)
EXTENDS Naturals, Sequences

CONSTANTS
  Calls,       \* tool calls, the items of the server
  Terminal,    \* client.supports_terminal_output()
  HeadLines,   \* OUTPUT_HEAD_LINES and
  TailLines    \* OUTPUT_TAIL_LINES: what a plain card keeps of a long output

ASSUME CardsAssumption == Terminal \in BOOLEAN /\ HeadLines \in Nat /\ TailLines \in Nat

VARIABLES
  started,     \* started_tool_calls
  terminals,   \* terminal_tool_call_ids
  outputSeen,  \* terminal_tool_call_output_seen
  card,        \* the status of the card of each call in the client, or "none"
  output,      \* the chunks of output a command's card or its terminal holds
  covered,     \* calls whose card shows the text of a request in place of its content
  plannedEdit  \* file_change_started_changes, _locations, _before_contents:
               \* the file each open edit changes, NoFile for none

cardVars == <<started, terminals, outputSeen, card, output, covered, plannedEdit>>

NoFile == "none"

(* Commands of each kind the adapter tells apart: what the server says they *)
(* do, the operation it finds in their words itself (kind.rs), and whether  *)
(* they check the work.                                                    *)
Command(actions, operation, verifies) ==
  [actions |-> actions, operation |-> operation, verifies |-> verifies]

Commands ==
  [native |-> Command({}, "none", FALSE), check  |-> Command({"unknown"}, "none", TRUE),
   search |-> Command({"search"}, "none", FALSE), delete |-> Command({}, "delete", FALSE)]

CommandKinds == DOMAIN Commands
Kinds == CommandKinds \cup {"mcp", "web", "imageView", "imageGeneration", "collab", "edit"}
Statuses == {"inProgress", "completed", "failed"}

CardsInit ==
  /\ started = {} /\ terminals = {} /\ outputSeen = {} /\ covered = {}
  /\ card = [c \in Calls |-> "none"]
  /\ output = [c \in Calls |-> << >>]
  /\ plannedEdit = [c \in Calls |-> NoFile]

Mut_KeepsCalls ==
  /\ terminals' = {} /\ outputSeen' = {}
  /\ plannedEdit' = [c \in Calls |-> NoFile]
  /\ UNCHANGED <<started, card, output, covered>>
\* reset_turn_transient_state
CardsForgotten ==
  /\ started' = {} /\ terminals' = {} /\ outputSeen' = {}
  /\ plannedEdit' = [c \in Calls |-> NoFile]
  /\ UNCHANGED <<card, output, covered>>

Card(c, status) == card' = [card EXCEPT ![c] = status]
AllChunks(n) == [k \in 1 .. n |-> k]

\* map_command_status, map_patch_status, map_mcp_status, map_collab_status: an
\* item that ends as it began, in progress, has failed.
Settled(status) == IF status = "completed" THEN "completed" ELSE "failed"

\* A call begins, and its card appears.
Begin(c) == started' = started \cup {c} /\ Card(c, "inProgress")

\* A call ends, and its card is updated.
End(c, status) == started' = started \ {c} /\ Card(c, Settled(status))

-----------------------------------------------------------------------------
(* Commands.                                                               *)

\* command_uses_native_terminal, and a client that has terminals.
UsesTerminal(kind) ==
  Terminal /\ Commands[kind].actions \subseteq {"unknown"} /\ Commands[kind].operation = "none"

\* command_output_section, output_preview
Preview(n) ==
  IF n <= HeadLines + TailLines THEN AllChunks(n)
  ELSE AllChunks(HeadLines) \o [k \in 1 .. TailLines |-> n - TailLines + k]

\* emit_command_execution_started
CommandStarted(c, kind) ==
  /\ Begin(c)
  /\ terminals' = IF UsesTerminal(kind) THEN terminals \cup {c} ELSE terminals
  /\ covered' = covered \ {c}
  /\ UNCHANGED <<outputSeen, output, plannedEdit>>

(* command_tool_completed_content and, of a terminal, terminal_completion_   *)
(* meta: the output of a terminal is sent if none of it was streamed, and   *)
(* its card is left as it is; another card is given all of it, in place of  *)
(* what it shows.                                                          *)
CompletedOutput(c, chunks) ==
  IF c \notin terminals THEN Preview(chunks)
  ELSE IF c \in outputSeen THEN output[c] ELSE output[c] \o AllChunks(chunks)

Mut_AppendAggregate(c, status, chunks) ==
  /\ End(c, status)
  /\ terminals' = terminals \ {c} /\ outputSeen' = outputSeen \ {c}
  /\ output' = [output EXCEPT ![c] = IF c \in terminals THEN @ \o AllChunks(chunks) ELSE Preview(chunks)]
  /\ UNCHANGED <<covered, plannedEdit>>
\* emit_command_execution_completed
CommandCompleted(c, status, chunks) ==
  /\ End(c, status)
  /\ terminals' = terminals \ {c} /\ outputSeen' = outputSeen \ {c}
  /\ output' = [output EXCEPT ![c] = CompletedOutput(c, chunks)]
  /\ covered' = covered \ ({c} \ terminals)
  /\ UNCHANGED plannedEdit

(* handle_command_output_delta; chunk 0 is a delta with no text in it.      *)
OutputDelta(c, chunk) ==
  IF c \notin started THEN UNCHANGED cardVars
  ELSE /\ output' = [output EXCEPT ![c] = LET old == IF c \in terminals THEN @ ELSE << >>
                                          IN IF chunk = 0 THEN old ELSE Append(old, chunk)]
       /\ outputSeen' = IF c \in terminals /\ chunk # 0 THEN outputSeen \cup {c} ELSE outputSeen
       /\ covered' = covered \ ({c} \ terminals)
       /\ UNCHANGED <<started, terminals, card, plannedEdit>>

\* replay_command_execution: the card and its end at once.
CommandReplayed(c, kind, status, chunks) ==
  /\ Card(c, Settled(status))
  /\ output' = [output EXCEPT ![c] = IF UsesTerminal(kind) THEN AllChunks(chunks) ELSE Preview(chunks)]
  /\ covered' = covered \ {c}
  /\ UNCHANGED <<started, terminals, outputSeen, plannedEdit>>

-----------------------------------------------------------------------------
(* Other tools.                                                            *)
Other(step) == step /\ UNCHANGED <<terminals, outputSeen, output, covered, plannedEdit>>

McpToolCallStarted(c) == Other(Begin(c))
McpToolCallCompleted(c, status) == Other(End(c, status))
WebSearchStarted(c) == Other(Begin(c))
WebSearchCompleted(c) == Other(End(c, "completed"))
CollabStarted(c) == Other(Begin(c))
CollabCompleted(c, status) == Other(End(c, status))

\* image_generation_tool_status: what the server says, also when it is over.
ImageStatus(words) ==
  IF words \in {"generating", "incomplete"} THEN "inProgress"
  ELSE IF words = "failed" THEN "failed" ELSE "completed"

ImageGenerationStarted(c, words) ==
  Other(started' = started \cup {c} /\ Card(c, ImageStatus(words)))

\* An update of the card, or a new card if there is none.
ImageGenerationCompleted(c, words) ==
  Other(started' = started \ {c} /\ Card(c, ImageStatus(words)))

\* A card is drawn, or its status, and the call is not counted as started.
Drawn(c, status) == Other(Card(c, status) /\ UNCHANGED started)
McpReplayed(c, status) == Drawn(c, Settled(status))
\* A viewed image is a finished card at once; its end is not handled.
ImageViewStarted(c) == Drawn(c, "completed")

WebImageReplayed(c) == Drawn(c, "completed")
CollabReplayed(c, status) == Drawn(c, Settled(status))
ImageGenerationReplayed(c, words) == Drawn(c, ImageStatus(words))

-----------------------------------------------------------------------------
(* Edits.                                                                  *)

\* prepare_file_change_started_snapshot
EditStarted(c, file) ==
  /\ Begin(c)
  /\ plannedEdit' = [plannedEdit EXCEPT ![c] = file]
  /\ UNCHANGED <<terminals, outputSeen, output, covered>>

\* prepare_file_change_completed_snapshot
EditCompleted(c, status) ==
  /\ End(c, status)
  /\ plannedEdit' = [plannedEdit EXCEPT ![c] = NoFile]
  /\ UNCHANGED <<terminals, outputSeen, output, covered>>

EditReplayed(c, status) == Drawn(c, Settled(status))

-----------------------------------------------------------------------------
(* Cards of calls that wait for the user.                                  *)
CardPending(c) == Drawn(c, "pending")

(* prepare_command_approval: a card with its terminal, before the request   *)
(* (should_use_terminal_approval_preflight), or the text of the request in  *)
(* place of what the card shows (command_approval_fields).  A request is    *)
(* detailed if it has a network context or additional permissions, or does  *)
(* not have the command.                                                   *)
CommandPending(c, kind, detailed) ==
  /\ Card(c, "pending")
  /\ covered' = IF UsesTerminal(kind) /\ ~detailed THEN covered \ {c} ELSE covered \cup {c}
  /\ UNCHANGED <<started, terminals, outputSeen, output, plannedEdit>>

\* handle_tool_request_user_input: drawn before the questions, finished after them.
QuestionAnswered(c) == Drawn(c, "completed")

CardsTypeOK ==
  /\ started \subseteq Calls
  /\ terminals \subseteq started /\ outputSeen \subseteq terminals
  /\ card \in [Calls -> Statuses \cup {"none", "pending"}]
  /\ \A c \in Calls : output[c] \in Seq(Nat)
  /\ covered \subseteq Calls
=============================================================================
