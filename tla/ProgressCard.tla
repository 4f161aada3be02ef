----------------------------- MODULE ProgressCard -----------------------------
(***************************************************************************)
(* The live progress message of a sandbox run                              *)
(* (core/classes/sandbox_progress.py): the transcript of commands and      *)
(* their output, and the one Discord message that mirrors it.              *)
(*                                                                         *)
(* The tool calls of one response run concurrently, and each reports its   *)
(* start and its end through the hooks.  A hook that may update the        *)
(* message renders it and then waits for Discord, while other hooks go on. *)
(***************************************************************************)
EXTENDS Integers, Sequences, FiniteSets

CONSTANTS
    Execs,          \* calls of exec_command
    Polls,          \* calls of write_stdin
    MAX_FIELDS,     \* how many commands the embed shows
    MAX_DELETIONS   \* BOUND: how often somebody deletes the message

Calls == Execs \cup Polls
Card  == "card"          \* start() and finalize() update on the run's own behalf
Flushers == Calls \cup {Card}
NoCall == "none"         \* a block that belongs to no call: made for input that no
                         \* command precedes, or for a call without an id

ASSUME CardAssumption ==
    /\ Execs \cap Polls = {} /\ {Card, NoCall} \cap Calls = {}
    /\ MAX_FIELDS \in Nat \ {0}
    /\ MAX_DELETIONS \in Nat

VARIABLES
    blocks,       \* the transcript: commands, oldest first
    call_blocks,  \* the block an exec_command made, 0 once it has reported
    thinking,     \* "model thinking" is on
    footer,       \* the hint that a reply steers the run
    dirty,        \* _dirty: something is not shown yet
    card_finalized, \* _finalized
    message,      \* _message: which of the messages below is edited, or 0
    messages,     \* what the messages sent so far show, or Gone
    flushing,     \* the updates Discord has not answered yet
    settled       \* the last update of the run was made

cardVars == <<blocks, call_blocks, thinking, footer, dirty, card_finalized,
              message, messages, flushing, settled>>

NoFlush == [on |-> FALSE]
IsFlushing(f) == flushing[f].on

CardTypeOK ==
    /\ blocks \in Seq([call : Execs \cup {NoCall}, outputs : SUBSET Calls, held : BOOLEAN])
    /\ call_blocks \in [Execs -> 0..Len(blocks)]
    /\ {thinking, footer, dirty, card_finalized, settled} \subseteq BOOLEAN
    /\ message \in 0..Len(messages)
    /\ DOMAIN flushing = Flushers

CardInit ==
    /\ blocks = << >> /\ call_blocks = [c \in Execs |-> 0]
    /\ thinking = FALSE /\ footer = FALSE /\ dirty = FALSE /\ card_finalized = FALSE
    /\ message = 0 /\ messages = << >>
    /\ flushing = [f \in Flushers |-> NoFlush]
    /\ settled = FALSE

--------------------------------------------------------------------------------
(* Rendering and sending. *)

(* The newest commands that fit, whole, and the state of the run. *)
Newest(s) == SubSeq(s, IF Len(s) > MAX_FIELDS THEN Len(s) - MAX_FIELDS + 1 ELSE 1, Len(s))
Rendered == [fields |-> Newest(blocks), thinking |-> thinking, footer |-> footer]

(* _flush, up to the await: what the transcript shows after this step goes  *)
(* to the message known now, or to a new one.  What it is matters for the   *)
(* last update only.                                                        *)
Passing == "a view of the run in progress"
Flush(f) == flushing' = [flushing EXCEPT ![f] =
                [on |-> TRUE, to |-> message,
                 view |-> IF card_finalized' THEN Rendered' ELSE Passing]]

(* _maybe_flush.  Whether the last update is long enough ago, or a failed   *)
(* one, is a matter of the clock.                                           *)
MaybeFlush(f) ==
    \/ UNCHANGED flushing
    \/ dirty' /\ ~card_finalized /\ Flush(f)

(* Discord answers an update, which then leaves nothing to do: what the     *)
(* transcript took in meanwhile counts as shown.                            *)
FlushLands(f) ==
    LET to == flushing[f].to IN
    /\ IsFlushing(f)
    /\ to # 0 => ~messages[to].gone
    /\ LET new == [view |-> flushing[f].view, gone |-> FALSE]
       IN  messages' = IF to = 0 THEN Append(messages, new) ELSE [messages EXCEPT ![to] = new]
    /\ message' = IF to = 0 THEN Len(messages) + 1 ELSE message
    /\ dirty' = FALSE
    /\ settled' = (f = Card /\ card_finalized)
    /\ flushing' = [flushing EXCEPT ![f] = NoFlush]
    /\ UNCHANGED <<blocks, call_blocks, thinking, footer, card_finalized>>

(* The message was deleted: the next update sends a new one. *)
FlushFindsNothing(f) ==
    /\ IsFlushing(f)
    /\ flushing[f].to # 0 /\ messages[flushing[f].to].gone
    /\ message' = 0
    /\ flushing' = [flushing EXCEPT ![f] = NoFlush]
    /\ UNCHANGED <<blocks, call_blocks, thinking, footer, dirty, card_finalized, messages, settled>>

(* Discord refuses it: nothing is shown, and the card backs off. *)
FlushFails(f) ==
    /\ IsFlushing(f)
    /\ flushing' = [flushing EXCEPT ![f] = NoFlush]
    /\ UNCHANGED <<blocks, call_blocks, thinking, footer, dirty, card_finalized,
                   message, messages, settled>>

(* The run is cancelled while a hook waits for Discord: the update may have *)
(* been made, but the card does not learn of it.                            *)
FlushIsCancelled(f) ==
    LET to == flushing[f].to
        new == [view |-> flushing[f].view, gone |-> FALSE]
    IN
    /\ IsFlushing(f)
    /\ \/ UNCHANGED messages
       \/ to = 0 /\ messages' = Append(messages, new)
       \/ to # 0 /\ ~messages[to].gone /\ messages' = [messages EXCEPT ![to] = new]
    /\ flushing' = [flushing EXCEPT ![f] = NoFlush]
    /\ UNCHANGED <<blocks, call_blocks, thinking, footer, dirty, card_finalized, message, settled>>

(* Somebody deletes the message. *)
DeletesTheMessage ==
    /\ message # 0 /\ ~messages[message].gone
    /\ Cardinality({i \in DOMAIN messages : messages[i].gone}) < MAX_DELETIONS
    /\ messages' = [messages EXCEPT ![message].gone = TRUE]
    /\ UNCHANGED <<blocks, call_blocks, thinking, footer, dirty, card_finalized,
                   message, flushing, settled>>

--------------------------------------------------------------------------------
(* The run starts and ends. *)

(* SandboxProgressHooks.__init__, start(); or a run without a live card,    *)
(* where the one of an earlier run is left to the channel.                  *)
CardStarts(is_live) ==
    /\ blocks' = << >> /\ call_blocks' = [c \in Execs |-> 0]
    /\ thinking' = FALSE /\ footer' = is_live /\ dirty' = FALSE /\ card_finalized' = FALSE
    /\ message' = 0 /\ messages' = << >>
    /\ flushing' = [f \in Flushers |-> IF f = Card /\ is_live
                       THEN [on |-> TRUE, to |-> 0, view |-> Passing] ELSE NoFlush]
    /\ settled' = FALSE

(* Mutant: finalize() leaves the model thinking. *)
StillThinking == thinking
(* finalize(): the indicator stops with the run ... *)
LastThought == FALSE

(* ... and the reply hint goes. *)
CardEnds ==
    /\ ~card_finalized /\ card_finalized' = TRUE
    /\ thinking' = LastThought /\ footer' = FALSE
    /\ UNCHANGED <<blocks, call_blocks, dirty, message, messages, settled>>
    /\ Flush(Card)

--------------------------------------------------------------------------------
(* The hooks.  dirty is what _note() sets. *)

LlmStarts ==
    /\ thinking' = TRUE /\ dirty' = TRUE
    /\ UNCHANGED <<blocks, call_blocks, footer, card_finalized, message, messages, flushing, settled>>

LlmEnds ==
    /\ thinking' = FALSE /\ dirty' = TRUE
    /\ UNCHANGED <<blocks, call_blocks, footer, card_finalized, message, messages, flushing, settled>>

Block(c) == [call |-> c, outputs |-> {}, held |-> FALSE]
WithABlock == IF blocks = << >> THEN <<Block(NoCall)>> ELSE blocks

(* on_tool_start: a command gets a block of its own, which nobody finds     *)
(* again if the call came without an id; input goes to the latest block.    *)
(* A call whose arguments hold no command, or no input, is not noted.       *)
ToolStarts(c) ==
    /\ \/ /\ c \in Execs /\ dirty' = TRUE
          /\ blocks' = Append(blocks, Block(c))
          /\ call_blocks' = [call_blocks EXCEPT ![c] = Len(blocks) + 1]
       \/ /\ c \in Execs /\ dirty' = TRUE
          /\ blocks' = Append(blocks, Block(NoCall))
          /\ UNCHANGED call_blocks
       \/ /\ c \in Polls /\ dirty' = TRUE
          /\ blocks' = WithABlock
          /\ UNCHANGED call_blocks
       \/ UNCHANGED <<blocks, call_blocks, dirty>>
    /\ UNCHANGED <<thinking, footer, card_finalized, message, messages, settled>>
    /\ MaybeFlush(c)

(* Mutant: every result goes to the latest block. *)
LatestBlock(c) == Len(WithABlock)
(* The block a result belongs to: the command's own, if it has one. *)
BlockOf(c) ==
    IF c \in Execs /\ call_blocks[c] # 0 THEN call_blocks[c] ELSE Len(WithABlock)

HasReported(c) == call_blocks' = [x \in Execs |-> IF x = c THEN 0 ELSE call_blocks[x]]

(* add_output: output, an exit code or a process that goes on. *)
WithOutput(b, c) == [b EXCEPT !.outputs = @ \cup {c}, !.held = FALSE]

(* mark_held: a block with output or an exit evidently ran. *)
Held(b) == [b EXCEPT !.held = IF b.outputs = {} THEN TRUE ELSE b.held]

(* on_tool_end.  A command whose result is empty adds nothing.              *)
ToolEnds(c) ==
    /\ \/ blocks' = [WithABlock EXCEPT ![BlockOf(c)] = WithOutput(@, c)]
       \/ c \in Execs /\ UNCHANGED blocks
    /\ HasReported(c)
    /\ dirty' = TRUE
    /\ UNCHANGED <<thinking, footer, card_finalized, message, messages, settled>>
    /\ MaybeFlush(c)

(* A command the conversation gate refused. *)
ToolIsRefused(c) ==
    /\ c \in Execs
    /\ blocks' = [WithABlock EXCEPT ![BlockOf(c)] = Held(@)]
    /\ HasReported(c)
    /\ dirty' = TRUE
    /\ UNCHANGED <<thinking, footer, card_finalized, message, messages, settled>>
    /\ MaybeFlush(c)

(* A poll that brings neither output nor an exit is left out. *)
ToolSaysNothing(c) == c \in Polls /\ UNCHANGED cardVars

--------------------------------------------------------------------------------
(* Properties *)

HasABlock(c) == \E j \in DOMAIN blocks : blocks[j].call = c

(* What a command prints is shown under it, whatever else its response     *)
(* started at the same time (SandboxProgressHooks._call_blocks).  A call   *)
(* without a block of its own has no such place.                           *)
OutputUnderItsCommand ==
    \A i \in DOMAIN blocks : \A c \in blocks[i].outputs \cap Execs :
        blocks[i].call = c \/ ~HasABlock(c)

(* The output of a call is never shown under the command of another.  Not  *)
(* so: what a call without a parsed command prints goes to the latest      *)
(* block, whoever that belongs to (SandboxTranscript._current_block).      *)
NothingUnderAnother ==
    \A i \in DOMAIN blocks :
        blocks[i].call # NoCall => blocks[i].outputs \cap Execs \subseteq {blocks[i].call}

(* "give the live message its final state": once the last update was made, *)
(* the message shows every command as it ended, no model thinking and no   *)
(* hint that a reply still steers the run.                                 *)
CardSettles ==
    settled => /\ message # 0
               /\ LET last == messages[message].view
                  IN  last = [fields |-> Newest(blocks), thinking |-> FALSE, footer |-> FALSE]
===============================================================================
