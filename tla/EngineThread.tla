---------------------------- MODULE EngineThread ----------------------------
(***************************************************************************)
(* Engine::run (src/engine.rs) with the engine in it: the loop, the rings  *)
(* and the subscriber of EngineLoop, where process_command takes the steps *)
(* of Engine.  A step of the loop leaves the engine alone, and a step of   *)
(* the engine the rings.                                                   *)
(***************************************************************************)
EXTENDS Engine

CONSTANTS
  InputSize,    \* capacity of the command ring
  OutputSize    \* capacity of the event ring

ASSUME ThreadAssumption ==
  InputSize \in Nat \ {0} /\ OutputSize \in Nat \ {0}

VARIABLES
  busy,     \* a command was popped, and its process_command has not returned
  begun,    \* that process_command has cleared the buffer
  input, sent, output, view, stale    \* as in EngineLoop

ring == <<input, sent, output, view, stale>>

threadVars == <<vars, busy, begun, ring>>

\* A book delta says which level it is about and what is there; to a reader of
\* the depth all other events are alike.
AsDelta(event) ==
  IF event.kind = "BookDelta"
  THEN [cell |-> <<event.side, event.price>>,
        depth |-> [qty |-> event.new_qty, count |-> event.new_count]]
  ELSE [cell |-> <<>>]

\* The depth of the whole book.
DepthOf(m) == [c \in Sides \X Prices |-> DepthAt(m, c[1], c[2])]

\* The events of the command that was popped, which until it begins are none.
Emitted ==
  IF busy /\ ~begun THEN <<>>
  ELSE [k \in DOMAIN event_buffer |-> AsDelta(event_buffer[k])]

Loop == INSTANCE EngineLoop WITH
  Cells <- Sides \X Prices, NoCell <- <<>>,
  Depths <- [qty : Int, count : Int], NoDepth <- [qty |-> 0, count |-> 0],
  MaxEvents <- 2 * Capacity + 2,
  depth <- DepthOf(matcher), event_buffer <- Emitted

ThreadInit ==
  /\ Init
  /\ begun = FALSE
  /\ busy = FALSE
  /\ input = 0 /\ sent = 0 /\ output = <<>> /\ stale = {}
  /\ view = DepthOf(matcher)

-----------------------------------------------------------------------------

\* pop, and the call of process_command.
TakeCommand ==
  /\ UNCHANGED vars
  /\ begun' = FALSE
  /\ busy' = TRUE
  /\ Loop!PopCommand

BeginCommand ==
  /\ busy /\ ~begun
  /\ \E cmd \in Command : ProcessCommand(cmd)
  /\ begun' = TRUE
  /\ UNCHANGED <<busy, ring>>

ContinueCommand ==
  /\ busy /\ begun
  /\ pc = "cross" /\ Continue
  /\ UNCHANGED <<busy, begun, ring>>

\* process_command returns, and the loop over its events starts.
ReturnEvents ==
  /\ busy /\ begun
  /\ pc = "idle"
  /\ busy' = FALSE
  /\ UNCHANGED <<vars, begun, ring>>

PushEvent == UNCHANGED <<vars, busy, begun>> /\ Loop!PublishEvent

RunStep ==
  TakeCommand \/ BeginCommand \/ ContinueCommand \/ ReturnEvents \/ PushEvent

\* The other ends of the rings.
PushCommand == UNCHANGED <<vars, busy, begun>> /\ Loop!SendCommand

PopEvent == UNCHANGED <<vars, busy, begun>> /\ Loop!ReceiveEvent

ThreadNext == RunStep \/ PushCommand \/ PopEvent

\* As in EngineLoop, the thread is never blocked.
ThreadSpec ==
  ThreadInit /\ [][ThreadNext]_threadVars /\ WF_threadVars(RunStep)

-----------------------------------------------------------------------------

\* What EngineLoop says of a process_command that is any sequence of events, it
\* says of the engine's: after the deltas on their way a subscriber has the
\* depth of the engine's book, but where the latest delta was dropped.
SubscriberFollowsBook == Loop!ViewFollowsBook

\* A full command ring is always taken from, whatever the commands do.
CommandsTaken == input = InputSize ~> input < InputSize
=============================================================================
