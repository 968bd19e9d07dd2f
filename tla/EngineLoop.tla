----------------------------- MODULE EngineLoop -----------------------------
(***************************************************************************)
(* Engine::run (src/engine.rs): the engine thread between two bounded      *)
(* single-producer single-consumer rings.  A client pushes commands into   *)
(* the input ring; the engine pops one, processes it to its end, and       *)
(* pushes its events one by one into the output ring, dropping those that  *)
(* do not fit; a subscriber pops them and keeps a view of the book's depth *)
(* from the book deltas.  Client, engine and subscriber run concurrently.  *)
(*                                                                         *)
(* What process_command does is reduced to what its users rely on, and     *)
(* what DeltasExact and CommandCompletes of Engine say of it: it ends, and *)
(* every change of the depth at a price is in the event buffer as a delta, *)
(* in order, among other events.  EngineThread has the engine in its place *)
(* and implements this module.                                             *)
(***************************************************************************)
EXTENDS Integers, Sequences

CONSTANTS
  Cells,        \* the price levels, of both sides
  Depths,       \* the depths a level may have
  NoDepth,      \* the depth of a price without orders
  NoCell,       \* in place of the cell of an event that is about none
  MaxEvents,    \* a bound on the events of one command
  InputSize,    \* capacity of the command ring
  OutputSize    \* capacity of the event ring

ASSUME LoopAssumption ==
  /\ NoDepth \in Depths /\ NoCell \notin Cells
  /\ MaxEvents \in Nat
  /\ InputSize \in Nat \ {0} /\ OutputSize \in Nat \ {0}

VARIABLES
  input,          \* number of commands in the input ring
  busy,           \* process_command is running
  depth,          \* depth of the book
  event_buffer,   \* events of the command
  sent,           \* how many of them have been pushed, or dropped
  output,         \* events in the output ring
  view,           \* the subscriber's depth
  stale           \* cells whose latest delta found the output ring full

vars == <<input, busy, depth, event_buffer, sent, output, view, stale>>

\* Events: book deltas, and all the others.
Delta == [cell : Cells, depth : Depths]
Other == [cell |-> NoCell]

\* The cells a delta is about: one, or none if the event is not a delta.
About(event) == {event.cell} \cap Cells

\* What a reader who holds d for a cell makes of it with events: what the last
\* delta about the cell says, or d if there is none.
Follows(events, c, d) ==
  LET about == {k \in DOMAIN events : c \in About(events[k])}
  IN  IF about = {} THEN d
      ELSE events[CHOOSE k \in about : \A j \in about : j <= k].depth

Apply(d, events) == [c \in Cells |-> Follows(events, c, d[c])]

\* What process_command may emit between two of its steps.
Bursts == UNION {[1 .. n -> Delta \cup {Other}] : n \in 1 .. MaxEvents}

Init ==
  /\ input = 0
  /\ busy = FALSE
  /\ depth = [c \in Cells |-> NoDepth]
  /\ event_buffer = <<>> /\ sent = 0
  /\ output = <<>>
  /\ view = depth
  /\ stale = {}

-----------------------------------------------------------------------------

\* The client pushes a command when there is room.
SendCommand ==
  /\ input < InputSize
  /\ input' = input + 1
  /\ UNCHANGED <<busy, depth, event_buffer, sent, output, view, stale>>

Published == sent = Len(event_buffer)

\* Mutant of PopCommand: the next command does not wait for the events.
PopCommandEarly ==
  /\ ~busy
  /\ input > 0
  /\ input' = input - 1
  /\ busy' = TRUE
  /\ event_buffer' = <<>> /\ sent' = 0
  /\ UNCHANGED <<depth, output, view, stale>>

\* The engine pops a command; process_command clears the buffer.
PopCommand ==
  /\ ~busy /\ Published
  /\ input > 0
  /\ input' = input - 1
  /\ busy' = TRUE
  /\ event_buffer' = <<>> /\ sent' = 0
  /\ UNCHANGED <<depth, output, view, stale>>

EmitEvents(events) ==
  /\ busy
  /\ Len(event_buffer) + Len(events) <= MaxEvents
  /\ depth' = Apply(depth, events)
  /\ event_buffer' = event_buffer \o events
  /\ UNCHANGED <<input, busy, sent, output, view, stale>>

CommandDone ==
  /\ busy
  /\ busy' = FALSE
  /\ UNCHANGED <<input, depth, event_buffer, sent, output, view, stale>>

\* Mutant of PublishEvent: one event more than the ring holds.
PublishPastEnd ==
  LET event == event_buffer[sent + 1]
      fits == Len(output) <= OutputSize
  IN  /\ ~busy /\ ~Published
      /\ output' = IF fits THEN Append(output, event) ELSE output
      /\ stale' = IF fits THEN stale \ About(event) ELSE stale \cup About(event)
      /\ sent' = sent + 1
      /\ UNCHANGED <<input, busy, depth, event_buffer, view>>

\* Mutant of PublishEvent: the engine waits for room.
PublishWaits ==
  LET event == event_buffer[sent + 1]
  IN  /\ ~busy /\ ~Published
      /\ Len(output) < OutputSize
      /\ output' = Append(output, event)
      /\ stale' = stale \ About(event)
      /\ sent' = sent + 1
      /\ UNCHANGED <<input, busy, depth, event_buffer, view>>

\* Best effort: the next event goes into the ring, or nowhere.
PublishEvent ==
  LET event == event_buffer[sent + 1]
      fits == Len(output) < OutputSize
  IN  /\ ~busy /\ ~Published
      /\ output' = IF fits THEN Append(output, event) ELSE output
      /\ stale' = IF fits THEN stale \ About(event) ELSE stale \cup About(event)
      /\ sent' = sent + 1
      /\ UNCHANGED <<input, busy, depth, event_buffer, view>>

ReceiveEvent ==
  /\ output # <<>>
  /\ view' = Apply(view, <<Head(output)>>)
  /\ output' = Tail(output)
  /\ UNCHANGED <<input, busy, depth, event_buffer, sent, stale>>

EngineStep ==
  \/ PopCommand
  \/ \E events \in Bursts : EmitEvents(events)
  \/ CommandDone
  \/ PublishEvent

Next ==
  \/ SendCommand
  \/ EngineStep
  \/ ReceiveEvent

\* The engine thread busy-waits and is never blocked; client and subscriber
\* may be as slow as they like.
Spec == Init /\ [][Next]_vars /\ WF_vars(EngineStep)

-----------------------------------------------------------------------------

\* Types of the rings, of the cursor and of the view.
TypeOK ==
  /\ input \in 0 .. InputSize
  /\ busy \in BOOLEAN
  /\ depth \in [Cells -> Depths]
  /\ event_buffer \in Seq(Delta \cup {Other})
  /\ sent \in 0 .. Len(event_buffer)
  /\ output \in Seq(Delta \cup {Other}) /\ Len(output) <= OutputSize
  /\ view \in [Cells -> Depths]
  /\ stale \subseteq Cells

\* Events the subscriber has yet to see, were the rest of the buffer to fit.
Pending ==
  output \o SubSeq(event_buffer, sent + 1, Len(event_buffer))

\* The deltas on their way complete the subscriber's view to the exact depth
\* of the book, but for the prices whose latest delta was dropped: a lost
\* delta spoils its own price only, and only until the next delta there.
ViewFollowsBook ==
  \A c \in Cells \ stale : Follows(Pending, c, view[c]) = depth[c]

\* The engine always comes back for the next command: a subscriber that never
\* reads makes it lose events, and never makes it wait.
InputDrains == input = InputSize ~> input < InputSize
=============================================================================
