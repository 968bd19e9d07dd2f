-------------------------------- MODULE Tui --------------------------------
(***************************************************************************)
(* The TUI demo (src/bin/tui.rs).  An engine thread places synthetic limit *)
(* orders in batches; after each batch it stores the number of resting     *)
(* orders in an atomic, after every PUBLISH batches it publishes bids and  *)
(* asks under the write lock, and it starts over with a new engine when    *)
(* the arena is nine tenths full.  The drawing thread takes the read lock  *)
(* for a frame, and loads the atomic with relaxed ordering.                *)
(*                                                                         *)
(* Of what the threads share only the moment it tells about is kept: its   *)
(* age, the number of batches completed since.  A price level, the random  *)
(* walk of the prices and the layout of the screen play no part.  Of the   *)
(* engine, whose orders all are limit orders with fresh ids, only the      *)
(* number of resting orders is kept.                                       *)
(***************************************************************************)
EXTENDS Integers

CONSTANTS
  Capacity,     \* of the engine's arena
  BATCH_SIZE,   \* orders in a batch
  PUBLISH       \* batches from one snapshot to the next

\* From more than this many orders the demo starts over with an empty book.
Threshold == (Capacity * 9) \div 10

ASSUME TuiAssumption ==
  /\ Capacity \in Nat /\ BATCH_SIZE \in Nat \ {0} /\ PUBLISH \in Nat \ {0}
  /\ Threshold + BATCH_SIZE <= Capacity

VARIABLES
  engine,    \* what the engine thread is about to do
  orders,    \* order_count of its engine
  placed,    \* orders placed in this batch
  loops,     \* loop_count, modulo PUBLISH
  lock,      \* book_snapshot's lock: "free", "read" or "write"
  bids,      \* age of the bids in the snapshot
  asks,      \* age of the asks in it
  used,      \* age of the latest value stored in arena_used
  synced,    \* age of the one stored last when the write lock was released
  ui,        \* what the drawing thread is about to do, "exited" at the end
  frame,     \* age of each part of the screen drawn so far
  seen       \* age of the value of arena_used loaded last

batch == <<engine, orders, placed, loops>>
shared == <<lock, bids, asks, used, synced>>
drawing == <<ui, frame, seen>>
vars == <<engine, orders, placed, loops, lock, bids, asks, used, synced,
          ui, frame, seen>>

\* Ages are told apart up to here, where they are past all that is promised.
TOO_OLD == PUBLISH + 1
Age == 0 .. TOO_OLD

Older(age) == IF age < TOO_OLD THEN age + 1 ELSE age

Younger(a, b) == IF a < b THEN a ELSE b

\* Snapshot and counters start as those of an empty book, which they tell.
Init ==
  /\ engine = "place" /\ orders = 0 /\ placed = 0 /\ loops = 0
  /\ lock = "free"
  /\ bids = 0 /\ asks = 0 /\ used = 0 /\ synced = 0
  /\ ui = "poll" /\ frame = <<>> /\ seen = 0

-----------------------------------------------------------------------------
(* The engine thread, until main returns.                                  *)

Running == ui # "exited"

\* Mutant of PlaceDemoOrder: one order too many in a batch.
PlaceOneMore ==
  /\ Running /\ engine = "place"
  /\ placed <= BATCH_SIZE
  /\ placed' = placed + 1
  /\ \E n \in 0 .. orders + 1 : n <= Capacity /\ orders' = n
  /\ UNCHANGED <<engine, loops, shared, drawing>>

\* A limit order fills any number of orders, and may come to rest itself.
PlaceDemoOrder ==
  /\ Running /\ engine = "place"
  /\ placed < BATCH_SIZE
  /\ placed' = placed + 1
  /\ \E n \in 0 .. orders + 1 : n <= Capacity /\ orders' = n
  /\ UNCHANGED <<engine, loops, shared, drawing>>

EndBatch ==
  /\ Running /\ engine = "place"
  /\ placed = BATCH_SIZE
  /\ loops' = (loops + 1) % PUBLISH
  /\ engine' = "store"
  /\ bids' = Older(bids) /\ asks' = Older(asks)
  /\ used' = Older(used) /\ synced' = Older(synced) /\ seen' = Older(seen)
  /\ frame' = [part \in DOMAIN frame |-> Older(frame[part])]
  /\ UNCHANGED <<orders, placed, lock, ui>>

\* Mutant of StoreUsed: the count stored was taken before the batch.
StoreUsedEarly ==
  /\ Running /\ engine = "store"
  /\ used' = 1
  /\ engine' = IF loops = 0 THEN "lock" ELSE "reset"
  /\ UNCHANGED <<orders, placed, loops, lock, bids, asks, synced, drawing>>

StoreUsed ==
  /\ Running /\ engine = "store"
  /\ used' = 0
  /\ engine' = IF loops = 0 THEN "lock" ELSE "reset"
  /\ UNCHANGED <<orders, placed, loops, lock, bids, asks, synced, drawing>>

\* Mutant of AcquireWrite: the snapshot has no lock.
AcquireAnyway ==
  /\ Running /\ engine = "lock"
  /\ lock' = "write"
  /\ engine' = "bids"
  /\ UNCHANGED <<orders, placed, loops, bids, asks, used, synced, drawing>>

AcquireWrite ==
  /\ Running /\ engine = "lock"
  /\ lock = "free"
  /\ lock' = "write"
  /\ engine' = "bids"
  /\ UNCHANGED <<orders, placed, loops, bids, asks, used, synced, drawing>>

PublishBids ==
  /\ Running /\ engine = "bids"
  /\ bids' = 0
  /\ engine' = "asks"
  /\ UNCHANGED <<orders, placed, loops, lock, asks, used, synced, drawing>>

\* The guard is dropped: a reader that follows sees every store before it.
PublishAsks ==
  /\ Running /\ engine = "asks"
  /\ asks' = 0
  /\ synced' = used
  /\ lock' = "free"
  /\ engine' = "reset"
  /\ UNCHANGED <<orders, placed, loops, bids, used, drawing>>

\* Mutant of Reset: "Reset if full" (tui.rs:174) to the letter.
ResetIfFull ==
  /\ Running /\ engine = "reset"
  /\ orders' = IF orders = Capacity THEN 0 ELSE orders
  /\ placed' = 0
  /\ engine' = "place"
  /\ UNCHANGED <<loops, shared, drawing>>

\* Mutant of Reset: the count of batches starts over with the engine.
ResetRestartsCount ==
  /\ Running /\ engine = "reset"
  /\ orders' = IF orders > Threshold THEN 0 ELSE orders
  /\ loops' = IF orders > Threshold THEN 0 ELSE loops
  /\ placed' = 0
  /\ engine' = "place"
  /\ UNCHANGED <<shared, drawing>>

Reset ==
  /\ Running /\ engine = "reset"
  /\ orders' = IF orders > Threshold THEN 0 ELSE orders
  /\ placed' = 0
  /\ engine' = "place"
  /\ UNCHANGED <<loops, shared, drawing>>

-----------------------------------------------------------------------------
(* The drawing thread.                                                     *)

\* poll has timed out or returned a key other than 'q'.
BeginFrame ==
  /\ ui = "poll"
  /\ ui' = "lock"
  /\ UNCHANGED <<batch, shared, frame, seen>>

\* Mutant of AcquireRead: try_read, and back to poll if it fails.
TryAcquireRead ==
  /\ ui = "lock"
  /\ lock' = IF lock = "free" THEN "read" ELSE lock
  /\ ui' = IF lock = "free" THEN "bids" ELSE "poll"
  /\ UNCHANGED <<batch, bids, asks, used, synced, frame, seen>>

AcquireRead ==
  /\ ui = "lock"
  /\ lock = "free"
  /\ lock' = "read"
  /\ ui' = "bids"
  /\ UNCHANGED <<batch, bids, asks, used, synced, frame, seen>>

Shown(part, age) ==
  [q \in DOMAIN frame \cup {part} |-> IF q = part THEN age ELSE frame[q]]

DrawBids ==
  /\ ui = "bids"
  /\ frame' = Shown("bids", bids)
  /\ ui' = "asks"
  /\ UNCHANGED <<batch, shared, seen>>

DrawAsks ==
  /\ ui = "asks"
  /\ frame' = Shown("asks", asks)
  /\ ui' = "used"
  /\ UNCHANGED <<batch, shared, seen>>

\* A relaxed load may return any value stored since the one it saw last and
\* since the one that the lock made visible.
DrawUsed ==
  /\ ui = "used"
  /\ \E age \in used .. Younger(synced, seen) :
       frame' = Shown("used", age) /\ seen' = age
  /\ ui' = "drawn"
  /\ UNCHANGED <<batch, shared>>

\* Mutant of EndFrame: the frame may be drawn again under the same guard.
RedrawFrame ==
  /\ ui = "drawn"
  /\ \/ lock' = "free" /\ frame' = <<>> /\ ui' = "poll"
     \/ ui' = "bids" /\ UNCHANGED <<lock, frame>>
  /\ UNCHANGED <<batch, bids, asks, used, synced, seen>>

\* The closure returns and drops the guard; then the terminal is written to.
EndFrame ==
  /\ ui = "drawn"
  /\ lock' = "free"
  /\ frame' = <<>>
  /\ ui' = "poll"
  /\ UNCHANGED <<batch, bids, asks, used, synced, seen>>

\* 'q', or an error of poll, read or draw: main returns, the process ends.
Exit ==
  /\ ui = "poll"
  /\ ui' = "exited"
  /\ UNCHANGED <<batch, shared, frame, seen>>

Exited == ~Running /\ UNCHANGED vars

EngineStep ==
  \/ PlaceDemoOrder \/ EndBatch \/ StoreUsed
  \/ PublishBids \/ PublishAsks \/ Reset

\* What the drawing thread does with the lock in hand.
DrawStep == DrawBids \/ DrawAsks \/ DrawUsed \/ EndFrame

Next ==
  \/ EngineStep \/ AcquireWrite
  \/ BeginFrame \/ AcquireRead \/ DrawStep \/ Exit
  \/ Exited

\* The engine thread computes without a pause, and so does the drawing thread
\* while it holds the lock; in poll and on the terminal it may spend any time,
\* or all.  Who waits for the lock is woken when the other drops it: it may
\* find it taken again, but not for ever.
Fairness ==
  /\ WF_vars(EngineStep) /\ SF_vars(AcquireWrite)
  /\ WF_vars(DrawStep) /\ SF_vars(AcquireRead)

Spec == Init /\ [][Next]_vars /\ Fairness

-----------------------------------------------------------------------------

\* Types; orders stay within the arena and a batch within its size.
TypeOK ==
  /\ engine \in {"place", "store", "lock", "bids", "asks", "reset"}
  /\ orders \in 0 .. Capacity
  /\ placed \in 0 .. BATCH_SIZE
  /\ loops \in 0 .. PUBLISH - 1
  /\ lock \in {"free", "read", "write"}
  /\ bids \in Age /\ asks \in Age /\ used \in Age /\ synced \in Age
  /\ ui \in {"poll", "lock", "bids", "asks", "used", "drawn", "exited"}
  /\ DOMAIN frame \subseteq {"bids", "asks", "used"}
  /\ frame \in [DOMAIN frame -> Age]
  /\ seen \in Age

\* No order of the demo is ever refused for lack of room (matching.rs:97):
\* the check after each batch leaves enough for the next.
NeverFull == engine = "place" /\ placed < BATCH_SIZE => orders < Capacity

\* The two halves of a frame are of one moment, although they are published
\* and read one by one.
FrameAtomic ==
  {"bids", "asks"} \subseteq DOMAIN frame => frame["bids"] = frame["asks"]

\* However long a frame takes, and whether or not the book shown has been
\* thrown away since (tui.rs:175), it is the last but PUBLISH batches old.
FrameFresh ==
  \A part \in DOMAIN frame : frame[part] <= PUBLISH

\* The arena usage of a frame is not older than its book, although it is
\* loaded without ordering: the lock orders it.
UsedNotOlder ==
  ui = "drawn" => frame["used"] <= frame["bids"]

\* The engine thread always gets on with its batches, whatever the terminal
\* does, until the program ends.
EngineRuns == <>[](ui = "exited") \/ []<>(engine = "place")

\* A frame that is waiting for the book is drawn.
FrameDrawn == ui = "lock" ~> ui = "drawn"
=============================================================================
