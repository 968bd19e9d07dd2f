----------------------------- MODULE TuiProofs -----------------------------
(***************************************************************************)
(* The safety properties of Tui, for every capacity, batch size and        *)
(* publishing interval.  The invariant gives every age outside of a frame  *)
(* its exact value, by what the engine thread is about to do.              *)
(***************************************************************************)
EXTENDS Tui, TLAPS

Writing == engine \in {"bids", "asks"}

Reading == ui \in {"bids", "asks", "used", "drawn"}

\* The lock is held by whoever is between its acquisition and its release.
LockHeld == (lock = "write" <=> Writing) /\ (lock = "read" <=> Reading)

\* Batches since the last publication was due.
Due == IF loops = 0 THEN PUBLISH ELSE loops

\* The age of the snapshot, and of what its lock made visible.
Ages ==
  /\ engine \in {"place", "reset"} => bids = loops /\ asks = loops /\ synced = loops
  /\ engine \in {"store", "lock"} => bids = Due /\ asks = Due /\ synced = Due
  /\ engine \in {"lock", "bids", "asks"} => loops = 0
  /\ engine = "bids" => bids = PUBLISH /\ asks = PUBLISH /\ synced = PUBLISH
  /\ engine = "asks" => bids = 0 /\ asks = PUBLISH /\ synced = PUBLISH
  /\ used = IF engine = "store" THEN 1 ELSE 0

\* What is drawn so far, and that it is what is in the snapshot still.
Drawn ==
  /\ ui \notin {"asks", "used", "drawn"} => DOMAIN frame = {}
  /\ ui = "asks" => DOMAIN frame = {"bids"}
  /\ ui = "used" => DOMAIN frame = {"bids", "asks"}
  /\ ui = "drawn" => DOMAIN frame = {"bids", "asks", "used"}
  /\ ui \in {"asks", "used", "drawn"} => frame["bids"] = bids
  /\ ui \in {"used", "drawn"} => frame["asks"] = asks
  /\ ui = "drawn" => frame["used"] <= bids

\* Each batch begins with room for all its orders.
Room == engine = "place" => orders <= Threshold + placed

IInv == TypeOK /\ LockHeld /\ Ages /\ Drawn /\ Room

-----------------------------------------------------------------------------

LEMMA ThresholdNat == Threshold \in Nat
  BY TuiAssumption DEF Threshold

\* Outside of the writer's critical section bids and asks are of one age.
LEMMA SnapshotAge ==
  ASSUME IInv, ~Writing
  PROVE  bids = asks /\ synced = bids /\ bids <= PUBLISH
  BY TuiAssumption DEF IInv, TypeOK, Ages, Due, Writing

LEMMA InitIInv == Init => IInv
  BY TuiAssumption, ThresholdNat
  DEF Init, IInv, TypeOK, LockHeld, Writing, Reading, Ages, Drawn, Room, Age, TOO_OLD

LEMMA ModNext ==
  ASSUME NEW n \in 0 .. PUBLISH - 1
  PROVE  (n + 1) % PUBLISH = IF n + 1 = PUBLISH THEN 0 ELSE n + 1
  BY TuiAssumption

LEMMA OlderAge ==
  /\ \A age \in Age : Older(age) \in Age
  /\ \A age \in 0 .. PUBLISH : Older(age) = age + 1
  BY TuiAssumption DEF Age, TOO_OLD, Older

LEMMA PlaceIInv == IInv /\ PlaceDemoOrder => IInv'
  <1> SUFFICES ASSUME IInv, PlaceDemoOrder PROVE IInv'
    OBVIOUS
  <1>1. /\ engine = "place" /\ placed < BATCH_SIZE /\ placed' = placed + 1
        /\ orders' \in 0 .. orders + 1 /\ orders' <= Capacity
        /\ UNCHANGED <<engine, loops, shared, drawing>>
    BY DEF PlaceDemoOrder
  <1>2. orders' \in 0 .. Capacity /\ placed' \in 0 .. BATCH_SIZE
    BY <1>1, TuiAssumption DEF IInv, TypeOK
  <1>3. orders' <= Threshold + placed'
    BY <1>1, <1>2, TuiAssumption, ThresholdNat DEF IInv, TypeOK, Room
  <1>4. TypeOK'
    BY <1>1, <1>2 DEF IInv, TypeOK, shared, drawing
  <1>5. LockHeld' /\ Ages' /\ Drawn'
    BY <1>1 DEF IInv, LockHeld, Writing, Reading, Ages, Due, Drawn, shared, drawing
  <1>6. Room'
    BY <1>3 DEF Room
  <1> QED BY <1>4, <1>5, <1>6 DEF IInv

LEMMA EndBatchIInv == IInv /\ EndBatch => IInv'
  <1> SUFFICES ASSUME IInv, EndBatch PROVE IInv'
    OBVIOUS
  <1>1. /\ Running /\ engine = "place" /\ placed = BATCH_SIZE /\ engine' = "store"
        /\ loops' = (loops + 1) % PUBLISH
        /\ bids' = Older(bids) /\ asks' = Older(asks) /\ used' = Older(used)
        /\ synced' = Older(synced) /\ seen' = Older(seen)
        /\ frame' = [part \in DOMAIN frame |-> Older(frame[part])]
        /\ orders' = orders /\ placed' = placed /\ lock' = lock /\ ui' = ui
    BY DEF EndBatch
  <1>2. /\ loops \in 0 .. PUBLISH - 1 /\ loops \in 0 .. PUBLISH /\ 0 \in 0 .. PUBLISH
        /\ PUBLISH \in Nat /\ loops + 1 \in 0 .. TOO_OLD
    BY TuiAssumption DEF IInv, TypeOK, TOO_OLD
  <1>3. loops' \in 0 .. PUBLISH - 1 /\ Due' = loops + 1
    BY <1>1, <1>2, ModNext DEF Due
  <1>4. bids = loops /\ asks = loops /\ synced = loops /\ used = 0
    BY <1>1 DEF IInv, Ages
  <1>5. /\ bids' = loops + 1 /\ asks' = loops + 1 /\ synced' = loops + 1 /\ used' = 1
        /\ seen' \in Age
    BY <1>1, <1>2, <1>4, OlderAge DEF IInv, TypeOK
  <1>6. /\ DOMAIN frame' = DOMAIN frame
        /\ \A part \in DOMAIN frame : frame'[part] = Older(frame[part])
        /\ frame' \in [DOMAIN frame' -> Age]
    <2>1. frame \in [DOMAIN frame -> Age]
      BY DEF IInv, TypeOK
    <2> QED BY <1>1, <2>1, OlderAge
  <1>7. TypeOK'
    <2>1. loops + 1 \in Age /\ 1 \in Age
      BY <1>2 DEF Age, TOO_OLD
    <2> QED BY <1>1, <1>3, <1>5, <1>6, <2>1 DEF IInv, TypeOK
  <1>8. LockHeld'
    BY <1>1 DEF IInv, LockHeld, Writing, Reading
  <1>9. Ages'
    BY <1>1, <1>3, <1>5 DEF Ages
  <1>10. Drawn'
    <2>1. ui \in {"asks", "used", "drawn"} => frame'["bids"] = bids'
      BY <1>1, <1>6 DEF IInv, Drawn
    <2>2. ui \in {"used", "drawn"} => frame'["asks"] = asks'
      BY <1>1, <1>6 DEF IInv, Drawn
    <2>3. ASSUME ui = "drawn" PROVE frame'["used"] <= bids'
      <3>1. frame["used"] \in Age /\ frame["used"] <= loops
            /\ frame'["used"] = Older(frame["used"])
        BY <1>4, <1>6, <2>3 DEF IInv, Drawn, TypeOK
      <3>2. frame["used"] \in 0 .. PUBLISH
        BY <1>2, <3>1 DEF Age, TOO_OLD
      <3> QED BY <1>2, <1>5, <3>1, <3>2, OlderAge
    <2> QED BY <1>1, <1>6, <2>1, <2>2, <2>3 DEF IInv, Drawn
  <1>11. Room'
    BY <1>1 DEF Room
  <1> QED BY <1>7, <1>8, <1>9, <1>10, <1>11 DEF IInv

LEMMA EngineIInv == IInv /\ (EngineStep \/ AcquireWrite) => IInv'
  <1> SUFFICES ASSUME IInv, EngineStep \/ AcquireWrite PROVE IInv'
    OBVIOUS
  <1> USE TuiAssumption, ThresholdNat
          DEF IInv, TypeOK, LockHeld, Writing, Reading, Ages, Due, Drawn, Room,
              Age, TOO_OLD, batch, shared, drawing
  <1>1. CASE PlaceDemoOrder
    BY <1>1, PlaceIInv
  <1>2. CASE EndBatch
    BY <1>2, EndBatchIInv
  <1>3. CASE StoreUsed
    BY <1>3 DEF StoreUsed
  <1>4. CASE AcquireWrite
    BY <1>4 DEF AcquireWrite
  <1>5. CASE PublishBids
    BY <1>5 DEF PublishBids
  <1>6. CASE PublishAsks
    BY <1>6 DEF PublishAsks
  <1>7. CASE Reset
    BY <1>7 DEF Reset
  <1> QED BY <1>1, <1>2, <1>3, <1>4, <1>5, <1>6, <1>7 DEF EngineStep

\* What a step that draws a part adds to the frame, and what it keeps.
LEMMA FrameGrows ==
  ASSUME NEW part, NEW age \in Age, frame' = Shown(part, age),
         part \notin DOMAIN frame, frame \in [DOMAIN frame -> Age]
  PROVE  /\ DOMAIN frame' = DOMAIN frame \cup {part}
         /\ frame'[part] = age
         /\ \A q \in DOMAIN frame : frame'[q] = frame[q]
         /\ frame' \in [DOMAIN frame' -> Age]
  BY DEF Shown

LEMMA DrawBidsIInv == IInv /\ DrawBids => IInv'
  <1> SUFFICES ASSUME IInv, DrawBids PROVE IInv'
    OBVIOUS
  <1>1. DOMAIN frame = {} /\ frame \in [DOMAIN frame -> Age] /\ bids \in Age
    BY DEF IInv, TypeOK, Drawn, DrawBids
  <1>2. frame' = Shown("bids", bids)
    BY DEF DrawBids
  <1>3. DOMAIN frame' = {"bids"} /\ frame'["bids"] = bids
        /\ frame' \in [DOMAIN frame' -> Age]
    BY <1>1, <1>2, FrameGrows
  <1> QED BY <1>3 DEF IInv, TypeOK, LockHeld, Writing, Reading, Ages, Due, Drawn,
                      Room, DrawBids, batch, shared

LEMMA DrawAsksIInv == IInv /\ DrawAsks => IInv'
  <1> SUFFICES ASSUME IInv, DrawAsks PROVE IInv'
    OBVIOUS
  <1>1. DOMAIN frame = {"bids"} /\ frame \in [DOMAIN frame -> Age] /\ asks \in Age
    BY DEF IInv, TypeOK, Drawn, DrawAsks
  <1>2. frame' = Shown("asks", asks) /\ "asks" \notin DOMAIN frame
    BY <1>1 DEF DrawAsks
  <1>3. DOMAIN frame' = {"bids", "asks"} /\ frame'["asks"] = asks
        /\ frame'["bids"] = frame["bids"] /\ frame' \in [DOMAIN frame' -> Age]
    BY <1>1, <1>2, FrameGrows
  <1> QED BY <1>3 DEF IInv, TypeOK, LockHeld, Writing, Reading, Ages, Due, Drawn,
                      Room, DrawAsks, batch, shared

LEMMA DrawUsedIInv == IInv /\ DrawUsed => IInv'
  <1> SUFFICES ASSUME IInv, DrawUsed PROVE IInv'
    OBVIOUS
  <1>1. DOMAIN frame = {"bids", "asks"} /\ frame \in [DOMAIN frame -> Age]
    BY DEF IInv, TypeOK, Drawn, DrawUsed
  <1>2. PICK age \in used .. Younger(synced, seen) :
          frame' = Shown("used", age) /\ seen' = age
    BY DEF DrawUsed
  <1>3. synced = bids
    BY SnapshotAge DEF IInv, LockHeld, Reading, DrawUsed
  <1>4. age \in Age /\ age <= bids
    BY <1>2, <1>3, TuiAssumption DEF IInv, TypeOK, Younger, Age, TOO_OLD
  <1>5. "used" \notin DOMAIN frame
    BY <1>1
  <1>6. DOMAIN frame' = {"bids", "asks", "used"} /\ frame'["used"] = age
        /\ frame'["bids"] = frame["bids"] /\ frame'["asks"] = frame["asks"]
        /\ frame' \in [DOMAIN frame' -> Age]
    BY <1>1, <1>2, <1>4, <1>5, FrameGrows
  <1> QED BY <1>2, <1>4, <1>6
          DEF IInv, TypeOK, LockHeld, Writing, Reading, Ages, Due, Drawn, Room,
              DrawUsed, batch, shared

LEMMA DrawIInv == IInv /\ (BeginFrame \/ AcquireRead \/ DrawStep \/ Exit) => IInv'
  <1> SUFFICES ASSUME IInv, BeginFrame \/ AcquireRead \/ DrawStep \/ Exit PROVE IInv'
    OBVIOUS
  <1> USE TuiAssumption
          DEF IInv, TypeOK, LockHeld, Writing, Reading, Ages, Due, Drawn, Room,
              batch, shared, drawing
  <1>1. CASE BeginFrame
    BY <1>1 DEF BeginFrame
  <1>2. CASE AcquireRead
    BY <1>2 DEF AcquireRead
  <1>3. CASE EndFrame
    BY <1>3 DEF EndFrame
  <1>4. CASE Exit
    BY <1>4 DEF Exit
  <1> QED BY <1>1, <1>2, <1>3, <1>4, DrawBidsIInv, DrawAsksIInv, DrawUsedIInv
          DEF DrawStep

LEMMA NextIInv == IInv /\ [Next]_vars => IInv'
  <1>1. IInv /\ UNCHANGED vars => IInv'
    BY DEF IInv, TypeOK, LockHeld, Writing, Reading, Ages, Due, Drawn, Room, vars
  <1> QED BY <1>1, EngineIInv, DrawIInv DEF Next, Exited

LEMMA SpecIInv == Spec => []IInv
  BY InitIInv, NextIInv, PTL DEF Spec

-----------------------------------------------------------------------------

\* Types of the demo's state, for every capacity that leaves room for a batch.
THEOREM TuiTypes == Spec => []TypeOK
  <1>1. IInv => TypeOK
    BY DEF IInv
  <1> QED BY <1>1, SpecIInv, PTL

\* The arena of the demo never fills up.
THEOREM TuiNeverFull == Spec => []NeverFull
  <1>1. IInv => NeverFull
    BY TuiAssumption, ThresholdNat DEF IInv, TypeOK, Room, NeverFull
  <1> QED BY <1>1, SpecIInv, PTL

\* Bids and asks of a frame are of one moment: a frame holds the read lock,
\* and outside of the write lock both halves of the snapshot are of one age.
THEOREM TuiFrameAtomic == Spec => []FrameAtomic
  <1>1. IInv => FrameAtomic
    BY SnapshotAge DEF IInv, LockHeld, Reading, Drawn, FrameAtomic
  <1> QED BY <1>1, SpecIInv, PTL

\* A frame shows nothing more than PUBLISH batches old.
THEOREM TuiFrameFresh == Spec => []FrameFresh
  <1>1. IInv => FrameFresh
    <2> SUFFICES ASSUME IInv, NEW part \in DOMAIN frame PROVE frame[part] <= PUBLISH
      BY DEF FrameFresh
    <2>1. lock = "read" /\ ~Writing
      BY DEF IInv, LockHeld, Reading, Drawn
    <2>2. bids = asks /\ bids <= PUBLISH /\ bids \in Age
      BY <2>1, SnapshotAge DEF IInv, TypeOK
    <2> QED BY <2>2, TuiAssumption DEF IInv, TypeOK, Drawn, Age, TOO_OLD
  <1> QED BY <1>1, SpecIInv, PTL

\* The arena usage of a frame is not older than its book.
THEOREM TuiUsedNotOlder == Spec => []UsedNotOlder
  <1>1. IInv => UsedNotOlder
    BY DEF IInv, Drawn, UsedNotOlder
  <1> QED BY <1>1, SpecIInv, PTL
=============================================================================
