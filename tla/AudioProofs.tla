---------------------------- MODULE AudioProofs ----------------------------
(***************************************************************************)
(* The audio window, and the path from the capture slot to the speaker,    *)
(* for every window, block count, target and clock width. A PCM chunk of   *)
(* any length is split into blocks one by one, so the argument about the   *)
(* window goes along the blocks of a chunk (the first refusal exists, and  *)
(* no block before it opened the window too far). The argument about the   *)
(* path goes along the blocks on their way, by their distance from the     *)
(* next block number.                                                      *)
(***************************************************************************)
EXTENDS AudioPath, FiniteSetTheorems, SequenceTheorems, WellFoundedInduction, TLAPS

AInv == RdpsndTypeOK /\ WindowHolds /\ ReceiveAcksDoNotMeasure

LEMMA Least ==
    ASSUME NEW S, S \subseteq Nat, S # {}
    PROVE  \E n \in S : \A m \in S : n <= m
<1>1. \E x \in S : \A y \in S : ~(<<y, x>> \in OpToRel(<, Nat))
  BY NatLessThanWellFounded, WFMin, Zenon
<1>2. PICK x \in S : \A y \in S : ~(<<y, x>> \in OpToRel(<, Nat))
  BY <1>1
<1>3. \A y \in S : ~(y < x)
  BY <1>2 DEF OpToRel
<1>4. \A y \in S : x <= y
  BY <1>3
<1>5. QED
  BY <1>4

LEMMA RemainderRange ==
    ASSUME NEW x \in Int, NEW n \in Nat \ {0}
    PROVE  x % n \in 0 .. n - 1
  BY Z3

LEMMA RemainderOfSmall ==
    ASSUME NEW n \in Nat, NEW x \in Nat, x < n
    PROVE  x % n = x
  BY Z3

LEMMA Numbers ==
    /\ MAX_UNACKED_BLOCKS \in Nat \ {0} /\ ChunkMs \in Nat \ {0} /\ MaxChunks \in Nat \ {0}
    /\ U16 \in Nat \ {0} /\ U32 \in Nat \ {0} /\ U16 <= U32
    /\ MIN_PLAYBACK_RTT_MS \in Nat /\ MAX_PLAUSIBLE_HOLD_MS \in Nat /\ TARGET_HOLD_MS \in Nat
    /\ MaxClock \in Nat /\ MaxHold \in Nat
    /\ BLOCKS \in Nat \ {0} /\ BLOCKS > MAX_UNACKED_BLOCKS
<1>1. /\ MAX_UNACKED_BLOCKS \in Nat \ {0} /\ ChunkMs \in Nat \ {0} /\ MaxChunks \in Nat \ {0}
      /\ U16 \in Nat \ {0} /\ U32 \in Nat \ {0}
  BY RdpsndAssumption
<1>2. /\ MIN_PLAYBACK_RTT_MS \in Nat /\ MAX_PLAUSIBLE_HOLD_MS \in Nat /\ TARGET_HOLD_MS \in Nat
      /\ MaxClock \in Nat /\ MaxHold \in Nat
  BY RdpsndAssumption
<1>3. BLOCKS \in Nat \ {0} /\ BLOCKS > MAX_UNACKED_BLOCKS /\ U16 <= U32
  BY <1>1, RdpsndAssumption
<1>4. QED
  BY <1>1, <1>2, <1>3

-----------------------------------------------------------------------------
(* Splitting a PCM chunk *)

\* The loop of encode_wave has a first refusal, or none.
LEMMA FirstRefusal ==
    ASSUME NEW chunks \in Nat
    PROVE  /\ BlocksSent(chunks) \in 0 .. chunks
           /\ \A k \in 0 .. BlocksSent(chunks) - 1 : ~should_skip_send(k)
<1> DEFINE Stop == {n \in 0 .. chunks : n < chunks => should_skip_send(n)}
<1>1. Stop \subseteq Nat /\ chunks \in Stop
  OBVIOUS
<1>2. PICK n \in Stop : \A m \in Stop : n <= m
  BY <1>1, Least
<1>3. \A k \in 0 .. n - 1 : ~should_skip_send(k)
  <2> SUFFICES ASSUME NEW k \in 0 .. n - 1, should_skip_send(k)
               PROVE  FALSE
    OBVIOUS
  <2>1. k \in Stop /\ k < n
    BY <1>2
  <2>2. n <= k
    BY <1>2, <2>1
  <2>3. QED
    BY <2>1, <2>2
<1>4. \E m \in 0 .. chunks : /\ \A k \in 0 .. m - 1 : ~should_skip_send(k)
                             /\ m < chunks => should_skip_send(m)
  BY <1>2, <1>3
<1>5. QED
  BY <1>4 DEF BlocksSent

LEMMA NextBlocksAreBlocks ==
    ASSUME block_no \in Block, NEW n \in Nat
    PROVE  NextBlocks(n) \subseteq Block
<1> SUFFICES ASSUME NEW k \in 0 .. n - 1
             PROVE  (block_no + k) % BLOCKS \in Block
  BY DEF NextBlocks
<1>1. block_no + k \in Int
  BY Numbers DEF Block
<1>2. QED
  BY <1>1, Numbers, RemainderRange DEF Block

LEMMA OneMoreBlock ==
    ASSUME block_no \in Block, NEW n \in Nat
    PROVE  /\ NextBlocks(0) = {}
           /\ NextBlocks(n + 1) = NextBlocks(n) \cup {(block_no + n) % BLOCKS}
<1>1. 0 .. 0 - 1 = {} /\ 0 .. (n + 1) - 1 = (0 .. n - 1) \cup {n}
  OBVIOUS
<1>2. QED
  BY <1>1 DEF NextBlocks

LEMMA BlocksFinite == IsFiniteSet(Block) /\ \A S \in SUBSET Block : IsFiniteSet(S) /\ Cardinality(S) \in Nat
<1>1. IsFiniteSet(Block)
  BY Numbers, FS_Interval DEF Block
<1>2. QED
  BY <1>1, FS_Subset, FS_CardinalityType

\* While no block is refused the window is not exceeded: the count, which is
\* taken modulo BLOCKS, has not wrapped because it is checked block by block.
LEMMA WindowNotExceeded ==
    ASSUME AInv, NEW n \in Nat, \A k \in 0 .. n - 1 : ~should_skip_send(k)
    PROVE  Cardinality(block_pending \cup NextBlocks(n)) <= MAX_UNACKED_BLOCKS
<1> DEFINE Out(k) == block_pending \cup NextBlocks(k)
           Over == {k \in 0 .. n : ~(Cardinality(Out(k)) <= MAX_UNACKED_BLOCKS)}
<1>1. block_no \in Block /\ block_pending \subseteq Block
  BY DEF AInv, RdpsndTypeOK
<1>2. \A k \in Nat : Out(k) \subseteq Block /\ IsFiniteSet(Out(k)) /\ Cardinality(Out(k)) \in Nat
  BY <1>1, NextBlocksAreBlocks, BlocksFinite
<1>3. SUFFICES ASSUME Over # {}
               PROVE  FALSE
  <2>1. n \in 0 .. n
    OBVIOUS
  <2>2. QED
    BY <2>1
<1>4. PICK k \in Over : \A m \in Over : k <= m
  <2>1. Over \subseteq Nat
    OBVIOUS
  <2>2. QED
    BY <1>3, <2>1, Least
<1>5. k # 0
  <2>1. Out(0) = block_pending
    BY <1>1, OneMoreBlock
  <2>2. QED
    BY <1>4, <2>1 DEF AInv, WindowHolds
<1>6. k - 1 \in 0 .. n - 1 /\ k - 1 \in Nat /\ (k - 1) + 1 = k
  BY <1>4, <1>5
<1>k. k \in Nat /\ ~(Cardinality(Out(k)) <= MAX_UNACKED_BLOCKS)
  BY <1>4
<1>7. Cardinality(Out(k - 1)) <= MAX_UNACKED_BLOCKS
  <2>1. k - 1 \notin Over
    BY <1>4, <1>6
  <2>2. QED
    BY <1>6, <2>1
<1>8. ~should_skip_send(k - 1)
  BY <1>6
<1>9. Cardinality(Out(k - 1)) < MAX_UNACKED_BLOCKS
  <2> DEFINE c == Cardinality(Out(k - 1))
  <2>0. c \in Nat
    BY <1>2, <1>6
  <2>1. c \in Nat /\ c < BLOCKS
    <3>1. c <= MAX_UNACKED_BLOCKS
      BY <1>7
    <3> HIDE DEF c
    <3>2. QED
      BY <2>0, <3>1, Numbers
  <2>2. ~(c % BLOCKS >= MAX_UNACKED_BLOCKS)
    BY <1>8 DEF should_skip_send
  <2> HIDE DEF c
  <2>3. c % BLOCKS = c
    BY <2>1, Numbers, RemainderOfSmall
  <2>4. c < MAX_UNACKED_BLOCKS
    BY <2>1, <2>2, <2>3, Numbers
  <2>5. QED
    BY <2>4 DEF c
<1>10. Out(k) = Out(k - 1) \cup {(block_no + (k - 1)) % BLOCKS}
  BY <1>1, <1>6, OneMoreBlock
<1>11. Cardinality(Out(k)) <= Cardinality(Out(k - 1)) + 1
  <2> DEFINE O == Out(k - 1)
             x == (block_no + (k - 1)) % BLOCKS
  <2>1. IsFiniteSet(O) /\ Cardinality(O) \in Nat
    BY <1>2, <1>6
  <2> HIDE DEF O, x
  <2>2. Cardinality(O \cup {x}) = IF x \in O THEN Cardinality(O) ELSE Cardinality(O) + 1
    BY <2>1, FS_AddElement
  <2>3. Cardinality(O \cup {x}) <= Cardinality(O) + 1
    BY <2>1, <2>2
  <2>4. QED
    BY <1>10, <2>3 DEF O, x
<1>12. Cardinality(Out(k)) \in Nat /\ Cardinality(Out(k - 1)) \in Nat
  BY <1>2, <1>k, <1>6
<1> HIDE DEF Out
<1>13. QED
  BY <1>9, <1>11, <1>12, <1>k, Numbers

-----------------------------------------------------------------------------
(* One step *)

LEMMA ClockRange == RdpsndTypeOK => now_ms \in 0 .. U32 - 1
  BY Numbers, RemainderRange DEF RdpsndTypeOK, now_ms

\* A confirm measures something of at least MIN_PLAYBACK_RTT_MS, or nothing.
LEMMA ConfirmMeasures ==
    ASSUME RdpsndTypeOK, NEW b \in Block, NEW t \in 0 .. U16 - 1, on_wave_confirm(b, t)
    PROVE  \/ UNCHANGED holdVars
           \/ \E r \in 0 .. U32 - 1 : r >= MIN_PLAYBACK_RTT_MS /\ note_playback_hold(r)
<1> DEFINE hold == HoldOf(b, t)
           wall == saturating_sub(now_ms, sent_at_ms[b])
<1>1. hold \in 0 .. U16 - 1
  <2>1. t - sent_wtimestamp[b] \in Int
    BY Numbers DEF RdpsndTypeOK
  <2>2. QED
    BY <2>1, Numbers, RemainderRange DEF HoldOf
<1>2. wall \in 0 .. U32 - 1
  <2>1. now_ms \in 0 .. U32 - 1 /\ sent_at_ms[b] \in 0 .. U32 - 1
    BY ClockRange DEF RdpsndTypeOK
  <2>2. QED
    BY <2>1, Numbers DEF saturating_sub
<1>3. RttOf(b, t) = IF hold <= MAX_PLAUSIBLE_HOLD_MS THEN Larger(wall, hold) ELSE wall
  BY DEF RttOf
<1> HIDE DEF hold, wall
<1>4. RttOf(b, t) \in 0 .. U32 - 1 /\ hold \in 0 .. U32 - 1
  BY <1>1, <1>2, <1>3, Numbers DEF Larger
<1>5. CASE ConfirmPending(b, t)
  BY <1>4, <1>5 DEF ConfirmPending
<1>6. CASE ConfirmAgain(b, t)
  BY <1>4, <1>6 DEF ConfirmAgain, hold
<1>7. QED
  BY <1>5, <1>6 DEF on_wave_confirm

LEMMA ConfirmLeaves ==
    ASSUME NEW b, NEW t, on_wave_confirm(b, t)
    PROVE  /\ block_pending' \subseteq block_pending
           /\ UNCHANGED <<setupVars, sendVars, clock>>
  BY DEF on_wave_confirm, ConfirmPending, ConfirmAgain

LEMMA MeasureKeeps ==
    ASSUME AInv,
           \/ UNCHANGED holdVars
           \/ \E r \in 0 .. U32 - 1 : r >= MIN_PLAYBACK_RTT_MS /\ note_playback_hold(r)
    PROVE  /\ playback_hold_ms' \in {None} \cup 0 .. U32 - 1
           /\ hold_at_ms' \in 0 .. U32 - 1 /\ sent_ms_at_hold' \in 0 .. U32 - 1
           /\ ReceiveAcksDoNotMeasure'
<1>0. now_ms \in 0 .. U32 - 1 /\ total_sent_ms \in 0 .. U32 - 1
  BY ClockRange DEF AInv, RdpsndTypeOK
<1>1. CASE UNCHANGED holdVars
  BY <1>1 DEF holdVars, AInv, RdpsndTypeOK, ReceiveAcksDoNotMeasure
<1>2. ASSUME NEW r \in 0 .. U32 - 1, r >= MIN_PLAYBACK_RTT_MS, note_playback_hold(r)
      PROVE  /\ playback_hold_ms' \in {None} \cup 0 .. U32 - 1
             /\ hold_at_ms' \in 0 .. U32 - 1 /\ sent_ms_at_hold' \in 0 .. U32 - 1
             /\ ReceiveAcksDoNotMeasure'
  BY <1>0, <1>2 DEF note_playback_hold, ReceiveAcksDoNotMeasure
<1>3. QED
  BY <1>1, <1>2

LEMMA ConfirmKeeps ==
    ASSUME AInv, NEW b \in Block, NEW t \in 0 .. U16 - 1, on_wave_confirm(b, t)
    PROVE  AInv'
<1>1. /\ block_pending' \subseteq block_pending
      /\ UNCHANGED <<setupVars, sendVars, clock>>
  BY ConfirmLeaves
<1>2. /\ playback_hold_ms' \in {None} \cup 0 .. U32 - 1
      /\ hold_at_ms' \in 0 .. U32 - 1 /\ sent_ms_at_hold' \in 0 .. U32 - 1
      /\ ReceiveAcksDoNotMeasure'
  BY ConfirmMeasures, MeasureKeeps DEF AInv
<1>3. RdpsndTypeOK'
  BY <1>1, <1>2 DEF AInv, RdpsndTypeOK, setupVars, sendVars, Block
<1>4. WindowHolds'
  <2>1. /\ block_pending \subseteq Block /\ IsFiniteSet(block_pending)
        /\ Cardinality(block_pending) \in Nat
    BY BlocksFinite DEF AInv, RdpsndTypeOK
  <2>2. Cardinality(block_pending') \in Nat
        /\ Cardinality(block_pending') <= Cardinality(block_pending)
    BY <1>1, <2>1, FS_Subset, BlocksFinite
  <2>3. QED
    BY <2>1, <2>2, Numbers DEF AInv, WindowHolds
<1>5. QED
  BY <1>2, <1>3, <1>4 DEF AInv

LEMMA SaturatingAddRange ==
    ASSUME NEW x \in 0 .. U32 - 1, NEW y \in Nat
    PROVE  saturating_add(x, y) \in 0 .. U32 - 1
  BY Numbers DEF saturating_add

LEMMA EncodeKeeps ==
    ASSUME AInv, NEW chunks \in 1 .. MaxChunks, encode_wave(chunks)
    PROVE  AInv'
<1> DEFINE n == BlocksSent(chunks)
<1>1. n \in Nat /\ \A k \in 0 .. n - 1 : ~should_skip_send(k)
  BY FirstRefusal, Numbers
<1>2. note_send(n) /\ UNCHANGED <<setupVars, holdVars, clock>>
  BY DEF encode_wave
<1> HIDE DEF n
<1>3. now_ms \in 0 .. U32 - 1 /\ now_ms % U16 \in 0 .. U16 - 1
  <2>1. now_ms \in 0 .. U32 - 1 /\ now_ms \in Int
    BY ClockRange, Numbers DEF AInv
  <2>2. QED
    BY <2>1, RemainderRange, Numbers
<1>4. NextBlocks(n) \subseteq Block
  BY <1>1, NextBlocksAreBlocks DEF AInv, RdpsndTypeOK
<1>5. n * ChunkMs \in Nat
  BY <1>1, Numbers
<1>6. total_sent_ms' \in 0 .. U32 - 1
  BY <1>2, <1>5, SaturatingAddRange DEF note_send, AInv, RdpsndTypeOK
<1>7. block_no' \in Block
  <2>1. block_no + n \in Int
    BY <1>1, Numbers DEF AInv, RdpsndTypeOK, Block
  <2>2. QED
    BY <1>2, <2>1, RemainderRange, Numbers DEF note_send, Block
<1>8. /\ sent_at_ms' \in [Block -> 0 .. U32 - 1]
      /\ sent_wtimestamp' \in [Block -> 0 .. U16 - 1]
      /\ block_pending' \subseteq Block
  BY <1>2, <1>3, <1>4 DEF note_send, AInv, RdpsndTypeOK
<1>9. RdpsndTypeOK'
  BY <1>2, <1>6, <1>7, <1>8 DEF AInv, RdpsndTypeOK, setupVars, holdVars
<1>10. WindowHolds'
  BY <1>1, <1>2, WindowNotExceeded DEF note_send, WindowHolds
<1>11. QED
  BY <1>2, <1>9, <1>10 DEF AInv, holdVars, ReceiveAcksDoNotMeasure

LEMMA NextAInv == AInv /\ [RdpsndNext]_rdpsndVars => AInv'
<1> SUFFICES ASSUME AInv, [RdpsndNext]_rdpsndVars
             PROVE  AInv'
  OBVIOUS
<1>1. CASE \/ \E common, quality \in BOOLEAN : OnAudioFormats(common, quality)
           \/ OnQualityMode \/ OnTrainingConfirm
  BY <1>1 DEF AInv, RdpsndTypeOK, WindowHolds, ReceiveAcksDoNotMeasure, OnAudioFormats,
              OnQualityMode, OnTrainingConfirm, sendVars, holdVars
<1>2. ASSUME NEW b \in Block, NEW hold \in 0 .. MaxHold,
             on_wave_confirm(b, (sent_wtimestamp[b] + hold) % U16)
      PROVE  AInv'
  <2>1. sent_wtimestamp[b] + hold \in Int
    BY Numbers DEF AInv, RdpsndTypeOK
  <2>2. QED
    BY <1>2, <2>1, Numbers, RemainderRange, ConfirmKeeps
<1>3. ASSUME NEW chunks \in 1 .. MaxChunks, encode_wave(chunks)
      PROVE  AInv'
  BY <1>3, EncodeKeeps
<1>4. CASE Tick
  BY <1>4 DEF AInv, RdpsndTypeOK, WindowHolds, ReceiveAcksDoNotMeasure, Tick, setupVars,
              sendVars, holdVars
<1>5. CASE UNCHANGED rdpsndVars
  BY <1>5 DEF AInv, RdpsndTypeOK, WindowHolds, ReceiveAcksDoNotMeasure, rdpsndVars
<1>6. QED
  BY <1>1, <1>2, <1>3, <1>4, <1>5 DEF RdpsndNext

LEMMA InitAInv == RdpsndInit => AInv
<1> SUFFICES ASSUME RdpsndInit
             PROVE  AInv
  OBVIOUS
<1>1. 0 \in Block /\ 0 \in 0 .. U32 - 1 /\ 0 \in 0 .. U16 - 1
  BY Numbers DEF Block
<1>2. RdpsndTypeOK
  BY <1>1 DEF RdpsndInit, RdpsndTypeOK
<1>3. WindowHolds /\ ReceiveAcksDoNotMeasure
  BY FS_EmptySet, Numbers DEF RdpsndInit, WindowHolds, ReceiveAcksDoNotMeasure
<1>4. QED
  BY <1>2, <1>3 DEF AInv

\* The window, the widths and the measurements need nothing but the step before.
THEOREM AudioInvariance == RdpsndSpec => []AInv
<1>1. QED
  BY InitAInv, NextAInv, PTL DEF RdpsndSpec

-----------------------------------------------------------------------------
(* The play queue *)

\* A session shorter than the 49 days after which the millisecond clock wraps.
NoWrap == MaxClock < U32

QInv == QueueNotFed /\ clock <= MaxClock

\* The estimate from its parts: measured p, sent t in all and s by then, and w
\* of time gone by.
Estimate(p, s, t, w) == saturating_sub(saturating_add(p, saturating_sub(t, s)), w)

LEMMA EstimateOf ==
    ASSUME NEW t
    PROVE  HoldGiven(t) = IF playback_hold_ms = None THEN 0
                          ELSE Estimate(playback_hold_ms, sent_ms_at_hold, t,
                                        saturating_sub(now_ms, hold_at_ms))
  BY DEF HoldGiven, Estimate

\* One more block raises it by one block at most, and time lowers it.
LEMMA EstimateGrows ==
    ASSUME NEW p \in 0 .. U32 - 1, NEW s \in 0 .. U32 - 1, NEW t \in 0 .. U32 - 1,
           NEW w \in Nat, NEW x \in Nat
    PROVE  Estimate(p, s, saturating_add(t, x + ChunkMs), w)
               <= Estimate(p, s, saturating_add(t, x), w) + ChunkMs
  BY Numbers DEF Estimate, saturating_add, saturating_sub

LEMMA EstimateFalls ==
    ASSUME NEW p \in 0 .. U32 - 1, NEW s \in 0 .. U32 - 1, NEW t \in 0 .. U32 - 1,
           NEW w \in Nat, NEW v \in Nat, v <= w
    PROVE  Estimate(p, s, t, w) <= Estimate(p, s, t, v)
  BY Numbers DEF Estimate, saturating_add, saturating_sub

LEMMA EstimateIsNumber ==
    ASSUME NEW p \in 0 .. U32 - 1, NEW s \in 0 .. U32 - 1, NEW t \in 0 .. U32 - 1, NEW w \in Nat
    PROVE  Estimate(p, s, t, w) \in Nat
  BY Numbers DEF Estimate, saturating_add, saturating_sub

\* Right after a measurement the estimate is what was measured.
LEMMA EstimateFresh ==
    ASSUME NEW p \in 0 .. U32 - 1, NEW t \in 0 .. U32 - 1, NEW x \in 0 .. U32 - 1
    PROVE  Estimate(p, t, t, saturating_sub(x, x)) = p
  BY Numbers DEF Estimate, saturating_add, saturating_sub

\* What QueueNotFed compares, with every part typed.
LEMMA Bound ==
    ASSUME RdpsndTypeOK
    PROVE  /\ playback_hold_ms \in Int
           /\ estimated_hold_ms \in Nat
           /\ saturating_sub(now_ms, hold_at_ms) \in Nat
           /\ playback_hold_ms # None => playback_hold_ms \in 0 .. U32 - 1
           /\ hold_at_ms \in 0 .. U32 - 1 /\ sent_ms_at_hold \in 0 .. U32 - 1
           /\ total_sent_ms \in 0 .. U32 - 1
<1>1. /\ playback_hold_ms \in Int
      /\ playback_hold_ms # None => playback_hold_ms \in 0 .. U32 - 1
      /\ hold_at_ms \in 0 .. U32 - 1 /\ sent_ms_at_hold \in 0 .. U32 - 1
      /\ total_sent_ms \in 0 .. U32 - 1
  BY Numbers DEF RdpsndTypeOK, None
<1>2. saturating_sub(now_ms, hold_at_ms) \in Nat
  BY <1>1, ClockRange, Numbers DEF saturating_sub
<1>3. estimated_hold_ms \in Nat
  <2>1. CASE playback_hold_ms = None
    BY <2>1, EstimateOf DEF estimated_hold_ms
  <2>2. CASE playback_hold_ms # None
    BY <1>1, <1>2, <2>2, EstimateOf, EstimateIsNumber DEF estimated_hold_ms
  <2>3. QED
    BY <2>1, <2>2
<1>4. QED
  BY <1>1, <1>2, <1>3

\* With nothing measured the estimate is zero.
LEMMA Unmeasured ==
    ASSUME playback_hold_ms = None
    PROVE  QueueNotFed
<1>1. estimated_hold_ms = 0
  BY EstimateOf DEF estimated_hold_ms
<1>2. QED
  BY <1>1, Numbers DEF QueueNotFed, Larger, None

LEMMA TickKeepsQueue ==
    ASSUME AInv, QInv, NoWrap, Tick
    PROVE  QInv'
<1> DEFINE p == playback_hold_ms
           v == saturating_sub(clock, hold_at_ms)
           w == saturating_sub(clock + 1, hold_at_ms)
<1>1. /\ UNCHANGED <<playback_hold_ms, hold_at_ms, sent_ms_at_hold, total_sent_ms>>
      /\ clock' = clock + 1 /\ clock \in Nat /\ clock < MaxClock
  BY DEF Tick, setupVars, sendVars, holdVars, AInv, RdpsndTypeOK
<1>2. now_ms = clock /\ now_ms' = clock + 1
  <2>1. clock < U32 /\ clock + 1 \in Nat /\ clock + 1 < U32
    BY <1>1, Numbers DEF NoWrap
  <2>2. clock % U32 = clock /\ (clock + 1) % U32 = clock + 1
    BY <1>1, <2>1, Numbers, RemainderOfSmall
  <2>3. QED
    BY <1>1, <2>2 DEF now_ms
<1>3. v \in Nat /\ w \in Nat /\ v <= w
  BY <1>1, Bound, Numbers DEF AInv, saturating_sub
<1>4. CASE p # None
  <2>1. estimated_hold_ms = Estimate(p, sent_ms_at_hold, total_sent_ms, v)
    BY <1>2, <1>4, EstimateOf DEF estimated_hold_ms
  <2>2. estimated_hold_ms' = Estimate(p, sent_ms_at_hold, total_sent_ms, w)
    BY <1>1, <1>2, <1>4 DEF estimated_hold_ms, HoldGiven, Estimate
  <2>3. /\ estimated_hold_ms' \in Nat /\ estimated_hold_ms' <= estimated_hold_ms
    BY <1>3, <1>4, <2>1, <2>2, Bound, EstimateFalls, EstimateIsNumber DEF AInv
  <2>4. estimated_hold_ms' <= Larger(p, TARGET_HOLD_MS + ChunkMs)
    BY <2>3, Bound, Numbers DEF AInv, QInv, QueueNotFed, Larger
  <2>5. QED
    BY <1>1, <2>4, Numbers DEF QInv, QueueNotFed
<1>5. CASE p = None
  <2>1. estimated_hold_ms' = 0
    BY <1>1, <1>5 DEF estimated_hold_ms, HoldGiven
  <2>2. QueueNotFed'
    BY <1>1, <1>5, <2>1, Numbers DEF QueueNotFed, Larger, None
  <2>3. QED
    BY <1>1, <2>2, Numbers DEF QInv
<1>6. QED
  BY <1>4, <1>5

LEMMA ConfirmKeepsQueue ==
    ASSUME AInv, QInv, NEW b \in Block, NEW t \in 0 .. U16 - 1, on_wave_confirm(b, t)
    PROVE  QInv'
<1>1. UNCHANGED <<total_sent_ms, clock>>
  BY ConfirmLeaves DEF sendVars
<1>2. now_ms' = now_ms /\ now_ms \in 0 .. U32 - 1
  BY <1>1, ClockRange DEF now_ms, AInv
<1>3. CASE UNCHANGED holdVars
  <2>1. estimated_hold_ms' = estimated_hold_ms /\ playback_hold_ms' = playback_hold_ms
    BY <1>1, <1>2, <1>3 DEF holdVars, estimated_hold_ms, HoldGiven
  <2>2. QED
    BY <1>1, <2>1 DEF QInv, QueueNotFed
<1>4. ASSUME NEW r \in 0 .. U32 - 1, note_playback_hold(r)
      PROVE  QInv'
  <2>1. playback_hold_ms' = r /\ hold_at_ms' = now_ms /\ sent_ms_at_hold' = total_sent_ms
    BY <1>4 DEF note_playback_hold
  <2>2. r # None
    BY Numbers DEF None
  <2>3. estimated_hold_ms' = Estimate(r, total_sent_ms, total_sent_ms, saturating_sub(now_ms, now_ms))
    BY <1>1, <1>2, <2>1, <2>2 DEF estimated_hold_ms, HoldGiven, Estimate
  <2>4. estimated_hold_ms' = r
    BY <1>2, <2>3, Bound, EstimateFresh DEF AInv
  <2>5. QueueNotFed'
    BY <2>1, <2>4, Numbers DEF QueueNotFed, Larger
  <2>6. QED
    BY <1>1, <2>5 DEF QInv
<1>5. QED
  BY <1>3, <1>4, ConfirmMeasures DEF AInv

LEMMA EncodeKeepsQueue ==
    ASSUME AInv, QInv, NEW chunks \in 1 .. MaxChunks, encode_wave(chunks)
    PROVE  QInv'
<1> DEFINE n == BlocksSent(chunks)
           p == playback_hold_ms
           w == saturating_sub(now_ms, hold_at_ms)
           x == (n - 1) * ChunkMs
<1>1. n \in Nat /\ n > 0 /\ \A k \in 0 .. n - 1 : ~should_skip_send(k)
  BY FirstRefusal, Numbers DEF encode_wave
<1>2. /\ UNCHANGED <<playback_hold_ms, hold_at_ms, sent_ms_at_hold, clock>>
      /\ total_sent_ms' = saturating_add(total_sent_ms, n * ChunkMs)
  BY DEF encode_wave, note_send, holdVars
<1> HIDE DEF n
<1>3. now_ms' = now_ms
  BY <1>2 DEF now_ms
<1>4. x \in Nat /\ n * ChunkMs = x + ChunkMs
  BY <1>1, Numbers
<1>5. ~should_skip_send(n - 1)
  BY <1>1
<1>6. ~(HoldGiven(saturating_add(total_sent_ms, x)) > TARGET_HOLD_MS)
  BY <1>5 DEF should_skip_send
<1> HIDE DEF x
<1>7. CASE p = None
  <2>1. estimated_hold_ms' = 0
    BY <1>2, <1>7 DEF estimated_hold_ms, HoldGiven
  <2>2. QueueNotFed'
    BY <1>2, <1>7, <2>1, Numbers DEF QueueNotFed, Larger, None
  <2>3. QED
    BY <1>2, <2>2 DEF QInv
<1>8. CASE p # None
  <2> DEFINE before == Estimate(p, sent_ms_at_hold, saturating_add(total_sent_ms, x), w)
             after  == Estimate(p, sent_ms_at_hold, saturating_add(total_sent_ms, x + ChunkMs), w)
  <2>1. HoldGiven(saturating_add(total_sent_ms, x)) = before
    BY <1>8, EstimateOf
  <2>2. estimated_hold_ms' = after
    BY <1>2, <1>3, <1>4, <1>8 DEF estimated_hold_ms, HoldGiven, Estimate
  <2>3. after <= before + ChunkMs
    BY <1>4, <1>8, Bound, EstimateGrows DEF AInv
  <2>4. before \in Nat /\ after \in Nat
    <3>1. /\ saturating_add(total_sent_ms, x) \in 0 .. U32 - 1
          /\ saturating_add(total_sent_ms, x + ChunkMs) \in 0 .. U32 - 1
      <4>1. x \in Nat /\ x + ChunkMs \in Nat
        BY <1>4, Numbers
      <4>2. total_sent_ms \in 0 .. U32 - 1
        BY Bound DEF AInv
      <4>3. QED
        BY <4>1, <4>2, SaturatingAddRange
    <3>2. w \in Nat /\ p \in 0 .. U32 - 1 /\ sent_ms_at_hold \in 0 .. U32 - 1
      BY <1>8, Bound DEF AInv
    <3>3. QED
      BY <3>1, <3>2, EstimateIsNumber
  <2> HIDE DEF before, after
  <2>5. after <= TARGET_HOLD_MS + ChunkMs
    BY <1>6, <2>1, <2>3, <2>4, Numbers
  <2>6. QueueNotFed'
    BY <1>2, <1>8, <2>2, <2>4, <2>5, Bound, Numbers DEF QueueNotFed, Larger, AInv
  <2>7. QED
    BY <1>2, <2>6 DEF QInv
<1>9. QED
  BY <1>7, <1>8

LEMMA NextQInv == NoWrap /\ AInv /\ QInv /\ [RdpsndNext]_rdpsndVars => QInv'
<1> SUFFICES ASSUME NoWrap, AInv, QInv, [RdpsndNext]_rdpsndVars
             PROVE  QInv'
  OBVIOUS
<1>1. CASE /\ UNCHANGED <<total_sent_ms, clock>> /\ UNCHANGED holdVars
  <2>1. estimated_hold_ms' = estimated_hold_ms /\ playback_hold_ms' = playback_hold_ms
    BY <1>1 DEF holdVars, estimated_hold_ms, HoldGiven, now_ms
  <2>2. QED
    BY <1>1, <2>1 DEF QInv, QueueNotFed
<1>2. ASSUME NEW b \in Block, NEW hold \in 0 .. MaxHold,
             on_wave_confirm(b, (sent_wtimestamp[b] + hold) % U16)
      PROVE  QInv'
  <2>1. sent_wtimestamp[b] + hold \in Int
    BY Numbers DEF AInv, RdpsndTypeOK
  <2>2. QED
    BY <1>2, <2>1, Numbers, RemainderRange, ConfirmKeepsQueue
<1>3. ASSUME NEW chunks \in 1 .. MaxChunks, encode_wave(chunks)
      PROVE  QInv'
  BY <1>3, EncodeKeepsQueue
<1>4. CASE Tick
  BY <1>4, TickKeepsQueue
<1>5. CASE \/ \E common, quality \in BOOLEAN : OnAudioFormats(common, quality)
           \/ OnQualityMode \/ OnTrainingConfirm
  BY <1>1, <1>5 DEF OnAudioFormats, OnQualityMode, OnTrainingConfirm, sendVars
<1>6. CASE UNCHANGED rdpsndVars
  BY <1>1, <1>6 DEF rdpsndVars, holdVars
<1>7. QED
  BY <1>2, <1>3, <1>4, <1>5, <1>6 DEF RdpsndNext

\* Whatever the client confirms, when and how often, and however a PCM chunk is
\* split: no more than MAX_UNACKED_BLOCKS are unacknowledged, the estimate of
\* the client's queue is never pushed further than a block past its target, and
\* receive-acks do not measure. For every window, target and width; the clock
\* does not wrap within a session.
THEOREM TheAudioWindowHolds ==
    ASSUME NoWrap
    PROVE  RdpsndSpec => []AudioWindowSafe
<1>1. RdpsndInit => QInv
  BY Unmeasured, Numbers DEF RdpsndInit, QInv
<1>2. AInv /\ QInv => AudioWindowSafe
  BY DEF AInv, QInv, AudioWindowSafe
<1>3. AInv /\ QInv /\ [RdpsndNext]_rdpsndVars => QInv'
  BY NextQInv
<1>4. QED
  BY <1>1, <1>2, <1>3, AudioInvariance, PTL DEF RdpsndSpec

-----------------------------------------------------------------------------
(* Sequences of blocks *)

LEMMA HeadMoves ==
    ASSUME NEW S, NEW a \in Seq(S), NEW b \in Seq(S), b # <<>>
    PROVE  Append(a, Head(b)) \o Tail(b) = a \o b
<1>1. b = <<Head(b)>> \o Tail(b) /\ <<Head(b)>> \in Seq(S) /\ Tail(b) \in Seq(S)
  OBVIOUS
<1>2. Append(a, Head(b)) = a \o <<Head(b)>>
  BY AppendIsConcat
<1>3. QED
  BY <1>1, <1>2, ConcatAssociative

LEMMA HeadLeaves ==
    ASSUME NEW S, NEW a \in Seq(S), NEW b \in Seq(S), a # <<>>
    PROVE  Tail(a) \o b = Tail(a \o b) /\ Head(a \o b) = Head(a) /\ a \o b # <<>>
<1>1. a \o b \in Seq(S) /\ Len(a \o b) = Len(a) + Len(b) /\ Len(a) > 0
  BY ConcatProperties
<1>2. Tail(a) \o b \in Seq(S) /\ Tail(a \o b) \in Seq(S)
      /\ Len(Tail(a) \o b) = Len(a) - 1 + Len(b) /\ Len(Tail(a \o b)) = Len(a) - 1 + Len(b)
  BY <1>1
<1>3. ASSUME NEW i \in 1 .. Len(Tail(a) \o b)
      PROVE  (Tail(a) \o b)[i] = Tail(a \o b)[i]
  BY <1>1, <1>2
<1>4. QED
  BY <1>1, <1>2, <1>3, SeqEqual

LEMMA PartsOfConcat ==
    ASSUME NEW S, NEW a \in Seq(S), NEW b \in Seq(S)
    PROVE  /\ a \o b \in Seq(S)
           /\ \A i \in DOMAIN a : i \in DOMAIN (a \o b) /\ (a \o b)[i] = a[i]
           /\ \A i \in DOMAIN b : Len(a) + i \in DOMAIN (a \o b) /\ (a \o b)[Len(a) + i] = b[i]
           /\ \A i \in DOMAIN (a \o b) :
                 \/ i \in DOMAIN a
                 \/ i - Len(a) \in DOMAIN b /\ (a \o b)[i] = b[i - Len(a)]
<1>1. /\ a \o b \in Seq(S) /\ Len(a \o b) = Len(a) + Len(b)
      /\ \A i \in 1 .. Len(a) + Len(b) : (a \o b)[i] = IF i <= Len(a) THEN a[i] ELSE b[i - Len(a)]
  BY ConcatProperties
<1>2. DOMAIN a = 1 .. Len(a) /\ DOMAIN b = 1 .. Len(b) /\ DOMAIN (a \o b) = 1 .. Len(a) + Len(b)
      /\ Len(a) \in Nat /\ Len(b) \in Nat
  BY <1>1
<1> DEFINE ab == a \o b
<1> HIDE DEF ab
<1>3. QED
  BY <1>1, <1>2

-----------------------------------------------------------------------------
(* Block numbers modulo BLOCKS *)

LEMMA RemainderOnce ==
    ASSUME NEW n \in Nat, NEW x \in Nat, n <= x, x < 2 * n
    PROVE  x % n = x - n
  BY Z3

LEMMA RemainderNegative ==
    ASSUME NEW n \in Nat, NEW x \in Int, 0 - n <= x, x < 0
    PROVE  x % n = x + n
  BY Z3

\* How many blocks ago the number b was given out last, when it is on its way.
Dist(b) == (block_no - b) % BLOCKS

\* The same from the next number a, without the remainder.
Back(a, b) == IF b <= a THEN a - b ELSE a - b + BLOCKS

LEMMA DistIs ==
    ASSUME NEW a \in Block, NEW b \in Block
    PROVE  (a - b) % BLOCKS = Back(a, b) /\ Back(a, b) \in Block
<1>1. a \in Nat /\ b \in Nat /\ a < BLOCKS /\ b < BLOCKS /\ BLOCKS \in Nat \ {0}
  BY Numbers DEF Block
<1>2. CASE b <= a
  <2>1. a - b \in Nat /\ a - b < BLOCKS
    BY <1>1, <1>2
  <2>2. QED
    BY <1>1, <1>2, <2>1, RemainderOfSmall DEF Back, Block
<1>3. CASE ~(b <= a)
  <2>1. a - b \in Int /\ 0 - BLOCKS <= a - b /\ a - b < 0
    BY <1>1, <1>3
  <2>2. (a - b) % BLOCKS = a - b + BLOCKS
    BY <1>1, <2>1, RemainderNegative
  <2>3. QED
    BY <1>1, <1>3, <2>1, <2>2 DEF Back, Block
<1>4. QED
  BY <1>2, <1>3

LEMMA SumIs ==
    ASSUME NEW a \in Block, NEW k \in 0 .. BLOCKS
    PROVE  (a + k) % BLOCKS = IF a + k < BLOCKS THEN a + k ELSE a + k - BLOCKS
<1>1. a \in Nat /\ a < BLOCKS /\ k \in Nat /\ k <= BLOCKS /\ BLOCKS \in Nat \ {0}
  BY Numbers DEF Block
<1>2. CASE a + k < BLOCKS
  BY <1>1, <1>2, RemainderOfSmall
<1>3. CASE ~(a + k < BLOCKS)
  <2>1. a + k \in Nat /\ BLOCKS <= a + k /\ a + k < 2 * BLOCKS
    BY <1>1, <1>3
  <2>2. (a + k) % BLOCKS = a + k - BLOCKS
    <3> DEFINE x == a + k
    <3>1. BLOCKS \in Nat /\ x \in Nat /\ BLOCKS <= x /\ x < 2 * BLOCKS
      BY <1>1, <2>1
    <3> HIDE DEF x
    <3>2. x % BLOCKS = x - BLOCKS
      BY <3>1, RemainderOnce
    <3>3. QED
      BY <1>1, <3>1, <3>2 DEF x
  <2>3. QED
    BY <1>3, <2>2
<1>4. QED
  BY <1>2, <1>3

\* The numbers that are given out next are the ones furthest back.
LEMMA NextIsFurthestBack ==
    ASSUME block_no \in Block, NEW n \in Nat, NEW b \in Block,
           IF Back(block_no, b) = 0 THEN n > 0 ELSE BLOCKS - Back(block_no, b) < n
    PROVE  b \in NextBlocks(n)
<1> DEFINE d == Back(block_no, b)
           k == IF d = 0 THEN 0 ELSE BLOCKS - d
<1>1. d \in Nat /\ d < BLOCKS /\ BLOCKS \in Nat \ {0} /\ block_no \in Nat /\ b \in Nat
      /\ block_no < BLOCKS /\ b < BLOCKS
  BY DistIs, Numbers DEF Block
<1>2. k \in 0 .. n - 1 /\ k \in 0 .. BLOCKS
  BY <1>1
<1>3. (block_no + k) % BLOCKS = b
  BY <1>1, <1>2, SumIs DEF Back
<1>4. QED
  BY <1>2, <1>3 DEF NextBlocks

\* A window that is not the whole circle: fewer blocks are sent than there are
\* numbers, and nothing that is flagged on the way is run over.
LEMMA NoRunOver ==
    ASSUME block_no \in Block, NEW n \in Nat, n > 0, NEW d \in 0 .. BLOCKS - 1, NEW P,
           \A b \in Block : Back(block_no, b) \in 1 .. d => b \in P,
           ~(Block \subseteq P \cup NextBlocks(n))
    PROVE  d + n < BLOCKS
<1>1. PICK b \in Block : b \notin P /\ b \notin NextBlocks(n)
  OBVIOUS
<1>2. Back(block_no, b) \in Block
  BY DistIs
<1>3. Back(block_no, b) # 0
  BY <1>1, NextIsFurthestBack
<1>4. ~(BLOCKS - Back(block_no, b) < n)
  BY <1>1, <1>3, NextIsFurthestBack
<1>5. Back(block_no, b) > d
  BY <1>1, <1>2, <1>3 DEF Block
<1>6. QED
  BY <1>2, <1>4, <1>5, Numbers DEF Block

\* Sending n blocks puts everything n further back, and the blocks sent behind it.
LEMMA Further ==
    ASSUME NEW a \in Block, NEW n \in 1 .. BLOCKS - 1, NEW b \in Block
    PROVE  /\ (a + n) % BLOCKS \in Block
           /\ Back(a, b) + n < BLOCKS => Back((a + n) % BLOCKS, b) = Back(a, b) + n
           /\ Back((a + n) % BLOCKS, b) > n
                 => Back((a + n) % BLOCKS, b) = Back(a, b) + n
<1>0. n \in 0 .. BLOCKS
  BY Numbers
<1>1. (a + n) % BLOCKS = IF a + n < BLOCKS THEN a + n ELSE a + n - BLOCKS
  BY <1>0, SumIs
<1>2. a \in Nat /\ a < BLOCKS /\ b \in Nat /\ b < BLOCKS /\ BLOCKS \in Nat /\ n \in Nat
      /\ n < BLOCKS /\ n > 0
  BY Numbers DEF Block
<1> DEFINE c == (a + n) % BLOCKS
<1>3. c = IF a + n < BLOCKS THEN a + n ELSE a + n - BLOCKS
  BY <1>1
<1> HIDE DEF c
<1>4. /\ c \in Block
      /\ Back(a, b) + n < BLOCKS => Back(c, b) = Back(a, b) + n
      /\ Back(c, b) > n => Back(c, b) = Back(a, b) + n
  BY <1>2, <1>3 DEF Back, Block
<1>5. QED
  BY <1>4 DEF c

LEMMA JustSent ==
    ASSUME NEW a \in Block, NEW n \in 1 .. BLOCKS - 1, NEW k \in 1 .. n
    PROVE  /\ (a + k - 1) % BLOCKS \in Block
           /\ Back((a + n) % BLOCKS, (a + k - 1) % BLOCKS) = n - k + 1
<1>1. a \in Nat /\ a < BLOCKS /\ BLOCKS \in Nat /\ n \in Nat /\ k \in Nat /\ 1 <= k /\ k <= n
      /\ n < BLOCKS
  BY Numbers DEF Block
<1>2. (a + n) % BLOCKS = IF a + n < BLOCKS THEN a + n ELSE a + n - BLOCKS
  BY <1>1, SumIs
<1>3. (a + (k - 1)) % BLOCKS = IF a + (k - 1) < BLOCKS THEN a + (k - 1) ELSE a + (k - 1) - BLOCKS
  <2>1. k - 1 \in 0 .. BLOCKS
    BY <1>1
  <2>2. QED
    BY <2>1, SumIs
<1>4. a + k - 1 = a + (k - 1)
  BY <1>1
<1> DEFINE c == (a + n) % BLOCKS
           e == (a + (k - 1)) % BLOCKS
<1>5. c = (IF a + n < BLOCKS THEN a + n ELSE a + n - BLOCKS)
      /\ e = (IF a + (k - 1) < BLOCKS THEN a + (k - 1) ELSE a + (k - 1) - BLOCKS)
  BY <1>2, <1>3
<1> HIDE DEF c, e
<1>6. e \in Block /\ Back(c, e) = n - k + 1
  BY <1>1, <1>5 DEF Back, Block
<1>7. QED
  BY <1>4, <1>6 DEF c, e

-----------------------------------------------------------------------------
(* The blocks on their way *)

\* The blocks of q, the oldest first, when a is the next number and P is
\* flagged: each was given out later than the one before it, and everything
\* that was given out since is still flagged.
Way(q, a, P) ==
    \A i \in DOMAIN q :
        /\ Back(a, q[i]) >= 1
        /\ \A j \in DOMAIN q : i < j => Back(a, q[i]) > Back(a, q[j])
        /\ \A b \in Block : Back(a, b) \in 1 .. Back(a, q[i]) => b \in P

LEMMA WayTail ==
    ASSUME NEW q \in Seq(Block), q # <<>>, NEW a \in Block, NEW P, Way(q, a, P),
           NEW R, P \ {Head(q)} \subseteq R
    PROVE  Way(Tail(q), a, R)
<1>1. /\ Tail(q) \in Seq(Block) /\ DOMAIN Tail(q) = 1 .. Len(q) - 1 /\ DOMAIN q = 1 .. Len(q)
      /\ Len(q) \in Nat /\ Len(q) >= 1 /\ Head(q) = q[1]
      /\ \A i \in 1 .. Len(q) - 1 : Tail(q)[i] = q[i + 1]
  OBVIOUS
<1> SUFFICES ASSUME NEW i \in DOMAIN Tail(q)
             PROVE  /\ Back(a, Tail(q)[i]) >= 1
                    /\ \A j \in DOMAIN Tail(q) :
                          i < j => Back(a, Tail(q)[i]) > Back(a, Tail(q)[j])
                    /\ \A b \in Block : Back(a, b) \in 1 .. Back(a, Tail(q)[i]) => b \in R
  BY DEF Way
<1>2. i \in 1 .. Len(q) - 1 /\ i + 1 \in DOMAIN q /\ 1 \in DOMAIN q /\ 1 < i + 1
      /\ Tail(q)[i] = q[i + 1]
  BY <1>1
<1>3. Back(a, q[i + 1]) >= 1 /\ Back(a, q[1]) > Back(a, q[i + 1])
  BY <1>2 DEF Way
<1>4. ASSUME NEW j \in DOMAIN Tail(q), i < j
      PROVE  Back(a, Tail(q)[i]) > Back(a, Tail(q)[j])
  <2>1. j + 1 \in DOMAIN q /\ i + 1 < j + 1 /\ Tail(q)[j] = q[j + 1]
    BY <1>1, <1>2, <1>4
  <2>2. QED
    BY <1>2, <2>1 DEF Way
<1>5. ASSUME NEW b \in Block, Back(a, b) \in 1 .. Back(a, q[i + 1])
      PROVE  b \in R
  <2>1. b \in P
    BY <1>2, <1>5 DEF Way
  <2>2. b # Head(q)
    <3>1. Back(a, b) \in Block /\ Back(a, q[1]) \in Block /\ Back(a, q[i + 1]) \in Block
      <4>1. q[1] \in Block /\ q[i + 1] \in Block
        BY <1>1, <1>2
      <4>2. QED
        BY <4>1, DistIs
    <3>2. Back(a, b) < Back(a, q[1])
      BY <1>3, <1>5, <3>1, Numbers DEF Block
    <3>3. QED
      BY <1>1, <3>1, <3>2, Numbers DEF Block
  <2>3. QED
    BY <2>1, <2>2
<1>6. QED
  BY <1>2, <1>3, <1>4, <1>5

LEMMA WayPrefix ==
    ASSUME NEW A \in Seq(Block), NEW B \in Seq(Block), NEW a, NEW P, Way(A \o B, a, P)
    PROVE  Way(A, a, P) /\ Way(B, a, P)
<1>1. \A i \in DOMAIN A : i \in DOMAIN (A \o B) /\ (A \o B)[i] = A[i]
  BY PartsOfConcat
<1>2. \A i \in DOMAIN B : Len(A) + i \in DOMAIN (A \o B) /\ (A \o B)[Len(A) + i] = B[i]
  BY PartsOfConcat
<1>3. Way(A, a, P)
  BY <1>1 DEF Way
<1>4. Way(B, a, P)
  <2>1. \A i, j \in DOMAIN B : i < j => Len(A) + i < Len(A) + j
    OBVIOUS
  <2>2. QED
    BY <1>2, <2>1 DEF Way
<1>5. QED
  BY <1>3, <1>4

\* The blocks that were flagged cannot make a full circle.
LEMMA NotAllFlagged ==
    ASSUME NEW P, P \subseteq Block, Cardinality(P) <= MAX_UNACKED_BLOCKS
    PROVE  ~(Block \subseteq P)
<1>1. Cardinality(Block) = BLOCKS
  <2>1. Cardinality(0 .. BLOCKS - 1) = IF 0 > BLOCKS - 1 THEN 0 ELSE BLOCKS - 1 - 0 + 1
    <3>1. 0 \in Int /\ BLOCKS - 1 \in Int
      BY Numbers
    <3>2. QED
      BY <3>1, FS_Interval
  <2>2. QED
    BY <2>1, Numbers DEF Block
<1>2. SUFFICES ASSUME P = Block
               PROVE  FALSE
  OBVIOUS
<1>3. QED
  BY <1>1, <1>2, Numbers

\* Sending n blocks behind the ones of A.
LEMMA WaySend ==
    ASSUME NEW A \in Seq(Block), NEW P, P \subseteq Block, block_no \in Block,
           Way(A, block_no, P), NEW n \in Nat, n > 0,
           Cardinality(P \cup NextBlocks(n)) <= MAX_UNACKED_BLOCKS
    PROVE  LET new == [k \in 1 .. n |-> (block_no + k - 1) % BLOCKS]
           IN  /\ new \in Seq(Block)
               /\ Way(A \o new, (block_no + n) % BLOCKS, P \cup NextBlocks(n))
<1> DEFINE new == [k \in 1 .. n |-> (block_no + k - 1) % BLOCKS]
           a == block_no
           c == (block_no + n) % BLOCKS
           R == P \cup NextBlocks(n)
<1>1. ~(Block \subseteq R)
  BY NextBlocksAreBlocks, NotAllFlagged
<1>2. n \in 1 .. BLOCKS - 1
  <2>1. 0 \in 0 .. BLOCKS - 1 /\ 1 .. 0 = {}
    BY Numbers
  <2>2. 0 + n < BLOCKS
    BY <1>1, <2>1, NoRunOver
  <2>3. QED
    BY <2>2, Numbers
<1>3. \A i \in DOMAIN A : /\ A[i] \in Block /\ Back(a, A[i]) \in 0 .. BLOCKS - 1
                          /\ Back(a, A[i]) + n < BLOCKS
                          /\ Back(c, A[i]) = Back(a, A[i]) + n
  <2> SUFFICES ASSUME NEW i \in DOMAIN A
               PROVE  /\ A[i] \in Block /\ Back(a, A[i]) \in 0 .. BLOCKS - 1
                      /\ Back(a, A[i]) + n < BLOCKS
                      /\ Back(c, A[i]) = Back(a, A[i]) + n
    OBVIOUS
  <2>1. A[i] \in Block
    OBVIOUS
  <2>2. Back(a, A[i]) \in 0 .. BLOCKS - 1
    BY <2>1, DistIs DEF Block
  <2>3. \A b \in Block : Back(a, b) \in 1 .. Back(a, A[i]) => b \in P
    BY DEF Way
  <2>4. Back(a, A[i]) + n < BLOCKS
    BY <1>1, <2>2, <2>3, NoRunOver
  <2>5. QED
    BY <1>2, <2>1, <2>2, <2>4, Further
<1>4. \A k \in 1 .. n : new[k] \in Block /\ Back(c, new[k]) = n - k + 1
  BY <1>2, JustSent
<1>5. new \in Seq(Block) /\ DOMAIN new = 1 .. n /\ Len(new) = n
  BY <1>4
<1>6. c \in Block
  BY <1>2, Further
<1>7. ASSUME NEW b \in Block, Back(c, b) \in 1 .. n
      PROVE  b \in R
  <2>1. SUFFICES b \in NextBlocks(n)
    OBVIOUS
  <2> DEFINE e == Back(c, b)
  <2>0. e \in 1 .. n
    BY <1>7
  <2> HIDE DEF e
  <2>2. n - e \in 0 .. n - 1 /\ n - e \in 0 .. BLOCKS
    BY <1>2, <2>0, Numbers
  <2>3. (a + (n - e)) % BLOCKS = b
    <3> DEFINE k == n - e
    <3>1. (a + k) % BLOCKS = IF a + k < BLOCKS THEN a + k ELSE a + k - BLOCKS
      BY <2>2, SumIs
    <3>2. c = IF a + n < BLOCKS THEN a + n ELSE a + n - BLOCKS
      <4>1. n \in 0 .. BLOCKS
        BY <1>2, Numbers
      <4>2. QED
        BY <4>1, SumIs
    <3>3. a \in Nat /\ b \in Nat /\ BLOCKS \in Nat /\ a < BLOCKS /\ b < BLOCKS
      BY Numbers DEF Block
    <3> HIDE DEF a, c
    <3>4. IF a + k < BLOCKS THEN a + k = b ELSE a + k - BLOCKS = b
      BY <1>2, <2>0, <3>2, <3>3 DEF Back, e
    <3>5. QED
      BY <3>1, <3>4
  <2>4. QED
    BY <2>2, <2>3 DEF NextBlocks
<1> DEFINE q == A \o new
<1> HIDE DEF new, c, R
<1>8. \A i \in DOMAIN q :
         \/ /\ i \in DOMAIN A /\ q[i] = A[i] /\ i <= Len(A)
            /\ Back(c, q[i]) = Back(a, A[i]) + n
         \/ /\ i - Len(A) \in 1 .. n /\ i > Len(A)
            /\ Back(c, q[i]) = n - (i - Len(A)) + 1
  <2> SUFFICES ASSUME NEW i \in DOMAIN q
               PROVE  \/ /\ i \in DOMAIN A /\ q[i] = A[i] /\ i <= Len(A)
                         /\ Back(c, q[i]) = Back(a, A[i]) + n
                      \/ /\ i - Len(A) \in 1 .. n /\ i > Len(A)
                         /\ Back(c, q[i]) = n - (i - Len(A)) + 1
    OBVIOUS
  <2>0. q \in Seq(Block) /\ i \in Nat /\ Len(A) \in Nat /\ DOMAIN A = 1 .. Len(A)
    BY <1>5, ConcatProperties
  <2>1. CASE i \in DOMAIN A
    <3>1. q[i] = A[i]
      BY <1>5, <2>1, PartsOfConcat
    <3>2. QED
      BY <1>3, <2>0, <2>1, <3>1
  <2>2. CASE i - Len(A) \in DOMAIN new /\ q[i] = new[i - Len(A)]
    <3>1. i - Len(A) \in 1 .. n
      BY <1>5, <2>2
    <3>2. QED
      BY <1>4, <2>0, <2>2, <3>1
  <2>3. QED
    BY <1>5, <2>1, <2>2, PartsOfConcat
<1>9. Way(q, c, R)
  <2> SUFFICES ASSUME NEW i \in DOMAIN q
               PROVE  /\ Back(c, q[i]) >= 1
                      /\ \A j \in DOMAIN q : i < j => Back(c, q[i]) > Back(c, q[j])
                      /\ \A b \in Block : Back(c, b) \in 1 .. Back(c, q[i]) => b \in R
    BY DEF Way
  <2>0. q \in Seq(Block) /\ DOMAIN q \subseteq Nat /\ Len(A) \in Nat
    BY <1>5, ConcatProperties
  <2>1. CASE i \in DOMAIN A /\ q[i] = A[i] /\ i <= Len(A) /\ Back(c, q[i]) = Back(a, A[i]) + n
    <3>0. Back(a, A[i]) \in 0 .. BLOCKS - 1 /\ Back(a, A[i]) >= 1
      BY <1>3, <2>1 DEF Way
    <3>1. Back(c, q[i]) >= 1
      BY <2>1, <3>0, Numbers
    <3>2. ASSUME NEW j \in DOMAIN q, i < j
          PROVE  Back(c, q[i]) > Back(c, q[j])
      <4>1. CASE j \in DOMAIN A /\ Back(c, q[j]) = Back(a, A[j]) + n
        <5>1. Back(a, A[i]) > Back(a, A[j])
          BY <2>1, <3>2, <4>1 DEF Way
        <5>2. Back(a, A[j]) \in 0 .. BLOCKS - 1
          BY <1>3, <4>1
        <5>3. QED
          BY <2>1, <3>0, <4>1, <5>1, <5>2, Numbers
      <4>2. CASE j - Len(A) \in 1 .. n /\ Back(c, q[j]) = n - (j - Len(A)) + 1
        BY <2>0, <2>1, <3>0, <4>2, Numbers
      <4>3. QED
        BY <1>8, <4>1, <4>2
    <3>3. ASSUME NEW b \in Block, Back(c, b) \in 1 .. Back(c, q[i])
          PROVE  b \in R
      <4>1. CASE Back(c, b) \in 1 .. n
        BY <1>7, <4>1
      <4>2. CASE Back(c, b) \notin 1 .. n
        <5>0. Back(c, b) \in Int /\ Back(c, b) >= 1
          BY <3>3
        <5>1. Back(c, b) > n
          BY <4>2, <5>0
        <5>2. Back(c, b) = Back(a, b) + n
          BY <1>2, <5>1, Further DEF c
        <5>3. Back(a, b) \in 0 .. BLOCKS - 1
          BY DistIs DEF Block
        <5>4. Back(a, b) \in 1 .. Back(a, A[i])
          BY <2>1, <3>0, <3>3, <5>1, <5>2, <5>3, Numbers
        <5>5. b \in P
          BY <2>1, <5>4 DEF Way
        <5>6. QED
          BY <5>5 DEF R
      <4>3. QED
        BY <4>1, <4>2
    <3>4. QED
      BY <3>1, <3>2, <3>3
  <2>2. CASE i - Len(A) \in 1 .. n /\ i > Len(A) /\ Back(c, q[i]) = n - (i - Len(A)) + 1
    <3>1. Back(c, q[i]) \in 1 .. n
      BY <2>0, <2>2
    <3>2. ASSUME NEW j \in DOMAIN q, i < j
          PROVE  Back(c, q[i]) > Back(c, q[j])
      <4>1. j - Len(A) \in 1 .. n /\ Back(c, q[j]) = n - (j - Len(A)) + 1
        BY <1>8, <2>0, <2>2, <3>2
      <4>2. QED
        BY <2>0, <2>2, <3>2, <4>1
    <3>3. ASSUME NEW b \in Block, Back(c, b) \in 1 .. Back(c, q[i])
          PROVE  b \in R
      <4>1. Back(c, b) \in 1 .. n
        BY <3>1, <3>3
      <4>2. QED
        BY <1>7, <4>1
    <3>4. QED
      BY <3>1, <3>2, <3>3
  <2>3. QED
    BY <1>8, <2>1, <2>2
<1>10. QED
  BY <1>5, <1>9 DEF new, c, R

-----------------------------------------------------------------------------
(* The invariant of the path *)

ConfirmPdu == [block : Block, timestamp : 0 .. U16 - 1]

PathTypes ==
    /\ AckOnReceive \in BOOLEAN
    /\ latest \in BOOLEAN /\ notify \in BOOLEAN /\ publishing \in BOOLEAN /\ resizing \in BOOLEAN
    /\ task \in {"take", "wait", "encode"}
    /\ live \in Seq(Block) /\ wire \in Seq(Block) /\ playing \in Seq(Block)
    /\ confirms \in Seq(ConfirmPdu)

\* The confirmed blocks of which the server does not know yet.
Confirming == [i \in DOMAIN confirms |-> confirms[i].block]

\* What a client that confirms after playing has still to confirm, the oldest
\* first, and the same for one that confirms on receipt.
ToPlay    == Confirming \o (playing \o (wire \o live))
ToReceive == Confirming \o (wire \o live)

PlayOrder == ~AckOnReceive => Way(ToPlay, block_no, block_pending)

ResizesCounted == resizes \in Nat /\ (resizes = 0 => ~resizing)

\* Flags of waves that were replaced in the slot never fill the window.
LostBlocks == block_pending \ {ToReceive[i] : i \in DOMAIN ToReceive}
Refill == AckOnReceive /\ resizes = 0 => Cardinality(LostBlocks) < MAX_UNACKED_BLOCKS

PInv == AInv /\ PathTypes /\ SubscriberWakes /\ PlayOrder /\ ResizesCounted /\ Refill

LEMMA BlockOfConfirm ==
    ASSUME NEW c \in ConfirmPdu
    PROVE  c.block \in Block
  BY DEF ConfirmPdu

LEMMA FunctionSeq ==
    ASSUME NEW S, NEW n \in Nat, NEW f \in [1 .. n -> S]
    PROVE  f \in Seq(S) /\ Len(f) = n
  OBVIOUS

LEMMA FlowTypes ==
    ASSUME PathTypes
    PROVE  /\ Confirming \in Seq(Block) /\ Len(Confirming) = Len(confirms)
           /\ wire \o live \in Seq(Block) /\ playing \o (wire \o live) \in Seq(Block)
           /\ ToPlay \in Seq(Block) /\ ToReceive \in Seq(Block)
<1>1. Confirming \in Seq(Block) /\ Len(Confirming) = Len(confirms)
  <2>1. \A i \in 1 .. Len(confirms) : confirms[i].block \in Block
    BY BlockOfConfirm DEF PathTypes
  <2>2. DOMAIN confirms = 1 .. Len(confirms) /\ Len(confirms) \in Nat
    BY DEF PathTypes
  <2>3. Confirming \in [1 .. Len(confirms) -> Block]
    BY <2>1, <2>2 DEF Confirming
  <2>4. QED
    BY <2>2, <2>3, FunctionSeq
<1>2. wire \o live \in Seq(Block)
  BY ConcatProperties DEF PathTypes
<1>3. playing \o (wire \o live) \in Seq(Block)
  BY <1>2, ConcatProperties DEF PathTypes
<1>4. QED
  BY <1>1, <1>2, <1>3, ConcatProperties DEF ToPlay, ToReceive

\* A confirm that the client appends.
LEMMA ConfirmingGrows ==
    ASSUME PathTypes, NEW c \in ConfirmPdu, confirms' = Append(confirms, c)
    PROVE  confirms' \in Seq(ConfirmPdu) /\ Confirming' = Append(Confirming, c.block)
<1>1. /\ confirms \in Seq(ConfirmPdu) /\ confirms' \in Seq(ConfirmPdu)
      /\ Len(confirms') = Len(confirms) + 1 /\ Len(confirms) \in Nat
      /\ \A i \in 1 .. Len(confirms) + 1 :
            confirms'[i] = IF i <= Len(confirms) THEN confirms[i] ELSE c
  BY DEF PathTypes
<1>2. c.block \in Block
  BY DEF ConfirmPdu
<1>3. Confirming \in Seq(Block) /\ Len(Confirming) = Len(confirms)
      /\ \A i \in 1 .. Len(confirms) : Confirming[i] = confirms[i].block
  BY FlowTypes DEF Confirming, PathTypes
<1>4. Confirming' = [i \in 1 .. Len(confirms) + 1 |-> confirms'[i].block]
  BY <1>1 DEF Confirming
<1>5. Confirming' \in Seq(Block) /\ Len(Confirming') = Len(confirms) + 1
  <2>1. \A i \in 1 .. Len(confirms) + 1 : confirms'[i].block \in Block
    BY <1>1, BlockOfConfirm
  <2>2. Confirming' \in [1 .. Len(confirms) + 1 -> Block] /\ Len(confirms) + 1 \in Nat
    BY <1>1, <1>4, <2>1
  <2>3. QED
    BY <2>2, FunctionSeq
<1>6. /\ Append(Confirming, c.block) \in Seq(Block)
      /\ Len(Append(Confirming, c.block)) = Len(confirms) + 1
      /\ \A i \in 1 .. Len(confirms) + 1 :
            Append(Confirming, c.block)[i] = IF i <= Len(confirms) THEN Confirming[i] ELSE c.block
  BY <1>2, <1>3
<1>7. \A i \in 1 .. Len(confirms) + 1 : Confirming'[i] = Append(Confirming, c.block)[i]
  BY <1>1, <1>3, <1>4, <1>6
<1>8. QED
  BY <1>1, <1>5, <1>6, <1>7, SeqEqual

LEMMA ConfirmingShrinks ==
    ASSUME PathTypes, confirms # <<>>, confirms' = Tail(confirms)
    PROVE  /\ confirms' \in Seq(ConfirmPdu) /\ Head(confirms) \in ConfirmPdu
           /\ Confirming # <<>> /\ Confirming' = Tail(Confirming)
           /\ Head(Confirming) = Head(confirms).block
<1>1. /\ confirms \in Seq(ConfirmPdu) /\ confirms' \in Seq(ConfirmPdu)
      /\ Len(confirms') = Len(confirms) - 1 /\ Len(confirms) \in Nat \ {0}
      /\ Head(confirms) \in ConfirmPdu /\ Head(confirms) = confirms[1]
      /\ \A i \in 1 .. Len(confirms) - 1 : confirms'[i] = confirms[i + 1]
  BY DEF PathTypes
<1>2. /\ Confirming \in Seq(Block) /\ Len(Confirming) = Len(confirms)
      /\ \A i \in 1 .. Len(confirms) : Confirming[i] = confirms[i].block
  BY FlowTypes DEF Confirming, PathTypes
<1>3. Confirming' = [i \in 1 .. Len(confirms) - 1 |-> confirms'[i].block]
  BY <1>1 DEF Confirming
<1>4. Confirming' \in Seq(Block) /\ Len(Confirming') = Len(confirms) - 1
  <2>1. \A i \in 1 .. Len(confirms) - 1 : confirms'[i].block \in Block
    BY <1>1, BlockOfConfirm
  <2>2. Confirming' \in [1 .. Len(confirms) - 1 -> Block] /\ Len(confirms) - 1 \in Nat
    BY <1>1, <1>3, <2>1
  <2>3. QED
    BY <2>2, FunctionSeq
<1>5. /\ Confirming # <<>> /\ Tail(Confirming) \in Seq(Block)
      /\ Len(Tail(Confirming)) = Len(confirms) - 1
      /\ Head(Confirming) = Confirming[1]
      /\ \A i \in 1 .. Len(confirms) - 1 : Tail(Confirming)[i] = Confirming[i + 1]
  BY <1>1, <1>2
<1>6. \A i \in 1 .. Len(confirms) - 1 : Confirming'[i] = Tail(Confirming)[i]
  BY <1>1, <1>2, <1>3, <1>5
<1>7. Confirming' = Tail(Confirming)
  BY <1>4, <1>5, <1>6, SeqEqual
<1>8. QED
  BY <1>1, <1>2, <1>5, <1>7

\* Steps that leave the order of the blocks as it is, and the channel too.
LEMMA OrderStays ==
    ASSUME PInv, UNCHANGED <<block_no, block_pending, AckOnReceive>>,
           resizes' = 0 => resizes = 0,
           ~AckOnReceive => ToPlay' = ToPlay,
           AckOnReceive => ToReceive' = ToReceive
    PROVE  PlayOrder' /\ Refill'
<1>1. PlayOrder'
  BY DEF PInv, PlayOrder
<1>2. Refill'
  BY DEF PInv, Refill, LostBlocks
<1>3. QED
  BY <1>1, <1>2

LEMMA FlowStays ==
    ASSUME UNCHANGED <<live, wire, playing, confirms>>
    PROVE  UNCHANGED ToPlay /\ UNCHANGED ToReceive
  BY DEF ToPlay, ToReceive, Confirming

-----------------------------------------------------------------------------
(* The steps of the path *)

LEMMA ChannelRests ==
    ASSUME AInv, UNCHANGED rdpsndVars
    PROVE  AInv' /\ UNCHANGED <<block_no, block_pending>>
  BY NextAInv DEF rdpsndVars

\* The capture slot, the audio task and resizes leave the blocks alone.
LEMMA TaskKeeps ==
    ASSUME PInv, PublishStore \/ PublishNotify \/ RecvTake \/ RecvWake \/ BeginResize \/ EndResize
    PROVE  PInv'
<1>1. /\ UNCHANGED rdpsndVars /\ UNCHANGED <<live, wire, playing, confirms, AckOnReceive>>
  BY DEF PublishStore, PublishNotify, RecvTake, RecvWake, BeginResize, EndResize
<1>2. AInv' /\ UNCHANGED <<block_no, block_pending>>
  BY <1>1, ChannelRests DEF PInv
<1>3. PathTypes'
  BY <1>1 DEF PInv, PathTypes, PublishStore, PublishNotify, RecvTake, RecvWake, BeginResize,
              EndResize
<1>4. SubscriberWakes'
  BY DEF PInv, PathTypes, SubscriberWakes, PublishStore, PublishNotify, RecvTake, RecvWake,
         BeginResize, EndResize
<1>5. ResizesCounted' /\ (resizes' = 0 => resizes = 0)
  BY DEF PInv, PathTypes, ResizesCounted, PublishStore, PublishNotify, RecvTake, RecvWake,
         BeginResize, EndResize
<1>6. PlayOrder' /\ Refill'
  BY <1>1, <1>2, <1>5, FlowStays, OrderStays
<1>7. QED
  BY <1>2, <1>3, <1>4, <1>5, <1>6 DEF PInv

\* Steps of the channel alone that give out no block.
LEMMA ChannelKeeps ==
    ASSUME PInv, UNCHANGED pathVars, Setup \/ SilencePlays \/ UNCHANGED rdpsndVars
    PROVE  PInv'
<1>1. [RdpsndNext]_rdpsndVars /\ UNCHANGED <<block_no, block_pending>>
  BY DEF Setup, SilencePlays, Tick, OnAudioFormats, OnQualityMode, OnTrainingConfirm, RdpsndNext,
         sendVars, rdpsndVars
<1>2. AInv'
  BY <1>1, NextAInv DEF PInv
<1>3. PathTypes' /\ SubscriberWakes' /\ ResizesCounted'
  BY DEF PInv, PathTypes, SubscriberWakes, ResizesCounted, pathVars
<1>4. UNCHANGED <<live, wire, playing, confirms, AckOnReceive, resizes>>
  BY DEF pathVars
<1>5. PlayOrder' /\ Refill'
  BY <1>1, <1>4, FlowStays, OrderStays
<1>6. QED
  BY <1>2, <1>3, <1>5 DEF PInv

LEMMA WriteKeeps ==
    ASSUME PInv, WriteWave
    PROVE  PInv'
<1>1. /\ UNCHANGED rdpsndVars /\ wire' = wire \o live /\ live' = <<>>
      /\ UNCHANGED <<AckOnReceive, latest, notify, publishing, task, playing, confirms, resizing,
                     resizes>>
  BY DEF WriteWave
<1>2. AInv' /\ UNCHANGED <<block_no, block_pending>>
  BY <1>1, ChannelRests DEF PInv
<1>3. wire \o live \in Seq(Block) /\ (wire \o live) \o <<>> = wire \o live
  BY FlowTypes, ConcatEmptySeq DEF PInv
<1>4. PathTypes' /\ SubscriberWakes' /\ ResizesCounted'
  <2>1. wire' \in Seq(Block) /\ live' \in Seq(Block)
    BY <1>1, <1>3
  <2>2. QED
    BY <1>1, <2>1 DEF PInv, PathTypes, SubscriberWakes, ResizesCounted
<1>5. Confirming' = Confirming
  BY <1>1 DEF Confirming
<1>6. ToPlay' = ToPlay /\ ToReceive' = ToReceive
  BY <1>1, <1>3, <1>5 DEF ToPlay, ToReceive
<1>7. PlayOrder' /\ Refill'
  BY <1>1, <1>2, <1>6, OrderStays
<1>8. QED
  BY <1>2, <1>4, <1>7 DEF PInv

LEMMA ConfirmIsPdu ==
    ASSUME AInv, NEW b \in Block
    PROVE  Confirm(b) \in ConfirmPdu /\ Confirm(b).block = b
<1>1. now_ms \in Int
  BY ClockRange, Numbers DEF AInv
<1>2. now_ms % U16 \in 0 .. U16 - 1
  BY <1>1, Numbers, RemainderRange
<1>3. QED
  BY <1>2 DEF Confirm, ConfirmPdu

\* A block arrives: it moves from the wire to the play queue, and for a client
\* that confirms on receipt to the confirms as well.
LEMMA ReceiveKeeps ==
    ASSUME PInv, ClientReceives
    PROVE  PInv'
<1>0. PathTypes /\ AInv /\ wire # <<>> /\ wire \in Seq(Block) /\ Head(wire) \in Block
      /\ live \in Seq(Block) /\ playing \in Seq(Block)
  BY DEF PInv, PathTypes, ClientReceives
<1>1. /\ UNCHANGED rdpsndVars /\ wire' = Tail(wire) /\ playing' = Append(playing, Head(wire))
      /\ UNCHANGED <<AckOnReceive, latest, notify, publishing, task, live, resizing, resizes>>
  BY DEF ClientReceives
<1>2. AInv' /\ UNCHANGED <<block_no, block_pending>>
  BY <1>1, ChannelRests DEF PInv
<1>3. /\ wire \o live \in Seq(Block) /\ wire \o live # <<>> /\ Head(wire \o live) = Head(wire)
      /\ Tail(wire) \o live = Tail(wire \o live) /\ Confirming \in Seq(Block)
  BY <1>0, HeadLeaves, FlowTypes
<1>4. wire' \in Seq(Block) /\ playing' \in Seq(Block)
  BY <1>0, <1>1
<1>5. CASE AckOnReceive
  <2>1. confirms' = Append(confirms, Confirm(Head(wire)))
    BY <1>5 DEF ClientReceives
  <2>2. confirms' \in Seq(ConfirmPdu) /\ Confirming' = Append(Confirming, Head(wire))
    BY <1>0, <2>1, ConfirmIsPdu, ConfirmingGrows
  <2>3. ToReceive' = ToReceive
    BY <1>1, <1>3, <2>2, HeadMoves DEF ToReceive
  <2>4. PlayOrder' /\ Refill'
    BY <1>1, <1>2, <1>5, <2>3, OrderStays
  <2>5. PathTypes' /\ SubscriberWakes' /\ ResizesCounted'
    BY <1>1, <1>4, <2>2 DEF PInv, PathTypes, SubscriberWakes, ResizesCounted
  <2>6. QED
    BY <1>2, <2>4, <2>5 DEF PInv
<1>6. CASE ~AckOnReceive
  <2>1. confirms' = confirms /\ Confirming' = Confirming
    BY <1>6 DEF ClientReceives, Confirming
  <2>2. ToPlay' = ToPlay
    <3> DEFINE X == wire \o live
    <3>1. Append(playing, Head(X)) \o Tail(X) = playing \o X
      BY <1>0, <1>3, HeadMoves
    <3>2. playing' \o (wire' \o live') = playing \o (wire \o live)
      BY <1>1, <1>3, <3>1
    <3>3. QED
      BY <2>1, <3>2 DEF ToPlay
  <2>3. PlayOrder' /\ Refill'
    BY <1>1, <1>2, <1>6, <2>2, OrderStays
  <2>4. PathTypes' /\ SubscriberWakes' /\ ResizesCounted'
    BY <1>1, <1>4, <2>1 DEF PInv, PathTypes, SubscriberWakes, ResizesCounted
  <2>5. QED
    BY <1>2, <2>3, <2>4 DEF PInv
<1>7. QED
  BY <1>5, <1>6

\* A block is played: it moves from the play queue to the confirms.
LEMMA PlayKeeps ==
    ASSUME PInv, ClientPlays
    PROVE  PInv'
<1>0. PathTypes /\ AInv /\ playing # <<>> /\ playing \in Seq(Block) /\ Head(playing) \in Block
  BY DEF PInv, PathTypes, ClientPlays
<1>1. /\ Tick /\ playing' = Tail(playing)
      /\ UNCHANGED <<AckOnReceive, latest, notify, publishing, task, live, wire, resizing, resizes>>
  BY DEF ClientPlays
<1>2. AInv' /\ UNCHANGED <<block_no, block_pending>>
  BY <1>0, <1>1, NextAInv DEF RdpsndNext, Tick, sendVars
<1>3. /\ wire \o live \in Seq(Block) /\ Confirming \in Seq(Block)
      /\ playing \o (wire \o live) \in Seq(Block) /\ playing \o (wire \o live) # <<>>
      /\ Head(playing \o (wire \o live)) = Head(playing)
      /\ Tail(playing) \o (wire \o live) = Tail(playing \o (wire \o live))
  BY <1>0, HeadLeaves, FlowTypes
<1>4. playing' \in Seq(Block)
  BY <1>0, <1>1
<1>5. CASE ~AckOnReceive
  <2>1. confirms' = Append(confirms, Confirm(Head(playing)))
    BY <1>5 DEF ClientPlays
  <2>2. confirms' \in Seq(ConfirmPdu) /\ Confirming' = Append(Confirming, Head(playing))
    BY <1>0, <2>1, ConfirmIsPdu, ConfirmingGrows
  <2>3. ToPlay' = ToPlay
    <3> DEFINE X == playing \o (wire \o live)
    <3>1. Append(Confirming, Head(X)) \o Tail(X) = Confirming \o X
      BY <1>3, HeadMoves
    <3>2. Confirming' \o (playing' \o (wire' \o live')) = Append(Confirming, Head(X)) \o Tail(X)
      BY <1>1, <1>3, <2>2
    <3>3. QED
      BY <3>1, <3>2 DEF ToPlay
  <2>4. PlayOrder' /\ Refill'
    BY <1>1, <1>2, <1>5, <2>3, OrderStays
  <2>5. PathTypes' /\ SubscriberWakes' /\ ResizesCounted'
    BY <1>1, <1>4, <2>2 DEF PInv, PathTypes, SubscriberWakes, ResizesCounted
  <2>6. QED
    BY <1>2, <2>4, <2>5 DEF PInv
<1>6. CASE AckOnReceive
  <2>1. confirms' = confirms /\ Confirming' = Confirming
    BY <1>6 DEF ClientPlays, Confirming
  <2>2. ToReceive' = ToReceive
    BY <1>1, <2>1 DEF ToReceive
  <2>3. PlayOrder' /\ Refill'
    BY <1>1, <1>2, <1>6, <2>2, OrderStays
  <2>4. PathTypes' /\ SubscriberWakes' /\ ResizesCounted'
    BY <1>1, <1>4, <2>1 DEF PInv, PathTypes, SubscriberWakes, ResizesCounted
  <2>5. QED
    BY <1>2, <2>3, <2>4 DEF PInv
<1>7. QED
  BY <1>5, <1>6

\* Before the last block of a wave the window was not full.
LEMMA RoomForLast ==
    ASSUME AInv, NEW n \in Nat, n > 0, \A k \in 0 .. n - 1 : ~should_skip_send(k)
    PROVE  Cardinality(block_pending \cup NextBlocks(n - 1)) < MAX_UNACKED_BLOCKS
<1> DEFINE m == n - 1
           c == Cardinality(block_pending \cup NextBlocks(m))
<1>1. m \in Nat /\ m \in 0 .. n - 1 /\ \A k \in 0 .. m - 1 : ~should_skip_send(k)
  OBVIOUS
<1>2. c <= MAX_UNACKED_BLOCKS
  BY <1>1, WindowNotExceeded
<1>3. c \in Nat
  <2>1. block_pending \cup NextBlocks(m) \subseteq Block
    BY <1>1, NextBlocksAreBlocks DEF AInv, RdpsndTypeOK
  <2>2. QED
    BY <2>1, BlocksFinite
<1>4. ~(c % BLOCKS >= MAX_UNACKED_BLOCKS)
  BY <1>1 DEF should_skip_send
<1> HIDE DEF c
<1>5. c % BLOCKS = c
  <2>1. c < BLOCKS
    BY <1>2, <1>3, Numbers
  <2>2. QED
    BY <1>3, <2>1, Numbers, RemainderOfSmall
<1>6. c < MAX_UNACKED_BLOCKS
  BY <1>3, <1>4, <1>5, Numbers
<1>7. QED
  BY <1>6 DEF c

\* Concatenation under a name of its own.
Joined(p, q) == p \o q

LEMMA JoinedIsSeq ==
    ASSUME NEW S, NEW p \in Seq(S), NEW q \in Seq(S)
    PROVE  Joined(p, q) \in Seq(S)
  BY ConcatProperties DEF Joined

LEMMA JoinedAssociates ==
    ASSUME NEW S, NEW p \in Seq(S), NEW q \in Seq(S), NEW r \in Seq(S)
    PROVE  Joined(Joined(p, q), r) = Joined(p, Joined(q, r))
  BY ConcatAssociative DEF Joined

Has(q, x) == \E i \in DOMAIN q : q[i] = x

LEMMA LastHas ==
    ASSUME NEW S, NEW p \in Seq(S), NEW q \in Seq(S), NEW x, Has(q, x)
    PROVE  Has(Joined(p, q), x)
<1>1. PICK i \in DOMAIN q : q[i] = x
  BY DEF Has
<1>2. Len(p) + i \in DOMAIN (p \o q) /\ (p \o q)[Len(p) + i] = q[i]
  BY ConcatProperties
<1>3. Len(p) + i \in DOMAIN Joined(p, q) /\ Joined(p, q)[Len(p) + i] = x
  BY <1>1, <1>2 DEF Joined
<1>4. QED
  BY <1>3, Zenon DEF Has

LEMMA FourInARow ==
    ASSUME NEW S, NEW a \in Seq(S), NEW b \in Seq(S), NEW c \in Seq(S), NEW d \in Seq(S)
    PROVE  Joined(a, Joined(b, Joined(c, d))) = Joined(Joined(a, Joined(b, c)), d)
<1>1. Joined(b, c) \in Seq(S)
  BY JoinedIsSeq
<1>2. Joined(Joined(b, c), d) = Joined(b, Joined(c, d))
  BY JoinedAssociates
<1>3. Joined(Joined(a, Joined(b, c)), d) = Joined(a, Joined(Joined(b, c), d))
  BY <1>1, JoinedAssociates
<1>4. QED
  BY <1>2, <1>3

\* The audio task stores a wave: it replaces what the writer has not taken.
LEMMA StoreKeeps ==
    ASSUME PInv, NEW chunks \in 1 .. MaxChunks, encode_wave(chunks),
           live' = [k \in 1 .. BlocksSent(chunks) |-> (block_no + k - 1) % BLOCKS],
           UNCHANGED <<AckOnReceive, wire, playing, confirms, resizes>>
    PROVE  AInv' /\ live' \in Seq(Block) /\ PlayOrder' /\ Refill'
<1> DEFINE n == BlocksSent(chunks)
           new == [k \in 1 .. n |-> (block_no + k - 1) % BLOCKS]
           P == block_pending
<1>0. AInv /\ PathTypes /\ block_no \in Block /\ P \subseteq Block
  BY DEF PInv, AInv, RdpsndTypeOK
<1>1. n \in Nat /\ n > 0 /\ \A k \in 0 .. n - 1 : ~should_skip_send(k)
  BY FirstRefusal, Numbers DEF encode_wave
<1>2. block_no' = (block_no + n) % BLOCKS /\ block_pending' = P \cup NextBlocks(n)
  BY DEF encode_wave, note_send
<1>3. AInv'
  BY <1>0, EncodeKeeps
<1> HIDE DEF n
<1>4. live' = new
  BY DEF n
<1>5. Cardinality(P \cup NextBlocks(n)) <= MAX_UNACKED_BLOCKS
  BY <1>0, <1>1, WindowNotExceeded
<1>6. ASSUME NEW A \in Seq(Block), Way(A, block_no, P)
      PROVE  new \in Seq(Block) /\ Way(A \o new, block_no', block_pending')
  BY <1>0, <1>1, <1>2, <1>5, <1>6, WaySend
<1>7. new \in Seq(Block)
  <2>1. <<>> \in Seq(Block) /\ Way(<<>>, block_no, P)
    BY DEF Way
  <2>2. QED
    BY <1>6, <2>1
<1>8. Confirming' = Confirming /\ Confirming \in Seq(Block)
      /\ wire \in Seq(Block) /\ live \in Seq(Block) /\ playing \in Seq(Block)
  BY <1>0, FlowTypes DEF Confirming, PathTypes
<1> HIDE DEF new
<1>9. PlayOrder'
  <2> SUFFICES ASSUME ~AckOnReceive
               PROVE  Way(ToPlay', block_no', block_pending')
    BY DEF PlayOrder
  <2> DEFINE A == Confirming \o (playing \o wire)
  <2>1. A \in Seq(Block) /\ playing \o wire \in Seq(Block)
    BY <1>8, ConcatProperties
  <2>2. \A l \in Seq(Block) : Confirming \o (playing \o (wire \o l)) = A \o l
    <3> TAKE l \in Seq(Block)
    <3>1. Joined(Confirming, Joined(playing, Joined(wire, l))) = Joined(Joined(Confirming, Joined(playing, wire)), l)
      BY <1>8, FourInARow
    <3>2. QED
      BY <3>1 DEF Joined
  <2>3. ToPlay = A \o live /\ ToPlay' = A \o new
    BY <1>4, <1>7, <1>8, <2>2 DEF ToPlay
  <2> HIDE DEF A
  <2>4. Way(A, block_no, P)
    BY <1>8, <2>1, <2>3, WayPrefix DEF PInv, PlayOrder
  <2>5. QED
    BY <1>6, <2>1, <2>3, <2>4
<1>10. Refill'
  <2> DEFINE O == P \cup NextBlocks(n - 1)
  <2>1. O \subseteq Block /\ IsFiniteSet(O) /\ Cardinality(O) \in Nat
        /\ Cardinality(O) < MAX_UNACKED_BLOCKS
    <3>1. n - 1 \in Nat
      BY <1>1
    <3>2. O \subseteq Block
      BY <1>0, <3>1, NextBlocksAreBlocks
    <3>3. QED
      BY <1>0, <1>1, <3>2, BlocksFinite, RoomForLast
  <2>2. \A b \in NextBlocks(n) : \E i \in DOMAIN ToReceive' : ToReceive'[i] = b
    <3> TAKE b \in NextBlocks(n)
    <3>1. PICK k \in 0 .. n - 1 : b = (block_no + k) % BLOCKS
      BY DEF NextBlocks
    <3>2. k + 1 \in 1 .. n /\ k + 1 - 1 = k
      BY <1>1, <3>1
    <3>3. k + 1 \in DOMAIN new /\ new[k + 1] = b
      BY <1>1, <3>1, <3>2 DEF new
    <3>4. Has(new, b)
      BY <3>3 DEF Has
    <3>5. Has(Joined(wire, new), b) /\ Joined(wire, new) \in Seq(Block)
      BY <1>7, <1>8, <3>4, LastHas, JoinedIsSeq
    <3>6. Has(Joined(Confirming, Joined(wire, new)), b)
      BY <1>8, <3>5, LastHas
    <3>7. ToReceive' = Joined(Confirming, Joined(wire, new))
      BY <1>4, <1>8 DEF ToReceive, Joined
    <3>8. QED
      BY <3>6, <3>7 DEF Has
  <2>3. LostBlocks' \subseteq O
    BY <1>2, <2>2 DEF LostBlocks
  <2> HIDE DEF O
  <2>4. Cardinality(LostBlocks') \in Nat /\ Cardinality(LostBlocks') <= Cardinality(O)
    BY <2>1, <2>3, FS_Subset, FS_CardinalityType
  <2>5. Cardinality(LostBlocks') < MAX_UNACKED_BLOCKS
    BY <2>1, <2>4, Numbers
  <2>6. QED
    BY <2>5 DEF Refill
<1>11. QED
  BY <1>3, <1>4, <1>7, <1>9, <1>10

LEMMA SendKeeps ==
    ASSUME PInv, NEW chunks \in 1 .. MaxChunks, send_wave_frames(chunks)
    PROVE  PInv'
<1>1. /\ task' = "take" /\ task = "encode"
      /\ UNCHANGED <<AckOnReceive, latest, notify, publishing, published, wire, playing, confirms,
                     resizing, resizes>>
  BY DEF send_wave_frames
<1>2. AInv' /\ live' \in Seq(Block) /\ PlayOrder' /\ Refill'
  <2>1. CASE UNCHANGED <<rdpsndVars, live>>
    <3>1. AInv' /\ UNCHANGED <<block_no, block_pending>>
      BY <2>1, ChannelRests DEF PInv
    <3>2. live' \in Seq(Block)
      BY <2>1 DEF PInv, PathTypes
    <3>3. QED
      BY <1>1, <2>1, <3>1, <3>2, FlowStays, OrderStays
  <2>2. CASE /\ encode_wave(chunks)
             /\ live' = [k \in 1 .. BlocksSent(chunks) |-> (block_no + k - 1) % BLOCKS]
    BY <1>1, <2>2, StoreKeeps
  <2>3. QED
    BY <2>1, <2>2 DEF send_wave_frames
<1>3. PathTypes' /\ SubscriberWakes' /\ ResizesCounted'
  BY <1>1, <1>2 DEF PInv, PathTypes, SubscriberWakes, ResizesCounted
<1>4. QED
  BY <1>2, <1>3 DEF PInv

\* The session loop reads the oldest confirm, or loses it in a resize.
LEMMA ReadKeeps ==
    ASSUME PInv, SessionReadsConfirm
    PROVE  PInv'
<1> DEFINE b == Head(confirms).block
           t == Head(confirms).timestamp
<1>0. AInv /\ PathTypes /\ block_no \in Block /\ confirms # <<>>
  BY DEF PInv, AInv, RdpsndTypeOK, SessionReadsConfirm
<1>1. /\ confirms' = Tail(confirms)
      /\ UNCHANGED <<AckOnReceive, latest, notify, publishing, task, published, live, wire, playing,
                     resizing, resizes>>
  BY DEF SessionReadsConfirm
<1>2. /\ confirms' \in Seq(ConfirmPdu) /\ Head(confirms) \in ConfirmPdu
      /\ Confirming # <<>> /\ Confirming' = Tail(Confirming) /\ Head(Confirming) = b
  BY <1>0, <1>1, ConfirmingShrinks
<1>3. b \in Block /\ t \in 0 .. U16 - 1
  BY <1>2 DEF ConfirmPdu
<1>4. /\ ToPlay \in Seq(Block) /\ ToPlay # <<>> /\ Head(ToPlay) = b /\ ToPlay' = Tail(ToPlay)
      /\ ToReceive \in Seq(Block) /\ ToReceive # <<>> /\ Head(ToReceive) = b
      /\ ToReceive' = Tail(ToReceive)
  <2>1. /\ Confirming \in Seq(Block) /\ wire \o live \in Seq(Block)
        /\ playing \o (wire \o live) \in Seq(Block)
    BY <1>0, FlowTypes
  <2>2. ToPlay # <<>> /\ Head(ToPlay) = b /\ ToPlay' = Tail(ToPlay)
    BY <1>1, <1>2, <2>1, HeadLeaves DEF ToPlay
  <2>3. ToReceive # <<>> /\ Head(ToReceive) = b /\ ToReceive' = Tail(ToReceive)
    BY <1>1, <1>2, <2>1, HeadLeaves DEF ToReceive
  <2>4. QED
    BY <1>0, <2>2, <2>3, FlowTypes
<1> HIDE DEF b, t
<1>5. PathTypes' /\ SubscriberWakes' /\ ResizesCounted'
  BY <1>1, <1>2 DEF PInv, PathTypes, SubscriberWakes, ResizesCounted
<1>6. /\ AInv' /\ block_no' = block_no
      /\ block_pending' = block_pending \/ block_pending' = block_pending \ {b}
      /\ ~resizing => block_pending' = block_pending \ {b}
  <2>1. CASE resizing
    <3>1. UNCHANGED rdpsndVars
      BY <2>1 DEF SessionReadsConfirm
    <3>2. QED
      BY <1>0, <2>1, <3>1, ChannelRests
  <2>2. CASE ~resizing
    <3>1. on_wave_confirm(b, t)
      BY <2>2 DEF SessionReadsConfirm, b, t
    <3>2. AInv'
      BY <1>0, <1>3, <3>1, ConfirmKeeps
    <3>3. block_no' = block_no
      BY <3>1, ConfirmLeaves DEF sendVars
    <3>4. block_pending' = block_pending \ {b}
      BY <3>1 DEF on_wave_confirm, ConfirmPending, ConfirmAgain
    <3>5. QED
      BY <3>2, <3>3, <3>4
  <2>3. QED
    BY <2>1, <2>2
<1>7. PlayOrder'
  <2> SUFFICES ASSUME ~AckOnReceive
               PROVE  Way(Tail(ToPlay), block_no, block_pending')
    BY <1>1, <1>4, <1>6 DEF PlayOrder
  <2>1. Way(ToPlay, block_no, block_pending)
    BY DEF PInv, PlayOrder
  <2>2. block_pending \ {Head(ToPlay)} \subseteq block_pending'
    BY <1>4, <1>6
  <2>3. QED
    BY <1>0, <1>4, <2>1, <2>2, WayTail
<1>8. Refill'
  <2> SUFFICES ASSUME AckOnReceive, resizes = 0
               PROVE  Cardinality(LostBlocks') < MAX_UNACKED_BLOCKS
    BY <1>1 DEF Refill
  <2>1. block_pending' = block_pending \ {b}
    BY <1>6 DEF PInv, ResizesCounted
  <2>2. \A i \in DOMAIN ToReceive : ToReceive[i] = b \/ \E j \in DOMAIN ToReceive' : ToReceive'[j] = ToReceive[i]
    <3> DEFINE q == ToReceive
    <3>1. q \in Seq(Block) /\ q # <<>> /\ q[1] = b
      BY <1>4
    <3> HIDE DEF q
    <3>2. ASSUME NEW i \in DOMAIN q, i # 1
          PROVE  i - 1 \in DOMAIN Tail(q) /\ Tail(q)[i - 1] = q[i]
      BY <3>1, <3>2
    <3>3. \A i \in DOMAIN q : q[i] = b \/ \E j \in DOMAIN Tail(q) : Tail(q)[j] = q[i]
      BY <3>1, <3>2
    <3>4. QED
      BY <1>4, <3>3 DEF q
  <2>3. LostBlocks' \subseteq LostBlocks
    BY <2>1, <2>2 DEF LostBlocks
  <2>4. LostBlocks \subseteq Block
    BY DEF LostBlocks, PInv, AInv, RdpsndTypeOK
  <2>5. /\ Cardinality(LostBlocks) \in Nat /\ Cardinality(LostBlocks') \in Nat
        /\ Cardinality(LostBlocks') <= Cardinality(LostBlocks)
    BY <2>3, <2>4, BlocksFinite, FS_Subset
  <2>6. Cardinality(LostBlocks) < MAX_UNACKED_BLOCKS
    BY DEF PInv, Refill
  <2>7. QED
    BY <2>5, <2>6, Numbers
<1>9. QED
  BY <1>5, <1>6, <1>7, <1>8 DEF PInv

-----------------------------------------------------------------------------
(***************************************************************************)
(* The theorem about the path.                                             *)
(***************************************************************************)

LEMMA InitPInv == AudioInit => PInv
<1> SUFFICES ASSUME AudioInit PROVE PInv
  OBVIOUS
<1>1. AInv
  BY InitAInv DEF AudioInit
<1>2. PathTypes /\ SubscriberWakes /\ ResizesCounted
  <2>0. \A S : <<>> \in Seq(S)
    OBVIOUS
  <2>1. PathTypes
    BY <2>0, Zenon DEF AudioInit, PathTypes
  <2>2. SubscriberWakes
    BY DEF AudioInit, SubscriberWakes
  <2>3. ResizesCounted
    BY DEF AudioInit, ResizesCounted
  <2>4. QED
    BY <2>1, <2>2, <2>3
<1>3. Confirming = <<>>
  BY DEF AudioInit, Confirming
<1>4. PlayOrder
  <2>1. ToPlay = <<>>
    BY <1>3 DEF AudioInit, ToPlay
  <2>2. QED
    BY <2>1 DEF PlayOrder, Way
<1>5. Refill
  <2>1. block_pending = {}
    BY DEF AudioInit, RdpsndInit
  <2>2. LostBlocks = {}
    BY <2>1 DEF LostBlocks
  <2>3. QED
    BY <2>2, FS_EmptySet, Numbers DEF Refill
<1>6. QED
  BY <1>1, <1>2, <1>4, <1>5 DEF PInv

LEMMA NextPInv == PInv /\ [AudioNext]_audioVars => PInv'
<1> SUFFICES ASSUME PInv, [AudioNext]_audioVars PROVE PInv'
  OBVIOUS
<1>1. CASE UNCHANGED audioVars
  <2>1. UNCHANGED rdpsndVars /\ UNCHANGED pathVars
    BY <1>1 DEF audioVars
  <2>2. QED
    BY <2>1, ChannelKeeps, ChannelRests
<1>2. CASE \E chunks \in 1 .. MaxChunks : send_wave_frames(chunks)
  BY <1>2, SendKeeps
<1>3. CASE SessionReadsConfirm
  BY <1>3, ReadKeeps
<1>4. QED
  <2>1. Setup => UNCHANGED pathVars
    BY DEF Setup
  <2>2. SilencePlays => UNCHANGED pathVars
    BY DEF SilencePlays
  <2>3. QED
    BY <1>1, <1>2, <1>3, <2>1, <2>2, TaskKeeps, ChannelKeeps, WriteKeeps, ReceiveKeeps, PlayKeeps
       DEF AudioNext

\* A sequence without repetition of members of a finite set is no longer than
\* the set is large.
LEMMA NoLongerThan ==
    ASSUME NEW q \in Seq(Block), NEW P, P \subseteq Block,
           \A i \in DOMAIN q : q[i] \in P,
           \A i, j \in DOMAIN q : q[i] = q[j] => i = j
    PROVE  Len(q) <= Cardinality(P)
<1>1. Len(q) \in Nat /\ DOMAIN q = 1 .. Len(q) /\ q \in [1 .. Len(q) -> P]
  OBVIOUS
<1>2. IsFiniteSet(P) /\ Cardinality(P) \in Nat
  BY BlocksFinite
<1>3. IsFiniteSet(1 .. Len(q)) /\ Cardinality(1 .. Len(q)) = Len(q)
  BY <1>1, FS_Interval
<1>4. q \in Injection(1 .. Len(q), P)
  BY <1>1 DEF Injection, IsInjective
<1> DEFINE D == 1 .. Len(q)
<1> HIDE DEF D
<1>5. Cardinality(D) <= Cardinality(P)
  BY <1>2, <1>4, FS_Injection DEF D
<1>6. QED
  BY <1>1, <1>2, <1>3, <1>5 DEF D

LEMMA WayIsBounded ==
    ASSUME NEW q \in Seq(Block), NEW a \in Block, NEW P, P \subseteq Block, Way(q, a, P)
    PROVE  /\ \A i \in DOMAIN q : q[i] \in P
           /\ \A i, j \in DOMAIN q : q[i] = q[j] => i = j
           /\ Len(q) <= Cardinality(P)
<1>0. \A i \in DOMAIN q : q[i] \in Block /\ i \in Int
  OBVIOUS
<1>1. \A b \in Block : Back(a, b) \in Int
  BY Numbers DEF Back, Block
<1>2. \A i \in DOMAIN q : q[i] \in P
  <2> TAKE i \in DOMAIN q
  <2>1. Back(a, q[i]) \in 1 .. Back(a, q[i])
    BY <1>0, <1>1 DEF Way
  <2>2. QED
    BY <1>0, <2>1 DEF Way
<1>3. ASSUME NEW i \in DOMAIN q, NEW j \in DOMAIN q, i < j
      PROVE  q[i] # q[j]
  <2>1. Back(a, q[i]) > Back(a, q[j])
    BY <1>3 DEF Way
  <2>2. Back(a, q[i]) \in Int
    BY <1>0, <1>1
  <2>3. QED
    BY <2>1, <2>2
<1>4. \A i, j \in DOMAIN q : q[i] = q[j] => i = j
  <2>1. \A i, j \in DOMAIN q : i = j \/ i < j \/ j < i
    BY <1>0
  <2>2. QED
    BY <1>3, <2>1
<1>5. QED
  BY <1>2, <1>4, NoLongerThan

LEMMA TheDelayIsBounded ==
    ASSUME PInv
    PROVE  DelayBounded
<1> SUFFICES ASSUME ~AckOnReceive
             PROVE  LET ahead == playing \o wire \o live
                    IN  /\ ToSet(ahead) \subseteq block_pending
                        /\ IsInjective(ahead)
                        /\ Len(ahead) <= MAX_UNACKED_BLOCKS
  BY DEF DelayBounded
<1> DEFINE q == playing \o wire \o live
<1>1. /\ playing \in Seq(Block) /\ wire \in Seq(Block) /\ live \in Seq(Block)
      /\ Confirming \in Seq(Block) /\ block_no \in Block /\ block_pending \subseteq Block
  BY FlowTypes DEF PInv, AInv, RdpsndTypeOK, PathTypes
<1>2. Joined(Joined(playing, wire), live) = Joined(playing, Joined(wire, live))
  BY <1>1, JoinedAssociates
<1>3. q = playing \o (wire \o live)
  BY <1>2 DEF Joined
<1>4. q \in Seq(Block)
  BY <1>3, FlowTypes DEF PInv
<1>5. ToPlay = Confirming \o q
  BY <1>3 DEF ToPlay
<1> HIDE DEF q
<1>6. Way(q, block_no, block_pending)
  BY <1>1, <1>4, <1>5, WayPrefix DEF PInv, PlayOrder
<1>7. /\ \A i \in DOMAIN q : q[i] \in block_pending
      /\ \A i, j \in DOMAIN q : q[i] = q[j] => i = j
      /\ Len(q) <= Cardinality(block_pending)
  BY <1>1, <1>4, <1>6, WayIsBounded
<1>8. ToSet(q) \subseteq block_pending /\ IsInjective(q)
  BY <1>7 DEF ToSet, IsInjective
<1>9. Len(q) <= MAX_UNACKED_BLOCKS
  <2>1. Cardinality(block_pending) <= MAX_UNACKED_BLOCKS /\ Cardinality(block_pending) \in Nat
    BY <1>1, BlocksFinite DEF PInv, AInv, WindowHolds
  <2>2. Len(q) \in Nat
    BY <1>4
  <2>3. QED
    BY <1>7, <2>1, <2>2, Numbers
<1>10. QED
  BY <1>8, <1>9 DEF q

LEMMA TheWindowRefills ==
    ASSUME PInv
    PROVE  WindowRefills
<1> SUFFICES ASSUME resizes = 0, AckOnReceive, live = <<>>, wire = <<>>, confirms = <<>>
             PROVE  ~(pending_count >= MAX_UNACKED_BLOCKS)
  BY DEF WindowRefills, WindowAlwaysRefills
<1>1. ToReceive = <<>>
  BY DEF ToReceive, Confirming
<1>2. LostBlocks = block_pending
  BY <1>1 DEF LostBlocks
<1> DEFINE c == Cardinality(block_pending)
<1>3. c < MAX_UNACKED_BLOCKS
  BY <1>2 DEF PInv, Refill
<1>4. c \in Nat
  BY BlocksFinite DEF PInv, AInv, RdpsndTypeOK
<1>5. pending_count = c % BLOCKS
  BY DEF pending_count
<1> HIDE DEF c
<1>6. c % BLOCKS = c
  BY <1>3, <1>4, Numbers, RemainderOfSmall
<1>7. QED
  BY <1>3, <1>4, <1>5, <1>6, Numbers

\* The path from the capture slot to the speaker, for every window, every
\* width of the block number, every wave and any number of resizes
\* (LiveSlot::publish and recv, send_wave_frames, on_wave_confirm): the audio
\* task never sleeps over a wave; for a client that confirms after playing,
\* the blocks not yet played are all flagged, no number is among them twice,
\* and they are no more than MAX_UNACKED_BLOCKS; for one that confirms on
\* receipt the window refills as long as no resize has lost a confirm. The
\* argument is the order of the path: block numbers count back, without a
\* repetition, from the next one to the oldest one whose confirm is under
\* way, and everything later than a block that is on the path is flagged.
THEOREM TheAudioPathIsSafe == AudioSpec => []AudioPathSafe
<1>1. PInv => AudioPathSafe
  <2> SUFFICES ASSUME PInv PROVE AudioPathSafe
    OBVIOUS
  <2>1. AudioTypeOK
    BY DEF PInv, AInv, PathTypes, AudioTypeOK
  <2>2. SubscriberWakes
    BY DEF PInv
  <2>3. QED
    BY <2>1, <2>2, TheDelayIsBounded, TheWindowRefills DEF AudioPathSafe
<1>2. QED
  BY <1>1, InitPInv, NextPInv, PTL DEF AudioSpec
=============================================================================
