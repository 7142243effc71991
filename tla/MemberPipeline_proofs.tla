------------------------- MODULE MemberPipeline_proofs -------------------------
(***************************************************************************)
(* Proofs about the calls of a member, for all archives, accumulations,    *)
(* chunk sizes, retries, faults and kills.                                 *)
(***************************************************************************)
EXTENDS MemberPipeline, FiniteSetTheorems, TLAPS

InChunks == {"fetch", "await", "decode"}
BeforeChunks == {"resume", "check", "heights", "previous", "previousIcon"}

-----------------------------------------------------------------------------
(* Types.                                                                  *)

(* The accumulations that decreased are finitely many.                     *)
LEMMA DecreasedIsCounted ==
  ASSUME NEW s \in Steps PROVE Cardinality(Decreased(s)) \in Nat
<1>1. IsFiniteSet(Accumulations)
  <2>1. IsFiniteSet({TotalPrecip})
    BY FS_Singleton
  <2>2. QED
    BY <2>1, FS_Union, PipelineAssumption DEF PipelineAssumption, Accumulations
<1>2. Decreased(s) \subseteq Accumulations
  BY DEF Decreased
<1>3. QED
  BY <1>1, <1>2, FS_Subset, FS_CardinalityType

(* Adding up RetryStats adds up each of their counts.                      *)
LEMMA PlusAdds ==
  ASSUME NEW a \in RetryCounts, NEW b \in RetryCounts
  PROVE  Plus(a, b) = [attempts |-> a.attempts + b.attempts, retries |-> a.retries + b.retries,
                       exhausted |-> a.exhausted + b.exhausted]
<1>1. DOMAIN a = {"attempts", "retries", "exhausted"}
  BY DEF RetryCounts
<1> DEFINE sum == [attempts |-> a.attempts + b.attempts, retries |-> a.retries + b.retries,
                   exhausted |-> a.exhausted + b.exhausted]
<1>2. sum = [f \in {"attempts", "retries", "exhausted"} |-> a[f] + b[f]]
  OBVIOUS
<1>3. QED
  BY <1>1, <1>2 DEF Plus

(* RetryStats added up are RetryStats.                                     *)
LEMMA CountsAddUp ==
  ASSUME NEW a \in RetryCounts, NEW b \in RetryCounts
  PROVE  Plus(a, b) \in RetryCounts
<1>1. /\ a.attempts \in Nat /\ a.retries \in Nat /\ a.exhausted \in Nat
      /\ b.attempts \in Nat /\ b.retries \in Nat /\ b.exhausted \in Nat
  BY DEF RetryCounts
<1>2. QED
  BY <1>1, PlusAdds DEF RetryCounts

(* What one attempt adds are RetryStats.                                   *)
LEMMA AttemptsAreCounts ==
  /\ NoStats \in RetryCounts /\ Tried \in RetryCounts
  /\ TriedAgain \in RetryCounts /\ GivenUp \in RetryCounts
BY DEF RetryCounts, NoStats, Tried, TriedAgain, GivenUp

(* What a chunk's first and last hours have to do with its number.         *)
LEMMA Multiples ==
  ASSUME NEW n \in Nat, NEW z \in Nat \ {0}, NEW c \in Nat
  PROVE  c <= n \div z <=> c * z <= n
<1> DEFINE q == n \div z
           r == n % z
<1>1. q \in Int /\ r \in Int /\ n = z * q + r /\ 0 <= r /\ r < z
  OBVIOUS
<1>2. CASE c <= q
  <2>1. c * z <= q * z
    BY <1>1, <1>2
  <2>2. QED
    BY <2>1, <1>1, <1>2
<1>3. CASE c >= q + 1
  <2>1. c * z >= (q + 1) * z
    BY <1>1, <1>3
  <2>2. (q + 1) * z = q * z + z
    BY <1>1
  <2>3. QED
    BY <2>1, <2>2, <1>1, <1>3
<1>4. QED
  BY <1>1, <1>2, <1>3
-----------------------------------------------------------------------------
(* Chunks.                                                                 *)

(* What config_for_model accepts.                                          *)
LEMMA CallIsWellFormed ==
  ASSUME call \in Calls
  PROVE  /\ call.first \in Nat /\ call.last \in Nat /\ call.first <= call.last
         /\ call.last <= LastStep /\ call.size \in Nat \ {0} /\ call.prefetch \in BOOLEAN
BY PipelineAssumption DEF PipelineAssumption, Steps

(* The first chunk begins with the first hour of the call.                 *)
LEMMA FirstChunk ==
  ASSUME call \in Calls
  PROVE  ChunkStart(1) = call.first
BY CallIsWellFormed DEF ChunkStart

(* A chunk begins where the one before it ends, and there is another one   *)
(* as long as the hours are not done.                                      *)
LEMMA NextChunk ==
  ASSUME call \in Calls, NEW c \in Nat \ {0}
  PROVE  /\ ChunkStart(c) \in Int /\ ChunkEnd(c) \in Int /\ ChunkEnd(c) <= call.last
         /\ ChunkStart(c + 1) = ChunkStart(c) + call.size
         /\ c < Chunks <=> ChunkStart(c + 1) <= call.last
         /\ c < Chunks => ChunkEnd(c) = ChunkStart(c + 1) - 1
         /\ ~(c < Chunks) => ChunkEnd(c) = call.last
<1> DEFINE n == call.last - call.first
           z == call.size
<1>1. n \in Nat /\ z \in Nat \ {0} /\ call.first \in Nat /\ call.last \in Nat
  BY CallIsWellFormed
<1>2. c <= n \div z <=> c * z <= n
  BY <1>1, Multiples
<1>3. n \div z \in Int
  BY <1>1
<1>4. c * z \in Int /\ (c - 1) * z = c * z - z
  BY <1>1
<1>5. ChunkStart(c) = call.first + c * z - z /\ ChunkStart(c + 1) = call.first + c * z
  BY <1>1, <1>4 DEF ChunkStart
<1>6. Chunks = n \div z + 1
  BY DEF Chunks
<1> HIDE DEF n, z
<1>7. c < Chunks <=> c * z <= n
  BY <1>2, <1>3, <1>6
<1>8. n = call.last - call.first /\ z = call.size
  BY DEF n, z
<1>9. QED
  BY <1>1, <1>4, <1>5, <1>7, <1>8 DEF ChunkEnd
-----------------------------------------------------------------------------
(* Types.                                                                  *)

Callers == [at : MainStages \union Ended \union {"resume", "await", "raising"},
            ops : Nat, tries : Nat, chunk : Nat \ {0}, hour : Int]
Threads == [at : {"idle", "fetch", "ready", "raised"}, chunk : Nat, ops : Nat, tries : Nat,
            stats : RetryCounts, transient : BOOLEAN]
Reports == [status : {"none", "ok", "failed"}, reused : BOOLEAN, clamped : Nat,
            stats : RetryCounts, transient : BOOLEAN]

(* Going to a stage keeps the chunk and the hour.                          *)
LEMMA GotoKeeps ==
  ASSUME main \in Callers,
         NEW stage \in MainStages \union Ended \union {"resume", "await", "raising"}
  PROVE  /\ Goto(stage) \in Callers /\ Goto(stage).at = stage
         /\ Goto(stage).chunk = main.chunk /\ Goto(stage).hour = main.hour
BY DEF Callers, Goto

(* A thread at rest and one that begins with a chunk.                      *)
LEMMA ThreadBegins ==
  /\ Resting \in Threads /\ Resting.at = "idle" /\ Resting.stats = NoStats
  /\ \A c \in Nat : /\ Submit(c) \in Threads /\ Submit(c).at = "fetch" /\ Submit(c).chunk = c
                    /\ Submit(c).stats = NoStats
BY AttemptsAreCounts DEF Resting, Submit, Threads

(* An amount is never negative.                                            *)
LEMMA AmountIsNatural ==
  ASSUME NEW current \in Nat, NEW previous \in Nat \union {Absent}
  PROVE  Amount(current, previous) \in Nat
BY PipelineAssumption DEF PipelineAssumption, Amount, Difference

(* What a stage has when it is through.                                    *)
LEMMA StageFields ==
  /\ Work("heights").fields = archive.heights
  /\ Work("previous").fields = (archive.acc[TotalPrecip][call.first - 1] # Lost)
  /\ Work("previousIcon").fields = \A k \in Microphysics : archive.acc[k][call.first - 1] # Lost
  /\ Work("decode").fields = Decodable(main.hour)
BY DEF Work, Task

(* Accumulations are numbers or lost.                                      *)
LEMMA AccumulationTypes ==
  ASSUME archive \in Archives, NEW k \in Accumulations, NEW s \in Steps
  PROVE  archive.acc[k][s] \in Nat \union {Lost}
<1>1. archive.acc \in [Accumulations -> [Steps -> Nat \union {Lost}]]
  BY PipelineAssumption DEF PipelineAssumption
<1>2. QED
  BY <1>1

-----------------------------------------------------------------------------
(* Where the caller is.                                                    *)

HoursInv ==
  /\ main.at \in BeforeChunks => main.chunk = 1 /\ main.hour = call.first
  /\ main.at \in InChunks =>
       /\ main.chunk <= Chunks
       /\ ChunkStart(main.chunk) <= main.hour /\ main.hour <= ChunkEnd(main.chunk)
  /\ main.at \in {"fetch", "await"} => main.hour = ChunkStart(main.chunk)

PlaceInv == archive \in Archives /\ call \in Calls /\ main \in Callers /\ HoursInv

(* Every hour in hand is one of the forecast.                              *)
LEMMA HourIsStep ==
  ASSUME PlaceInv
  PROVE  /\ main.at \in BeforeChunks \union InChunks => main.hour \in call.first..call.last
         /\ call.first..call.last \subseteq Steps
<1>1. /\ call.first \in Nat /\ call.last \in Nat /\ call.first <= call.last
      /\ call.last <= LastStep /\ call.size \in Nat \ {0}
  BY CallIsWellFormed DEF PlaceInv
<1>2. main.chunk \in Nat \ {0} /\ main.hour \in Int
  BY DEF PlaceInv, Callers
<1>3. ChunkStart(main.chunk) \in Int /\ ChunkEnd(main.chunk) \in Int /\ ChunkEnd(main.chunk) <= call.last
  BY <1>2, NextChunk DEF PlaceInv
<1>4. ChunkStart(main.chunk) >= call.first
  <2>1. (main.chunk - 1) * call.size >= 0
    BY <1>1, <1>2
  <2>2. (main.chunk - 1) * call.size \in Int
    BY <1>1, <1>2
  <2>3. QED
    BY <1>1, <2>1, <2>2 DEF ChunkStart
<1>5. LastStep \in Nat
  BY PipelineAssumption DEF PipelineAssumption
<1>6. QED
  BY <1>1, <1>2, <1>3, <1>4, <1>5 DEF PlaceInv, HoursInv, InChunks, BeforeChunks, Steps

(* Before the first call.                                                  *)
LEMMA PlaceInitially == Init => PlaceInv
BY DEF Init, PlaceInv, Callers, Ended, HoursInv, BeforeChunks, InChunks

(* Into the chunks: the first hour, in the first chunk.                    *)
LEMMA ChunksStart ==
  ASSUME PlaceInv, main.at \in BeforeChunks, StartChunks, UNCHANGED <<archive, call>>
  PROVE  PlaceInv'
<1>1. main'.at \in {"fetch", "await"} /\ main' \in Callers /\ main'.chunk = 1 /\ main'.hour = call.first
  BY GotoKeeps DEF StartChunks, PlaceInv, HoursInv, MainStages
<1>2. ChunkStart(1) = call.first /\ ChunkEnd(1) \in Int
  BY FirstChunk, NextChunk DEF PlaceInv
<1>3. 1 <= Chunks /\ call.first <= ChunkEnd(1)
  <2>1. /\ call.first \in Nat /\ call.last \in Nat /\ call.first <= call.last
        /\ call.size \in Nat \ {0}
    BY CallIsWellFormed DEF PlaceInv
  <2>2. (call.last - call.first) \div call.size >= 0
    BY <2>1
  <2>3. QED
    BY <1>2, <2>1, <2>2, FirstChunk DEF Chunks, ChunkEnd, PlaceInv
<1>4. HoursInv'
  <2>1. ChunkStart(main.chunk)' = ChunkStart(1) /\ ChunkEnd(main.chunk)' = ChunkEnd(1) /\ Chunks' = Chunks
    BY <1>1 DEF ChunkStart, ChunkEnd, Chunks
  <2>2. call.first \in Int
    BY CallIsWellFormed DEF PlaceInv
  <2>3. QED
    BY <1>1, <1>2, <1>3, <2>1, <2>2 DEF HoursInv, BeforeChunks, InChunks
<1>5. QED
  BY <1>1, <1>4 DEF PlaceInv

(* Through the hours of a chunk, and from one chunk to the next.           *)
LEMMA WriteHourMoves ==
  ASSUME PlaceInv, WriteHour
  PROVE  PlaceInv'
<1> DEFINE s == main.hour
           c == main.chunk
<1>1. /\ main.at = "decode" /\ UNCHANGED <<archive, call>> /\ c \in Nat \ {0} /\ s \in Int
      /\ c <= Chunks /\ ChunkStart(c) <= s /\ s <= ChunkEnd(c)
  BY DEF WriteHour, Through, At, PlaceInv, Callers, HoursInv, InChunks
<1>2. /\ ChunkStart(c) \in Int /\ ChunkEnd(c) \in Int /\ ChunkEnd(c) <= call.last
      /\ c < Chunks <=> ChunkStart(c + 1) <= call.last
      /\ c < Chunks => ChunkEnd(c) = ChunkStart(c + 1) - 1
      /\ ~(c < Chunks) => ChunkEnd(c) = call.last
      /\ ChunkStart(c + 1) \in Int
  BY <1>1, NextChunk, CallIsWellFormed DEF PlaceInv
<1>3. Chunks \in Int
  BY CallIsWellFormed DEF Chunks, PlaceInv
<1>4. CASE s = call.last
  <2>1. main' \in Callers /\ main'.at = "finished"
    BY <1>4, GotoKeeps DEF WriteHour, PlaceInv, Ended
  <2>2. QED
    BY <1>1, <2>1 DEF PlaceInv, HoursInv, BeforeChunks, InChunks
<1>5. CASE s # call.last /\ s < ChunkEnd(c)
  <2>1. main' = [Goto("decode") EXCEPT !.hour = s + 1]
    BY <1>5 DEF WriteHour
  <2>2. Goto("decode") \in Callers /\ Goto("decode").at = "decode" /\ Goto("decode").chunk = c
    BY GotoKeeps DEF PlaceInv, MainStages
  <2>3. main' \in Callers /\ main'.at = "decode" /\ main'.chunk = c /\ main'.hour = s + 1
    BY <1>1, <2>1, <2>2 DEF Callers
  <2>4. ChunkStart(main.chunk)' = ChunkStart(c) /\ ChunkEnd(main.chunk)' = ChunkEnd(c) /\ Chunks' = Chunks
    BY <1>1, <2>3 DEF ChunkStart, ChunkEnd, Chunks
  <2>5. HoursInv'
    BY <1>1, <1>2, <1>5, <2>3, <2>4 DEF HoursInv, BeforeChunks, InChunks
  <2>6. QED
    BY <1>1, <2>3, <2>5 DEF PlaceInv
<1>6. CASE s # call.last /\ ~(s < ChunkEnd(c))
  <2> DEFINE stage == IF call.prefetch THEN "await" ELSE "fetch"
  <2>1. main' = [Goto(stage) EXCEPT !.chunk = @ + 1, !.hour = ChunkStart(c + 1)]
    BY <1>6 DEF WriteHour
  <2>2. /\ Goto(stage) \in Callers /\ Goto(stage).at = stage /\ Goto(stage).chunk = c
        /\ stage \in {"fetch", "await"}
    BY GotoKeeps DEF PlaceInv, MainStages
  <2> HIDE DEF stage
  <2> DEFINE begun == [Goto(stage) EXCEPT !.chunk = c + 1]
  <2>2a. /\ main' = [begun EXCEPT !.hour = ChunkStart(c + 1)]
        /\ begun \in Callers /\ begun.at = stage /\ begun.chunk = c + 1
    BY <1>1, <2>1, <2>2 DEF Callers
  <2> HIDE DEF begun
  <2>3. /\ main' \in Callers /\ main'.at \in {"fetch", "await"}
        /\ main'.chunk = c + 1 /\ main'.hour = ChunkStart(c + 1)
    BY <1>2, <2>2, <2>2a DEF Callers
  <2>4. /\ ChunkStart(main.chunk)' = ChunkStart(c + 1) /\ ChunkEnd(main.chunk)' = ChunkEnd(c + 1)
        /\ Chunks' = Chunks
    BY <1>1, <2>3 DEF ChunkStart, ChunkEnd, Chunks
  <2>5. c < Chunks /\ c + 1 <= Chunks
    BY <1>1, <1>2, <1>3, <1>6
  <2>6. ChunkStart(c + 1) <= ChunkEnd(c + 1)
    <3>1. /\ ChunkStart(c + 1) + call.size = ChunkStart((c + 1) + 1)
          /\ c + 1 < Chunks => ChunkEnd(c + 1) = ChunkStart((c + 1) + 1) - 1
          /\ ~(c + 1 < Chunks) => ChunkEnd(c + 1) = call.last
      BY <1>1, NextChunk DEF PlaceInv
    <3>2. call.size \in Nat \ {0} /\ call.last \in Nat
      BY CallIsWellFormed DEF PlaceInv
    <3>3. QED
      BY <1>2, <2>5, <3>1, <3>2
  <2>7. HoursInv'
    BY <1>1, <1>2, <2>3, <2>4, <2>5, <2>6 DEF HoursInv, BeforeChunks, InChunks
  <2>8. QED
    BY <1>1, <2>3, <2>7 DEF PlaceInv
<1>7. QED
  BY <1>4, <1>5, <1>6

(* A step that keeps the caller's chunk, hour and call keeps its place.    *)
LEMMA PlaceStays ==
  ASSUME PlaceInv, UNCHANGED <<archive, call>>, main' \in Callers,
         main'.chunk = main.chunk, main'.hour = main.hour,
         \/ main'.at = main.at
         \/ main.at \in BeforeChunks /\ main'.at \in BeforeChunks
         \/ main.at \in {"fetch", "await"} /\ main'.at = "decode"
         \/ main'.at \in Ended \union {"raising"}
  PROVE  PlaceInv'
<1>1. ChunkStart(main.chunk)' = ChunkStart(main.chunk) /\ ChunkEnd(main.chunk)' = ChunkEnd(main.chunk)
  BY DEF ChunkStart, ChunkEnd
<1>2. Chunks' = Chunks
  BY DEF Chunks
<1>3. QED
  BY <1>1, <1>2 DEF PlaceInv, HoursInv, BeforeChunks, InChunks, Ended

(* Every step keeps the caller at an hour of its chunk.                    *)
LEMMA PlaceStep == PlaceInv /\ [Next]_vars => PlaceInv'
<1> SUFFICES ASSUME PlaceInv, [Next]_vars PROVE PlaceInv'
  OBVIOUS
<1> USE DEF At, Through
<1>0. \A stage \in MainStages \union Ended \union {"resume", "await", "raising"} :
        /\ Goto(stage) \in Callers /\ Goto(stage).at = stage
        /\ Goto(stage).chunk = main.chunk /\ Goto(stage).hour = main.hour
  BY GotoKeeps DEF PlaceInv
<1>1. CASE UNCHANGED vars
  BY <1>1, PlaceStays DEF vars, PlaceInv
<1>2. CASE Begin
  <2>1. main' \in Callers /\ main'.at = "resume" /\ main'.chunk = 1 /\ main'.hour = call'.first
    <3>1. call' \in Calls /\ main' = [at |-> "resume", ops |-> 0, tries |-> 0, chunk |-> 1, hour |-> call'.first]
      BY <1>2 DEF Begin
    <3>2. call'.first \in Int
      BY <3>1, PipelineAssumption DEF PipelineAssumption, Steps
    <3>3. QED
      BY <3>1, <3>2 DEF Callers
  <2>2. QED
    BY <1>2, <2>1 DEF Begin, PlaceInv, HoursInv, InChunks
<1>3. CASE Resume
  BY <1>0, <1>3, PlaceStays DEF Resume, BeforeChunks, Ended, MainStages
<1>4. CASE OperationSucceeds \/ OperationFails
  <2>1. CASE OperationSucceeds
    <3>1. /\ [main EXCEPT !.ops = @ + 1] \in Callers
          /\ main' = [[main EXCEPT !.ops = @ + 1] EXCEPT !.tries = 0]
      BY <2>1 DEF OperationSucceeds, PlaceInv, Callers
    <3>2. main' \in Callers /\ main'.at = main.at /\ main'.chunk = main.chunk /\ main'.hour = main.hour
      BY <3>1 DEF Callers
    <3>3. QED
      BY <2>1, <3>2, PlaceStays DEF OperationSucceeds
  <2>2. CASE OperationFails /\ main.tries < Retries
    <3>1. main' = [main EXCEPT !.tries = @ + 1]
      BY <2>2 DEF OperationFails
    <3>2. main' \in Callers /\ main'.at = main.at /\ main'.chunk = main.chunk /\ main'.hour = main.hour
      BY <3>1 DEF PlaceInv, Callers
    <3>3. QED
      BY <2>2, <3>2, PlaceStays DEF OperationFails
  <2>3. CASE OperationFails /\ ~(main.tries < Retries)
    BY <1>0, <2>3, PlaceStays DEF OperationFails, Raise
  <2>4. QED
    BY <1>4, <2>1, <2>2, <2>3
<1>5. CASE FieldsMissing \/ StreamBreaks \/ TakeException \/ WriteFails
  BY <1>0, <1>5, PlaceStays DEF FieldsMissing, StreamBreaks, TakeException, WriteFails, Raise
<1>6. CASE Raised \/ Kill
  BY <1>0, <1>6, PlaceStays DEF Raised, Kill, Ended
<1>7. CASE Checked
  BY <1>0, <1>7, PlaceStays DEF Checked, BeforeChunks, MainStages
<1>8. CASE HeightsRead \/ PreviousRead \/ PreviousIconRead
  <2>1. CASE StartChunks
    BY <1>8, <2>1, ChunksStart DEF HeightsRead, PreviousRead, PreviousIconRead, BeforeChunks
  <2>2. CASE ~StartChunks
    BY <1>0, <1>8, <2>2, PlaceStays
       DEF HeightsRead, PreviousRead, PreviousIconRead, BeforeChunks, MainStages
  <2>3. QED
    BY <2>1, <2>2
<1>9. CASE Fetched \/ Take
  BY <1>0, <1>9, PlaceStays DEF Fetched, Take, MainStages
<1>10. CASE WriteHour
  BY <1>10, WriteHourMoves
<1>11. CASE ThreadStep
  BY <1>11, PlaceStays
     DEF ThreadStep, ThreadSucceeds, ThreadFails, ThreadStreamBreaks, ThreadReturns, PlaceInv
<1>12. QED
  BY <1>1, <1>2, <1>3, <1>4, <1>5, <1>6, <1>7, <1>8, <1>9, <1>10, <1>11 DEF Next, MainStep

(* The caller is always at an hour of its chunk.                           *)
LEMMA PlaceHolds == Spec => []PlaceInv
BY PlaceInitially, PlaceStep, PTL DEF Spec

-----------------------------------------------------------------------------
(* The prefetching thread.                                                 *)

ThreadInv ==
  /\ thread \in Threads
  /\ thread.at # "idle" =>
       call.prefetch /\ thread.chunk <= Chunks /\ main.at \in {"await", "decode", "raising"}
  /\ main.at = "fetch" => ~call.prefetch
  /\ PrefetchIsContained

(* Before the first call nothing is fetched.                               *)
LEMMA ThreadInitially == Init => ThreadInv
BY ThreadBegins DEF Init, ThreadInv, PrefetchIsContained

(* The thread begins with the chunk the caller waits for.                  *)
LEMMA ThreadStarts ==
  ASSUME PlaceInv, ThreadInv, main.at \in BeforeChunks, StartChunks, UNCHANGED call
  PROVE  ThreadInv'
<1>1. main.chunk = 1 /\ thread.at = "idle" /\ 1 <= Chunks
  <2>1. (call.last - call.first) \div call.size >= 0
    BY CallIsWellFormed DEF PlaceInv
  <2>2. QED
    BY <2>1, CallIsWellFormed DEF PlaceInv, HoursInv, ThreadInv, BeforeChunks, Chunks
<1>2. /\ Goto("await").at = "await" /\ Goto("fetch").at = "fetch"
      /\ Goto("await").chunk = 1 /\ Goto("fetch").chunk = 1
  BY <1>1, GotoKeeps DEF PlaceInv, MainStages
<1>3. CASE call.prefetch
  <2>1. main'.at = "await" /\ main'.chunk = 1 /\ thread' = Submit(1)
    BY <1>2, <1>3 DEF StartChunks
  <2>2. Chunks' = Chunks
    BY DEF Chunks
  <2>3. QED
    BY <1>1, <1>3, <2>1, <2>2, ThreadBegins DEF ThreadInv, PrefetchIsContained, Ended
<1>4. CASE ~call.prefetch
  BY <1>1, <1>2, <1>4 DEF StartChunks, ThreadInv, PrefetchIsContained, Ended
<1>5. QED
  BY <1>3, <1>4

(* A thread that only goes on fetching its chunk stays where it is.        *)
LEMMA ThreadGoesOn ==
  ASSUME ThreadInv, UNCHANGED <<call, main>>, thread' \in Threads,
         thread'.at # "idle", thread.at # "idle", thread'.chunk = thread.chunk
  PROVE  ThreadInv'
<1>1. Chunks' = Chunks
  BY DEF Chunks
<1>2. QED
  BY <1>1 DEF ThreadInv, PrefetchIsContained

(* Every step of the thread itself.                                        *)
LEMMA ThreadStepKeeps ==
  ASSUME ThreadInv, ThreadStep
  PROVE  ThreadInv'
<1>0. thread \in Threads /\ made \in {made}
  BY DEF ThreadInv
<1>1. thread.at = "fetch" /\ thread.stats \in RetryCounts
  BY <1>0 DEF ThreadStep, ThreadSucceeds, ThreadFails, ThreadStreamBreaks, ThreadReturns, Threads
<1>2. /\ Plus(thread.stats, Tried) \in RetryCounts /\ Plus(thread.stats, TriedAgain) \in RetryCounts
      /\ Plus(thread.stats, GivenUp) \in RetryCounts
  BY <1>1, CountsAddUp, AttemptsAreCounts
<1>3. CASE ThreadSucceeds
  <2>1. /\ [thread EXCEPT !.ops = @ + 1] \in Threads
        /\ [thread EXCEPT !.ops = @ + 1].chunk = thread.chunk
        /\ [thread EXCEPT !.ops = @ + 1].at = "fetch"
        /\ [thread EXCEPT !.ops = @ + 1].stats = thread.stats
    BY <1>0, <1>1 DEF Threads
  <2> DEFINE done == [thread EXCEPT !.ops = @ + 1]
  <2>2. thread' = [[done EXCEPT !.tries = 0] EXCEPT !.stats = Plus(thread.stats, Tried)]
    BY <1>3, <2>1 DEF ThreadSucceeds
  <2> HIDE DEF done
  <2>3. thread' \in Threads /\ thread'.at = "fetch" /\ thread'.chunk = thread.chunk
    BY <1>2, <2>1, <2>2 DEF Threads, done
  <2>4. QED
    BY <1>1, <1>3, <2>3, ThreadGoesOn DEF ThreadSucceeds
<1>4. CASE ThreadFails /\ thread.tries < Retries
  <2> DEFINE again == [thread EXCEPT !.tries = @ + 1]
  <2>1. again \in Threads /\ again.chunk = thread.chunk /\ again.at = "fetch"
    BY <1>0, <1>1 DEF Threads
  <2>2. thread' = [again EXCEPT !.stats = Plus(thread.stats, TriedAgain)]
    BY <1>0, <1>4 DEF ThreadFails, Threads
  <2> HIDE DEF again
  <2>3. thread' \in Threads /\ thread'.at = "fetch" /\ thread'.chunk = thread.chunk
    BY <1>2, <2>1, <2>2 DEF Threads
  <2>4. QED
    BY <1>1, <1>4, <2>3, ThreadGoesOn DEF ThreadFails
<1>5. CASE ThreadFails /\ ~(thread.tries < Retries)
  <2> DEFINE given == [[thread EXCEPT !.at = "raised"] EXCEPT !.transient = TRUE]
  <2>1. given \in Threads /\ given.chunk = thread.chunk /\ given.at = "raised"
    BY <1>0 DEF Threads
  <2>2. thread' = [given EXCEPT !.stats = Plus(thread.stats, GivenUp)]
    BY <1>0, <1>5 DEF ThreadFails, Threads
  <2> HIDE DEF given
  <2>3. thread' \in Threads /\ thread'.at = "raised" /\ thread'.chunk = thread.chunk
    BY <1>2, <2>1, <2>2 DEF Threads
  <2>4. QED
    BY <1>1, <1>5, <2>3, ThreadGoesOn DEF ThreadFails
<1>6. CASE ThreadStreamBreaks \/ ThreadReturns
  <2>1. thread' \in Threads /\ thread'.at \in {"raised", "ready"} /\ thread'.chunk = thread.chunk
    BY <1>0, <1>6 DEF ThreadStreamBreaks, ThreadReturns, Threads
  <2>2. QED
    BY <1>1, <1>6, <2>1, ThreadGoesOn DEF ThreadStreamBreaks, ThreadReturns
<1>7. QED
  BY <1>3, <1>4, <1>5, <1>6 DEF ThreadStep

(* When the last hour is written no chunk is being fetched.                *)
LEMMA LastHourAlone ==
  ASSUME PlaceInv, ThreadInv, main.at = "decode", main.hour = call.last, thread.at # "idle"
  PROVE  FALSE
<1>1. /\ main.chunk \in Nat \ {0} /\ thread.chunk = main.chunk + 1 /\ thread.chunk <= Chunks
      /\ main.hour <= ChunkEnd(main.chunk)
  BY DEF PlaceInv, HoursInv, InChunks, Callers, ThreadInv, PrefetchIsContained
<1>2. Chunks \in Int /\ call.last \in Nat
  BY CallIsWellFormed DEF Chunks, PlaceInv
<1>3. main.chunk < Chunks
  BY <1>1, <1>2
<1>4. ChunkEnd(main.chunk) < call.last
  BY <1>1, <1>2, <1>3, NextChunk DEF PlaceInv
<1>5. QED
  BY <1>1, <1>2, <1>4, NextChunk DEF PlaceInv

(* A step of the caller that starts no fetch leaves the thread contained.  *)
LEMMA ThreadStays ==
  ASSUME ThreadInv, UNCHANGED <<call, thread>>,
         \/ main'.at = main.at /\ main'.chunk = main.chunk
         \/ main'.at = "raising"
         \/ main.at \notin {"await", "decode", "raising"} /\ main'.at # "fetch"
  PROVE  ThreadInv'
<1>1. Chunks' = Chunks
  BY DEF Chunks
<1>2. QED
  BY <1>1 DEF ThreadInv, PrefetchIsContained, Ended

(* Every step keeps the thread contained.                                  *)
LEMMA ThreadKeeps == PlaceInv /\ ThreadInv /\ [Next]_vars => ThreadInv'
<1> SUFFICES ASSUME PlaceInv, ThreadInv, [Next]_vars PROVE ThreadInv'
  OBVIOUS
<1> USE DEF At, Through
<1>0. /\ main \in Callers
      /\ \A stage \in MainStages \union Ended \union {"resume", "await", "raising"} :
           Goto(stage).at = stage /\ Goto(stage).chunk = main.chunk
  BY GotoKeeps DEF PlaceInv
<1>1. CASE UNCHANGED vars
  BY <1>1, ThreadStays DEF vars
<1>2. CASE Begin
  BY <1>2, ThreadBegins DEF Begin, ThreadInv, PrefetchIsContained, Ended
<1>3. CASE Resume
  BY <1>0, <1>3, ThreadStays DEF Resume, Ended, MainStages
<1>4. CASE OperationSucceeds \/ OperationFails
  <2>1. CASE OperationFails /\ ~(main.tries < Retries)
    BY <1>0, <2>1, ThreadStays DEF OperationFails, Raise
  <2>2. CASE ~(OperationFails /\ ~(main.tries < Retries))
    BY <1>0, <1>4, <2>2, ThreadStays DEF OperationSucceeds, OperationFails, Callers
  <2>3. QED
    BY <2>1, <2>2
<1>5. CASE FieldsMissing \/ StreamBreaks \/ WriteFails
  BY <1>0, <1>5, ThreadStays DEF FieldsMissing, StreamBreaks, WriteFails, Raise
<1>6. CASE TakeException \/ Raised \/ Kill
  <2>1. thread' = Resting /\ main'.at \in Ended \union {"raising"} /\ UNCHANGED call
    BY <1>0, <1>6 DEF TakeException, Raised, Kill, Raise, Ended
  <2>2. QED
    BY <2>1, ThreadBegins DEF ThreadInv, PrefetchIsContained, Ended
<1>7. CASE Checked
  BY <1>0, <1>7, ThreadStays DEF Checked, MainStages
<1>8. CASE HeightsRead \/ PreviousRead \/ PreviousIconRead
  <2>1. CASE StartChunks
    BY <1>8, <2>1, ThreadStarts DEF HeightsRead, PreviousRead, PreviousIconRead, BeforeChunks
  <2>2. CASE ~StartChunks
    BY <1>0, <1>8, <2>2, ThreadStays DEF HeightsRead, PreviousRead, PreviousIconRead, MainStages
  <2>3. QED
    BY <2>1, <2>2
<1>9. CASE Fetched
  BY <1>0, <1>9 DEF Fetched, ThreadInv, PrefetchIsContained, MainStages, Ended
<1>10. CASE Take
  <2>1. /\ main'.at = "decode" /\ main'.chunk = main.chunk /\ call.prefetch
        /\ main.chunk \in Nat \ {0} /\ UNCHANGED call /\ thread' = Following
    BY <1>0, <1>10 DEF Take, MainStages, ThreadInv, Callers
  <2>2. Chunks' = Chunks /\ Chunks \in Int
    BY <2>1, CallIsWellFormed DEF Chunks, PlaceInv
  <2>3. CASE main.chunk < Chunks
    <3>1. thread' = Submit(main.chunk + 1) /\ main.chunk + 1 \in Nat /\ main.chunk + 1 <= Chunks
      BY <2>1, <2>2, <2>3 DEF Following
    <3>2. QED
      BY <2>1, <2>2, <3>1, ThreadBegins DEF ThreadInv, PrefetchIsContained, Ended
  <2>4. CASE ~(main.chunk < Chunks)
    BY <2>1, <2>4, ThreadBegins DEF Following, ThreadInv, PrefetchIsContained, Ended
  <2>5. QED
    BY <2>3, <2>4
<1>11. CASE WriteHour
  <2>1. main.at = "decode" /\ UNCHANGED <<call, thread>> /\ Chunks' = Chunks
    BY <1>11 DEF WriteHour, Chunks
  <2>2. CASE thread.at = "idle"
    <3>1. main'.at = "fetch" => ~call.prefetch
      <4>1. CASE main.hour = call.last
        BY <1>0, <1>11, <4>1 DEF WriteHour, Ended
      <4>2. CASE main.hour # call.last /\ main.hour < ChunkEnd(main.chunk)
        BY <1>0, <1>11, <4>2 DEF WriteHour, MainStages, Callers, Goto
      <4>3. CASE main.hour # call.last /\ ~(main.hour < ChunkEnd(main.chunk))
        BY <1>0, <1>11, <4>3 DEF WriteHour, MainStages, Callers, Goto
      <4>4. QED
        BY <4>1, <4>2, <4>3
    <3>2. QED
      BY <2>1, <2>2, <3>1 DEF ThreadInv, PrefetchIsContained
  <2>3. CASE thread.at # "idle"
    <3>1. main.hour # call.last /\ call.prefetch /\ thread.chunk = main.chunk + 1
      BY <2>1, <2>3, LastHourAlone DEF ThreadInv, PrefetchIsContained
    <3>2. CASE main.hour < ChunkEnd(main.chunk)
      <4>1. main'.at = "decode" /\ main'.chunk = main.chunk
        BY <1>0, <1>11, <3>1, <3>2 DEF WriteHour, MainStages, Callers, Goto
      <4>2. QED
        BY <2>1, <4>1, ThreadStays
    <3>3. CASE ~(main.hour < ChunkEnd(main.chunk))
      <4>1. main' = [Goto("await") EXCEPT !.chunk = @ + 1, !.hour = ChunkStart(main.chunk + 1)]
        BY <1>11, <3>1, <3>3 DEF WriteHour
      <4>2. main'.at = "await" /\ main'.chunk = main.chunk + 1
        BY <1>0, <4>1 DEF Callers, Goto
      <4>3. QED
        BY <2>1, <3>1, <4>2 DEF ThreadInv, PrefetchIsContained, Ended
    <3>4. QED
      BY <3>2, <3>3
  <2>4. QED
    BY <2>2, <2>3
<1>12. CASE ThreadStep
  BY <1>12, ThreadStepKeeps
<1>13. QED
  BY <1>1, <1>2, <1>3, <1>4, <1>5, <1>6, <1>7, <1>8, <1>9, <1>10, <1>11, <1>12 DEF Next, MainStep

(* The thread is contained in every state.                                 *)
LEMMA ThreadHolds == Spec => [](PlaceInv /\ ThreadInv)
BY PlaceInitially, PlaceStep, ThreadInitially, ThreadKeeps, PTL DEF Spec

(* The prefetching thread is always one chunk ahead and never outlives its *)
(* call, whatever fails (process_member_run).                              *)
THEOREM PrefetchStaysContained == Spec => []PrefetchIsContained
<1>1. PlaceInv /\ ThreadInv => PrefetchIsContained
  BY DEF ThreadInv
<1>2. QED
  BY <1>1, ThreadHolds, PTL

-----------------------------------------------------------------------------
(* Amounts.                                                                *)

Before(k) == archive.acc[k][main.hour - 1]

CarriedInv ==
  /\ main.at \in {"previous", "previousIcon"} \union InChunks => archive.heights
  /\ main.at \in {"previous", "previousIcon"} => call.first # 0
  /\ main.at \in BeforeChunks \ {"previousIcon"} => carried = NoAmounts
  /\ main.at = "previousIcon" =>
       carried[TotalPrecip] = Before(TotalPrecip) /\ Before(TotalPrecip) \in Nat
  /\ main.at \in InChunks =>
       \A k \in Accumulations :
         IF main.hour = 0 THEN carried[k] = Absent ELSE carried[k] = Before(k) /\ Before(k) \in Nat

OutputsInv == out \in [Steps -> {out[s] : s \in Steps}] /\ OutputsAreReference

AmountsInv == CarriedInv /\ OutputsInv

(* Before the first call nothing is carried or published.                  *)
LEMMA AmountsInitially == Init => AmountsInv
BY DEF Init, AmountsInv, CarriedInv, OutputsInv, OutputsAreReference, Ended, BeforeChunks, InChunks

(* An hour that can be decoded gets the amounts the archive determines.    *)
LEMMA HourIsReference ==
  ASSUME PlaceInv, CarriedInv, main.at = "decode", Decodable(main.hour)
  PROVE  /\ Amounts(main.hour) = Reference(main.hour)
         /\ \A k \in Accumulations : archive.acc[k][main.hour] \in Nat
<1> DEFINE s == main.hour
<1>1. s \in Steps /\ s \in Nat
  BY HourIsStep DEF PlaceInv, InChunks, Steps
<1>2. archive \in Archives /\ \A k \in Accumulations : archive.acc[k][s] \in Nat
  BY <1>1, AccumulationTypes DEF Decodable, PlaceInv
<1>3. \A k \in Accumulations : IF s = 0 THEN carried[k] = Absent
                               ELSE /\ carried[k] = archive.acc[k][s - 1]
                                    /\ archive.acc[k][s - 1] \in Nat
  BY DEF CarriedInv, InChunks, Before
<1>4. Usable(archive, s)
  <2>1. \A k \in Accumulations : {archive.acc[k][t] : t \in {s, s - 1} \cap Steps} \subseteq Nat
    BY <1>1, <1>2, <1>3 DEF Steps
  <2>2. s \in archive.ground /\ archive.heights
    BY DEF Decodable, CarriedInv, InChunks
  <2>3. \A p \in Params : Retained(archive) \subseteq archive.levels[p][s]
    BY DEF Decodable
  <2>4. QED
    BY <2>1, <2>2, <2>3 DEF Usable
<1>5. ASSUME NEW k \in Accumulations
      PROVE  Amount(archive.acc[k][s], carried[k])
               = IF Net(archive, k, s) > 0 THEN Net(archive, k, s) ELSE 0
  <2>1. CASE s = 0
    BY <1>2, <1>3, <2>1 DEF Amount, Difference, Net
  <2>2. CASE s # 0
    <3>1. carried[k] # Absent /\ carried[k] = archive.acc[k][s - 1] /\ carried[k] \in Nat
      BY <1>3, <2>2, PipelineAssumption DEF PipelineAssumption
    <3>2. archive.acc[k][s] \in Nat
      BY <1>2
    <3>3. QED
      BY <2>2, <3>1, <3>2 DEF Amount, Difference, Net
  <2>3. QED
    BY <2>1, <2>2
<1>6. Reference(s) = [k \in Accumulations |-> IF Net(archive, k, s) > 0 THEN Net(archive, k, s) ELSE 0]
  BY <1>1, <1>2, <1>4 DEF Reference, References
<1>7. QED
  BY <1>2, <1>5, <1>6 DEF Amounts

(* The first chunk begins with what was read of the hour before it.        *)
LEMMA CarriedIntoChunks ==
  ASSUME PlaceInv, archive.heights, main.at \in BeforeChunks, StartChunks, UNCHANGED <<archive, call>>,
         \A k \in Accumulations : IF call.first = 0 THEN carried'[k] = Absent
                                  ELSE carried'[k] = Before(k) /\ Before(k) \in Nat
  PROVE  CarriedInv'
<1>1. main'.at \in {"await", "fetch"} /\ main'.hour = main.hour /\ main.hour = call.first
  BY GotoKeeps DEF StartChunks, PlaceInv, HoursInv, MainStages
<1>2. QED
  BY <1>1 DEF CarriedInv, BeforeChunks, InChunks, Before

(* Nothing is carried further or published by the other steps.             *)
LEMMA AmountsStay ==
  ASSUME AmountsInv, UNCHANGED <<archive, call, carried, out>>,
         \/ main'.at = main.at /\ main'.hour = main.hour
         \/ main'.at \in Ended \union {"raising"}
         \/ main.at \in {"resume", "check"} /\ main'.at \in {"check", "heights"}
         \/ main.at \in {"fetch", "await"} /\ main'.at = "decode" /\ main'.hour = main.hour
  PROVE  AmountsInv'
BY DEF AmountsInv, CarriedInv, OutputsInv, OutputsAreReference, BeforeChunks, InChunks, Ended,
       Before, Reference, References

(* Hour 0 has nothing before it.                                           *)
LEMMA HeightsReadKeeps ==
  ASSUME PlaceInv, AmountsInv, HeightsRead
  PROVE  AmountsInv'
<1>1. /\ main.at = "heights" /\ archive.heights /\ carried = NoAmounts
      /\ UNCHANGED <<archive, call, carried, out>>
  BY StageFields DEF HeightsRead, Through, At, AmountsInv, CarriedInv, BeforeChunks
<1>2. OutputsInv'
  BY <1>1 DEF AmountsInv, OutputsInv, OutputsAreReference, Reference, References
<1>3. CASE call.first = 0
  <2>1. \A k \in Accumulations : carried'[k] = Absent
    BY <1>1 DEF NoAmounts
  <2>2. QED
    BY <1>1, <1>2, <1>3, <2>1, CarriedIntoChunks DEF HeightsRead, AmountsInv, BeforeChunks
<1>4. CASE call.first # 0
  <2>1. main'.at = "previous"
    BY <1>4, GotoKeeps DEF HeightsRead, PlaceInv, MainStages
  <2>2. QED
    BY <1>1, <1>2, <1>4, <2>1 DEF AmountsInv, CarriedInv, BeforeChunks, InChunks
<1>5. QED
  BY <1>3, <1>4

(* The hour before the first one of a call that begins later.              *)
LEMMA PreviousHour ==
  ASSUME PlaceInv, call.first # 0, main.at \in BeforeChunks, NEW k \in Accumulations,
         archive.acc[k][call.first - 1] # Lost
  PROVE  Before(k) = archive.acc[k][call.first - 1] /\ Before(k) \in Nat
<1>1. call.first - 1 \in Steps
  BY CallIsWellFormed, PipelineAssumption DEF PlaceInv, Steps, PipelineAssumption
<1>2. main.hour = call.first
  BY DEF PlaceInv, HoursInv
<1>3. archive.acc[k][call.first - 1] \in Nat
  BY <1>1, AccumulationTypes DEF PlaceInv
<1>4. QED
  BY <1>2, <1>3 DEF Before

(* The total precipitation of the hour before the call.                    *)
LEMMA PreviousReadKeeps ==
  ASSUME PlaceInv, AmountsInv, PreviousRead
  PROVE  AmountsInv'
<1>1. /\ main.at = "previous" /\ archive.heights /\ call.first # 0 /\ carried = NoAmounts
      /\ archive.acc[TotalPrecip][call.first - 1] # Lost /\ UNCHANGED <<archive, call, out>>
  BY StageFields DEF PreviousRead, Through, At, AmountsInv, CarriedInv, BeforeChunks
<1>2. OutputsInv'
  BY <1>1 DEF AmountsInv, OutputsInv, OutputsAreReference, Reference, References
<1>3. TotalPrecip \in Accumulations
  BY DEF Accumulations
<1>4. Before(TotalPrecip) = archive.acc[TotalPrecip][call.first - 1] /\ Before(TotalPrecip) \in Nat
  BY <1>1, <1>3, PreviousHour DEF BeforeChunks
<1>5. carried'[TotalPrecip] = Before(TotalPrecip)
  BY <1>1, <1>3, <1>4 DEF PreviousRead, NoAmounts
<1>6. CASE Microphysics = {}
  <2>1. \A k \in Accumulations : k = TotalPrecip
    BY <1>6 DEF Accumulations
  <2>2. \A k \in Accumulations : carried'[k] = Before(k) /\ Before(k) \in Nat
    BY <1>4, <1>5, <2>1
  <2>3. StartChunks
    BY <1>6 DEF PreviousRead
  <2>4. QED
    BY <1>1, <1>2, <2>2, <2>3, CarriedIntoChunks DEF AmountsInv, BeforeChunks
<1>7. CASE Microphysics # {}
  <2>1. main'.at = "previousIcon" /\ main'.hour = main.hour
    BY <1>7, GotoKeeps DEF PreviousRead, PlaceInv, MainStages
  <2>2. QED
    BY <1>1, <1>2, <1>4, <1>5, <2>1 DEF AmountsInv, CarriedInv, BeforeChunks, InChunks, Before
<1>8. QED
  BY <1>6, <1>7

(* The archived microphysics of the hour before the call.                  *)
LEMMA PreviousIconReadKeeps ==
  ASSUME PlaceInv, AmountsInv, PreviousIconRead
  PROVE  AmountsInv'
<1>1. /\ main.at = "previousIcon" /\ archive.heights /\ call.first # 0
      /\ carried[TotalPrecip] = Before(TotalPrecip) /\ Before(TotalPrecip) \in Nat
      /\ \A k \in Microphysics : archive.acc[k][call.first - 1] # Lost
      /\ StartChunks /\ UNCHANGED <<archive, call, out>>
  BY StageFields DEF PreviousIconRead, Through, At, AmountsInv, CarriedInv, BeforeChunks
<1>2. OutputsInv'
  BY <1>1 DEF AmountsInv, OutputsInv, OutputsAreReference, Reference, References
<1>3. ASSUME NEW k \in Accumulations
      PROVE  carried'[k] = Before(k) /\ Before(k) \in Nat
  <2>1. CASE k \in Microphysics
    <3>1. carried'[k] = archive.acc[k][call.first - 1]
      BY <2>1 DEF PreviousIconRead
    <3>2. QED
      BY <1>1, <2>1, <3>1, PreviousHour DEF BeforeChunks
  <2>2. CASE k \notin Microphysics
    <3>1. k = TotalPrecip
      BY <2>2 DEF Accumulations
    <3>2. carried'[k] = carried[k]
      BY <2>2 DEF PreviousIconRead
    <3>3. QED
      BY <1>1, <3>1, <3>2
  <2>3. QED
    BY <2>1, <2>2
<1>4. QED
  BY <1>1, <1>2, <1>3, CarriedIntoChunks DEF AmountsInv, BeforeChunks

(* Publishing an hour, and carrying its accumulations to the next.         *)
LEMMA WriteHourKeeps ==
  ASSUME PlaceInv, AmountsInv, WriteHour
  PROVE  AmountsInv'
<1> DEFINE s == main.hour
<1>1. /\ main.at = "decode" /\ Decodable(s) /\ UNCHANGED <<archive, call>>
      /\ out' = [out EXCEPT ![s] = Amounts(s)] /\ carried' = CarriedOn(s)
  BY StageFields DEF WriteHour, Through, At
<1>2. Amounts(s) = Reference(s) /\ \A k \in Accumulations : archive.acc[k][s] \in Nat
  BY <1>1, HourIsReference DEF AmountsInv
<1>3. s \in Steps /\ s \in Nat
  BY <1>1, HourIsStep DEF PlaceInv, InChunks, Steps
<1>4. OutputsInv'
  <2>1. \A t \in Steps : out'[t] # Absent => out'[t] = Reference(t)
    BY <1>1, <1>2, <1>3 DEF AmountsInv, OutputsInv, OutputsAreReference
  <2>2. out' \in [Steps -> {out'[t] : t \in Steps}]
    BY <1>1, <1>3 DEF AmountsInv, OutputsInv
  <2>3. QED
    BY <1>1, <2>1, <2>2 DEF OutputsInv, OutputsAreReference, Reference, References
<1>5. main'.at = "finished" \/ (main'.at \in InChunks /\ main'.hour = s + 1)
  <2>1. CASE s = call.last
    BY <2>1, GotoKeeps DEF WriteHour, PlaceInv, Ended
  <2>2. CASE s # call.last /\ s < ChunkEnd(main.chunk)
    BY <2>2 DEF WriteHour, PlaceInv, Callers, Goto, InChunks
  <2>3. CASE s # call.last /\ ~(s < ChunkEnd(main.chunk))
    <3>1. main'.at \in {"await", "fetch"} /\ main'.hour = ChunkStart(main.chunk + 1)
      BY <2>3 DEF WriteHour, PlaceInv, Callers, Goto
    <3>2. main.chunk \in Nat \ {0} /\ s <= ChunkEnd(main.chunk) /\ main.chunk <= Chunks
      BY <1>1 DEF PlaceInv, HoursInv, InChunks, Callers
    <3>3. /\ ChunkEnd(main.chunk) = ChunkStart(main.chunk + 1) - 1 \/ ChunkEnd(main.chunk) = call.last
          /\ ChunkStart(main.chunk + 1) \in Int /\ ChunkEnd(main.chunk) \in Int
      BY <3>2, NextChunk DEF PlaceInv
    <3>4. s = ChunkEnd(main.chunk)
      BY <1>3, <2>3, <3>2, <3>3
    <3>5. QED
      BY <2>3, <3>1, <3>3, <3>4 DEF InChunks
  <2>4. QED
    BY <2>1, <2>2, <2>3
<1>6. CarriedInv'
  <2>1. \A k \in Accumulations : carried'[k] = archive.acc[k][s]
    BY <1>1 DEF CarriedOn
  <2>2. CASE main'.at = "finished"
    BY <2>2 DEF CarriedInv, BeforeChunks, InChunks
  <2>3. CASE main'.at \in InChunks /\ main'.hour = s + 1
    <3>1. archive.heights
      BY <1>1 DEF AmountsInv, CarriedInv, InChunks
    <3>2. s + 1 # 0 /\ (s + 1) - 1 = s
      BY <1>3
    <3>3. QED
      BY <1>1, <1>2, <2>1, <2>3, <3>1, <3>2 DEF CarriedInv, BeforeChunks, InChunks, Before
  <2>4. QED
    BY <1>5, <2>2, <2>3
<1>7. QED
  BY <1>4, <1>6 DEF AmountsInv

(* Every step keeps amounts and outputs right.                             *)
LEMMA AmountsKeep == PlaceInv /\ AmountsInv /\ [Next]_vars => AmountsInv'
<1> SUFFICES ASSUME PlaceInv, AmountsInv, [Next]_vars PROVE AmountsInv'
  OBVIOUS
<1> USE DEF At, Through
<1>0. /\ main \in Callers
      /\ \A stage \in MainStages \union Ended \union {"resume", "await", "raising"} :
           Goto(stage).at = stage /\ Goto(stage).hour = main.hour
  BY GotoKeeps DEF PlaceInv
<1>1. CASE UNCHANGED vars
  BY <1>1, AmountsStay DEF vars
<1>2. CASE Begin
  BY <1>2 DEF Begin, AmountsInv, CarriedInv, OutputsInv, OutputsAreReference, BeforeChunks,
              InChunks, Reference, References
<1>3. CASE Resume \/ Checked
  BY <1>0, <1>3, AmountsStay DEF Resume, Checked, Ended, MainStages
<1>4. CASE OperationSucceeds \/ OperationFails
  <2>1. CASE OperationFails /\ ~(main.tries < Retries)
    BY <1>0, <2>1, AmountsStay DEF OperationFails, Raise
  <2>2. CASE ~(OperationFails /\ ~(main.tries < Retries))
    BY <1>0, <1>4, <2>2, AmountsStay DEF OperationSucceeds, OperationFails, Callers
  <2>3. QED
    BY <2>1, <2>2
<1>5. CASE FieldsMissing \/ StreamBreaks \/ WriteFails \/ TakeException
  BY <1>0, <1>5, AmountsStay DEF FieldsMissing, StreamBreaks, WriteFails, TakeException, Raise
<1>6. CASE Raised \/ Kill
  BY <1>0, <1>6, AmountsStay DEF Raised, Kill, Ended
<1>7. CASE HeightsRead \/ PreviousRead \/ PreviousIconRead
  BY <1>7, HeightsReadKeeps, PreviousReadKeeps, PreviousIconReadKeeps
<1>8. CASE Fetched \/ Take
  BY <1>0, <1>8, AmountsStay DEF Fetched, Take, MainStages
<1>9. CASE WriteHour
  BY <1>9, WriteHourKeeps
<1>10. CASE ThreadStep
  BY <1>10, AmountsStay DEF ThreadStep, ThreadSucceeds, ThreadFails, ThreadStreamBreaks, ThreadReturns
<1>11. QED
  BY <1>1, <1>2, <1>3, <1>4, <1>5, <1>6, <1>7, <1>8, <1>9, <1>10 DEF Next, MainStep

(* Every output of a member is what the archive alone determines, for all  *)
(* accumulations, chunk sizes, first hours, faults and kills               *)
(* (process_member_run, _process_chunk, _nonnegative_accumulation_amount). *)
THEOREM OutputsMatchArchive == Spec => []OutputsAreReference
<1>1. AmountsInv => OutputsAreReference
  BY DEF AmountsInv, OutputsInv
<1>2. QED
  BY <1>1, PlaceInitially, PlaceStep, AmountsInitially, AmountsKeep, PTL DEF Spec

-----------------------------------------------------------------------------
(* Attempts.                                                               *)

RestOK ==
  /\ carried \in [Accumulations -> Nat \union {Absent}]
  /\ out \in [Steps -> {Absent} \union [Accumulations -> Nat]]
  /\ stats \in RetryCounts /\ made \in RetryCounts
  /\ report \in Reports
  /\ clamped \in Nat /\ calls \in Nat /\ faults \in Nat

(* The types of the other variables before the first call.                 *)
LEMMA RestInitially == Init => RestOK
BY AttemptsAreCounts DEF Init, RestOK, NoAmounts, NoReport, Reports

(* A caller that raises takes a report's shape along.                      *)
LEMMA RaiseKeepsReport ==
  ASSUME report \in Reports, NEW transient \in BOOLEAN, NEW raised \in RetryCounts,
         Raise(transient, raised)
  PROVE  /\ report' \in Reports /\ report'.status = report.status
         /\ report'.transient = transient
         /\ transient => report'.stats = raised
<1> DEFINE told == [report EXCEPT !.transient = transient]
<1>1. told \in Reports /\ told.status = report.status /\ told.transient = transient
  BY DEF Reports
<1>2. report' = [told EXCEPT !.stats = IF transient THEN raised ELSE NoStats]
  BY DEF Raise
<1> HIDE DEF told
<1>3. QED
  BY <1>1, <1>2, AttemptsAreCounts DEF Reports

(* Every step keeps the types of the other variables.                      *)
LEMMA RestKeeps == PlaceInv /\ ThreadInv /\ AmountsInv /\ RestOK /\ [Next]_vars => RestOK'
<1> SUFFICES ASSUME PlaceInv, ThreadInv, AmountsInv, RestOK, [Next]_vars PROVE RestOK'
  OBVIOUS
<1> USE DEF At, Through
<1>0. /\ stats \in RetryCounts /\ made \in RetryCounts /\ thread.stats \in RetryCounts
      /\ thread.transient \in BOOLEAN /\ NoStats \in RetryCounts
      /\ \A a \in {Tried, TriedAgain, GivenUp, thread.stats} :
           Plus(stats, a) \in RetryCounts /\ Plus(made, a) \in RetryCounts
  BY CountsAddUp, AttemptsAreCounts DEF RestOK, ThreadInv, Threads
<1>1. CASE UNCHANGED vars
  BY <1>1 DEF vars, RestOK
<1>2. CASE Begin
  BY <1>2, AttemptsAreCounts DEF Begin, RestOK, NoAmounts, NoReport, Reports
<1>3. CASE Resume
  <2>1. [NoReport EXCEPT !.status = "ok", !.reused = TRUE] \in Reports
    BY AttemptsAreCounts DEF NoReport, Reports
  <2>2. QED
    BY <1>3, <2>1 DEF Resume, RestOK
<1>4. CASE OperationSucceeds
  BY <1>0, <1>4 DEF OperationSucceeds, RestOK
<1>5. CASE OperationFails /\ main.tries < Retries
  BY <1>0, <1>5 DEF OperationFails, RestOK
<1>6. CASE OperationFails /\ ~(main.tries < Retries)
  <2>1. stats' \in RetryCounts /\ made' \in RetryCounts /\ Raise(TRUE, stats')
    BY <1>0, <1>6 DEF OperationFails
  <2>2. report' \in Reports
    BY <2>1, RaiseKeepsReport DEF RestOK
  <2>3. QED
    BY <1>6, <2>1, <2>2 DEF OperationFails, RestOK
<1>7. CASE FieldsMissing \/ StreamBreaks \/ WriteFails
  <2>1. Raise(FALSE, NoStats)
    BY <1>7 DEF FieldsMissing, StreamBreaks, WriteFails
  <2>2. report' \in Reports
    BY <1>0, <2>1, RaiseKeepsReport DEF RestOK
  <2>3. UNCHANGED <<carried, out, stats, made, clamped, calls>>
    BY <1>7 DEF FieldsMissing, StreamBreaks, WriteFails
  <2>4. faults' = faults \/ faults' = faults + 1
    BY <1>7 DEF FieldsMissing, StreamBreaks, WriteFails
  <2>5. QED
    BY <2>2, <2>3, <2>4 DEF RestOK
<1>8. CASE TakeException
  <2>1. report' \in Reports
    BY <1>0, <1>8, RaiseKeepsReport DEF TakeException, RestOK
  <2>2. QED
    BY <1>8, <2>1 DEF TakeException, RestOK
<1>9. CASE Raised
  <2>1. report' = [report EXCEPT !.status = "failed"]
    BY <1>9 DEF Raised
  <2>2. report' \in Reports
    BY <2>1 DEF RestOK, Reports
  <2>3. QED
    BY <1>9, <2>2 DEF Raised, RestOK
<1>10. CASE Kill \/ Checked \/ Fetched \/ HeightsRead
  BY <1>10 DEF Kill, Checked, Fetched, HeightsRead, RestOK
<1>11. CASE PreviousRead
  <2>1. /\ main.at = "previous" /\ call.first # 0
        /\ archive.acc[TotalPrecip][call.first - 1] # Lost
    BY <1>11, StageFields DEF PreviousRead, AmountsInv, CarriedInv
  <2>2. archive.acc[TotalPrecip][call.first - 1] \in Nat
    BY <2>1, PreviousHour DEF BeforeChunks, Accumulations
  <2>3. carried' \in [Accumulations -> Nat \union {Absent}]
    BY <1>11, <2>2 DEF PreviousRead, RestOK, Accumulations
  <2>4. QED
    BY <1>11, <2>3 DEF PreviousRead, RestOK
<1>12. CASE PreviousIconRead
  <2>1. /\ main.at = "previousIcon" /\ call.first # 0
        /\ \A k \in Microphysics : archive.acc[k][call.first - 1] # Lost
    BY <1>12, StageFields DEF PreviousIconRead, AmountsInv, CarriedInv
  <2>2. \A k \in Microphysics : archive.acc[k][call.first - 1] \in Nat
    BY <2>1, PreviousHour DEF BeforeChunks, Accumulations
  <2>3. carried' \in [Accumulations -> Nat \union {Absent}]
    BY <1>12, <2>2 DEF PreviousIconRead, RestOK
  <2>4. QED
    BY <1>12, <2>3 DEF PreviousIconRead, RestOK
<1>13. CASE Take
  BY <1>0, <1>13 DEF Take, RestOK
<1>14. CASE WriteHour
  <2>1. main.at = "decode" /\ Decodable(main.hour)
    BY <1>14, StageFields DEF WriteHour
  <2>2. \A k \in Accumulations : archive.acc[k][main.hour] \in Nat
    BY <2>1, HourIsReference DEF AmountsInv
  <2>3. carried' \in [Accumulations -> Nat \union {Absent}]
    BY <1>14, <2>2 DEF WriteHour, CarriedOn
  <2>4. main.hour \in Steps
    BY <2>1, HourIsStep DEF InChunks
  <2>5. Amounts(main.hour) \in [Accumulations -> Nat]
    BY <2>2, AmountIsNatural DEF Amounts, RestOK
  <2>6. out' \in [Steps -> {Absent} \union [Accumulations -> Nat]]
    BY <1>14, <2>4, <2>5 DEF WriteHour, RestOK
  <2>7. clamped + Cardinality(Decreased(main.hour)) \in Nat
    BY <2>4, DecreasedIsCounted DEF RestOK
  <2>8. report' \in Reports
    <3>1. CASE main.hour = call.last
      <4>1. report' = [status |-> "ok", reused |-> FALSE,
                       clamped |-> clamped + Cardinality(Decreased(main.hour)),
                       stats |-> stats, transient |-> FALSE]
        BY <1>14, <3>1 DEF WriteHour, NoReport
      <4>2. QED
        BY <1>0, <2>7, <4>1 DEF Reports
    <3>2. CASE main.hour # call.last
      BY <1>14, <3>2 DEF WriteHour, RestOK
    <3>3. QED
      BY <3>1, <3>2
  <2>9. QED
    BY <1>14, <2>3, <2>6, <2>7, <2>8 DEF WriteHour, RestOK
<1>15. CASE ThreadStep
  BY <1>0, <1>15 DEF ThreadStep, ThreadSucceeds, ThreadFails, ThreadStreamBreaks, ThreadReturns, RestOK
<1>16. QED
  BY <1>1, <1>2, <1>3, <1>4, <1>5, <1>6, <1>7, <1>8, <1>9, <1>10, <1>11, <1>12, <1>13, <1>14, <1>15
     DEF Next, MainStep

(* The invariants hold in every state.                                     *)
LEMMA AllHolds == Spec => [](PlaceInv /\ ThreadInv /\ AmountsInv /\ RestOK)
BY PlaceInitially, PlaceStep, ThreadInitially, ThreadKeeps, AmountsInitially, AmountsKeep,
   RestInitially, RestKeeps, PTL DEF Spec

(* Every variable of a member's calls keeps its shape.                     *)
THEOREM PipelineTypeCorrect == Spec => []PipelineTypeOK
<1>1. PlaceInv /\ ThreadInv /\ RestOK => PipelineTypeOK
  BY DEF PlaceInv, ThreadInv, RestOK, PipelineTypeOK, Callers, Threads, Reports
<1>2. QED
  BY <1>1, AllHolds, PTL

(* While a call works every attempt is in its RetryStats or in those of    *)
(* the chunk being fetched, and only a call that fails has given one up.   *)
Failing == Ended \union {"raising"}

CountedInv ==
  /\ main.at \notin Failing =>
       made = Plus(stats, thread.stats) /\ stats.exhausted = 0 /\ report.status = "none"
  /\ thread.at = "idle" => thread.stats = NoStats
  /\ thread.at \in {"fetch", "ready"} => thread.stats.exhausted = 0
  /\ thread.at = "raised" => thread.stats.exhausted = IF thread.transient THEN 1 ELSE 0
  /\ thread.at \in {"fetch", "ready"} => ~thread.transient
  /\ main.at = "resume" => stats = NoStats /\ made = NoStats
  /\ main.at = "raising" =>
       report.status = "none" /\ (report.transient => report.stats.exhausted = 1)
  /\ report.status = "ok" => main.at = "finished"
  /\ RetriesAreCounted

(* Before the first call nothing is counted.                               *)
LEMMA CountedInitially == Init => CountedInv
BY DEF Init, CountedInv, RetriesAreCounted, Resting, NoReport, Failing, Ended

(* Adding nothing, and adding one attempt to either part.                  *)
LEMMA PlusLaws ==
  ASSUME NEW a \in RetryCounts, NEW b \in RetryCounts, NEW c \in RetryCounts
  PROVE  /\ Plus(a, NoStats) = a
         /\ Plus(Plus(a, b), c) = Plus(Plus(a, c), b)
         /\ Plus(Plus(a, b), c) = Plus(a, Plus(b, c))
         /\ Plus(a, b).exhausted = a.exhausted + b.exhausted
<1>1. /\ a.attempts \in Nat /\ a.retries \in Nat /\ a.exhausted \in Nat
      /\ b.attempts \in Nat /\ b.retries \in Nat /\ b.exhausted \in Nat
      /\ c.attempts \in Nat /\ c.retries \in Nat /\ c.exhausted \in Nat
      /\ a = [attempts |-> a.attempts, retries |-> a.retries, exhausted |-> a.exhausted]
  BY DEF RetryCounts
<1>2. NoStats \in RetryCounts /\ NoStats = [attempts |-> 0, retries |-> 0, exhausted |-> 0]
  BY AttemptsAreCounts DEF NoStats
<1>3. Plus(a, NoStats) = a
  BY <1>1, <1>2, PlusAdds
<1>4. Plus(a, b) \in RetryCounts /\ Plus(a, c) \in RetryCounts /\ Plus(b, c) \in RetryCounts
  BY CountsAddUp
<1>5. Plus(Plus(a, b), c) = [attempts |-> a.attempts + b.attempts + c.attempts,
                             retries |-> a.retries + b.retries + c.retries,
                             exhausted |-> a.exhausted + b.exhausted + c.exhausted]
  BY <1>4, PlusAdds
<1>6. Plus(Plus(a, c), b) = [attempts |-> a.attempts + c.attempts + b.attempts,
                             retries |-> a.retries + c.retries + b.retries,
                             exhausted |-> a.exhausted + c.exhausted + b.exhausted]
  BY <1>4, PlusAdds
<1>7. Plus(a, Plus(b, c)) = [attempts |-> a.attempts + (b.attempts + c.attempts),
                             retries |-> a.retries + (b.retries + c.retries),
                             exhausted |-> a.exhausted + (b.exhausted + c.exhausted)]
  BY <1>4, PlusAdds
<1>8. QED
  BY <1>1, <1>3, <1>5, <1>6, <1>7, PlusAdds

(* The steps that make no attempt, move no RetryStats and end nothing.     *)
LEMMA CountedStays ==
  ASSUME CountedInv, UNCHANGED <<stats, made, report>>, thread'.stats = thread.stats,
         thread'.transient = thread.transient,
         \/ thread'.at = thread.at
         \/ thread.at = "fetch" /\ thread'.at \in {"ready", "raised"},
         \/ main'.at = main.at
         \/ main.at \notin Failing /\ main'.at \notin Failing \union {"resume"}
         \/ main.at \notin Ended /\ main'.at = "killed"
  PROVE  CountedInv'
BY DEF CountedInv, RetriesAreCounted, Failing, Ended

(* A caller that raises.                                                   *)
LEMMA CountedRaises ==
  ASSUME CountedInv, RestOK, ThreadInv, NEW transient \in BOOLEAN, NEW raised \in RetryCounts,
         Raise(transient, raised), transient => raised.exhausted = 1,
         main \in Callers, main.at \notin Failing,
         UNCHANGED thread \/ thread' = Resting
  PROVE  CountedInv'
<1>1. main'.at = "raising"
  BY GotoKeeps DEF Raise
<1>2. /\ report'.status = "none" /\ (report'.transient => report'.stats.exhausted = 1)
  BY RaiseKeepsReport DEF RestOK, CountedInv
<1>3. Resting.at = "idle" /\ Resting.stats = NoStats
  BY DEF Resting
<1>4. QED
  BY <1>1, <1>2, <1>3 DEF CountedInv, RetriesAreCounted, Failing, Ended

(* Every step keeps the count.                                             *)
LEMMA CountedKeeps ==
  PlaceInv /\ ThreadInv /\ RestOK /\ CountedInv /\ [Next]_vars => CountedInv'
<1> SUFFICES ASSUME PlaceInv, ThreadInv, RestOK, CountedInv, [Next]_vars PROVE CountedInv'
  OBVIOUS
<1> USE DEF At, Through
<1>0. /\ stats \in RetryCounts /\ made \in RetryCounts /\ thread.stats \in RetryCounts
      /\ thread \in Threads /\ main \in Callers /\ report \in Reports
      /\ NoStats \in RetryCounts /\ Tried \in RetryCounts /\ TriedAgain \in RetryCounts
      /\ GivenUp \in RetryCounts
      /\ Tried.exhausted = 0 /\ TriedAgain.exhausted = 0 /\ GivenUp.exhausted = 1
  BY AttemptsAreCounts DEF RestOK, ThreadInv, PlaceInv, Threads, Tried, TriedAgain, GivenUp, NoStats
<1>a. \A stage \in MainStages \union Ended \union {"resume", "await", "raising"} :
        Goto(stage).at = stage
  BY <1>0, GotoKeeps
<1>b. \A a \in {Tried, TriedAgain, GivenUp} :
        /\ Plus(stats, a) \in RetryCounts
        /\ Plus(stats, a).exhausted = stats.exhausted + a.exhausted
        /\ Plus(Plus(stats, thread.stats), a) = Plus(Plus(stats, a), thread.stats)
        /\ Plus(thread.stats, a).exhausted = thread.stats.exhausted + a.exhausted
        /\ Plus(Plus(stats, thread.stats), a) = Plus(stats, Plus(thread.stats, a))
  <2> SUFFICES ASSUME NEW a \in RetryCounts
               PROVE  /\ Plus(stats, a) \in RetryCounts
                      /\ Plus(stats, a).exhausted = stats.exhausted + a.exhausted
                      /\ Plus(Plus(stats, thread.stats), a) = Plus(Plus(stats, a), thread.stats)
                      /\ Plus(thread.stats, a).exhausted = thread.stats.exhausted + a.exhausted
                      /\ Plus(Plus(stats, thread.stats), a) = Plus(stats, Plus(thread.stats, a))
    BY <1>0
  <2>1. stats \in RetryCounts /\ thread.stats \in RetryCounts
    BY <1>0
  <2>2. Plus(stats, a) \in RetryCounts
    BY <2>1, CountsAddUp
  <2>3. Plus(thread.stats, a).exhausted = thread.stats.exhausted + a.exhausted
    BY <2>1, PlusLaws
  <2>4. Plus(stats, a).exhausted = stats.exhausted + a.exhausted
    BY <2>1, PlusLaws
  <2>5. /\ Plus(Plus(stats, thread.stats), a) = Plus(Plus(stats, a), thread.stats)
        /\ Plus(Plus(stats, thread.stats), a) = Plus(stats, Plus(thread.stats, a))
    BY <2>1, PlusLaws
  <2>6. QED
    BY <2>2, <2>3, <2>4, <2>5
<1>1. CASE UNCHANGED vars
  BY <1>1, CountedStays DEF vars
<1>2. CASE Begin
  <2>1. Plus(NoStats, NoStats) = NoStats /\ NoStats.exhausted = 0
    BY <1>0, PlusLaws DEF NoStats
  <2>2. /\ main'.at = "resume" /\ thread'.at = "idle" /\ thread'.stats = NoStats
        /\ stats' = NoStats /\ made' = NoStats /\ report'.status = "none"
    BY <1>2 DEF Begin, Resting, NoReport
  <2>3. QED
    BY <2>1, <2>2 DEF CountedInv, RetriesAreCounted, Failing, Ended
<1>3. CASE Resume
  <2>1. CASE main'.at = "finished"
    <3>1. report'.status = "ok" /\ report'.stats = NoStats
      BY <1>3, <1>a, <2>1 DEF Resume, NoReport, MainStages, Ended
    <3>2. made' = NoStats /\ NoStats.exhausted = 0 /\ thread'.at = "idle" /\ thread'.stats = NoStats
      BY <1>3 DEF Resume, CountedInv, ThreadInv, NoStats
    <3>3. QED
      BY <2>1, <3>1, <3>2 DEF CountedInv, RetriesAreCounted, Failing, Ended
  <2>2. CASE main'.at # "finished"
    <3>1. main'.at \in {"check", "heights"} /\ UNCHANGED <<report, stats, made, thread>>
      BY <1>3, <1>a, <2>2 DEF Resume, MainStages, Ended
    <3>2. QED
      BY <1>3, <3>1, CountedStays DEF Resume, Failing, Ended
  <2>3. QED
    BY <2>1, <2>2
<1>4. CASE OperationSucceeds
  <2>1. main'.at = main.at /\ main.at \in MainStages /\ UNCHANGED <<thread, report>>
    BY <1>0, <1>4 DEF OperationSucceeds, Working, Callers
  <2>2. stats' = Plus(stats, Tried) /\ made' = Plus(made, Tried)
    BY <1>4 DEF OperationSucceeds
  <2>3. made = Plus(stats, thread.stats) /\ stats.exhausted = 0 /\ report.status = "none"
    BY <2>1 DEF CountedInv, Failing, Ended, MainStages
  <2>4. made' = Plus(stats', thread'.stats) /\ stats'.exhausted = 0
    BY <1>0, <1>b, <2>1, <2>2, <2>3
  <2>5. QED
    BY <2>1, <2>3, <2>4 DEF CountedInv, RetriesAreCounted, Failing, Ended, MainStages
<1>5. CASE OperationFails /\ main.tries < Retries
  <2>1. main'.at = main.at /\ main.at \in MainStages /\ UNCHANGED <<thread, report>>
    BY <1>0, <1>5 DEF OperationFails, Working, Callers
  <2>2. stats' = Plus(stats, TriedAgain) /\ made' = Plus(made, TriedAgain)
    BY <1>5 DEF OperationFails
  <2>3. made = Plus(stats, thread.stats) /\ stats.exhausted = 0 /\ report.status = "none"
    BY <2>1 DEF CountedInv, Failing, Ended, MainStages
  <2>4. made' = Plus(stats', thread'.stats) /\ stats'.exhausted = 0
    BY <1>0, <1>b, <2>1, <2>2, <2>3
  <2>5. QED
    BY <2>1, <2>3, <2>4 DEF CountedInv, RetriesAreCounted, Failing, Ended, MainStages
<1>6. CASE OperationFails /\ ~(main.tries < Retries)
  <2>1. /\ Raise(TRUE, stats') /\ stats' = Plus(stats, GivenUp) /\ UNCHANGED thread
        /\ main.at \in MainStages
    BY <1>6 DEF OperationFails, Working
  <2>2. main.at \notin Failing /\ stats.exhausted = 0
    BY <2>1 DEF CountedInv, Failing, Ended, MainStages
  <2>3. stats' \in RetryCounts /\ stats'.exhausted = 1
    BY <1>0, <1>b, <2>1, <2>2
  <2>4. QED
    BY <1>0, <2>1, <2>2, <2>3, CountedRaises
<1>7. CASE FieldsMissing \/ StreamBreaks \/ WriteFails
  <2>1. Raise(FALSE, NoStats) /\ UNCHANGED thread /\ main.at \in MainStages
    BY <1>7 DEF FieldsMissing, StreamBreaks, WriteFails, Stopped, MainStages
  <2>2. main.at \notin Failing
    BY <2>1 DEF Failing, Ended, MainStages
  <2>3. QED
    BY <1>0, <2>1, <2>2, CountedRaises
<1>8. CASE TakeException
  <2>1. /\ main.at \notin Failing /\ thread' = Resting /\ Raise(thread.transient, thread.stats)
        /\ thread.transient \in BOOLEAN
        /\ thread.transient => thread.stats.exhausted = 1
    BY <1>0, <1>8 DEF TakeException, Failing, Ended, CountedInv, Threads
  <2>2. QED
    BY <1>0, <2>1, CountedRaises
<1>9. CASE Raised
  <2>1. /\ main'.at = "failed" /\ thread' = Resting /\ report' = [report EXCEPT !.status = "failed"]
        /\ report.transient => report.stats.exhausted = 1
    BY <1>9, <1>a DEF Raised, CountedInv, Ended
  <2>2. /\ report'.status = "failed" /\ (report'.transient => report'.stats.exhausted = 1)
    BY <1>0, <2>1 DEF Reports
  <2>3. thread'.at = "idle" /\ thread'.stats = NoStats
    BY <2>1 DEF Resting
  <2>4. QED
    BY <2>1, <2>2, <2>3 DEF CountedInv, RetriesAreCounted, Failing, Ended
<1>10. CASE Kill
  <2>1. /\ main'.at = "killed" /\ thread'.at = "idle" /\ thread'.stats = NoStats
        /\ report'.status = "none"
    BY <1>10, <1>a DEF Kill, Resting, CountedInv, Failing, Ended
  <2>2. QED
    BY <2>1 DEF CountedInv, RetriesAreCounted, Failing, Ended
<1>11. CASE Checked \/ Fetched
  BY <1>11, <1>a, CountedStays DEF Checked, Fetched, MainStages, Failing, Ended
<1>12. CASE HeightsRead \/ PreviousRead \/ PreviousIconRead
  <2>1. /\ UNCHANGED <<stats, made, report>>
        /\ main.at \in BeforeChunks \ {"resume"} /\ main'.at \in MainStages \union {"await"}
    BY <1>12, <1>a DEF HeightsRead, PreviousRead, PreviousIconRead, StartChunks, BeforeChunks, MainStages
  <2>2. thread.at = "idle"
    BY <2>1 DEF ThreadInv, BeforeChunks
  <2>3. UNCHANGED thread \/ thread' = Submit(1)
    BY <1>12 DEF HeightsRead, PreviousRead, PreviousIconRead, StartChunks
  <2>4. thread'.stats = NoStats /\ (thread'.at = "idle" \/ (thread'.at = "fetch" /\ ~thread'.transient))
    BY <2>2, <2>3 DEF CountedInv, Submit, Resting
  <2>5. NoStats.exhausted = 0
    BY DEF NoStats
  <2>6. QED
    BY <2>1, <2>2, <2>4, <2>5
       DEF CountedInv, RetriesAreCounted, Failing, Ended, BeforeChunks, MainStages
<1>13. CASE Take
  <2>1. /\ main.at = "await" /\ thread.at = "ready" /\ main'.at = "decode"
        /\ stats' = Plus(stats, thread.stats) /\ thread' = Following /\ UNCHANGED <<made, report>>
    BY <1>13, <1>a DEF Take, MainStages
  <2>2. /\ made = Plus(stats, thread.stats) /\ stats.exhausted = 0 /\ report.status = "none"
        /\ thread.stats.exhausted = 0
    BY <2>1 DEF CountedInv, Failing, Ended
  <2>3. /\ thread'.stats = NoStats /\ thread'.at \in {"idle", "fetch"} /\ ~thread'.transient
    BY <2>1 DEF Following, Submit, Resting
  <2>4. stats' \in RetryCounts /\ Plus(stats', NoStats) = stats' /\ stats'.exhausted = 0
    <3>1. stats' \in RetryCounts
      BY <1>0, <2>1, CountsAddUp
    <3>2. Plus(stats', NoStats) = stats'
      BY <3>1, PlusLaws
    <3>3. Plus(stats, thread.stats).exhausted = stats.exhausted + thread.stats.exhausted
      BY <1>0, PlusLaws
    <3>4. QED
      BY <2>1, <2>2, <3>1, <3>2, <3>3
  <2>5. NoStats.exhausted = 0
    BY DEF NoStats
  <2>6. QED
    BY <2>1, <2>2, <2>3, <2>4, <2>5 DEF CountedInv, RetriesAreCounted, Failing, Ended
<1>14. CASE WriteHour
  <2>1. main.at = "decode" /\ UNCHANGED <<thread, stats, made>>
    BY <1>14 DEF WriteHour
  <2>2. made = Plus(stats, thread.stats) /\ stats.exhausted = 0 /\ report.status = "none"
    BY <2>1 DEF CountedInv, Failing, Ended
  <2>3. CASE main.hour = call.last
    <3>1. thread.at = "idle"
      BY <2>1, <2>3, LastHourAlone
    <3>2. made = stats
      BY <1>0, <2>2, <3>1, PlusLaws DEF CountedInv
    <3>3. main'.at = "finished" /\ report'.status = "ok" /\ report'.stats = stats
      BY <1>14, <1>a, <2>3 DEF WriteHour, NoReport, Ended
    <3>4. QED
      BY <2>1, <2>2, <3>1, <3>2, <3>3 DEF CountedInv, RetriesAreCounted, Failing, Ended
  <2>4. CASE main.hour # call.last
    <3>1. UNCHANGED report
      BY <1>14, <2>4 DEF WriteHour
    <3>2. main'.at \in {"decode", "await", "fetch"}
      <4>1. CASE main.hour < ChunkEnd(main.chunk)
        BY <1>0, <1>14, <2>4, <4>1 DEF WriteHour, Callers, Goto
      <4>2. CASE ~(main.hour < ChunkEnd(main.chunk))
        BY <1>0, <1>14, <2>4, <4>2 DEF WriteHour, Callers, Goto
      <4>3. QED
        BY <4>1, <4>2
    <3>3. QED
      BY <2>1, <3>1, <3>2, CountedStays DEF Failing, Ended
  <2>5. QED
    BY <2>3, <2>4
<1>15. CASE ThreadSucceeds \/ (ThreadFails /\ thread.tries < Retries)
  <2>1. /\ thread.at = "fetch" /\ thread'.at = "fetch" /\ thread'.transient = thread.transient
        /\ UNCHANGED <<main, stats, report>>
    BY <1>0, <1>15 DEF ThreadSucceeds, ThreadFails, Threads
  <2>2. PICK a \in {Tried, TriedAgain} :
          made' = Plus(made, a) /\ thread'.stats = Plus(thread.stats, a)
    <3>1. CASE ThreadSucceeds
      BY <1>0, <3>1 DEF ThreadSucceeds, Threads
    <3>2. CASE ThreadFails /\ thread.tries < Retries
      BY <1>0, <3>2 DEF ThreadFails, Threads
    <3>3. QED
      BY <1>15, <3>1, <3>2
  <2>3. /\ thread'.stats.exhausted = 0
        /\ made = Plus(stats, thread.stats) => made' = Plus(stats, thread'.stats)
    BY <1>0, <1>b, <2>1, <2>2 DEF CountedInv
  <2>4. main.at \in {"await", "decode", "raising"}
    BY <2>1 DEF ThreadInv
  <2>5. QED
    BY <2>1, <2>3, <2>4 DEF CountedInv, RetriesAreCounted, Failing, Ended
<1>16. CASE ThreadFails /\ ~(thread.tries < Retries)
  <2>1. /\ thread.at = "fetch" /\ thread'.at = "raised" /\ thread'.transient = TRUE
        /\ made' = Plus(made, GivenUp) /\ thread'.stats = Plus(thread.stats, GivenUp)
        /\ UNCHANGED <<main, stats, report>>
    BY <1>0, <1>16 DEF ThreadFails, Threads
  <2>2. /\ thread'.stats.exhausted = 1
        /\ made = Plus(stats, thread.stats) => made' = Plus(stats, thread'.stats)
    BY <1>0, <1>b, <2>1 DEF CountedInv
  <2>3. main.at \in {"await", "decode", "raising"}
    BY <2>1 DEF ThreadInv
  <2>4. QED
    BY <2>1, <2>2, <2>3 DEF CountedInv, RetriesAreCounted, Failing, Ended
<1>17. CASE ThreadStreamBreaks \/ ThreadReturns
  <2>1. /\ thread.at = "fetch" /\ thread'.at \in {"ready", "raised"}
        /\ thread'.stats = thread.stats /\ thread'.transient = thread.transient
        /\ UNCHANGED <<main, stats, made, report>>
    BY <1>0, <1>17 DEF ThreadStreamBreaks, ThreadReturns, Threads
  <2>2. QED
    BY <2>1, CountedStays
<1>18. QED
  BY <1>1, <1>2, <1>3, <1>4, <1>5, <1>6, <1>7, <1>8, <1>9, <1>10, <1>11, <1>12, <1>13, <1>14, <1>15,
     <1>16, <1>17 DEF Next, MainStep, ThreadStep

(* The RetryStats a call returns are those of every attempt it made, in    *)
(* its own thread and in the prefetching one, and a call that gave an      *)
(* operation up says so (_retry_operation, RetryStats.add).                *)
THEOREM RetriesAreAllCounted == Spec => []RetriesAreCounted
<1>1. CountedInv => RetriesAreCounted
  BY DEF CountedInv
<1>2. Init => CountedInv
  BY CountedInitially
<1>3. PlaceInv /\ ThreadInv /\ RestOK /\ CountedInv /\ [Next]_vars => CountedInv'
  BY CountedKeeps
<1>4. QED
  BY <1>1, <1>2, <1>3, AllHolds, PTL DEF Spec

-----------------------------------------------------------------------------
(* Clamped differences.                                                    *)

Falls(hours) == {p \in Accumulations \X hours : Net(archive, p[1], p[2]) < 0}

ClampInv ==
  /\ main.at \in BeforeChunks => clamped = 0
  /\ main.at \in InChunks => clamped = Cardinality(Falls(call.first..(main.hour - 1)))
  /\ ClampsAreCounted

(* Before the first call nothing is clamped.                               *)
LEMMA ClampInitially == Init => ClampInv
BY DEF Init, ClampInv, ClampsAreCounted, BeforeChunks, InChunks, Ended, NoReport

\* The falls of finitely many hours are finitely many.
LEMMA FallsAreFinite ==
  ASSUME NEW a \in Int, NEW b \in Int
  PROVE  IsFiniteSet(Falls(a..b))
<1>1. IsFiniteSet(Accumulations)
  <2>1. IsFiniteSet({TotalPrecip})
    BY FS_Singleton
  <2>2. QED
    BY <2>1, FS_Union, PipelineAssumption DEF PipelineAssumption, Accumulations
<1>2. IsFiniteSet(Accumulations \X (a..b))
  BY <1>1, FS_Interval, FS_Product
<1>3. Falls(a..b) \subseteq Accumulations \X (a..b)
  BY DEF Falls
<1>4. QED
  BY <1>2, <1>3, FS_Subset

\* What decreases at an hour falls there, from what the archive has before it.
LEMMA DecreasedFalls ==
  ASSUME PlaceInv, CarriedInv, main.at = "decode", Decodable(main.hour)
  PROVE  Decreased(main.hour) = {k \in Accumulations : Net(archive, k, main.hour) < 0}
<1> DEFINE s == main.hour
<1>1. \A k \in Accumulations : archive.acc[k][s] \in Nat
  BY HourIsReference
<1>2. \A k \in Accumulations : IF s = 0 THEN carried[k] = Absent
                               ELSE /\ carried[k] = archive.acc[k][s - 1]
                                    /\ archive.acc[k][s - 1] \in Nat
  BY DEF CarriedInv, InChunks, Before
<1>3. ASSUME NEW k \in Accumulations
      PROVE  Difference(archive.acc[k][s], carried[k]) = Net(archive, k, s)
  <2>1. CASE s = 0
    BY <1>2, <2>1 DEF Difference, Net
  <2>2. CASE s # 0
    <3>1. carried[k] # Absent /\ carried[k] = archive.acc[k][s - 1]
      BY <1>2, <2>2, PipelineAssumption DEF PipelineAssumption
    <3>2. QED
      BY <2>2, <3>1 DEF Difference, Net
  <2>3. QED
    BY <2>1, <2>2
<1>4. QED
  BY <1>3 DEF Decreased

\* An hour adds what decreases at it.
LEMMA HourAddsFalls ==
  ASSUME PlaceInv, CarriedInv, main.at = "decode", Decodable(main.hour)
  PROVE  Cardinality(Falls(call.first..main.hour))
           = Cardinality(Falls(call.first..(main.hour - 1))) + Cardinality(Decreased(main.hour))
<1> DEFINE s == main.hour
           first == call.first
           old == Falls(first..(s - 1))
           new == Falls({s})
           pair == [k \in Decreased(s) |-> <<k, s>>]
<1>1. first \in Int /\ s \in Int /\ first <= s
  <2>1. first \in Nat /\ s \in first..call.last
    BY CallIsWellFormed, HourIsStep DEF PlaceInv, InChunks
  <2>2. QED
    BY <2>1
<1>2. IsFiniteSet(old) /\ IsFiniteSet(new)
  <2>1. {s} = s..s /\ s - 1 \in Int
    BY <1>1
  <2>2. IsFiniteSet(Falls(first..(s - 1)))
    BY <1>1, <2>1, FallsAreFinite
  <2>3. IsFiniteSet(Falls(s..s))
    BY <1>1, FallsAreFinite
  <2>4. QED
    BY <2>1, <2>2, <2>3
<1>3. Falls(first..s) = old \union new /\ old \intersect new = {}
  <2>1. first..s = (first..(s - 1)) \union {s} /\ s \notin first..(s - 1)
    BY <1>1
  <2>2. QED
    BY <2>1 DEF Falls
<1>4. Cardinality(new) = Cardinality(Decreased(s))
  <2>1. IsFiniteSet(Decreased(s))
    <3>1. Decreased(s) \subseteq Accumulations
      BY DEF Decreased
    <3>2. IsFiniteSet({TotalPrecip})
      BY FS_Singleton
    <3>3. IsFiniteSet(Accumulations)
      BY <3>2, FS_Union, PipelineAssumption DEF PipelineAssumption, Accumulations
    <3>4. QED
      BY <3>1, <3>3, FS_Subset
  <2>2. new = {<<k, s>> : k \in Decreased(s)}
    BY DecreasedFalls DEF Falls
  <2>3. pair \in Bijection(Decreased(s), new)
    BY <2>2 DEF Bijection, Injection, Surjection, IsInjective
  <2>4. QED
    BY <2>1, <2>3, FS_Bijection DEF ExistsBijection
<1>5. Cardinality(old) \in Nat /\ Cardinality(new) \in Nat
  BY <1>2, FS_CardinalityType
<1> HIDE DEF old, new
<1>6. Cardinality(old \union new) = Cardinality(old) + Cardinality(new)
  <2>1. Cardinality(old \union new) = Cardinality(old) + Cardinality(new) - Cardinality(old \intersect new)
    BY <1>2, FS_Union
  <2>2. Cardinality(old \intersect new) = 0
    BY <1>3, FS_EmptySet
  <2>3. QED
    BY <1>5, <2>1, <2>2
<1>7. QED
  BY <1>3, <1>4, <1>6 DEF old

\* The steps that write no hour.
LEMMA ClampStays ==
  ASSUME ClampInv, UNCHANGED <<archive, call, clamped>>,
         UNCHANGED report \/ ~(report'.status = "ok" /\ ~report'.reused),
         \/ main'.at = main.at /\ main'.hour = main.hour
         \/ main'.at \in Ended \union {"raising"}
         \/ main.at \in BeforeChunks /\ main'.at \in BeforeChunks
         \/ main.at \in {"fetch", "await"} /\ main'.at = "decode" /\ main'.hour = main.hour
  PROVE  ClampInv'
<1>1. ClampsAreCounted'
  <2>1. CASE UNCHANGED report
    BY <2>1 DEF ClampInv, ClampsAreCounted, Hours
  <2>2. CASE ~(report'.status = "ok" /\ ~report'.reused)
    BY <2>2 DEF ClampsAreCounted
  <2>3. QED
    BY <2>1, <2>2
<1>2. main'.at \in BeforeChunks => clamped' = 0
  BY DEF ClampInv, BeforeChunks, Ended
<1>3. ASSUME main'.at \in InChunks
      PROVE  clamped' = Cardinality(Falls(call.first..(main.hour - 1)))'
  <2>1. main.at \in InChunks /\ main'.hour = main.hour
    BY <1>3 DEF InChunks, BeforeChunks, Ended
  <2>2. Falls(call.first..(main.hour - 1))' = Falls(call.first..(main.hour - 1))
    BY <2>1 DEF Falls
  <2>3. QED
    BY <2>1, <2>2 DEF ClampInv
<1>4. QED
  BY <1>1, <1>2, <1>3 DEF ClampInv

\* No hour is behind a call that enters its chunks.
LEMMA ClampStarts ==
  ASSUME PlaceInv, ClampInv, main.at \in BeforeChunks, StartChunks,
         UNCHANGED <<archive, call, clamped, report>>
  PROVE  ClampInv'
<1>1. main'.at \in {"await", "fetch"} /\ main'.hour = main.hour /\ main.hour = call.first
  BY GotoKeeps DEF StartChunks, PlaceInv, HoursInv, MainStages
<1>2. call.first \in Int /\ call.first..(call.first - 1) = {}
  BY CallIsWellFormed DEF PlaceInv
<1>3. Falls(call.first..(main.hour - 1))' = {}
  BY <1>1, <1>2 DEF Falls
<1>4. clamped' = Cardinality(Falls(call.first..(main.hour - 1)))'
  BY <1>3, FS_EmptySet DEF ClampInv
<1>5. QED
  BY <1>1, <1>4 DEF ClampInv, ClampsAreCounted, Hours, BeforeChunks, InChunks

\* The hour that is written.
LEMMA ClampWrites ==
  ASSUME PlaceInv, ThreadInv, AmountsInv, RestOK, CountedInv, ClampInv, WriteHour
  PROVE  ClampInv'
<1> DEFINE s == main.hour
           quality == clamped + Cardinality(Decreased(s))
<1>1. /\ main.at = "decode" /\ Decodable(s) /\ UNCHANGED <<archive, call>> /\ clamped' = quality
      /\ report.status = "none"
  BY StageFields DEF WriteHour, Through, At, CountedInv, Failing, Ended
<1>2. quality = Cardinality(Falls(call.first..s))
  BY <1>1, HourAddsFalls DEF AmountsInv, ClampInv, InChunks
<1> HIDE DEF quality
<1>3. CASE s = call.last
  <2>1. main'.at = "finished"
    BY <1>3, GotoKeeps DEF WriteHour, PlaceInv, Ended
  <2>2. report'.clamped = quality
    BY <1>3 DEF WriteHour, NoReport, quality
  <2>3. Falls(call.first..s) = {p \in Accumulations \X Hours(call) : Net(archive, p[1], p[2]) < 0}
    BY <1>3 DEF Falls, Hours
  <2>4. ClampsAreCounted'
    BY <1>1, <1>2, <2>2, <2>3 DEF ClampsAreCounted
  <2>5. QED
    BY <2>1, <2>4 DEF ClampInv, BeforeChunks, InChunks
<1>4. CASE s # call.last
  <2>1. UNCHANGED report
    BY <1>4 DEF WriteHour
  <2>2. main'.at \in InChunks /\ main'.hour = s + 1
    <3>1. CASE s < ChunkEnd(main.chunk)
      BY <1>4, <3>1 DEF WriteHour, PlaceInv, Callers, Goto, InChunks
    <3>2. CASE ~(s < ChunkEnd(main.chunk))
      <4>1. main'.at \in {"await", "fetch"} /\ main'.hour = ChunkStart(main.chunk + 1)
        BY <1>4, <3>2 DEF WriteHour, PlaceInv, Callers, Goto
      <4>2. /\ main.chunk \in Nat \ {0} /\ s <= ChunkEnd(main.chunk) /\ main.chunk <= Chunks
            /\ s \in Int
        BY <1>1 DEF PlaceInv, HoursInv, InChunks, Callers
      <4>3. /\ ChunkEnd(main.chunk) = ChunkStart(main.chunk + 1) - 1 \/ ChunkEnd(main.chunk) = call.last
            /\ ChunkStart(main.chunk + 1) \in Int /\ ChunkEnd(main.chunk) \in Int
        BY <4>2, NextChunk DEF PlaceInv
      <4>4. s = ChunkEnd(main.chunk)
        BY <3>2, <4>2, <4>3
      <4>5. QED
        BY <1>4, <4>1, <4>3, <4>4 DEF InChunks
    <3>3. QED
      BY <3>1, <3>2
  <2>3. main'.hour - 1 = s
    BY <1>1, <2>2, HourIsStep DEF PlaceInv, Callers
  <2>4. Falls(call.first..(main.hour - 1))' = Falls(call.first..s)
    BY <1>1, <2>3 DEF Falls
  <2>5. ClampsAreCounted'
    BY <1>1, <2>1 DEF ClampsAreCounted
  <2>6. QED
    BY <1>1, <1>2, <2>2, <2>4, <2>5 DEF ClampInv, BeforeChunks, InChunks
<1>5. QED
  BY <1>3, <1>4

\* Every step keeps the count of the clamped differences.
LEMMA ClampKeeps ==
  PlaceInv /\ ThreadInv /\ AmountsInv /\ RestOK /\ CountedInv /\ ClampInv /\ [Next]_vars => ClampInv'
<1> SUFFICES ASSUME PlaceInv, ThreadInv, AmountsInv, RestOK, CountedInv, ClampInv, [Next]_vars
             PROVE  ClampInv'
  OBVIOUS
<1> USE DEF At, Through
<1>0. /\ main \in Callers /\ report \in Reports
      /\ \A stage \in MainStages \union Ended \union {"resume", "await", "raising"} :
           Goto(stage).at = stage /\ Goto(stage).hour = main.hour
  BY GotoKeeps DEF PlaceInv, RestOK
<1>1. CASE UNCHANGED vars
  BY <1>1, ClampStays DEF vars
<1>2. CASE Begin
  <2>1. main'.at = "resume" /\ clamped' = 0 /\ report'.status = "none"
    BY <1>2 DEF Begin, NoReport
  <2>2. QED
    BY <2>1 DEF ClampInv, ClampsAreCounted, InChunks
<1>3. CASE Resume
  <2>1. UNCHANGED report \/ report'.reused
    BY <1>3 DEF Resume, NoReport
  <2>2. main.at = "resume" /\ main'.at \in {"finished", "check", "heights"}
    BY <1>0, <1>3 DEF Resume, Ended, MainStages
  <2>3. QED
    BY <1>3, <2>1, <2>2, ClampStays DEF Resume, BeforeChunks, Ended
<1>4. CASE OperationSucceeds \/ OperationFails
  <2>1. CASE OperationFails /\ ~(main.tries < Retries)
    <3>1. report'.status = report.status /\ main'.at = "raising"
      BY <1>0, <2>1 DEF OperationFails, Raise, Reports
    <3>2. main.at \notin Failing
      BY <2>1 DEF OperationFails, Working, Failing, Ended, MainStages
    <3>3. report'.status # "ok"
      BY <3>1, <3>2 DEF CountedInv
    <3>4. QED
      BY <2>1, <3>1, <3>3, ClampStays DEF OperationFails
  <2>2. CASE ~(OperationFails /\ ~(main.tries < Retries))
    <3>1. UNCHANGED <<report, archive, call, clamped>> /\ main'.at = main.at /\ main'.hour = main.hour
      BY <1>0, <1>4, <2>2 DEF OperationSucceeds, OperationFails, Callers
    <3>2. QED
      BY <3>1, ClampStays
  <2>3. QED
    BY <2>1, <2>2
<1>5. CASE FieldsMissing \/ StreamBreaks \/ WriteFails \/ TakeException
  <2>1. /\ report'.status = report.status /\ main'.at = "raising" /\ main.at \notin Failing
        /\ UNCHANGED <<archive, call, clamped>>
    BY <1>0, <1>5 DEF FieldsMissing, StreamBreaks, WriteFails, TakeException, Raise, Reports,
       Stopped, Failing, Ended, MainStages
  <2>2. QED
    BY <2>1, ClampStays DEF CountedInv
<1>6. CASE Raised
  <2>1. report'.status = "failed" /\ main'.at = "failed"
    BY <1>0, <1>6 DEF Raised, Ended, Reports
  <2>2. QED
    BY <1>6, <2>1, ClampStays DEF Raised, Ended
<1>7. CASE Kill
  BY <1>0, <1>7, ClampStays DEF Kill, Ended
<1>8. CASE Checked
  BY <1>0, <1>8, ClampStays DEF Checked, BeforeChunks, MainStages
<1>9. CASE HeightsRead \/ PreviousRead \/ PreviousIconRead
  <2>1. /\ main.at \in BeforeChunks /\ UNCHANGED <<archive, call, clamped, report>>
        /\ StartChunks \/ main'.at \in {"previous", "previousIcon"}
    BY <1>0, <1>9 DEF HeightsRead, PreviousRead, PreviousIconRead, BeforeChunks, MainStages
  <2>2. QED
    BY <2>1, ClampStarts, ClampStays DEF BeforeChunks
<1>10. CASE Fetched \/ Take
  BY <1>0, <1>10, ClampStays DEF Fetched, Take, MainStages
<1>11. CASE WriteHour
  BY <1>11, ClampWrites
<1>12. CASE ThreadStep
  BY <1>12, ClampStays DEF ThreadStep, ThreadSucceeds, ThreadFails, ThreadStreamBreaks, ThreadReturns
<1>13. QED
  BY <1>1, <1>2, <1>3, <1>4, <1>5, <1>6, <1>7, <1>8, <1>9, <1>10, <1>11, <1>12 DEF Next, MainStep

(* The clamped differences a call reports are those of the archive over    *)
(* the hours it was asked for, each once, for all chunk sizes and first    *)
(* hours (_process_chunk, _nonnegative_accumulation_amount).               *)
THEOREM ClampsAreAllCounted == Spec => []ClampsAreCounted
<1>1. ClampInv => ClampsAreCounted
  BY DEF ClampInv
<1>2. Spec => []CountedInv
  BY CountedInitially, CountedKeeps, AllHolds, PTL DEF Spec
<1>3. QED
  BY <1>1, <1>2, ClampInitially, ClampKeeps, AllHolds, PTL DEF Spec

-----------------------------------------------------------------------------
(* The pipeline implements MemberPromise.                                  *)

MemberInv == PlaceInv /\ ThreadInv /\ AmountsInv /\ RestOK /\ CountedInv

\* A call under way has reported nothing, and is at the hour it writes next.
LEMMA UnderWay ==
  ASSUME MemberInv, main.at \notin Ended
  PROVE  /\ report.status = "none" /\ Outcome = "none"
         /\ Todo = [next |-> main.hour, last |-> call.last]
BY DEF MemberInv, CountedInv, Failing, Ended, Outcome, Todo

\* The hour after the one that is written.
LEMMA NextHour ==
  ASSUME MemberInv, WriteHour
  PROVE  IF main.hour = call.last
         THEN main'.at = "finished" /\ report'.status = "ok" /\ ~report'.reused
         ELSE main'.at \in InChunks /\ main'.hour = main.hour + 1 /\ UNCHANGED report
<1> DEFINE s == main.hour
<1>1. main.at = "decode"
  BY DEF WriteHour, Through, At
<1>2. CASE s = call.last
  BY <1>2, GotoKeeps DEF WriteHour, MemberInv, PlaceInv, Ended, NoReport
<1>3. CASE s # call.last /\ s < ChunkEnd(main.chunk)
  BY <1>3 DEF WriteHour, MemberInv, PlaceInv, Callers, Goto, InChunks
<1>4. CASE s # call.last /\ ~(s < ChunkEnd(main.chunk))
  <2>1. main'.at \in {"await", "fetch"} /\ main'.hour = ChunkStart(main.chunk + 1) /\ UNCHANGED report
    BY <1>4 DEF WriteHour, MemberInv, PlaceInv, Callers, Goto
  <2>2. /\ main.chunk \in Nat \ {0} /\ s <= ChunkEnd(main.chunk) /\ main.chunk <= Chunks
        /\ s \in Int
    BY <1>1 DEF MemberInv, PlaceInv, HoursInv, InChunks, Callers
  <2>3. /\ ChunkEnd(main.chunk) = ChunkStart(main.chunk + 1) - 1 \/ ChunkEnd(main.chunk) = call.last
        /\ ChunkStart(main.chunk + 1) \in Int /\ ChunkEnd(main.chunk) \in Int
    BY <2>2, NextChunk DEF MemberInv, PlaceInv
  <2>4. s = ChunkEnd(main.chunk)
    BY <1>4, <2>2, <2>3
  <2>5. QED
    BY <1>4, <2>1, <2>3, <2>4 DEF InChunks
<1>5. QED
  BY <1>2, <1>3, <1>4

\* Writing an hour is the member's write.
LEMMA WriteRefines ==
  ASSUME MemberInv, WriteHour
  PROVE  Member!Write
<1> DEFINE s == main.hour
<1>1. /\ main.at = "decode" /\ Decodable(s) /\ UNCHANGED <<archive, call>>
      /\ out' = [out EXCEPT ![s] = Amounts(s)]
  BY StageFields DEF WriteHour, Through, At
<1>2. s \in Steps /\ s \in Nat /\ s <= call.last /\ call.last \in Nat
  BY <1>1, HourIsStep, CallIsWellFormed DEF MemberInv, PlaceInv, InChunks, Steps
<1>3. Outcome = "none" /\ Todo = [next |-> s, last |-> call.last]
  BY <1>1, UnderWay DEF Ended
<1>4. Amounts(s) = Promised[s] /\ Promised' = Promised
  BY <1>1, <1>2, HourIsReference DEF MemberInv, AmountsInv, Promised, Reference, References
<1>5. Todo' = [next |-> s + 1, last |-> call.last]
      /\ Outcome' = IF s = call.last THEN "ok" ELSE "none"
  <2>1. CASE s = call.last
    BY <1>1, <2>1, NextHour DEF Todo, Outcome
  <2>2. CASE s # call.last
    <3>1. report'.status = "none"
      BY <1>1, <2>2, NextHour, UnderWay DEF Ended
    <3>2. QED
      BY <1>1, <2>2, <3>1, NextHour DEF Todo, Outcome, InChunks
  <2>3. QED
    BY <2>1, <2>2
<1>6. out' = [out EXCEPT ![Todo.next] = Promised[Todo.next]]
  BY <1>1, <1>3, <1>4
<1>7. Todo' = [Todo EXCEPT !.next = @ + 1] /\ Todo.next <= Todo.last
      /\ Outcome' = IF Todo.next = Todo.last THEN "ok" ELSE "none"
  BY <1>2, <1>3, <1>5
<1>8. QED
  BY <1>3, <1>4, <1>6, <1>7 DEF Member!Write

\* A new call.
LEMMA BeginRefines ==
  ASSUME MemberInv, Begin
  PROVE  Member!Begin
<1>1. main.at \in Ended /\ call' \in Calls /\ UNCHANGED <<archive, out>>
      /\ main'.at = "resume" /\ main'.hour = call'.first /\ report'.status = "none"
  BY DEF Begin, NoReport
<1>2. Outcome # "none" /\ Outcome' = "none"
  BY <1>1 DEF Outcome, Ended
<1>3. call'.first \in Steps /\ call'.last \in Steps
  BY <1>1, PipelineAssumption DEF PipelineAssumption
<1>4. Todo' = [next |-> call'.first, last |-> call'.last]
  BY <1>1 DEF Todo
<1>5. Promised' = Promised
  BY <1>1 DEF Promised, Reference, References
<1>6. QED
  BY <1>1, <1>2, <1>3, <1>4, <1>5 DEF Member!Begin

\* A call that finds all its hours reuses them.
LEMMA ResumeRefines ==
  ASSUME MemberInv, Resume
  PROVE  Member!Reuse \/ UNCHANGED Member!vars
<1>1. main.at = "resume" /\ UNCHANGED <<archive, call, out>>
  BY DEF Resume, At
<1>2. Outcome = "none" /\ Todo = [next |-> main.hour, last |-> call.last] /\ report.status = "none"
  BY <1>1, UnderWay DEF Ended
<1>3. Promised' = Promised
  BY <1>1 DEF Promised, Reference, References
<1>4. main.hour = call.first /\ call.first \in Nat /\ call.last \in Nat
  BY <1>1, CallIsWellFormed DEF MemberInv, PlaceInv, HoursInv, BeforeChunks
<1>5. CASE call.resume /\ \A s \in Hours(call) : out[s] # Absent
  <2>1. main' = Goto("finished") /\ report'.status = "ok" /\ report'.reused
    BY <1>5 DEF Resume, NoReport
  <2>2. main'.at = "finished" /\ main'.hour = main.hour
    BY <2>1, GotoKeeps DEF MemberInv, PlaceInv, Ended
  <2>3. Todo' = Todo /\ Outcome' = "ok"
    BY <1>1, <1>2, <2>1, <2>2 DEF Todo, Outcome
  <2>4. \A s \in Member!Range(Todo.next, Todo.last) : out[s] # Absent
    <3>1. \A s \in Steps : s \in Int
      BY PipelineAssumption DEF PipelineAssumption, Steps
    <3>2. \A s \in Steps : call.first <= s /\ s <= call.last => s \in Hours(call)
      BY <1>4, <3>1 DEF Hours
    <3>3. QED
      BY <1>2, <1>4, <1>5, <3>2 DEF Member!Range
  <2>5. QED
    BY <1>1, <1>2, <1>3, <2>3, <2>4 DEF Member!Reuse
<1>6. CASE ~(call.resume /\ \A s \in Hours(call) : out[s] # Absent)
  <2>1. main'.at \in {"check", "heights"} /\ main'.hour = main.hour /\ UNCHANGED report
    BY <1>6, GotoKeeps DEF Resume, MemberInv, PlaceInv, MainStages
  <2>2. Todo' = Todo /\ Outcome' = Outcome
    BY <1>1, <1>2, <2>1 DEF Todo, Outcome
  <2>3. QED
    BY <1>1, <1>3, <2>2 DEF Member!vars
<1>7. QED
  BY <1>5, <1>6

\* An exception that leaves the call, or a kill.
LEMMA FailRefines ==
  ASSUME MemberInv, Raised \/ Kill
  PROVE  Member!Fail
<1>1. /\ main.at \notin Ended /\ UNCHANGED <<archive, call, out>>
      /\ main' = Goto("failed") \/ main' = Goto("killed")
      /\ UNCHANGED report \/ report' = [report EXCEPT !.status = "failed"]
  BY DEF Raised, Kill, At, Ended
<1>2. main'.at \in {"failed", "killed"} /\ main'.hour = main.hour
  BY <1>1, GotoKeeps DEF MemberInv, PlaceInv, Ended
<1>3. report'.status # "ok"
  BY <1>1, UnderWay DEF MemberInv, RestOK, Reports
<1>4. Outcome = "none" /\ Outcome' = "failed" /\ Todo' = Todo
  BY <1>1, <1>2, <1>3, UnderWay DEF Todo, Outcome
<1>5. Promised' = Promised
  BY <1>1 DEF Promised, Reference, References
<1>6. QED
  BY <1>1, <1>4, <1>5 DEF Member!Fail

\* What is in between, a reader of the outputs does not see.
LEMMA RestRefines ==
  ASSUME MemberInv, UNCHANGED <<archive, call, out>>, main'.hour = main.hour,
         (main.at \notin Ended /\ main'.at \notin Ended) \/ main'.at = main.at,
         report'.status = report.status, report'.reused = report.reused
  PROVE  UNCHANGED Member!vars
BY DEF Member!vars, Promised, Reference, References, Todo, Outcome, Ended

\* Every step is one of the plain member, or none that shows.
LEMMA StepRefines ==
  ASSUME MemberInv, Next
  PROVE  Member!Next \/ UNCHANGED Member!vars
<1> USE DEF At, Through
<1>0. /\ main \in Callers /\ report \in Reports
      /\ \A stage \in MainStages \union Ended \union {"resume", "await", "raising"} :
           Goto(stage).at = stage /\ Goto(stage).hour = main.hour
  BY GotoKeeps DEF MemberInv, PlaceInv, RestOK
<1>1. CASE Begin
  BY <1>1, BeginRefines DEF Member!Next
<1>2. CASE Resume
  BY <1>2, ResumeRefines DEF Member!Next
<1>3. CASE OperationSucceeds \/ (OperationFails /\ main.tries < Retries)
  <2>1. main'.at = main.at /\ main'.hour = main.hour /\ UNCHANGED <<archive, call, out, report>>
    BY <1>0, <1>3 DEF OperationSucceeds, OperationFails, Callers
  <2>2. QED
    BY <2>1, RestRefines
<1>4. CASE \/ OperationFails /\ ~(main.tries < Retries)
           \/ FieldsMissing \/ StreamBreaks \/ WriteFails \/ TakeException
  <2>1. main'.at = "raising" /\ main'.hour = main.hour /\ main.at \notin Ended
        /\ UNCHANGED <<archive, call, out>>
    BY <1>0, <1>4 DEF OperationFails, Working, FieldsMissing, Stopped, StreamBreaks, WriteFails,
       TakeException, Raise, Ended, MainStages
  <2>2. report'.status = report.status /\ report'.reused = report.reused
    BY <1>0, <1>4 DEF OperationFails, FieldsMissing, StreamBreaks, WriteFails, TakeException,
       Raise, Reports
  <2>3. QED
    BY <2>1, <2>2, RestRefines DEF Ended
<1>5. CASE Checked \/ Fetched \/ Take
  <2>1. main'.at \in MainStages /\ main'.hour = main.hour /\ main.at \notin Ended
        /\ UNCHANGED <<archive, call, out, report>>
    BY <1>0, <1>5 DEF Checked, Fetched, Take, Ended, MainStages
  <2>2. QED
    BY <2>1, RestRefines DEF Ended, MainStages
<1>6. CASE HeightsRead \/ PreviousRead \/ PreviousIconRead
  <2>1. main'.at \in MainStages \union {"await"} /\ main'.hour = main.hour /\ main.at \notin Ended
        /\ UNCHANGED <<archive, call, out, report>>
    BY <1>0, <1>6 DEF HeightsRead, PreviousRead, PreviousIconRead, StartChunks, Ended, MainStages
  <2>2. QED
    BY <2>1, RestRefines DEF Ended, MainStages
<1>7. CASE WriteHour
  BY <1>7, WriteRefines DEF Member!Next
<1>8. CASE Raised \/ Kill
  BY <1>8, FailRefines DEF Member!Next
<1>9. CASE ThreadStep
  BY <1>9, RestRefines DEF ThreadStep, ThreadSucceeds, ThreadFails, ThreadStreamBreaks, ThreadReturns
<1>10. QED
  BY <1>1, <1>2, <1>3, <1>4, <1>5, <1>6, <1>7, <1>8, <1>9 DEF Next, MainStep

(* Whoever reads the outputs of a member may rely on MemberPromise: hour   *)
(* after hour in order, each once per call and from the archive alone, and *)
(* a call that succeeds leaves its full range behind.                      *)
THEOREM PipelineImplementsPromise == Spec => KeepsMemberPromise
<1>1. Init => Member!Init
  <2> SUFFICES ASSUME Init PROVE Member!Init
    OBVIOUS
  <2>1. call.last \in Steps /\ 0 \in Steps
    BY PipelineAssumption DEF Init, PipelineAssumption, Steps
  <2>2. Todo = [next |-> 0, last |-> call.last] /\ Outcome = "failed"
    BY DEF Init, Todo, Outcome, NoReport
  <2>3. QED
    BY <2>1, <2>2 DEF Init, Member!Init, Promised
<1>2. MemberInv /\ [Next]_vars => [Member!Next]_(Member!vars)
  <2> SUFFICES ASSUME MemberInv, [Next]_vars
               PROVE  Member!Next \/ UNCHANGED Member!vars
    OBVIOUS
  <2>1. CASE UNCHANGED vars
    BY <2>1, RestRefines DEF vars
  <2>2. QED
    BY <2>1, StepRefines
<1>3. Spec => []MemberInv
  BY CountedInitially, CountedKeeps, AllHolds, PTL DEF Spec, MemberInv
<1>4. QED
  BY <1>1, <1>2, <1>3, PTL DEF Spec, KeepsMemberPromise, Member!Spec
=============================================================================
