------------------------- MODULE WriteStream_proofs --------------------------
(***************************************************************************)
(* Write streams, any number of them with any options on one file: they    *)
(* keep the rules of StreamHandle, give their descriptors back when they   *)
(* finish, and do not finish before everything was written.                *)
(***************************************************************************)
EXTENDS WriteStream, StreamHandle_proofs, FiniteSetTheorems

(***************************************************************************)
(* What StreamHandle proves holds of write streams.                        *)
(***************************************************************************)

(* Every step of a write stream is a step of StreamHandle or leaves the    *)
(* descriptors alone.                                                      *)
LEMMA WriteStepIsHandleStep == [Next]_vars => [HandleNext]_handleVars
<1> SUFFICES ASSUME [Next]_vars PROVE [HandleNext]_handleVars
  OBVIOUS
<1>1. CASE UNCHANGED vars
  BY <1>1 DEF vars
<1>2. ASSUME NEW s \in Streams, NEW f \in Fds, AdoptFd(s, f) PROVE HandleNext
  BY <1>2 DEF AdoptFd, HandleNext
<1>3. ASSUME NEW s \in Streams,
             ConstructStream(s) \/ RunOpen(s) \/ Ready(s) \/ OpenListenerThrows(s) \/ UserClose(s)
      PROVE  HandleNext
  BY <1>3 DEF ConstructStream, RunOpen, Ready, OpenListenerThrows, UserClose, HandleNext
<1>4. ASSUME NEW s \in Streams, EmitFinish(s) PROVE [HandleNext]_handleVars
  BY <1>4 DEF EmitFinish, HandleNext
<1>5. ASSUME NEW s \in Streams, Write(s) \/ UserWrite(s) \/ UserEnd(s) \/ UserDestroy(s)
      PROVE  UNCHANGED handleVars
  BY <1>5 DEF Write, UserWrite, UserEnd, UserDestroy, handleVars
<1> QED
  BY <1>1, <1>2, <1>3, <1>4, <1>5 DEF Next

(* A write stream does to its descriptor what StreamHandle lists, being    *)
(* built from it: the theorems about StreamHandle are about it.            *)
LEMMA WriteStreamKeepsHandleSpec == Spec => HandleSpec
<1>1. Init => HandleInit
  BY DEF Init
<1> QED
  BY <1>1, WriteStepIsHandleStep, PTL DEF Spec, HandleSpec

(* A write stream never writes into a file that another stream or the      *)
(* program has opened under its old number.                                *)
THEOREM WritersUseTheirOwnFd == Spec => []StreamsUseTheirOwnFd
BY WriteStreamKeepsHandleSpec, StreamsNeverShareFds, PTL

(* The descriptor a write stream opened is never forgotten.                *)
THEOREM WritersForgetNoFd == Spec => []NoFdForgotten
BY WriteStreamKeepsHandleSpec, StreamsForgetNoFd, PTL

(* A closed write stream that still holds a descriptor was closed too      *)
(* early or by a listener's exception.                                     *)
THEOREM WritersStrandOnlyTwoWays == Spec => []StrandedOnlyByEarlyCloseOrThrow
BY WriteStreamKeepsHandleSpec, OnlyTwoWaysToStrand, PTL

(***************************************************************************)
(* What 'finish' means.                                                    *)
(***************************************************************************)

(* The types the argument needs. *)
ChunkTypes ==
  /\ HandleTypeOK
  /\ opt \in [Streams -> Options]
  /\ {accepted, answered} \subseteq [Streams -> Nat]
  /\ {short, ending, finished, destroyed, writing, waiting} \subseteq [Streams -> BOOLEAN]
  /\ landed \in [Streams -> Seq(Streams \X Nat)]

(* Each chunk answered without error is in the file whole, unless a write  *)
(* was short.                                                              *)
ChunksAreWhole ==
  \A s \in Streams : ~short[s] => Len(landed[s]) = answered[s] * ChunkLen

(* A write that waits for 'ready' occupies the base class.                 *)
WaitersAreWriting == \A s \in Streams : waiting[s] => writing[s]

(* A finished stream takes no chunk any more, has none under way, and has  *)
(* closed its file.                                                        *)
FinishedIsFinal ==
  \A s \in Streams : finished[s] =>
    /\ destroyed[s] /\ ending[s] /\ ~writing[s]
    /\ answered[s] = accepted[s]
    /\ opt[s].autoClose => fileClosed[s]

ChunkInv == ChunkTypes /\ ChunksAreWhole /\ WaitersAreWriting /\ FinishedIsFinal

(* One chunk more is ChunkLen units more.                                  *)
LEMMA OneMoreChunk ==
  ASSUME NEW a \in Nat, NEW c \in Nat
  PROVE  (a + 1) * c = a * c + c
OBVIOUS

(* Two sequences one after the other.                                      *)
LEMMA Concatenated ==
  ASSUME NEW S, NEW a \in Seq(S), NEW b \in Seq(S)
  PROVE  a \o b \in Seq(S) /\ Len(a \o b) = Len(a) + Len(b)
OBVIOUS

(* The units of a chunk that were written come after those before them.    *)
LEMMA LandedGrows ==
  ASSUME ChunkTypes, NEW s \in Streams, NEW n \in 1..ChunkLen
  PROVE  /\ landed[s] \o Chunk(s, n) \in Seq(Streams \X Nat)
         /\ Len(landed[s] \o Chunk(s, n)) = Len(landed[s]) + n
<1>1. answered[s] * ChunkLen \in Nat /\ n \in Nat
  BY BoundsAreNumbers DEF ChunkTypes
<1>2. \A i \in 1..n : answered[s] * ChunkLen + i \in Nat
  BY <1>1
<1>3. Chunk(s, n) \in Seq(Streams \X Nat) /\ Len(Chunk(s, n)) = n
  BY <1>1, <1>2 DEF Chunk
<1>4. landed[s] \in Seq(Streams \X Nat)
  BY DEF ChunkTypes
<1> QED
  BY <1>3, <1>4, Concatenated

(* What _write does to a stream when it does not put itself off.           *)
LEMMA WriteNowStep ==
  ASSUME ChunkInv, NEW s \in Streams, WriteNow(s)
  PROVE  /\ answered' \in [Streams -> Nat]
         /\ {short', destroyed', writing'} \subseteq [Streams -> BOOLEAN]
         /\ landed' \in [Streams -> Seq(Streams \X Nat)]
         /\ ~writing'[s]
         /\ \A t \in Streams : t # s =>
              /\ answered'[t] = answered[t] /\ short'[t] = short[t]
              /\ landed'[t] = landed[t] /\ destroyed'[t] = destroyed[t]
              /\ writing'[t] = writing[t]
         /\ ChunksAreWhole'
<1>1. CASE WriteFails(s)
  <2>1. /\ UNCHANGED <<landed, short, answered>>
        /\ writing' = [writing EXCEPT ![s] = FALSE]
        /\ destroyed' = [destroyed EXCEPT ![s] = TRUE]
    BY <1>1 DEF WriteFails
  <2> QED
    BY <2>1 DEF ChunkInv, ChunkTypes, ChunksAreWhole
<1>2. ASSUME NEW n \in 1..ChunkLen, WriteSucceeds(s, n)
      PROVE  /\ answered' \in [Streams -> Nat]
             /\ {short', destroyed', writing'} \subseteq [Streams -> BOOLEAN]
             /\ landed' \in [Streams -> Seq(Streams \X Nat)]
             /\ ~writing'[s]
             /\ \A t \in Streams : t # s =>
                  /\ answered'[t] = answered[t] /\ short'[t] = short[t]
                  /\ landed'[t] = landed[t] /\ destroyed'[t] = destroyed[t]
                  /\ writing'[t] = writing[t]
             /\ ChunksAreWhole'
  <2>1. /\ landed' = [landed EXCEPT ![s] = @ \o Chunk(s, n)]
        /\ short' = [short EXCEPT ![s] = @ \/ n < ChunkLen]
        /\ answered' = [answered EXCEPT ![s] = @ + 1]
        /\ writing' = [writing EXCEPT ![s] = FALSE]
        /\ UNCHANGED destroyed
    BY <1>2 DEF WriteSucceeds
  <2>2. /\ landed[s] \o Chunk(s, n) \in Seq(Streams \X Nat)
        /\ Len(landed[s] \o Chunk(s, n)) = Len(landed[s]) + n
    BY LandedGrows DEF ChunkInv
  <2>3. /\ answered' \in [Streams -> Nat] /\ answered'[s] = answered[s] + 1
        /\ landed' \in [Streams -> Seq(Streams \X Nat)]
        /\ Len(landed'[s]) = Len(landed[s]) + n
        /\ \A t \in Streams : t # s => answered'[t] = answered[t] /\ landed'[t] = landed[t]
    BY <2>1, <2>2, SMTT(20) DEF ChunkInv, ChunkTypes
  <2>4. /\ {short', destroyed', writing'} \subseteq [Streams -> BOOLEAN]
        /\ ~writing'[s]
        /\ ~short'[s] => ~short[s] /\ ~(n < ChunkLen)
        /\ \A t \in Streams : t # s =>
             short'[t] = short[t] /\ destroyed'[t] = destroyed[t] /\ writing'[t] = writing[t]
    BY <2>1 DEF ChunkInv, ChunkTypes
  <2>5. ASSUME NEW t \in Streams, ~short'[t] PROVE Len(landed'[t]) = answered'[t] * ChunkLen
    <3>1. CASE t # s
      BY <2>3, <2>4, <2>5, <3>1 DEF ChunkInv, ChunksAreWhole
    <3>2. CASE t = s
      <4>1. n = ChunkLen /\ Len(landed[s]) = answered[s] * ChunkLen
        BY <2>4, <2>5, <3>2, BoundsAreNumbers DEF ChunkInv, ChunksAreWhole
      <4>2. answered[s] \in Nat /\ ChunkLen \in Nat
        BY BoundsAreNumbers DEF ChunkInv, ChunkTypes
      <4>3. (answered[s] + 1) * ChunkLen = answered[s] * ChunkLen + ChunkLen
        BY <4>2, OneMoreChunk
      <4> QED
        BY <2>3, <3>2, <4>1, <4>3
    <3> QED
      BY <3>1, <3>2
  <2> QED
    BY <2>3, <2>4, <2>5 DEF ChunksAreWhole
<1> QED
  BY <1>1, <1>2 DEF WriteNow

(* ChunkInv is inductive: one step per action of a write stream.           *)
LEMMA ChunkStep == ChunkInv /\ [Next]_vars => ChunkInv'
<1> SUFFICES ASSUME ChunkInv, [Next]_vars PROVE ChunkInv'
  OBVIOUS
<1>1. HandleTypeOK'
  BY WriteStepIsHandleStep, HandleTypeStep DEF ChunkInv, ChunkTypes
<1>2. \A t \in Streams : fileClosed[t] => fileClosed'[t]
  BY WriteStepIsHandleStep, ClosedStaysClosed DEF ChunkInv, ChunkTypes
<1>3. CASE UNCHANGED <<opt, accepted, answered, writing, waiting, ending, finished, destroyed,
                       landed, short>>
  BY <1>1, <1>2, <1>3 DEF ChunkInv, ChunkTypes, ChunksAreWhole, WaitersAreWriting, FinishedIsFinal
<1>4. ASSUME NEW s \in Streams, Write(s) PROVE ChunkInv'
  <2>1. ~destroyed[s] /\ ~writing[s] /\ ~waiting[s]
        /\ UNCHANGED <<opt, accepted, ending, finished, fileClosed>>
    BY <1>4 DEF Write, handleVars, ChunkInv, WaitersAreWriting
  <2>2. CASE pending[s]
    <3>1. /\ waiting' = [waiting EXCEPT ![s] = TRUE] /\ writing' = [writing EXCEPT ![s] = TRUE]
          /\ UNCHANGED <<landed, short, answered, destroyed>>
      BY <1>4, <2>2 DEF Write, PutOff
    <3>2. ChunkTypes' /\ ChunksAreWhole'
      BY <1>1, <2>1, <3>1 DEF ChunkInv, ChunkTypes, ChunksAreWhole
    <3>3. WaitersAreWriting' /\ FinishedIsFinal'
      BY <2>1, <3>1 DEF ChunkInv, ChunkTypes, WaitersAreWriting, FinishedIsFinal
    <3> QED
      BY <3>2, <3>3 DEF ChunkInv
  <2>3. CASE ~pending[s]
    <3>1. WriteNow(s) /\ UNCHANGED waiting
      BY <1>4, <2>3 DEF Write
    <3>2. ChunkTypes' /\ ChunksAreWhole'
      BY <1>1, <2>1, <3>1, WriteNowStep DEF ChunkInv, ChunkTypes
    <3>3. WaitersAreWriting'
      BY <2>1, <3>1, WriteNowStep DEF ChunkInv, WaitersAreWriting
    <3>4. FinishedIsFinal'
      BY <2>1, <3>1, WriteNowStep DEF ChunkInv, FinishedIsFinal
    <3> QED
      BY <3>2, <3>3, <3>4 DEF ChunkInv
  <2> QED
    BY <2>2, <2>3
<1>5. ASSUME NEW s \in Streams, RunWaitingWrite(s) PROVE ChunkInv'
  <2>1. /\ waiting' = [waiting EXCEPT ![s] = FALSE]
        /\ UNCHANGED <<opt, accepted, ending, finished>>
    BY <1>5 DEF RunWaitingWrite
  <2>2. CASE waiting[s]
    <3>1. WriteNow(s) /\ writing[s]
      BY <1>5, <2>2 DEF RunWaitingWrite, ChunkInv, WaitersAreWriting
    <3>2. ChunkTypes' /\ ChunksAreWhole'
      BY <1>1, <2>1, <3>1, WriteNowStep DEF ChunkInv, ChunkTypes
    <3>3. WaitersAreWriting'
      BY <2>1, <3>1, WriteNowStep DEF ChunkInv, ChunkTypes, WaitersAreWriting
    <3>4. FinishedIsFinal'
      BY <1>2, <2>1, <3>1, WriteNowStep DEF ChunkInv, FinishedIsFinal
    <3> QED
      BY <3>2, <3>3, <3>4 DEF ChunkInv
  <2>3. CASE ~waiting[s]
    <3>1. UNCHANGED <<opt, accepted, answered, writing, waiting, ending, finished, destroyed,
                      landed, short>>
      BY <1>5, <2>1, <2>3 DEF RunWaitingWrite, ChunkInv, ChunkTypes
    <3> QED
      BY <1>3, <3>1
  <2> QED
    BY <2>2, <2>3
<1>6. ASSUME NEW s \in Streams, UserWrite(s) PROVE ChunkInv'
  BY <1>1, <1>2, <1>6 DEF UserWrite, ChunkInv, ChunkTypes, ChunksAreWhole, WaitersAreWriting,
                          FinishedIsFinal
<1>7. ASSUME NEW s \in Streams, UserEnd(s) PROVE ChunkInv'
  BY <1>1, <1>2, <1>7 DEF UserEnd, ChunkInv, ChunkTypes, ChunksAreWhole, WaitersAreWriting,
                          FinishedIsFinal
<1>8. ASSUME NEW s \in Streams, UserDestroy(s) PROVE ChunkInv'
  BY <1>1, <1>2, <1>8 DEF UserDestroy, ChunkInv, ChunkTypes, ChunksAreWhole, WaitersAreWriting,
                          FinishedIsFinal
<1>9. ASSUME NEW s \in Streams, EmitFinish(s) PROVE ChunkInv'
  <2>1. /\ finished' = [finished EXCEPT ![s] = TRUE] /\ destroyed' = [destroyed EXCEPT ![s] = TRUE]
        /\ ending[s] /\ ~writing[s] /\ answered[s] = accepted[s]
        /\ UNCHANGED <<opt, accepted, answered, writing, waiting, ending, landed, short>>
    BY <1>9 DEF EmitFinish, CanFinish
  <2>2. opt[s].autoClose => fileClosed'[s]
    <3>1. CASE fileClosed[s]
      BY <1>2, <3>1
    <3>2. CASE ~fileClosed[s]
      BY <1>9, <3>2 DEF EmitFinish, Close, ChunkInv, ChunkTypes, HandleTypeOK
    <3> QED
      BY <3>1, <3>2
  <2>3. ChunkTypes' /\ ChunksAreWhole' /\ WaitersAreWriting'
    BY <1>1, <2>1 DEF ChunkInv, ChunkTypes, ChunksAreWhole, WaitersAreWriting
  <2>4. FinishedIsFinal'
    BY <1>2, <2>1, <2>2 DEF ChunkInv, ChunkTypes, FinishedIsFinal
  <2> QED
    BY <2>3, <2>4 DEF ChunkInv
<1>10. ASSUME NEW s \in Streams,
              (\E f \in Fds : AdoptFd(s, f)) \/ ConstructStream(s) \/ RunOpen(s) \/ UserClose(s)
       PROVE  UNCHANGED <<opt, accepted, answered, writing, waiting, ending, finished, destroyed,
                          landed, short>>
  BY <1>10 DEF AdoptFd, ConstructStream, RunOpen, UserClose, Opened, dataVars
<1>11. ASSUME NEW s \in Streams, Ready(s) \/ OpenListenerThrows(s) PROVE ChunkInv'
  BY <1>3, <1>5, <1>11 DEF Ready, OpenListenerThrows, dataVars
<1> QED
  <2>1. CASE UNCHANGED vars
    BY <1>3, <2>1 DEF vars, dataVars
  <2>2. CASE Next
    BY <1>3, <1>4, <1>5, <1>6, <1>7, <1>8, <1>9, <1>10, <1>11, <2>2 DEF Next
  <2> QED
    BY <2>1, <2>2

(* At the start no chunk has been written.                                 *)
LEMMA ChunkStart == Init => ChunkInv
<1> SUFFICES ASSUME Init PROVE ChunkInv
  OBVIOUS
<1>1. ChunkTypes
  BY HandleStart DEF Init, ChunkTypes, IInv
<1>2. ChunksAreWhole
  BY BoundsAreNumbers DEF Init, ChunksAreWhole
<1> QED
  BY <1>1, <1>2 DEF Init, ChunkInv, WaitersAreWriting, FinishedIsFinal

(* ChunkInv holds in every state of every run of the write streams.        *)
LEMMA ChunkInvariant == Spec => []ChunkInv
BY ChunkStart, ChunkStep, PTL DEF Spec

(* 'finish' is emitted only when every chunk the program handed over is in *)
(* the file, for any size and number of chunks: a failed write never       *)
(* passes for a good one, and only a short native write is overlooked.     *)
THEOREM FinishedStreamsHaveWritten == Spec => []FinishMeansWritten
<1>1. ChunkInv => FinishMeansWritten
  BY DEF ChunkInv, ChunksAreWhole, FinishedIsFinal, FinishMeansWritten
<1> QED
  BY <1>1, ChunkInvariant, PTL

(* A write stream that finished has given its descriptor back, unless it   *)
(* was closed before its open had run or a listener of the open threw.     *)
THEOREM FinishedStreamsHoldNoFd == Spec => []FinishReleasesTheFile
<1>1. ChunkInv /\ StrandedOnlyByEarlyCloseOrThrow => FinishReleasesTheFile
  BY DEF ChunkInv, FinishedIsFinal, StrandedOnlyByEarlyCloseOrThrow, FinishReleasesTheFile
<1> QED
  BY <1>1, ChunkInvariant, WritersStrandOnlyTwoWays, PTL

(***************************************************************************)
(* Types.                                                                  *)
(***************************************************************************)

(* A chunk is answered after it was accepted, and one that is being        *)
(* written has not been answered yet.                                      *)
ChunksAreCounted ==
  \A s \in Streams :
    /\ accepted[s] <= MaxChunks /\ answered[s] <= accepted[s]
    /\ writing[s] => answered[s] < accepted[s]
    /\ waiting[s] => writing[s]

(* The last unit of a chunk lies within the last chunk.                    *)
LEMMA ChunksFit ==
  ASSUME NEW a \in Nat, NEW m \in Nat, NEW c \in Nat \ {0}, a < m, NEW n \in 1..c, NEW i \in 1..n
  PROVE  a * c + i \in 1..m * c
<1>1. PICK k \in Nat : m = (a + 1) + k
  <2>1. m - (a + 1) \in Nat /\ m = (a + 1) + (m - (a + 1))
    OBVIOUS
  <2> QED
    BY <2>1
<1>2. m * c = a * c + c + k * c
  BY <1>1
<1>3. a * c \in Nat /\ k * c \in Nat
  OBVIOUS
<1> QED
  BY <1>2, <1>3

(* What a native write takes is a part of the chunk.                       *)
LEMMA ChunkIsUnits ==
  ASSUME TypeOK, NEW s \in Streams, NEW n \in 1..ChunkLen,
         answered[s] < MaxChunks
  PROVE  Chunk(s, n) \in Seq(Units) /\ Len(Chunk(s, n)) = n
<1>1. answered[s] \in Nat /\ MaxChunks \in Nat /\ ChunkLen \in Nat \ {0}
  BY BoundsAreNumbers DEF TypeOK
<1>2. \A i \in 1..n : <<s, answered[s] * ChunkLen + i>> \in Units
  BY <1>1, ChunksFit DEF Units
<1> QED
  BY <1>2 DEF Chunk

(* Writing over, after or beyond the end of the file.                      *)
LEMMA WrittenIsAFile ==
  ASSUME NEW at \in Nat, NEW units \in Seq(Units), content \in Seq(Units \union {Hole})
  PROVE  /\ WrittenAt(at, units) \in Seq(Units \union {Hole})
         /\ Len(WrittenAt(at, units)) =
              IF at + Len(units) > Len(content) THEN at + Len(units) ELSE Len(content)
<1> DEFINE size == IF at + Len(units) > Len(content) THEN at + Len(units) ELSE Len(content)
           unit(i) == IF i \in at + 1 .. at + Len(units) THEN units[i - at]
                      ELSE IF i <= Len(content) THEN content[i] ELSE Hole
<1>1. size \in Nat
  OBVIOUS
<1>2. ASSUME NEW i \in 1..size PROVE unit(i) \in Units \union {Hole}
  <2>1. CASE i \in at + 1 .. at + Len(units)
    <3>1. i - at \in 1..Len(units)
      BY <2>1
    <3>2. units[i - at] \in Units
      BY <3>1
    <3> QED
      BY <2>1, <3>2
  <2>2. CASE i \notin at + 1 .. at + Len(units) /\ i <= Len(content)
    BY <2>2
  <2>3. CASE i \notin at + 1 .. at + Len(units) /\ ~(i <= Len(content))
    BY <2>3
  <2> QED
    BY <2>1, <2>2, <2>3
<1>3. WrittenAt(at, units) = [i \in 1..size |-> unit(i)]
  BY DEF WrittenAt
<1> HIDE DEF size, unit
<1>4. [i \in 1..size |-> unit(i)] \in Seq(Units \union {Hole})
      /\ Len([i \in 1..size |-> unit(i)]) = size
  BY <1>1, <1>2
<1> QED
  BY <1>3, <1>4 DEF size

(* What a _write that is not put off does to the types.                    *)
LEMMA WriteNowTypes ==
  ASSUME TypeOK, NEW s \in Streams, answered[s] < accepted[s], accepted[s] <= MaxChunks,
         WriteNow(s)
  PROVE  /\ {pos', bytesWritten', answered', offset'} \subseteq [Streams -> Nat]
         /\ {writing', destroyed', short'} \subseteq [Streams -> BOOLEAN]
         /\ content' \in Seq(Units \union {Hole}) /\ landed' \in [Streams -> Seq(Units)]
         /\ ~writing'[s] /\ answered'[s] <= accepted[s]
         /\ \A t \in Streams : t # s => writing'[t] = writing[t] /\ answered'[t] = answered[t]
<1>1. CASE WriteFails(s)
  BY <1>1 DEF WriteFails, TypeOK
<1>2. ASSUME NEW n \in 1..ChunkLen, WriteSucceeds(s, n)
      PROVE  /\ {pos', bytesWritten', answered', offset'} \subseteq [Streams -> Nat]
             /\ {writing', destroyed', short'} \subseteq [Streams -> BOOLEAN]
             /\ content' \in Seq(Units \union {Hole}) /\ landed' \in [Streams -> Seq(Units)]
             /\ ~writing'[s] /\ answered'[s] <= accepted[s]
             /\ \A t \in Streams : t # s => writing'[t] = writing[t] /\ answered'[t] = answered[t]
  <2>1. n \in Nat /\ answered[s] < MaxChunks
    BY <1>2, BoundsAreNumbers DEF TypeOK
  <2>2. Chunk(s, n) \in Seq(Units) /\ Len(Chunk(s, n)) = n
    BY <2>1, ChunkIsUnits
  <2>3. Place(s) \in Nat
    BY DEF Place, TypeOK
  <2>4. content' \in Seq(Units \union {Hole})
    BY <1>2, <2>2, <2>3, WrittenIsAFile DEF WriteSucceeds, TypeOK
  <2>5. landed' \in [Streams -> Seq(Units)]
    <3>1. landed[s] \in Seq(Units) /\ landed[s] \o Chunk(s, n) \in Seq(Units)
      BY <2>2, Concatenated DEF TypeOK
    <3> QED
      BY <1>2, <3>1 DEF WriteSucceeds, TypeOK
  <2>6. {pos', bytesWritten', offset'} \subseteq [Streams -> Nat]
    BY <1>2, <2>1, <2>3, SMTT(20) DEF WriteSucceeds, TypeOK
  <2>7. /\ answered' = [answered EXCEPT ![s] = @ + 1] /\ writing' = [writing EXCEPT ![s] = FALSE]
        /\ short' = [short EXCEPT ![s] = @ \/ n < ChunkLen] /\ UNCHANGED destroyed
    BY <1>2 DEF WriteSucceeds
  <2>8. {writing', destroyed', short'} \subseteq [Streams -> BOOLEAN] /\ ~writing'[s]
        /\ \A t \in Streams : t # s => writing'[t] = writing[t]
    BY <2>7 DEF TypeOK
  <2>9. answered' \in [Streams -> Nat] /\ answered'[s] <= accepted[s]
        /\ \A t \in Streams : t # s => answered'[t] = answered[t]
    BY <2>7 DEF TypeOK
  <2> QED
    BY <2>4, <2>5, <2>6, <2>8, <2>9
<1> QED
  BY <1>1, <1>2 DEF WriteNow

TInv == TypeOK /\ ChunksAreCounted

(* One step per action that writes, counts or ends.                        *)
LEMMA WriteTypeStep == TInv /\ [Next]_vars => TInv'
<1> SUFFICES ASSUME TInv, [Next]_vars PROVE TInv'
  OBVIOUS
<1>1. HandleTypeOK'
  BY WriteStepIsHandleStep, HandleTypeStep DEF TInv, TypeOK
<1>2. CASE UNCHANGED dataVars
  BY <1>1, <1>2 DEF TInv, TypeOK, ChunksAreCounted, dataVars
<1>3. ASSUME NEW s \in Streams, Opened(s) PROVE TInv'
  <2>1. content' \in Seq(Units \union {Hole})
    BY <1>3 DEF Opened, TInv, TypeOK
  <2>2. UNCHANGED <<opt, pos, bytesWritten, accepted, answered, writing, waiting, ending,
                    finished, destroyed, offset, landed, short>>
    BY <1>3 DEF Opened
  <2> QED
    BY <1>1, <2>1, <2>2 DEF TInv, TypeOK, ChunksAreCounted
<1>4. ASSUME NEW s \in Streams, WriteNow(s), answered[s] < accepted[s],
             \/ UNCHANGED waiting /\ ~waiting[s]
             \/ waiting' = [waiting EXCEPT ![s] = FALSE],
             UNCHANGED <<opt, accepted, ending, finished>>
      PROVE  TInv'
  <2>1. accepted[s] <= MaxChunks
    BY DEF TInv, ChunksAreCounted
  <2>2. /\ {pos', bytesWritten', answered', offset'} \subseteq [Streams -> Nat]
        /\ {writing', destroyed', short'} \subseteq [Streams -> BOOLEAN]
        /\ content' \in Seq(Units \union {Hole}) /\ landed' \in [Streams -> Seq(Units)]
        /\ ~writing'[s] /\ answered'[s] <= accepted[s]
        /\ \A t \in Streams : t # s => writing'[t] = writing[t] /\ answered'[t] = answered[t]
    BY <1>4, <2>1, WriteNowTypes DEF TInv
  <2>3. waiting' \in [Streams -> BOOLEAN] /\ ~waiting'[s]
        /\ \A t \in Streams : t # s => waiting'[t] = waiting[t]
    BY <1>4 DEF TInv, TypeOK
  <2>4. TypeOK'
    BY <1>1, <1>4, <2>2, <2>3, SMTT(20) DEF TInv, TypeOK
  <2> QED
    BY <1>4, <2>2, <2>3, <2>4 DEF TInv, ChunksAreCounted
<1>5. ASSUME NEW s \in Streams, Write(s) PROVE TInv'
  <2>1. ~writing[s] /\ ~waiting[s] /\ answered[s] < accepted[s]
        /\ UNCHANGED <<opt, accepted, ending, finished>>
    BY <1>5 DEF Write, TInv, ChunksAreCounted
  <2>2. CASE pending[s]
    <3>1. /\ waiting' = [waiting EXCEPT ![s] = TRUE] /\ writing' = [writing EXCEPT ![s] = TRUE]
          /\ UNCHANGED <<content, offset, bytesWritten, pos, landed, short, answered, destroyed>>
      BY <1>5, <2>2 DEF Write, PutOff
    <3>2. TypeOK'
      BY <1>1, <2>1, <3>1 DEF TInv, TypeOK
    <3> QED
      BY <2>1, <3>1, <3>2 DEF TInv, TypeOK, ChunksAreCounted
  <2>3. CASE ~pending[s]
    BY <1>4, <1>5, <2>1, <2>3 DEF Write
  <2> QED
    BY <2>2, <2>3
<1>6. ASSUME NEW s \in Streams, RunWaitingWrite(s) PROVE TInv'
  <2>1. CASE waiting[s]
    BY <1>4, <1>6, <2>1 DEF RunWaitingWrite, TInv, ChunksAreCounted
  <2>2. CASE ~waiting[s]
    BY <1>2, <1>6, <2>2 DEF RunWaitingWrite, dataVars, TInv, TypeOK
  <2> QED
    BY <2>1, <2>2
<1>7. ASSUME NEW s \in Streams, UserWrite(s) PROVE TInv'
  <2>1. /\ accepted[s] < MaxChunks /\ accepted' = [accepted EXCEPT ![s] = @ + 1]
        /\ UNCHANGED <<opt, pos, bytesWritten, answered, writing, waiting, ending,
                       finished, destroyed, offset, content, landed, short>>
    BY <1>7 DEF UserWrite
  <2>2. TypeOK'
    BY <1>1, <2>1 DEF TInv, TypeOK
  <2>3. MaxChunks \in Nat /\ accepted[s] \in Nat /\ answered[s] \in Nat
    BY BoundsAreNumbers DEF TInv, TypeOK
  <2>4. accepted'[s] = accepted[s] + 1 /\ \A t \in Streams : t # s => accepted'[t] = accepted[t]
    BY <2>1 DEF TInv, TypeOK
  <2>5. ChunksAreCounted'
    BY <2>1, <2>3, <2>4 DEF TInv, ChunksAreCounted
  <2> QED
    BY <2>2, <2>5 DEF TInv
<1>8. ASSUME NEW s \in Streams, UserEnd(s) \/ UserDestroy(s) \/ EmitFinish(s) PROVE TInv'
  <2>1. /\ {ending', finished', destroyed'} \subseteq [Streams -> BOOLEAN]
        /\ UNCHANGED <<opt, pos, bytesWritten, accepted, answered, writing, waiting,
                       offset, content, landed, short>>
    BY <1>8, ZenonT(40) DEF UserEnd, UserDestroy, EmitFinish, TInv, TypeOK
  <2> QED
    BY <1>1, <2>1 DEF TInv, TypeOK, ChunksAreCounted
<1>9. ASSUME NEW s \in Streams,
             \/ ConstructStream(s) \/ RunOpen(s) \/ UserClose(s) \/ Ready(s)
             \/ OpenListenerThrows(s) \/ \E f \in Fds : AdoptFd(s, f)
      PROVE  TInv'
  BY <1>2, <1>3, <1>6, <1>9
     DEF ConstructStream, RunOpen, UserClose, Ready, OpenListenerThrows, AdoptFd
<1> QED
  <2>1. CASE UNCHANGED vars
    BY <1>2, <2>1 DEF vars
  <2>2. CASE Next
    BY <1>5, <1>7, <1>8, <1>9, <2>2 DEF Next
  <2> QED
    BY <2>1, <2>2

LEMMA WriteTypeStart == Init => TInv
<1> SUFFICES ASSUME Init PROVE TInv
  OBVIOUS
<1>1. HandleTypeOK
  BY HandleStart DEF Init, IInv
<1>2. \A s \in Streams : Positional(s) => opt[s].start \in Nat
  BY OptionsAreTyped DEF Init, Positional
<1>3. pos \in [Streams -> Nat]
  BY <1>2 DEF Init
<1>4. TypeOK
  BY <1>1, <1>3 DEF Init, TypeOK
<1> QED
  BY <1>4, BoundsAreNumbers DEF Init, TInv, ChunksAreCounted

(* Write streams keep their types, also when a chunk waits for 'ready' or  *)
(* the native write takes only a part of it: nothing of a chunk the        *)
(* program never handed over gets into the file.                           *)
THEOREM WriteStreamTypes == Spec => []TypeOK
<1>1. TInv => TypeOK
  BY DEF TInv
<1> QED
  BY <1>1, WriteTypeStart, WriteTypeStep, PTL DEF Spec

(***************************************************************************)
(* A stream that has the file to itself.                                   *)
(***************************************************************************)

(* Where a stream with the file to itself stands, and what it has left.    *)
LonePlaces ==
  \A s \in Streams : made \subseteq {s} /\ (Positional(s) => opt[s].flags # "a") =>
    /\ IF Positional(s) THEN pos[s] = Base(s) + Len(landed[s]) ELSE offset[s] = Len(landed[s])
    /\ IF landed[s] = <<>> THEN content = <<>> ELSE Len(content) = Base(s) + Len(landed[s])
    /\ \A i \in DOMAIN landed[s] : content[Base(s) + i] = landed[s][i]

(* Nothing is written before a stream is opened.                           *)
OpenComesFirst == \A s \in Streams : s \notin made \/ opening[s] => landed[s] = <<>>

LInv == LonePlaces /\ OpenComesFirst

(* Positions and sequences.                                                *)
LEMMA JoinedAt ==
  ASSUME NEW S, NEW a \in Seq(S), NEW b \in Seq(S), b # <<>>
  PROVE  /\ a \o b \in Seq(S) /\ a \o b # <<>> /\ Len(a \o b) = Len(a) + Len(b)
         /\ Len(a) \in Nat /\ Len(b) \in Nat /\ Len(b) > 0
         /\ DOMAIN a = 1..Len(a) /\ DOMAIN (a \o b) = 1..Len(a) + Len(b)
         /\ \A i \in 1..Len(a) : (a \o b)[i] = a[i]
         /\ \A i \in Len(a) + 1 .. Len(a) + Len(b) : (a \o b)[i] = b[i - Len(a)]
OBVIOUS

(* Writing at the end of the file, or beyond it when it is empty.          *)
LEMMA WrittenAtTheEnd ==
  ASSUME NEW at \in Nat, NEW units \in Seq(Units), units # <<>>,
         content \in Seq(Units \union {Hole}), Len(content) <= at
  PROVE  /\ Len(WrittenAt(at, units)) = at + Len(units)
         /\ \A i \in 1..Len(content) : WrittenAt(at, units)[i] = content[i]
         /\ \A i \in at + 1 .. at + Len(units) : WrittenAt(at, units)[i] = units[i - at]
<1>1. Len(units) \in Nat /\ Len(units) > 0 /\ Len(content) \in Nat
  OBVIOUS
<1>2. at + Len(units) > Len(content)
  BY <1>1
<1>3. WrittenAt(at, units) = [i \in 1..at + Len(units) |->
         IF i \in at + 1 .. at + Len(units) THEN units[i - at]
         ELSE IF i <= Len(content) THEN content[i] ELSE Hole]
  BY <1>2 DEF WrittenAt
<1>4. Len(WrittenAt(at, units)) = at + Len(units)
  BY <1>1, <1>2, WrittenIsAFile
<1>5. ASSUME NEW i \in 1..Len(content) PROVE WrittenAt(at, units)[i] = content[i]
  <2>1. i \in 1..at + Len(units) /\ i \notin at + 1 .. at + Len(units) /\ i <= Len(content)
    BY <1>1
  <2> QED
    BY <1>3, <2>1
<1>6. ASSUME NEW i \in at + 1 .. at + Len(units) PROVE WrittenAt(at, units)[i] = units[i - at]
  <2>1. i \in 1..at + Len(units)
    BY <1>1
  <2> QED
    BY <1>3, <2>1
<1> QED
  BY <1>4, <1>5, <1>6

(* A write of a stream with the file to itself goes to the end of what it  *)
(* has written.                                                            *)
LEMMA LoneWrite ==
  ASSUME TypeOK, IInv, LInv, NEW s \in Streams, answered[s] < MaxChunks,
         WriteNow(s), UNCHANGED <<opt, made, opening>>
  PROVE  LInv'
<1>1. CASE WriteFails(s)
  BY <1>1 DEF WriteFails, LInv, LonePlaces, OpenComesFirst, Base, Positional
<1>2. ASSUME fd[s] # NoFd, NEW n \in 1..ChunkLen, WriteSucceeds(s, n) PROVE LInv'
  <2>0. s \in made /\ ~opening[s]
    BY <1>2 DEF IInv, Prepared
  <2>1. Chunk(s, n) \in Seq(Units) /\ Len(Chunk(s, n)) = n /\ n > 0 /\ Chunk(s, n) # <<>>
    <3>1. n \in Nat /\ n > 0
      BY BoundsAreNumbers
    <3> QED
      BY <3>1, ChunkIsUnits
  <2>2. /\ landed' = [landed EXCEPT ![s] = landed[s] \o Chunk(s, n)]
        /\ content' = WrittenAt(Place(s), Chunk(s, n))
        /\ offset' = [offset EXCEPT ![s] = IF Positional(s) THEN offset[s] ELSE Place(s) + n]
        /\ pos' = [pos EXCEPT ![s] = IF Positional(s) THEN pos[s] + n ELSE pos[s]]
    BY <1>2 DEF WriteSucceeds
  <2>3. /\ landed'[s] = landed[s] \o Chunk(s, n)
        /\ \A t \in Streams : t # s => landed'[t] = landed[t]
        /\ landed[s] \in Seq(Units)
    BY <2>2 DEF TypeOK
  <2>4. OpenComesFirst'
    BY <2>0, <2>3 DEF LInv, OpenComesFirst
  <2>5. ASSUME made \subseteq {s}, Positional(s) => opt[s].flags # "a"
        PROVE  /\ IF Positional(s) THEN pos'[s] = Base(s) + Len(landed'[s])
                  ELSE offset'[s] = Len(landed'[s])
               /\ landed'[s] # <<>> /\ Len(content') = Base(s) + Len(landed'[s])
               /\ \A i \in DOMAIN landed'[s] : content'[Base(s) + i] = landed'[s][i]
    <3> DEFINE l == Len(landed[s])
               b == Base(s)
               units == Chunk(s, n)
    <3>1. /\ landed'[s] # <<>> /\ Len(landed'[s]) = l + n /\ l \in Nat /\ n \in Nat
          /\ DOMAIN landed[s] = 1..l /\ DOMAIN landed'[s] = 1..l + n
          /\ \A i \in 1..l : landed'[s][i] = landed[s][i]
          /\ \A i \in l + 1 .. l + n : landed'[s][i] = units[i - l]
      <4>1. PICK a \in Seq(Units), u \in Seq(Units) : a = landed[s] /\ u = units
        BY <2>1, <2>3
      <4>2. u # <<>> /\ Len(u) = n /\ n \in Nat /\ landed'[s] = a \o u /\ l = Len(a)
        BY <2>1, <2>3, <4>1, BoundsAreNumbers
      <4> HIDE DEF l, units
      <4>3. /\ a \o u # <<>> /\ Len(a \o u) = Len(a) + Len(u) /\ Len(a) \in Nat
            /\ DOMAIN a = 1..Len(a) /\ DOMAIN (a \o u) = 1..Len(a) + Len(u)
            /\ \A i \in 1..Len(a) : (a \o u)[i] = a[i]
            /\ \A i \in Len(a) + 1 .. Len(a) + Len(u) : (a \o u)[i] = u[i - Len(a)]
        <5>1. u # <<>>
          BY <4>2
        <5> QED
          BY <5>1, JoinedAt
      <4> QED
        BY <4>1, <4>2, <4>3
    <3>2. /\ IF Positional(s) THEN pos[s] = b + l ELSE offset[s] = l
          /\ IF landed[s] = <<>> THEN content = <<>> ELSE Len(content) = b + l
          /\ \A i \in 1..l : content[b + i] = landed[s][i]
      BY <2>5, <3>1 DEF LInv, LonePlaces
    <3>3. b \in Nat /\ (~Positional(s) => b = 0)
      BY OptionsAreTyped DEF Base, Positional, TypeOK
    <3>4. content \in Seq(Units \union {Hole})
      BY DEF TypeOK
    <3>5. Len(content) <= b + l /\ (l > 0 => Len(content) = b + l)
      <4>1. landed[s] = <<>> => l = 0 /\ Len(content) = 0
        BY <3>2
      <4>2. landed[s] # <<>> => Len(content) = b + l
        BY <3>2
      <4> HIDE DEF l, b
      <4> QED
        BY <3>1, <3>3, <4>1, <4>2
    <3>6. Place(s) = b + l
      <4>1. CASE opt[s].flags = "a"
        <5>1. ~Positional(s) /\ b = 0 /\ Place(s) = Len(content)
          BY <2>5, <3>3, <4>1 DEF Place
        <5>2. Len(content) = l
          <6>1. landed[s] = <<>> => l = 0 /\ Len(content) = 0
            BY <3>2
          <6>2. landed[s] # <<>> => Len(content) = b + l
            BY <3>2
          <6> HIDE DEF l, b
          <6> QED
            BY <3>1, <5>1, <6>1, <6>2
        <5> HIDE DEF l, b
        <5> QED
          BY <3>1, <5>1, <5>2
      <4>2. CASE opt[s].flags # "a"
        <5>1. Place(s) = IF Positional(s) THEN pos[s] ELSE offset[s]
          BY <4>2 DEF Place
        <5> HIDE DEF l, b
        <5> QED
          BY <3>1, <3>2, <3>3, <5>1
      <4> QED
        BY <4>1, <4>2
    <3>7. content' = WrittenAt(b + l, units)
      BY <2>2, <3>6
    <3>8. /\ pos'[s] = IF Positional(s) THEN pos[s] + n ELSE pos[s]
          /\ offset'[s] = IF Positional(s) THEN offset[s] ELSE Place(s) + n
      BY <2>2 DEF TypeOK
    <3> HIDE DEF l, b, units
    <3>9. b + l \in Nat /\ units \in Seq(Units) /\ units # <<>> /\ Len(units) = n
      BY <2>1, <3>1, <3>3 DEF units
    <3>10. /\ Len(content') = b + l + n
           /\ \A i \in 1..Len(content) : content'[i] = content[i]
           /\ \A i \in b + l + 1 .. b + l + n : content'[i] = units[i - (b + l)]
      BY <3>4, <3>5, <3>7, <3>9, WrittenAtTheEnd
    <3>11. IF Positional(s) THEN pos'[s] = b + (l + n) ELSE offset'[s] = l + n
      BY <3>1, <3>2, <3>3, <3>6, <3>8
    <3>12. ASSUME NEW i \in 1..l + n PROVE content'[b + i] = landed'[s][i]
      <4>1. CASE i <= l
        <5>1. i \in 1..l /\ b + i \in 1..Len(content)
          BY <3>1, <3>3, <3>5, <4>1
        <5> QED
          BY <3>1, <3>2, <3>10, <5>1
      <4>2. CASE ~(i <= l)
        <5>1. /\ i \in l + 1 .. l + n /\ b + i \in b + l + 1 .. b + l + n
              /\ (b + i) - (b + l) = i - l
          BY <3>1, <3>3, <4>2
        <5>2. content'[b + i] = units[(b + i) - (b + l)]
          BY <3>10, <5>1
        <5> QED
          BY <3>1, <5>1, <5>2
      <4> QED
        BY <4>1, <4>2
    <3>13. Len(content') = b + Len(landed'[s]) /\ Len(landed'[s]) = l + n
      BY <3>1, <3>3, <3>10
    <3> QED
      BY <3>1, <3>11, <3>12, <3>13 DEF b
  <2>6. LonePlaces'
    <3>1. UNCHANGED <<opt, made>>
      OBVIOUS
    <3>2. SUFFICES ASSUME NEW t \in Streams, made' \subseteq {t},
                          Positional(t)' => opt'[t].flags # "a"
                   PROVE  /\ IF Positional(t)' THEN pos'[t] = Base(t)' + Len(landed'[t])
                             ELSE offset'[t] = Len(landed'[t])
                          /\ IF landed'[t] = <<>> THEN content' = <<>>
                             ELSE Len(content') = Base(t)' + Len(landed'[t])
                          /\ \A i \in DOMAIN landed'[t] :
                               content'[Base(t)' + i] = landed'[t][i]
      BY DEF LonePlaces
    <3>3. t = s /\ made \subseteq {s}
      BY <2>0, <3>1, <3>2
    <3>4. (Positional(s)' <=> Positional(s)) /\ Base(s)' = Base(s) /\ opt' = opt
      BY <3>1 DEF Positional, Base
    <3> QED
      BY <2>5, <3>2, <3>3, <3>4
  <2> QED
    BY <2>4, <2>6 DEF LInv
<1> QED
  BY <1>1, <1>2 DEF WriteNow

(* Streams are made once, and their opens are queued when they are made.   *)
LEMMA MadeForGood ==
  ASSUME HandleTypeOK, [HandleNext]_handleVars
  PROVE  /\ made \subseteq made'
         /\ \A t \in Streams : t \notin made' \/ opening'[t] => t \notin made \/ opening[t]
<1>1. CASE UNCHANGED handleVars
  BY <1>1 DEF handleVars
<1>2. CASE HandleNext
  BY <1>2 DEF HandleNext, Construct, Adopt, OpenSucceeds, OpenFails, EmitReady, ListenerThrows,
              Close, HandleTypeOK
<1> QED
  BY <1>1, <1>2

(* What a step can do to the file: nothing, open a stream that has written *)
(* nothing yet, or write for a stream that is already there.               *)
LEMMA StepsOnTheFile ==
  ASSUME TInv, IInv, [Next]_vars
  PROVE  \/ UNCHANGED <<opt, pos, offset, content, landed>>
         \/ \E s \in Streams : Opened(s) /\ s \in made' /\ (s \notin made \/ opening[s])
         \/ \E s \in Streams :
              WriteNow(s) /\ answered[s] < MaxChunks /\ UNCHANGED <<opt, made, opening>>
<1> DEFINE Same == UNCHANGED <<opt, pos, offset, content, landed>>
           Opens(s) == Opened(s) /\ s \in made' /\ (s \notin made \/ opening[s])
           Writes(s) == WriteNow(s) /\ answered[s] < MaxChunks /\ UNCHANGED <<opt, made, opening>>
<1>1. ASSUME NEW s \in Streams, WriteNow(s), answered[s] < accepted[s],
             UNCHANGED <<opt, made, opening>>
      PROVE  Writes(s)
  BY <1>1, BoundsAreNumbers DEF TInv, TypeOK, ChunksAreCounted
<1>2. ASSUME NEW s \in Streams, Write(s) PROVE Same \/ Writes(s)
  <2>1. answered[s] < accepted[s] /\ UNCHANGED <<opt, made, opening>>
    BY <1>2 DEF Write, handleVars
  <2>2. CASE pending[s]
    BY <1>2, <2>1, <2>2 DEF Write, PutOff
  <2>3. CASE ~pending[s]
    BY <1>1, <1>2, <2>1, <2>3 DEF Write
  <2> QED
    BY <2>2, <2>3
<1>3. ASSUME NEW s \in Streams, RunWaitingWrite(s), UNCHANGED <<made, opening>>
      PROVE  Same \/ Writes(s)
  <2>1. CASE waiting[s]
    BY <1>1, <1>3, <2>1 DEF RunWaitingWrite, TInv, ChunksAreCounted
  <2>2. CASE ~waiting[s]
    BY <1>3, <2>2 DEF RunWaitingWrite
  <2> QED
    BY <2>1, <2>2
<1>4. ASSUME NEW s \in Streams, Ready(s) \/ OpenListenerThrows(s) PROVE Same \/ Writes(s)
  <2>1. UNCHANGED <<made, opening>>
    BY <1>4 DEF Ready, OpenListenerThrows, EmitReady, ListenerThrows
  <2> QED
    BY <1>3, <1>4, <2>1 DEF Ready, OpenListenerThrows, dataVars
<1>5. ASSUME NEW s \in Streams, NEW f \in Fds, AdoptFd(s, f) PROVE Opens(s)
  BY <1>5 DEF AdoptFd, Adopt
<1>6. ASSUME NEW s \in Streams, RunOpen(s) PROVE Same \/ Opens(s)
  <2>1. CASE \E f \in Fds : OpenSucceeds(s, f) /\ Opened(s)
    BY <2>1 DEF OpenSucceeds, IInv, Prepared
  <2>2. CASE UNCHANGED dataVars
    BY <2>2 DEF dataVars
  <2> QED
    BY <1>6, <2>1, <2>2 DEF RunOpen
<1>7. ASSUME NEW s \in Streams,
             \/ ConstructStream(s) \/ UserClose(s) \/ UserWrite(s) \/ UserEnd(s)
             \/ EmitFinish(s) \/ UserDestroy(s)
      PROVE  Same
  BY <1>7 DEF ConstructStream, UserClose, UserWrite, UserEnd, EmitFinish, UserDestroy, dataVars
<1>8. CASE UNCHANGED vars
  BY <1>8 DEF vars, dataVars
<1>9. CASE Next
  <2> HIDE DEF Same, Opens, Writes
  <2>1. PICK s \in Streams :
          \/ Write(s) \/ Ready(s) \/ OpenListenerThrows(s) \/ RunOpen(s)
          \/ \E f \in Fds : AdoptFd(s, f)
          \/ ConstructStream(s) \/ UserClose(s) \/ UserWrite(s) \/ UserEnd(s)
          \/ EmitFinish(s) \/ UserDestroy(s)
    BY <1>9 DEF Next
  <2>2. Same \/ Opens(s) \/ Writes(s)
    BY <1>2, <1>4, <1>5, <1>6, <1>7, <2>1
  <2> QED
    BY <2>2 DEF Same, Opens, Writes
<1> QED
  BY <1>8, <1>9

(* One step per effect on the file.                                        *)
LEMMA LoneStep == TInv /\ IInv /\ LInv /\ [Next]_vars => LInv'
<1> SUFFICES ASSUME TInv, IInv, LInv, [Next]_vars PROVE LInv'
  OBVIOUS
<1>1. /\ made \subseteq made'
      /\ \A t \in Streams : t \notin made' \/ opening'[t] => t \notin made \/ opening[t]
  BY WriteStepIsHandleStep, MadeForGood DEF IInv
<1>2. CASE UNCHANGED <<opt, pos, offset, content, landed>>
  BY <1>1, <1>2 DEF LInv, LonePlaces, OpenComesFirst, Base, Positional
<1>3. ASSUME NEW s \in Streams, Opened(s), s \in made', s \notin made \/ opening[s]
      PROVE  LInv'
  <2>1. landed[s] = <<>> /\ UNCHANGED <<opt, pos, offset, landed>>
        /\ content' \in {<<>>, content}
    BY <1>3 DEF Opened, LInv, OpenComesFirst
  <2>2. OpenComesFirst'
    BY <1>1, <2>1 DEF LInv, OpenComesFirst
  <2>3. made \subseteq {s} /\ (Positional(s) => opt[s].flags # "a") => content' = <<>>
    BY <2>1 DEF LInv, LonePlaces
  <2>4. LonePlaces'
    BY <1>1, <1>3, <2>1, <2>3 DEF LInv, LonePlaces, Base, Positional
  <2> QED
    BY <2>2, <2>4 DEF LInv
<1>4. ASSUME NEW s \in Streams, WriteNow(s), answered[s] < MaxChunks,
             UNCHANGED <<opt, made, opening>>
      PROVE  LInv'
  BY <1>4, LoneWrite DEF TInv
<1> QED
  BY <1>2, <1>3, <1>4, StepsOnTheFile

LEMMA LoneStart == Init => LInv
<1>1. Len(<<>>) = 0 /\ DOMAIN (<<>>) = {}
  OBVIOUS
<1>2. Init => \A s \in Streams : Base(s) \in Nat
  BY OptionsAreTyped DEF Init, Base, Positional
<1> QED
  BY <1>1, <1>2 DEF Init, LInv, LonePlaces, OpenComesFirst, Base

(* A stream that has the file to itself leaves in it what its writes       *)
(* reported, without gaps or overlaps, for any options, any chunks and any *)
(* short or failed writes in between.                                      *)
THEOREM LoneStreamsWriteInSequence == Spec => []LoneStreamWritesInSequence
<1>1. LInv => LoneStreamWritesInSequence
  BY DEF LInv, LonePlaces, LoneStreamWritesInSequence
<1>2. Spec => []TInv
  BY WriteTypeStart, WriteTypeStep, PTL DEF Spec
<1>3. Spec => []IInv
  BY WriteStreamKeepsHandleSpec, HandleInvariant, PTL
<1> QED
  BY <1>1, <1>2, <1>3, LoneStart, LoneStep, PTL DEF Spec

(***************************************************************************)
(* Streams that append to the same file.                                   *)
(***************************************************************************)

(* Nothing in the file is a unit of a stream that has not written.  The    *)
(* streams not yet made are in it, so that one that joins finds nothing of *)
(* its own.                                                                *)
AllAppend == \A s \in made : opt[s].flags = "a"
AppendersHold == AllAppend => \A s \in Streams : Holds(content, s, landed[s])

(* The units of s are counted by their places.                             *)
LEMMA MineIsFinite ==
  ASSUME NEW file, NEW s, NEW k \in Nat
  PROVE  IsFiniteSet(Mine(file, s, k)) /\ Cardinality(Mine(file, s, k)) \in Nat
<1>1. IsFiniteSet(1..k)
  <2>1. 1 \in Int /\ k \in Int
    OBVIOUS
  <2> QED
    BY <2>1, FS_Interval
<1>2. Mine(file, s, k) \in SUBSET (1..k)
  BY DEF Mine
<1>3. IsFiniteSet(Mine(file, s, k))
  BY <1>1, <1>2, FS_Subset
<1> QED
  BY <1>3, FS_CardinalityType

(* A file of l units is followed by n more.                                *)
Keeps(longer, file, l) == \A k \in 1..l : longer[k] = file[k]
Adds(longer, l, n, units) == \A k \in l + 1 .. l + n : longer[k] = units[k - l]
AllOf(units, n, s) == \A i \in 1..n : units[i][1] = s

(* Units of another stream are added to the file: they are not counted.    *)
LEMMA OthersAddNothing ==
  ASSUME NEW file, NEW longer, NEW s, NEW l \in Nat, NEW n \in Nat, NEW units,
         Keeps(longer, file, l), Adds(longer, l, n, units), \A i \in 1..n : units[i][1] # s
  PROVE  /\ Mine(longer, s, l + n) = Mine(file, s, l)
         /\ \A k \in Mine(file, s, l) :
              longer[k] = file[k] /\ Mine(longer, s, k) = Mine(file, s, k)
<1>1. \A k \in l + 1 .. l + n : k - l \in 1..n
  OBVIOUS
<1>2. \A k \in l + 1 .. l + n : longer[k][1] # s
  BY <1>1 DEF Adds
<1> QED
  BY <1>2 DEF Mine, Keeps

(* Its own units are added: the i-th of them is the i-th after those it    *)
(* had.                                                                    *)
LEMMA OwnUnitsAreCounted ==
  ASSUME NEW file, NEW longer, NEW s, NEW l \in Nat, NEW n \in Nat, NEW units,
         Keeps(longer, file, l), Adds(longer, l, n, units), AllOf(units, n, s),
         NEW i \in 0..n
  PROVE  Cardinality(Mine(longer, s, l + i)) = Cardinality(Mine(file, s, l)) + i
<1> DEFINE new == Mine(longer, s, l + i)
<1>1. new = Mine(file, s, l) \union (l + 1 .. l + i)
  <2>1. \A k \in l + 1 .. l + n : k - l \in 1..n
    OBVIOUS
  <2>2. \A k \in l + 1 .. l + n : longer[k][1] = s
    BY <2>1 DEF Adds, AllOf
  <2> QED
    BY <2>2 DEF Mine, Keeps
<1>2. Mine(file, s, l) \intersect (l + 1 .. l + i) = {}
  BY DEF Mine
<1>3. IsFiniteSet(l + 1 .. l + i) /\ Cardinality(l + 1 .. l + i) = i
  <2>1. l + 1 \in Int /\ l + i \in Int /\ (l + i) - (l + 1) + 1 = i /\ (l + 1 > l + i => i = 0)
    OBVIOUS
  <2> QED
    BY <2>1, FS_Interval
<1>4. IsFiniteSet(Mine(file, s, l)) /\ Cardinality(Mine(file, s, l)) \in Nat
  BY MineIsFinite
<1> HIDE DEF new
<1>5. Cardinality(new) = Cardinality(Mine(file, s, l)) + i - Cardinality({})
  BY <1>1, <1>2, <1>3, <1>4, FS_Union
<1> QED
  BY <1>4, <1>5, FS_EmptySet DEF new

(* An append keeps what every stream has in the file.                      *)
LEMMA AppendKeepsAll ==
  ASSUME NEW file, NEW l \in Nat, Len(file) = l, NEW s, NEW mine \in Seq(Units),
         NEW units \in Seq(Units), units # <<>>, NEW n \in Nat, Len(units) = n,
         NEW longer, Len(longer) = l + n,
         Keeps(longer, file, l), Adds(longer, l, n, units),
         Holds(file, s, mine)
  PROVE  /\ (\A i \in DOMAIN units : units[i][1] = s) => Holds(longer, s, mine \o units)
         /\ (\A i \in DOMAIN units : units[i][1] # s) => Holds(longer, s, mine)
<1>1. Len(mine) \in Nat /\ DOMAIN units = 1..n /\ units # <<>>
  OBVIOUS
<1>2. ASSUME \A i \in DOMAIN units : units[i][1] # s PROVE Holds(longer, s, mine)
  <2>1. \A i \in 1..n : units[i][1] # s
    BY <1>1, <1>2
  <2>2. /\ Mine(longer, s, l + n) = Mine(file, s, l)
        /\ \A k \in Mine(file, s, l) :
             longer[k] = file[k] /\ Mine(longer, s, k) = Mine(file, s, k)
    BY <2>1, OthersAddNothing
  <2> QED
    BY <2>2 DEF Holds
<1>3. ASSUME \A i \in DOMAIN units : units[i][1] = s PROVE Holds(longer, s, mine \o units)
  <2>1. Cardinality(Mine(file, s, l)) = Len(mine)
    BY DEF Holds
  <2>2. \A i \in 0..n : Cardinality(Mine(longer, s, l + i)) = Cardinality(Mine(file, s, l)) + i
    <3>1. AllOf(units, n, s)
      BY <1>1, <1>3 DEF AllOf
    <3>2. ASSUME NEW i \in 0..n
          PROVE  Cardinality(Mine(longer, s, l + i)) = Cardinality(Mine(file, s, l)) + i
      BY <3>1, OwnUnitsAreCounted
    <3> QED
      BY <3>2
  <2>3. /\ Len(mine \o units) = Len(mine) + n
        /\ \A i \in 1..Len(mine) : (mine \o units)[i] = mine[i]
        /\ \A i \in Len(mine) + 1 .. Len(mine) + n : (mine \o units)[i] = units[i - Len(mine)]
    BY <1>1, JoinedAt
  <2>4. Cardinality(Mine(longer, s, Len(longer))) = Len(mine \o units)
    BY <2>1, <2>2, <2>3
  <2>5. ASSUME NEW k \in Mine(longer, s, l + n)
        PROVE  longer[k] = (mine \o units)[Cardinality(Mine(longer, s, k))]
    <3>1. CASE k \in 1..l
      <4>1. k \in Mine(file, s, l) /\ Mine(longer, s, k) = Mine(file, s, k) /\ longer[k] = file[k]
        BY <2>5, <3>1 DEF Mine, Keeps
      <4>2. longer[k] = mine[Cardinality(Mine(file, s, k))]
        BY <4>1 DEF Holds
      <4>3. Cardinality(Mine(file, s, k)) \in 1..Len(mine)
        <5>1. Mine(file, s, k) \subseteq Mine(file, s, l) /\ k \in Mine(file, s, k)
          BY <3>1, <4>1 DEF Mine
        <5>2. IsFiniteSet(Mine(file, s, l)) /\ IsFiniteSet(Mine(file, s, k))
              /\ Cardinality(Mine(file, s, k)) \in Nat
          BY <3>1, MineIsFinite
        <5>3. Cardinality(Mine(file, s, k)) <= Cardinality(Mine(file, s, l))
          BY <5>1, <5>2, FS_Subset
        <5>4. Cardinality(Mine(file, s, k)) # 0
          BY <5>1, <5>2, FS_EmptySet
        <5> QED
          BY <1>1, <2>1, <5>2, <5>3, <5>4
      <4> QED
        BY <2>3, <4>1, <4>2, <4>3
    <3>2. CASE k \in l + 1 .. l + n
      <4>1. PICK i \in 1..n : k = l + i /\ longer[k] = units[i]
        <5>1. k - l \in 1..n /\ k = l + (k - l) /\ longer[k] = units[k - l]
          BY <3>2 DEF Adds
        <5> QED
          BY <5>1
      <4>2. Cardinality(Mine(longer, s, k)) = Len(mine) + i
        BY <2>1, <2>2, <4>1
      <4>3. Len(mine) + i \in Len(mine) + 1 .. Len(mine) + n /\ (Len(mine) + i) - Len(mine) = i
        BY <1>1, <4>1
      <4> QED
        BY <2>3, <4>1, <4>2, <4>3
    <3>3. k \in 1..l + n
      BY <2>5 DEF Mine
    <3>4. k \in 1..l \/ k \in l + 1 .. l + n
      BY <3>3
    <3> QED
      BY <3>1, <3>2, <3>4
  <2> QED
    BY <2>4, <2>5 DEF Holds
<1> QED
  BY <1>2, <1>3

(* A write with O_APPEND.                                                  *)
LEMMA AppendStep ==
  ASSUME TypeOK, IInv, AppendersHold, NEW s \in Streams, answered[s] < MaxChunks,
         WriteNow(s), UNCHANGED <<opt, made, opening>>
  PROVE  AppendersHold'
<1> SUFFICES ASSUME AllAppend' PROVE \A t \in Streams : Holds(content, t, landed[t])'
  BY DEF AppendersHold
<1>1. AllAppend /\ \A t \in Streams : Holds(content, t, landed[t])
  BY DEF AllAppend, AppendersHold
<1>2. CASE WriteFails(s)
  BY <1>1, <1>2 DEF WriteFails
<1>3. ASSUME fd[s] # NoFd, NEW n \in 1..ChunkLen, WriteSucceeds(s, n), NEW t \in Streams
      PROVE  Holds(content', t, landed'[t])
  <2> DEFINE units == Chunk(s, n)
  <2>1. opt[s].flags = "a"
    BY <1>1, <1>3 DEF IInv, Prepared, AllAppend
  <2>2. n \in Nat /\ n > 0 /\ units \in Seq(Units) /\ Len(units) = n /\ units # <<>>
    <3>1. n \in Nat /\ n > 0
      BY BoundsAreNumbers
    <3> QED
      BY <3>1, ChunkIsUnits
  <2>3. \A i \in DOMAIN units : units[i][1] = s
    BY DEF Chunk
  <2>4. content' = WrittenAt(Len(content), units) /\ content \in Seq(Units \union {Hole})
        /\ Len(content) \in Nat
    BY <1>3, <2>1 DEF WriteSucceeds, Place, TypeOK
  <2>5. landed' = [landed EXCEPT ![s] = landed[s] \o units] /\ landed \in [Streams -> Seq(Units)]
    BY <1>3 DEF WriteSucceeds, TypeOK
  <2> HIDE DEF units
  <2>6. Len(content') = Len(content) + n /\ Keeps(content', content, Len(content))
        /\ Adds(content', Len(content), n, units)
    <3>1. Len(content) <= Len(content)
      BY <2>4
    <3>2. /\ Len(content') = Len(content) + Len(units)
          /\ \A k \in 1..Len(content) : content'[k] = content[k]
          /\ \A k \in Len(content) + 1 .. Len(content) + Len(units) :
               content'[k] = units[k - Len(content)]
      BY <2>2, <2>4, <3>1, WrittenAtTheEnd
    <3> QED
      BY <2>2, <3>2 DEF Keeps, Adds
  <2>7. landed[t] \in Seq(Units) /\ Holds(content, t, landed[t])
    BY <1>1, <2>5
  <2>8. /\ (\A i \in DOMAIN units : units[i][1] = t) => Holds(content', t, landed[t] \o units)
        /\ (\A i \in DOMAIN units : units[i][1] # t) => Holds(content', t, landed[t])
    <3>1. PICK file, longer, mine, l :
            file = content /\ longer = content' /\ mine = landed[t] /\ l = Len(content)
      OBVIOUS
    <3>2. /\ l \in Nat /\ Len(file) = l /\ mine \in Seq(Units) /\ Len(longer) = l + n
          /\ Keeps(longer, file, l) /\ Adds(longer, l, n, units) /\ Holds(file, t, mine)
      BY <2>4, <2>6, <2>7, <3>1
    <3>3. /\ (\A i \in DOMAIN units : units[i][1] = t) => Holds(longer, t, mine \o units)
          /\ (\A i \in DOMAIN units : units[i][1] # t) => Holds(longer, t, mine)
      BY <2>2, <3>2, AppendKeepsAll
    <3> QED
      BY <3>1, <3>3
  <2>9. CASE t = s
    BY <2>3, <2>5, <2>8, <2>9
  <2>10. CASE t # s
    BY <2>3, <2>5, <2>8, <2>10
  <2> QED
    BY <2>9, <2>10
<1> QED
  BY <1>2, <1>3 DEF WriteNow

(* One step per effect on the file.  A stream that is opened with 'w'      *)
(* empties the file, and there is an end to all being appenders.           *)
LEMMA AppendersStep == TInv /\ IInv /\ AppendersHold /\ [Next]_vars => AppendersHold'
<1> SUFFICES ASSUME TInv, IInv, AppendersHold, [Next]_vars PROVE AppendersHold'
  OBVIOUS
<1>1. made \subseteq made'
  BY WriteStepIsHandleStep, MadeForGood DEF IInv
<1>2. CASE UNCHANGED <<opt, pos, offset, content, landed>>
  BY <1>1, <1>2 DEF AppendersHold, AllAppend
<1>3. ASSUME NEW s \in Streams, Opened(s), s \in made' PROVE AppendersHold'
  <2> SUFFICES ASSUME AllAppend' PROVE \A t \in Streams : Holds(content, t, landed[t])'
    BY DEF AppendersHold
  <2>1. UNCHANGED <<opt, landed>> /\ AllAppend
    BY <1>1, <1>3 DEF Opened, AllAppend
  <2>2. opt[s].flags = "a"
    BY <1>3, <2>1 DEF AllAppend
  <2>3. UNCHANGED content
    BY <1>3, <2>2 DEF Opened
  <2> QED
    BY <2>1, <2>3 DEF AppendersHold
<1>4. ASSUME NEW s \in Streams, WriteNow(s), answered[s] < MaxChunks,
             UNCHANGED <<opt, made, opening>>
      PROVE  AppendersHold'
  BY <1>4, AppendStep DEF TInv
<1> QED
  BY <1>2, <1>3, <1>4, StepsOnTheFile

LEMMA AppendersStart == Init => AppendersHold
<1> SUFFICES ASSUME Init, NEW s \in Streams PROVE Holds(content, s, landed[s])
  BY DEF AppendersHold
<1>1. content = <<>> /\ landed[s] = <<>> /\ Len(content) = 0
  BY DEF Init
<1>2. Mine(content, s, Len(content)) = {}
  BY <1>1 DEF Mine
<1> QED
  BY <1>1, <1>2, FS_EmptySet DEF Holds

(* Any number of streams that append to one file, with any interleaving of *)
(* their writes, opens, closes and failures, and with native writes that   *)
(* take a part of a chunk only: the file holds what each one's writes      *)
(* reported, whole and in its order.                                       *)
THEOREM AppendersLoseNothing == Spec => []AppendersKeepEachOthersData
<1>1. AppendersHold /\ IInv => AppendersKeepEachOthersData
  BY DEF AppendersHold, AllAppend, AppendersKeepEachOthersData, IInv, HandleTypeOK
<1>2. Spec => []TInv
  BY WriteTypeStart, WriteTypeStep, PTL DEF Spec
<1>3. Spec => []IInv
  BY WriteStreamKeepsHandleSpec, HandleInvariant, PTL
<1> QED
  BY <1>1, <1>2, <1>3, AppendersStart, AppendersStep, PTL DEF Spec
=============================================================================
