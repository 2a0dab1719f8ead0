-------------------------- MODULE ReadStream_proofs --------------------------
(***************************************************************************)
(* A read stream, for any options, file size and buffer size: it keeps the *)
(* rules of StreamHandle, and pushes a range of the file.                  *)
(***************************************************************************)
EXTENDS ReadStream, StreamHandle_proofs

(***************************************************************************)
(* What StreamHandle proves holds of read streams.                         *)
(***************************************************************************)

(* Every step of a read stream is a step of StreamHandle or leaves the     *)
(* descriptors alone.                                                      *)
LEMMA ReadStepIsHandleStep == [Next]_vars => [HandleNext]_handleVars
<1> SUFFICES ASSUME [Next]_vars PROVE [HandleNext]_handleVars
  OBVIOUS
<1>1. CASE UNCHANGED vars
  BY <1>1 DEF vars
<1>2. ASSUME NEW s \in Streams, NEW f \in Fds, AdoptFd(s, f) PROVE HandleNext
  BY <1>2 DEF AdoptFd, HandleNext
<1>3. ASSUME NEW s \in Streams,
             ConstructStream(s) \/ RunOpen(s) \/ Ready(s) \/ OpenListenerThrows(s) \/ UserClose(s)
      PROVE  HandleNext
  BY <1>3 DEF ConstructStream, RunOpen, Ready, OpenListenerThrows, UserClose, HandleNext
<1>4. ASSUME NEW s \in Streams, EmitEnd(s) PROVE [HandleNext]_handleVars
  BY <1>4 DEF EmitEnd, HandleNext
<1>5. ASSUME NEW s \in Streams, Read(s) \/ Deliver(s) \/ UserDestroy(s)
      PROVE  UNCHANGED handleVars
  BY <1>5 DEF Read, Deliver, UserDestroy, handleVars
<1> QED
  BY <1>1, <1>2, <1>3, <1>4, <1>5 DEF Next

(* A read stream does to its descriptor what StreamHandle lists, being     *)
(* built from it: the theorems about StreamHandle are about it.            *)
LEMMA ReadStreamKeepsHandleSpec == Spec => HandleSpec
<1>1. Init => HandleInit
  BY DEF Init
<1> QED
  BY <1>1, ReadStepIsHandleStep, PTL DEF Spec, HandleSpec

(* A read stream reads from a descriptor that it opened and has not        *)
(* closed, whatever the program, the base class and the listeners do.      *)
THEOREM ReadersUseTheirOwnFd == Spec => []StreamsUseTheirOwnFd
BY ReadStreamKeepsHandleSpec, StreamsNeverShareFds, PTL

(***************************************************************************)
(* Type correctness and the data that is pushed.                           *)
(***************************************************************************)

(* The bytes a native read may return number at most what _read asked for. *)
LEMMA ReadIsBounded ==
  ASSUME NEW s \in Streams, TypeOK, NEW n \in 1..Smaller(ToRead(s), Size - pos[s])
  PROVE  n \in Nat \ {0} /\ n <= ToRead(s) /\ ToRead(s) \in Int
<1>1. ToRead(s) \in Int /\ Size - pos[s] \in Int
  BY SizesAreNumbers, OptionsAreTyped DEF ToRead, Smaller, TypeOK, NoEnd
<1> QED
  BY <1>1 DEF Smaller

(* Two sequences one after the other. *)
LEMMA Concatenated ==
  ASSUME NEW a \in Seq(Nat), NEW b \in Seq(Nat)
  PROVE  /\ a \o b \in Seq(Nat)
         /\ Len(a \o b) = Len(a) + Len(b)
         /\ \A i \in 1..Len(a) + Len(b) :
              (a \o b)[i] = IF i <= Len(a) THEN a[i] ELSE b[i - Len(a)]
  OBVIOUS

(* Until a stream is destroyed every byte read has been pushed, which is   *)
(* what makes the next byte pushed the one after the last.                 *)
NothingIsDropped ==
  \A s \in Streams : ~destroyed[s] => Len(pushed[s]) = bytesRead[s]

(* What _read changes when it pushes n bytes.                              *)
LEMMA PushKeepsTheRange ==
  ASSUME NEW s \in Streams, TypeOK, PushedIsARangeOfTheFile, NothingIsDropped,
         NEW n \in Nat \ {0},
         End[s] # NoEnd => pos[s] + n <= End[s] + 1,
         PushBytes(s, n), UNCHANGED destroyed
  PROVE  /\ pos' \in [Streams -> Nat] /\ bytesRead' \in [Streams -> Nat]
         /\ pushed' \in [Streams -> Seq(Nat)] /\ reading' \in [Streams -> BOOLEAN]
         /\ PushedIsARangeOfTheFile'
         /\ NothingIsDropped'
<1> USE OptionsAreTyped
<1> DEFINE more == [i \in 1..n |-> pos[s] + i - 1]
<1>1. /\ pos[s] \in Nat /\ bytesRead[s] \in Nat /\ pushed[s] \in Seq(Nat)
      /\ destroyed[s] \in BOOLEAN
  BY DEF TypeOK
<1>2. more \in Seq(Nat) /\ Len(more) = n /\ \A i \in 1..n : more[i] = pos[s] + i - 1
  <2>1. \A i \in 1..n : pos[s] + i - 1 \in Nat
    BY <1>1
  <2> QED
    BY <2>1
<1>3. /\ pos' \in [Streams -> Nat] /\ pos'[s] = pos[s] + n
      /\ bytesRead' \in [Streams -> Nat] /\ bytesRead'[s] = bytesRead[s] + n
      /\ \A t \in Streams : t # s => pos'[t] = pos[t] /\ bytesRead'[t] = bytesRead[t]
  BY <1>1 DEF PushBytes, TypeOK
<1>4. reading' \in [Streams -> BOOLEAN]
  BY <1>1 DEF PushBytes, TypeOK
<1>5. /\ pushed' \in [Streams -> Seq(Nat)]
      /\ \A t \in Streams : t # s => pushed'[t] = pushed[t]
      /\ pushed'[s] = IF destroyed[s] THEN pushed[s] ELSE pushed[s] \o more
  <2>1. pushed[s] \o more \in Seq(Nat)
    BY <1>1, <1>2
  <2>2. pushed' = IF destroyed[s] THEN pushed ELSE [pushed EXCEPT ![s] = @ \o more]
    BY DEF PushBytes
  <2> QED
    BY <2>1, <2>2 DEF TypeOK
<1> HIDE DEF more
<1>6. ASSUME NEW t \in Streams
      PROVE  /\ \A i \in DOMAIN pushed'[t] : pushed'[t][i] = Start[t] + i - 1
             /\ pos'[t] = Start[t] + bytesRead'[t]
             /\ Len(pushed'[t]) <= bytesRead'[t]
             /\ End[t] # NoEnd /\ pushed'[t] # <<>> => pos'[t] <= End[t] + 1
             /\ ~destroyed[t] => Len(pushed'[t]) = bytesRead'[t]
  <2>1. CASE t # s
    BY <1>3, <1>5, <2>1, ZenonT(40) DEF PushedIsARangeOfTheFile, NothingIsDropped
  <2>2. CASE t = s
    <3>1. /\ \A i \in 1..Len(pushed[s]) : pushed[s][i] = Start[s] + i - 1
          /\ pos[s] = Start[s] + bytesRead[s] /\ Len(pushed[s]) <= bytesRead[s]
          /\ Len(pushed[s]) \in Nat
      BY <1>1 DEF PushedIsARangeOfTheFile
    <3>2. pos'[s] = Start[s] + bytesRead'[s]
      BY <1>1, <1>3, <3>1
    <3>3. End[s] # NoEnd => pos'[s] <= End[s] + 1
      BY <1>3
    <3>4. CASE destroyed[s]
      <4>1. pushed'[s] = pushed[s]
        BY <1>5, <3>4
      <4>2. Len(pushed[s]) <= bytesRead'[s]
        BY <1>1, <1>3, <3>1, SMTT(20)
      <4>3. DOMAIN pushed'[s] = 1..Len(pushed[s])
        BY <1>1, <4>1
      <4> QED
        BY <2>2, <3>1, <3>2, <3>3, <3>4, <4>1, <4>2, <4>3
    <3>5. CASE ~destroyed[s]
      <4>1. /\ pushed'[s] = pushed[s] \o more
            /\ pushed'[s] \in Seq(Nat)
            /\ Len(pushed'[s]) = Len(pushed[s]) + n
        <5>1. pushed'[s] = pushed[s] \o more
          BY <1>5, <3>5
        <5>2. /\ pushed[s] \o more \in Seq(Nat)
              /\ Len(pushed[s] \o more) = Len(pushed[s]) + Len(more)
          BY <1>1, <1>2, Concatenated
        <5> QED
          BY <1>2, <5>1, <5>2
      <4>2. Len(pushed[s]) = bytesRead[s] /\ Len(pushed'[s]) = bytesRead'[s]
        BY <1>1, <1>3, <3>1, <3>5, <4>1 DEF NothingIsDropped
      <4>3. ASSUME NEW i \in 1..Len(pushed'[s]) PROVE pushed'[s][i] = Start[s] + i - 1
        <5>1. CASE i <= Len(pushed[s])
          BY <1>1, <1>2, <3>1, <4>1, <5>1
        <5>2. CASE i > Len(pushed[s])
          <6>1. i - Len(pushed[s]) \in 1..n
            BY <3>1, <4>1, <5>2
          <6>2. pushed'[s][i] = more[i - Len(pushed[s])]
            BY <1>1, <1>2, <3>1, <4>1, <5>2
          <6>3. pushed'[s][i] = pos[s] + (i - Len(pushed[s])) - 1
            BY <1>2, <6>1, <6>2
          <6> QED
            BY <1>1, <3>1, <4>2, <6>3
        <5> QED
          BY <3>1, <4>1, <5>1, <5>2
      <4>4. DOMAIN pushed'[s] = 1..Len(pushed'[s])
        BY <4>1
      <4> QED
        <5>1. Len(pushed'[s]) <= bytesRead'[s]
          BY <1>3, <4>2
        <5> QED
          BY <2>2, <3>2, <3>3, <4>2, <4>3, <4>4, <5>1
    <3> QED
      BY <3>4, <3>5
  <2> QED
    BY <2>1, <2>2
<1> QED
  BY <1>3, <1>4, <1>5, <1>6 DEF PushedIsARangeOfTheFile, NothingIsDropped, PushBytes

RangeInv == TypeOK /\ PushedIsARangeOfTheFile /\ NothingIsDropped

ReadVarsTyped ==
  /\ pos \in [Streams -> Nat] /\ bytesRead \in [Streams -> Nat]
  /\ pushed \in [Streams -> Seq(Nat)]
  /\ {reading, ended, lost} \subseteq [Streams -> BOOLEAN]

(* Leaving position, count and pushed bytes alone keeps the range.         *)
LEMMA RangeUntouched ==
  ASSUME PushedIsARangeOfTheFile, NothingIsDropped, UNCHANGED <<pos, bytesRead, pushed>>,
         \A s \in Streams : destroyed[s] => destroyed'[s]
  PROVE  PushedIsARangeOfTheFile' /\ NothingIsDropped'
  BY DEF PushedIsARangeOfTheFile, NothingIsDropped

(* _read pushes the bytes after the last one pushed, or the end.           *)
LEMMA ReadKeepsTheRange ==
  ASSUME RangeInv, NEW s \in Streams, ReadNow(s), UNCHANGED destroyed
  PROVE  ReadVarsTyped' /\ PushedIsARangeOfTheFile' /\ NothingIsDropped'
<1>1. CASE PushNull(s) /\ UNCHANGED <<pos, bytesRead, pushed, lost>>
  <2>1. ReadVarsTyped'
    BY <1>1 DEF PushNull, RangeInv, TypeOK, ReadVarsTyped
  <2> QED
    BY <1>1, <2>1, RangeUntouched DEF RangeInv
<1>2. CASE PushNull(s) /\ lost' = [lost EXCEPT ![s] = TRUE] /\ UNCHANGED <<pos, bytesRead, pushed>>
  <2>1. ReadVarsTyped'
    BY <1>2 DEF PushNull, RangeInv, TypeOK, ReadVarsTyped
  <2> QED
    BY <1>2, <2>1, RangeUntouched DEF RangeInv
<1>3. ASSUME NEW n \in 1..Smaller(ToRead(s), Size - pos[s]),
             PushBytes(s, n), UNCHANGED <<ended, lost>>
      PROVE  ReadVarsTyped' /\ PushedIsARangeOfTheFile' /\ NothingIsDropped'
  <2>1. n \in Nat \ {0} /\ n <= ToRead(s) /\ ToRead(s) \in Int
    BY ReadIsBounded DEF RangeInv
  <2>2. End[s] # NoEnd => pos[s] + n <= End[s] + 1
    <3> SUFFICES ASSUME End[s] # NoEnd PROVE pos[s] + n <= End[s] + 1
      OBVIOUS
    <3>1. pos[s] \in Nat /\ End[s] \in Nat
      BY OptionsAreTyped DEF RangeInv, TypeOK
    <3>2. ToRead(s) <= End[s] - pos[s] + 1
      BY <3>1, SizesAreNumbers DEF ToRead, Smaller
    <3> QED
      BY <2>1, <3>1, <3>2
  <2>3. /\ pos' \in [Streams -> Nat] /\ bytesRead' \in [Streams -> Nat]
        /\ pushed' \in [Streams -> Seq(Nat)] /\ reading' \in [Streams -> BOOLEAN]
        /\ PushedIsARangeOfTheFile' /\ NothingIsDropped'
    BY <1>3, <2>1, <2>2, PushKeepsTheRange DEF RangeInv
  <2> QED
    BY <1>3, <2>3 DEF RangeInv, TypeOK, ReadVarsTyped
<1> QED
  BY <1>1, <1>2, <1>3 DEF ReadNow, NativeRead

(* The variables that are no business of _read keep their types.           *)
LEMMA RestTyped ==
  ASSUME RangeInv, HandleTypeOK', ReadVarsTyped',
         delivered' \in [Streams -> Nat],
         {waiting', endEmitted', destroyed', cut'} \subseteq [Streams -> BOOLEAN]
  PROVE  TypeOK'
  BY DEF TypeOK, ReadVarsTyped

(* RangeInv is inductive: one step per action of a read stream.            *)
LEMMA RangeStep == RangeInv /\ [Next]_vars => RangeInv'
<1> SUFFICES ASSUME RangeInv, [Next]_vars PROVE RangeInv'
  OBVIOUS
<1>1. HandleTypeOK'
  BY ReadStepIsHandleStep, HandleTypeStep DEF RangeInv, TypeOK
<1>2. ReadVarsTyped
  BY DEF RangeInv, TypeOK, ReadVarsTyped
<1>3. CASE UNCHANGED dataVars
  <2>1. PushedIsARangeOfTheFile' /\ NothingIsDropped'
    BY <1>3, RangeUntouched DEF RangeInv, dataVars
  <2> QED
    BY <1>1, <1>3, <2>1 DEF RangeInv, TypeOK, dataVars
<1>4. ASSUME NEW s \in Streams, Read(s) PROVE RangeInv'
  <2>1. CASE pending[s]
    <3>1. UNCHANGED <<pos, bytesRead, pushed, ended, lost, delivered, endEmitted, destroyed, cut>>
      BY <1>4, <2>1 DEF Read
    <3>2. PushedIsARangeOfTheFile' /\ NothingIsDropped'
      BY <3>1, RangeUntouched DEF RangeInv
    <3>3. waiting' \in [Streams -> BOOLEAN] /\ reading' \in [Streams -> BOOLEAN]
      BY <1>4, <2>1 DEF RangeInv, TypeOK, Read
    <3>4. ReadVarsTyped'
      BY <1>2, <3>1, <3>3 DEF ReadVarsTyped
    <3> QED
      BY <1>1, <3>1, <3>2, <3>3, <3>4, RestTyped DEF RangeInv, TypeOK
  <2>2. CASE ~pending[s]
    <3>1. ReadNow(s) /\ UNCHANGED <<waiting, delivered, endEmitted, destroyed, cut>>
      BY <1>4, <2>2 DEF Read
    <3>2. ReadVarsTyped' /\ PushedIsARangeOfTheFile' /\ NothingIsDropped'
      BY <3>1, ReadKeepsTheRange
    <3> QED
      BY <1>1, <3>1, <3>2, RestTyped DEF RangeInv, TypeOK
  <2> QED
    BY <2>1, <2>2
<1>5. ASSUME NEW s \in Streams, RunWaitingRead(s) PROVE RangeInv'
  <2>1. UNCHANGED <<delivered, endEmitted, destroyed, cut>> /\ waiting' \in [Streams -> BOOLEAN]
    BY <1>5 DEF RunWaitingRead, RangeInv, TypeOK
  <2>2. ReadVarsTyped' /\ PushedIsARangeOfTheFile' /\ NothingIsDropped'
    <3>1. CASE waiting[s]
      BY <1>5, <2>1, <3>1, ReadKeepsTheRange DEF RunWaitingRead
    <3>2. CASE ~waiting[s]
      <4>1. UNCHANGED <<pos, bytesRead, pushed, reading, ended, lost>>
        BY <1>5, <3>2 DEF RunWaitingRead
      <4>2. PushedIsARangeOfTheFile' /\ NothingIsDropped'
        BY <2>1, <4>1, RangeUntouched DEF RangeInv
      <4> QED
        BY <1>2, <4>1, <4>2 DEF ReadVarsTyped
    <3> QED
      BY <3>1, <3>2
  <2> QED
    BY <1>1, <2>1, <2>2, RestTyped DEF RangeInv, TypeOK
<1>6. ASSUME NEW s \in Streams, Deliver(s) \/ UserClose(s) \/ UserDestroy(s) \/ EmitEnd(s)
      PROVE  RangeInv'
  <2>1. /\ UNCHANGED <<pos, bytesRead, pushed, reading, waiting, ended, lost>>
        /\ delivered' \in [Streams -> Nat]
        /\ {endEmitted', destroyed', cut'} \subseteq [Streams -> BOOLEAN]
        /\ \A t \in Streams : destroyed[t] => destroyed'[t]
    <3>1. CASE Deliver(s)
      BY <3>1 DEF Deliver, RangeInv, TypeOK
    <3>2. CASE UserClose(s)
      BY <3>2 DEF UserClose, RangeInv, TypeOK
    <3>3. CASE UserDestroy(s)
      BY <3>3 DEF UserDestroy, RangeInv, TypeOK
    <3>4. CASE EmitEnd(s)
      BY <3>4 DEF EmitEnd, RangeInv, TypeOK
    <3> QED
      BY <1>6, <3>1, <3>2, <3>3, <3>4
  <2>2. PushedIsARangeOfTheFile' /\ NothingIsDropped'
    BY <2>1, RangeUntouched DEF RangeInv
  <2>3. ReadVarsTyped' /\ waiting' \in [Streams -> BOOLEAN]
    BY <1>2, <2>1 DEF ReadVarsTyped, RangeInv, TypeOK
  <2> QED
    BY <1>1, <2>1, <2>2, <2>3, RestTyped DEF RangeInv
<1>7. ASSUME NEW s \in Streams,
             (\E f \in Fds : AdoptFd(s, f)) \/ ConstructStream(s) \/ RunOpen(s)
      PROVE  UNCHANGED dataVars
  BY <1>7 DEF AdoptFd, ConstructStream, RunOpen
<1>8. ASSUME NEW s \in Streams, Ready(s) \/ OpenListenerThrows(s) PROVE RangeInv'
  BY <1>3, <1>5, <1>8 DEF Ready, OpenListenerThrows
<1> QED
  <2>1. CASE UNCHANGED vars
    BY <1>3, <2>1 DEF vars
  <2>2. CASE Next
    BY <1>3, <1>4, <1>5, <1>6, <1>7, <1>8, <2>2 DEF Next
  <2> QED
    BY <2>1, <2>2

(* Nothing has been read when a program starts.                            *)
LEMMA RangeStart == Init => RangeInv
<1> SUFFICES ASSUME Init PROVE RangeInv
  OBVIOUS
<1>1. TypeOK
  BY HandleStart, OptionsAreTyped DEF Init, TypeOK, IInv
<1> QED
  BY <1>1, OptionsAreTyped DEF RangeInv, Init, PushedIsARangeOfTheFile, NothingIsDropped

(* The variables of ReadStream.ts keep their types.                        *)
THEOREM ReadStreamTypes == Spec => []TypeOK
<1>1. RangeInv => TypeOK
  BY DEF RangeInv
<1> QED
  BY <1>1, RangeStart, RangeStep, PTL DEF Spec

(* _read pushes the bytes of the file from the start option onwards, each  *)
(* once and in order, and none beyond the end option: for every file size, *)
(* buffer size and start, and however short the native reads are.          *)
THEOREM ReadStreamPushesARange == Spec => []PushedIsARangeOfTheFile
<1>1. RangeInv => PushedIsARangeOfTheFile
  BY DEF RangeInv
<1> QED
  BY <1>1, RangeStart, RangeStep, PTL DEF Spec

(***************************************************************************)
(* The descriptor at the end of the stream.                                *)
(***************************************************************************)

(* The listener of 'end' has closed the stream.                            *)
EndHasClosed == \A s \in Streams : endEmitted[s] /\ AutoClose[s] => fileClosed[s]

(* Only the 'end' of the stream itself can disturb EndHasClosed.           *)
LEMMA EndHasClosedStep == RangeInv /\ EndHasClosed /\ [Next]_vars => EndHasClosed'
<1> SUFFICES ASSUME RangeInv, EndHasClosed, [Next]_vars, NEW s \in Streams,
                    endEmitted'[s], AutoClose[s]
             PROVE  fileClosed'[s]
  BY DEF EndHasClosed
<1>1. fileClosed[s] => fileClosed'[s]
  BY ReadStepIsHandleStep, ClosedStaysClosed DEF RangeInv, TypeOK
<1>2. CASE endEmitted[s]
  BY <1>1, <1>2 DEF EndHasClosed
<1>3. CASE ~endEmitted[s]
  <2>1. ASSUME NEW t \in Streams, EmitEnd(t) PROVE fileClosed'[s]
    <3>1. t = s
      BY <1>3, <2>1 DEF EmitEnd, RangeInv, TypeOK
    <3>2. CASE fileClosed[s]
      BY <1>1, <3>2
    <3>3. CASE ~fileClosed[s]
      BY <2>1, <3>1, <3>3 DEF EmitEnd, Close, RangeInv, TypeOK, HandleTypeOK
    <3> QED
      BY <3>2, <3>3
  <2>2. CASE UNCHANGED endEmitted
    BY <1>3, <2>2
  <2>3. UNCHANGED endEmitted \/ \E t \in Streams : EmitEnd(t)
    BY DEF Next, vars, dataVars, ConstructStream, AdoptFd, RunOpen, Ready, RunWaitingRead,
           OpenListenerThrows, Read, Deliver, UserClose, UserDestroy
  <2> QED
    BY <2>1, <2>2, <2>3
<1> QED
  BY <1>2, <1>3

(* A stream that has emitted 'end' has given its descriptor back, unless   *)
(* it was closed before its open had run or a listener of the open threw,  *)
(* the two ways OnlyTwoWaysToStrand leaves.                                *)
THEOREM EndedStreamsHoldNoFd == Spec => []EndReleasesTheFile
<1>1. Init => EndHasClosed
  BY DEF Init, EndHasClosed
<1>2. Spec => []EndHasClosed
  BY <1>1, RangeStart, RangeStep, EndHasClosedStep, PTL DEF Spec
<1>3. EndHasClosed /\ StrandedOnlyByEarlyCloseOrThrow => EndReleasesTheFile
  BY DEF EndHasClosed, StrandedOnlyByEarlyCloseOrThrow, EndReleasesTheFile
<1> QED
  BY <1>2, <1>3, ReadStreamKeepsHandleSpec, OnlyTwoWaysToStrand, PTL

(***************************************************************************)
(* What 'end' means.                                                       *)
(***************************************************************************)

(* What looks like the end of the file to the consumer.                    *)
Excused(s) == lost[s] \/ cut[s] \/ threw[s]

AtTheEnd(s) == pos[s] >= Size \/ (End[s] # NoEnd /\ pos[s] > End[s])

(* A stream that is past its open has a descriptor or was closed.          *)
OpensAreSettled ==
  \A s \in Streams :
    /\ opening[s] => pending[s]
    /\ emitting = s => ~pending[s]
    /\ s \in made => pending[s] \/ fd[s] # NoFd \/ fileClosed[s]

(* What closes a stream before its end.                                    *)
ClosedForAReason ==
  \A s \in Streams :
    /\ cut[s] => fileClosed[s]
    /\ fileClosed[s] => ended[s] \/ cut[s] \/ threw[s] \/ (pending[s] /\ ~opening[s])

EndIsEarned ==
  \A s \in Streams :
    /\ ended[s] => Excused(s) \/ AtTheEnd(s)
    /\ bytesRead[s] > 0 => pos[s] <= Size
    /\ endEmitted[s] => destroyed[s] /\ ended[s] /\ (Excused(s) \/ delivered[s] = Wanted(s))

EInv == OpensAreSettled /\ ClosedForAReason /\ EndIsEarned

LEMMA OpensSettle ==
  IInv /\ OpensAreSettled /\ [HandleNext]_handleVars => OpensAreSettled'
<1> USE FdsAreNumbers, NobodyIsNoStream
<1> SUFFICES ASSUME IInv, HandleTypeOK, OpensAreSettled, [HandleNext]_handleVars
             PROVE  OpensAreSettled'
  BY DEF IInv
<1>1. CASE UNCHANGED handleVars
  BY <1>1 DEF handleVars, OpensAreSettled
<1>2. ASSUME NEW s \in Streams, Construct(s) PROVE OpensAreSettled'
  BY <1>2 DEF Construct, IInv, Prepared, OpensAreSettled, HandleTypeOK
<1>3. ASSUME NEW s \in Streams, NEW f \in Fds, Adopt(s, f) PROVE OpensAreSettled'
  BY <1>3 DEF Adopt, IInv, Prepared, OpensAreSettled, HandleTypeOK, NoFd
<1>4. ASSUME NEW s \in Streams, NEW f \in Fds, OpenSucceeds(s, f) PROVE OpensAreSettled'
  BY <1>4 DEF OpenSucceeds, OpensAreSettled, HandleTypeOK, NoFd
<1>5. ASSUME NEW s \in Streams, OpenFails(s) \/ EmitReady(s) \/ ListenerThrows(s) \/ Close(s)
      PROVE  OpensAreSettled'
  BY <1>5 DEF OpenFails, EmitReady, ListenerThrows, GivesUp, Close, OpensAreSettled, HandleTypeOK
<1> QED
  BY <1>1, <1>2, <1>3, <1>4, <1>5 DEF HandleNext

(* A stream that has read what there is has read what was wanted.          *)
LEMMA NothingMoreIsWanted ==
  ASSUME RangeInv, NEW s \in Streams, ~destroyed[s], AtTheEnd(s), bytesRead[s] > 0 => pos[s] <= Size
  PROVE  Len(pushed[s]) = Wanted(s)
<1>1. /\ pos[s] \in Nat /\ bytesRead[s] \in Nat /\ pushed[s] \in Seq(Nat)
      /\ Start[s] \in Nat /\ Size \in Nat /\ (End[s] # NoEnd => End[s] \in Nat)
  BY SizesAreNumbers, OptionsAreTyped DEF RangeInv, TypeOK
<1>2. /\ Len(pushed[s]) = bytesRead[s] /\ pos[s] = Start[s] + bytesRead[s]
      /\ End[s] # NoEnd /\ pushed[s] # <<>> => pos[s] <= End[s] + 1
  BY DEF RangeInv, NothingIsDropped, PushedIsARangeOfTheFile
<1>3. bytesRead[s] > 0 => pushed[s] # <<>>
  BY <1>1, <1>2
<1>4. CASE End[s] = NoEnd
  BY <1>1, <1>2, <1>4 DEF Wanted, AtTheEnd
<1>5. CASE End[s] # NoEnd
  <2>1. Wanted(s) = LET last == IF Size < End[s] + 1 THEN Size ELSE End[s] + 1
                    IN  IF last > Start[s] THEN last - Start[s] ELSE 0
    BY <1>5 DEF Wanted, Smaller
  <2>2. pos[s] >= Size \/ pos[s] > End[s]
    BY DEF AtTheEnd
  <2>3. bytesRead[s] > 0 => pos[s] <= End[s] + 1
    BY <1>2, <1>3, <1>5
  <2> QED
    BY <1>1, <1>2, <1>5, <2>1, <2>2, <2>3, SMTT(20)
<1> QED
  BY <1>4, <1>5

(* What _read does to what has ended and what was read, and why.           *)
LEMMA ReadNowEarns ==
  ASSUME RangeInv, OpensAreSettled, ClosedForAReason, EndIsEarned,
         NEW s \in Streams, s \in made, ~pending[s], ReadNow(s), UNCHANGED destroyed
  PROVE  /\ \A t \in Streams :
              /\ lost[t] => lost'[t]
              /\ ended[t] => ended'[t]
              /\ pos[t] <= pos'[t]
              /\ t # s => /\ ended'[t] = ended[t]
                          /\ bytesRead'[t] = bytesRead[t] /\ pos'[t] = pos[t]
         /\ ended'[s] /\ ~ended[s] =>
              \/ lost'[s] \/ cut[s] \/ threw[s]
              \/ pos'[s] >= Size \/ (End[s] # NoEnd /\ pos'[s] > End[s])
         /\ bytesRead'[s] > 0 => pos'[s] <= Size
<1>1. \A t \in Streams : pos[t] \in Nat /\ bytesRead[t] \in Nat
  BY DEF RangeInv, TypeOK
<1>0. ASSUME PushNull(s), UNCHANGED <<pos, bytesRead>>, lost' \in {lost, [lost EXCEPT ![s] = TRUE]}
      PROVE  /\ \A t \in Streams :
                  /\ lost[t] => lost'[t]
                  /\ ended[t] => ended'[t]
                  /\ pos[t] <= pos'[t]
                  /\ t # s => /\ ended'[t] = ended[t]
                              /\ bytesRead'[t] = bytesRead[t] /\ pos'[t] = pos[t]
             /\ bytesRead'[s] > 0 => pos'[s] <= Size
  <2>1. \A t \in Streams : (lost[t] => lost'[t]) /\ (ended[t] => ended'[t])
                           /\ (t # s => ended'[t] = ended[t])
    BY <1>0 DEF PushNull, RangeInv, TypeOK
  <2>2. \A t \in Streams : pos[t] <= pos'[t]
    BY <1>0, <1>1
  <2>3. bytesRead'[s] > 0 => pos'[s] <= Size
    BY <1>0 DEF EndIsEarned
  <2> QED
    BY <1>0, <2>1, <2>2, <2>3
<1>2. CASE PushNull(s) /\ UNCHANGED <<pos, bytesRead, pushed, lost>>
           /\ (fileClosed[s] \/ fd[s] = NoFd \/ ToRead(s) <= 0)
  <2>2. ~ended[s] => cut[s] \/ threw[s] \/ (End[s] # NoEnd /\ pos[s] > End[s])
    <3>1. CASE fileClosed[s]
      BY <3>1 DEF ClosedForAReason
    <3>2. CASE fd[s] = NoFd
      BY <3>2 DEF OpensAreSettled, ClosedForAReason
    <3>3. CASE ToRead(s) <= 0
      <4>1. HighWaterMark \in Nat \ {0} /\ (End[s] # NoEnd => End[s] \in Nat) /\ pos[s] \in Nat
        BY <1>1, SizesAreNumbers, OptionsAreTyped
      <4>2. End[s] # NoEnd /\ End[s] - pos[s] + 1 <= 0
        BY <3>3, <4>1 DEF ToRead, Smaller
      <4> QED
        BY <4>1, <4>2
    <3> QED
      BY <1>2, <3>1, <3>2, <3>3
  <2> QED
    BY <1>0, <1>2, <2>2
<1>3. CASE PushNull(s) /\ UNCHANGED <<pos, bytesRead, pushed, lost>> /\ pos[s] >= Size
  BY <1>0, <1>3
<1>4. CASE PushNull(s) /\ lost' = [lost EXCEPT ![s] = TRUE] /\ UNCHANGED <<pos, bytesRead, pushed>>
  <2>1. lost'[s]
    BY <1>4 DEF RangeInv, TypeOK
  <2> QED
    BY <1>0, <1>4, <2>1
<1>5. ASSUME NEW n \in 1..Smaller(ToRead(s), Size - pos[s]),
             PushBytes(s, n), UNCHANGED <<ended, lost>>
      PROVE  /\ \A t \in Streams :
                  /\ pos[t] <= pos'[t]
                  /\ t # s => bytesRead'[t] = bytesRead[t] /\ pos'[t] = pos[t]
             /\ bytesRead'[s] > 0 => pos'[s] <= Size
  <2>1. n \in Nat \ {0} /\ n <= Size - pos[s] /\ Size \in Nat
    <3>1. n \in Nat \ {0}
      BY ReadIsBounded DEF RangeInv
    <3>2. ToRead(s) \in Int /\ Size - pos[s] \in Int /\ Size \in Nat
      BY <1>1, ReadIsBounded, SizesAreNumbers DEF RangeInv
    <3>3. n <= Smaller(ToRead(s), Size - pos[s])
      BY <3>2 DEF Smaller
    <3> QED
      BY <3>1, <3>2, <3>3 DEF Smaller
  <2>2. /\ bytesRead' = [bytesRead EXCEPT ![s] = @ + n] /\ pos' = [pos EXCEPT ![s] = @ + n]
    BY <1>5 DEF PushBytes
  <2>3. /\ \A t \in Streams : t # s => bytesRead'[t] = bytesRead[t] /\ pos'[t] = pos[t]
        /\ pos'[s] = pos[s] + n
    BY <2>2 DEF RangeInv, TypeOK
  <2> QED
    BY <1>1, <2>1, <2>3
<1> QED
  BY <1>2, <1>3, <1>4, <1>5 DEF ReadNow, NativeRead

(* What the descriptor's side of a step leaves as it was.                  *)
LEMMA ExcusesOfHandlesStay ==
  ASSUME IInv, [HandleNext]_handleVars, NEW t \in Streams
  PROVE  /\ threw[t] => threw'[t]
         /\ fileClosed[t] => fileClosed'[t]
         /\ fileClosed[t] /\ pending[t] /\ ~opening[t] => pending'[t] /\ ~opening'[t]
<1>1. fileClosed[t] => fileClosed'[t]
  BY ClosedStaysClosed DEF IInv
<1>2. CASE UNCHANGED handleVars
  BY <1>2 DEF handleVars
<1>3. ASSUME NEW s \in Streams, Construct(s) \/ \E f \in Fds : Adopt(s, f) \/ OpenSucceeds(s, f)
      PROVE  /\ threw[t] => threw'[t]
             /\ fileClosed[t] /\ pending[t] /\ ~opening[t] => pending'[t] /\ ~opening'[t]
  BY <1>3 DEF Construct, Adopt, OpenSucceeds, IInv, Prepared, HandleTypeOK
<1>4. ASSUME NEW s \in Streams, OpenFails(s) \/ EmitReady(s) \/ ListenerThrows(s) \/ Close(s)
      PROVE  /\ threw[t] => threw'[t]
             /\ fileClosed[t] /\ pending[t] /\ ~opening[t] => pending'[t] /\ ~opening'[t]
  BY <1>4 DEF OpenFails, EmitReady, ListenerThrows, Close, IInv, HandleTypeOK
<1> QED
  BY <1>1, <1>2, <1>3, <1>4 DEF HandleNext

(* What of EInv a step must be shown to keep.                              *)
LEMMA StepEarns ==
  ASSUME RangeInv, IInv, EInv, [Next]_vars,
         \A t \in Streams :
           /\ lost[t] => lost'[t]
           /\ cut[t] => cut'[t]
           /\ ended[t] => ended'[t]
           /\ pos[t] <= pos'[t] /\ pos'[t] \in Nat
           /\ ended'[t] /\ ~ended[t] =>
                \/ lost'[t] \/ cut'[t] \/ threw'[t]
                \/ pos'[t] >= Size \/ (End[t] # NoEnd /\ pos'[t] > End[t])
           /\ bytesRead'[t] > 0 => pos'[t] <= Size,
         \A t \in Streams :
           /\ cut'[t] => cut[t] \/ fileClosed'[t]
           /\ fileClosed'[t] /\ ~fileClosed[t] =>
                ended'[t] \/ cut'[t] \/ threw'[t] \/ (pending'[t] /\ ~opening'[t]),
         \A t \in Streams :
           endEmitted'[t] => /\ destroyed'[t] /\ ended'[t]
                             /\ \/ Excused(t)
                                \/ delivered'[t] = Wanted(t)
  PROVE  EInv'
<1>1. [HandleNext]_handleVars
  BY ReadStepIsHandleStep
<1>2. \A t \in Streams :
        /\ threw[t] => threw'[t]
        /\ fileClosed[t] => fileClosed'[t]
        /\ fileClosed[t] /\ pending[t] /\ ~opening[t] => pending'[t] /\ ~opening'[t]
  BY <1>1, ExcusesOfHandlesStay
<1>3. OpensAreSettled'
  BY <1>1, OpensSettle DEF EInv
<1>4. ClosedForAReason'
  BY <1>2 DEF EInv, ClosedForAReason
<1>5. ASSUME NEW t \in Streams PROVE Excused(t) => lost'[t] \/ cut'[t] \/ threw'[t]
  BY <1>2 DEF Excused
<1>6. ASSUME NEW t \in Streams, AtTheEnd(t)
      PROVE  pos'[t] >= Size \/ (End[t] # NoEnd /\ pos'[t] > End[t])
  <2>1. pos[t] \in Nat /\ pos'[t] \in Nat /\ pos[t] <= pos'[t] /\ Size \in Nat
        /\ (End[t] # NoEnd => End[t] \in Nat)
    BY SizesAreNumbers, OptionsAreTyped DEF RangeInv, TypeOK
  <2> QED
    BY <1>6, <2>1 DEF AtTheEnd
<1>7. ASSUME NEW t \in Streams, ended'[t]
      PROVE  \/ lost'[t] \/ cut'[t] \/ threw'[t]
             \/ pos'[t] >= Size \/ (End[t] # NoEnd /\ pos'[t] > End[t])
  BY <1>5, <1>6, <1>7 DEF EInv, EndIsEarned
<1>8. EndIsEarned'
  BY <1>5, <1>7 DEF EndIsEarned, Excused, AtTheEnd, Wanted
<1> QED
  BY <1>3, <1>4, <1>8 DEF EInv

(* One step per action that reads, delivers, closes or ends.               *)
LEMMA EarnedStep == RangeInv /\ IInv /\ EInv /\ [Next]_vars => EInv'
<1> SUFFICES ASSUME RangeInv, IInv, EInv, [Next]_vars PROVE EInv'
  OBVIOUS
<1>1. RangeInv'
  BY RangeStep
<1>2. \A t \in Streams : pos[t] \in Nat /\ pos'[t] \in Nat
  BY <1>1 DEF RangeInv, TypeOK
<1>3. \A t \in Streams :
        /\ bytesRead[t] > 0 => pos[t] <= Size
        /\ endEmitted[t] => /\ destroyed[t] /\ ended[t]
                            /\ Excused(t) \/ delivered[t] = Wanted(t)
  BY DEF EInv, EndIsEarned
(* Steps that read nothing and end nothing. *)
<1>4. ASSUME UNCHANGED <<pos, bytesRead, ended, lost, endEmitted, delivered>>,
             \A t \in Streams : /\ destroyed[t] => destroyed'[t]
                                /\ cut[t] => cut'[t]
                                /\ cut'[t] => cut[t] \/ fileClosed'[t]
                                /\ fileClosed'[t] /\ ~fileClosed[t] =>
                                     ended'[t] \/ cut'[t] \/ threw'[t] \/ (pending'[t] /\ ~opening'[t])
      PROVE  EInv'
  <2>1. \A t \in Streams :
           /\ lost[t] => lost'[t]
           /\ cut[t] => cut'[t]
           /\ ended[t] => ended'[t]
           /\ pos[t] <= pos'[t] /\ pos'[t] \in Nat
           /\ ended'[t] = ended[t]
           /\ bytesRead'[t] > 0 => pos'[t] <= Size
    BY <1>2, <1>3, <1>4
  <2>2. \A t \in Streams :
           endEmitted'[t] => /\ destroyed'[t] /\ ended'[t]
                             /\ Excused(t) \/ delivered'[t] = Wanted(t)
    BY <1>3, <1>4
  <2> QED
    BY <1>4, <2>1, <2>2, StepEarns
<1>5. CASE UNCHANGED <<dataVars, fileClosed>>
  BY <1>4, <1>5 DEF dataVars
<1>6. ASSUME NEW s \in Streams, s \in made, ~pending[s], ReadNow(s),
             UNCHANGED <<delivered, endEmitted, destroyed, cut>>,
             fileClosed' = fileClosed \/ (threw'[s] /\ GivesUp(s))
      PROVE  EInv'
  <2>1. /\ \A t \in Streams :
              /\ lost[t] => lost'[t]
              /\ ended[t] => ended'[t]
              /\ pos[t] <= pos'[t]
              /\ t # s => /\ ended'[t] = ended[t]
                          /\ bytesRead'[t] = bytesRead[t] /\ pos'[t] = pos[t]
        /\ ended'[s] /\ ~ended[s] =>
              \/ lost'[s] \/ cut[s] \/ threw[s]
              \/ pos'[s] >= Size \/ (End[s] # NoEnd /\ pos'[s] > End[s])
        /\ bytesRead'[s] > 0 => pos'[s] <= Size
    BY <1>6, ReadNowEarns DEF EInv
  <2>2. \A t \in Streams : threw[t] => threw'[t]
    BY ReadStepIsHandleStep, ExcusesOfHandlesStay
  <2>3. \A t \in Streams :
           /\ lost[t] => lost'[t]
           /\ cut[t] => cut'[t]
           /\ ended[t] => ended'[t]
           /\ pos[t] <= pos'[t] /\ pos'[t] \in Nat
           /\ ended'[t] /\ ~ended[t] =>
                \/ lost'[t] \/ cut'[t] \/ threw'[t]
                \/ pos'[t] >= Size \/ (End[t] # NoEnd /\ pos'[t] > End[t])
           /\ bytesRead'[t] > 0 => pos'[t] <= Size
    BY <1>2, <1>3, <1>6, <2>1, <2>2
  <2>4. \A t \in Streams :
           /\ cut'[t] => cut[t] \/ fileClosed'[t]
           /\ fileClosed'[t] /\ ~fileClosed[t] =>
                ended'[t] \/ cut'[t] \/ threw'[t] \/ (pending'[t] /\ ~opening'[t])
    BY <1>6 DEF GivesUp, IInv, HandleTypeOK
  <2>5. \A t \in Streams :
           endEmitted'[t] => /\ destroyed'[t] /\ ended'[t]
                             /\ Excused(t) \/ delivered'[t] = Wanted(t)
    BY <1>3, <1>6, <2>1
  <2> QED
    BY <2>3, <2>4, <2>5, StepEarns
<1>7. ASSUME NEW s \in Streams, Read(s) PROVE EInv'
  <2>1. CASE pending[s]
    BY <1>4, <1>7, <2>1 DEF Read, handleVars
  <2>2. CASE ~pending[s]
    BY <1>6, <1>7, <2>2 DEF Read, handleVars
  <2> QED
    BY <2>1, <2>2
<1>8. ASSUME NEW s \in Streams, Ready(s) \/ OpenListenerThrows(s) PROVE EInv'
  <2>1. s \in made /\ ~pending[s] /\ (fileClosed' = fileClosed \/ (threw'[s] /\ GivesUp(s)))
    BY <1>8 DEF Ready, OpenListenerThrows, EmitReady, ListenerThrows, EInv, OpensAreSettled,
                IInv, Prepared, HandleTypeOK
  <2>2. \A t \in Streams : fileClosed'[t] /\ ~fileClosed[t] => threw'[t]
    BY <2>1 DEF GivesUp, IInv, HandleTypeOK
  <2>3. CASE UNCHANGED <<pos, bytesRead, ended, lost, delivered, endEmitted, destroyed, cut>>
    BY <1>4, <2>2, <2>3
  <2>4. CASE RunWaitingRead(s) /\ waiting[s]
    BY <1>6, <2>1, <2>4 DEF RunWaitingRead
  <2> QED
    BY <1>8, <2>3, <2>4 DEF Ready, OpenListenerThrows, RunWaitingRead, dataVars
<1>9. ASSUME NEW s \in Streams, RunOpen(s) PROVE EInv'
  <2>1. CASE OpenFails(s)
    <3>1. \A t \in Streams : fileClosed'[t] /\ ~fileClosed[t] => pending'[t] /\ ~opening'[t]
      BY <2>1 DEF OpenFails, GivesUp, EInv, OpensAreSettled, IInv, HandleTypeOK
    <3> QED
      BY <1>4, <1>9, <3>1 DEF RunOpen, dataVars
  <2>2. CASE \E f \in Fds : OpenSucceeds(s, f)
    BY <1>5, <1>9, <2>2 DEF RunOpen, OpenSucceeds
  <2> QED
    BY <1>9, <2>1, <2>2 DEF RunOpen
<1>10. ASSUME NEW s \in Streams, ConstructStream(s) \/ \E f \in Fds : AdoptFd(s, f) PROVE EInv'
  BY <1>5, <1>10 DEF ConstructStream, AdoptFd, Construct, Adopt
<1>11. ASSUME NEW s \in Streams, UserClose(s) PROVE EInv'
  <2>1. /\ ~fileClosed[s] /\ fileClosed' = [fileClosed EXCEPT ![s] = TRUE]
        /\ cut' = [cut EXCEPT ![s] = ~ended[s]]
        /\ UNCHANGED <<pos, bytesRead, ended, lost, endEmitted, delivered, destroyed>>
    BY <1>11 DEF UserClose, Close
  <2>2. \A t \in Streams : /\ cut[t] => cut'[t]
                           /\ cut'[t] => cut[t] \/ fileClosed'[t]
                           /\ fileClosed'[t] /\ ~fileClosed[t] => ended'[t] \/ cut'[t]
    BY <2>1 DEF EInv, ClosedForAReason, RangeInv, TypeOK, HandleTypeOK
  <2> QED
    BY <1>4, <2>1, <2>2
<1>12. ASSUME NEW s \in Streams, UserDestroy(s) PROVE EInv'
  <2>1. \A t \in Streams : destroyed[t] => destroyed'[t]
    BY <1>12 DEF UserDestroy, RangeInv, TypeOK
  <2> QED
    BY <1>4, <1>12, <2>1 DEF UserDestroy, handleVars
<1>13. ASSUME NEW s \in Streams, Deliver(s) PROVE EInv'
  <2>1. ~destroyed[s] /\ UNCHANGED <<fileClosed, pos, bytesRead, ended, endEmitted, destroyed, lost, cut>>
        /\ \A t \in Streams : t # s => delivered'[t] = delivered[t]
    BY <1>13 DEF Deliver, handleVars, RangeInv, TypeOK
  <2>2. \A t \in Streams :
           endEmitted'[t] => /\ destroyed'[t] /\ ended'[t]
                             /\ Excused(t) \/ delivered'[t] = Wanted(t)
    BY <1>3, <2>1
  <2>3. \A t \in Streams : pos[t] <= pos'[t] /\ (bytesRead'[t] > 0 => pos'[t] <= Size)
    BY <1>2, <1>3, <2>1
  <2> QED
    BY <1>2, <2>1, <2>2, <2>3, StepEarns
<1>14. ASSUME NEW s \in Streams, EmitEnd(s) PROVE EInv'
  <2>1. /\ ended[s] /\ ~destroyed[s] /\ delivered[s] = Len(pushed[s])
        /\ endEmitted' = [endEmitted EXCEPT ![s] = TRUE]
        /\ destroyed' = [destroyed EXCEPT ![s] = TRUE]
        /\ UNCHANGED <<pos, bytesRead, delivered, ended, lost, cut>>
        /\ fileClosed' = fileClosed \/ fileClosed' = [fileClosed EXCEPT ![s] = TRUE]
    BY <1>14 DEF EmitEnd, Close, handleVars
  <2>2. Excused(s) \/ delivered[s] = Wanted(s)
    BY <2>1, NothingMoreIsWanted DEF EInv, EndIsEarned
  <2>3. \A t \in Streams :
           endEmitted'[t] => /\ destroyed'[t] /\ ended'[t]
                             /\ Excused(t) \/ delivered'[t] = Wanted(t)
    BY <1>3, <2>1, <2>2 DEF RangeInv, TypeOK
  <2>4. \A t \in Streams : pos[t] <= pos'[t] /\ (bytesRead'[t] > 0 => pos'[t] <= Size)
    BY <1>2, <1>3, <2>1
  <2>5. \A t \in Streams : fileClosed'[t] /\ ~fileClosed[t] => ended'[t]
    BY <2>1 DEF RangeInv, TypeOK, HandleTypeOK
  <2> QED
    BY <1>2, <2>1, <2>3, <2>4, <2>5, StepEarns
<1> QED
  <2>1. CASE UNCHANGED vars
    BY <1>5, <2>1 DEF vars, handleVars
  <2>2. CASE Next
    BY <1>7, <1>8, <1>9, <1>10, <1>11, <1>12, <1>13, <1>14, <2>2 DEF Next
  <2> QED
    BY <2>1, <2>2

LEMMA EarnedStart == Init => EInv
BY NobodyIsNoStream
   DEF Init, HandleInit, EInv, OpensAreSettled, ClosedForAReason, EndIsEarned

(* 'end' is told only to a consumer that has had every byte of the range   *)
(* it asked for, for any file, buffer and range: other than by a close, an *)
(* exception or a failed read, no short read or deferred read cuts a       *)
(* stream short.                                                           *)
THEOREM EndedStreamsAreComplete == Spec => []EndMeansComplete
<1>1. EInv => EndMeansComplete
  BY DEF EInv, EndIsEarned, Excused, EndMeansComplete
<1>2. Spec => []RangeInv
  BY RangeStart, RangeStep, PTL DEF Spec
<1>3. Spec => []IInv
  BY ReadStreamKeepsHandleSpec, HandleInvariant, PTL
<1> QED
  BY <1>1, <1>2, <1>3, EarnedStart, EarnedStep, PTL DEF Spec
=============================================================================
