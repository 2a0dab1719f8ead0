------------------------- MODULE StreamHandle_proofs -------------------------
(***************************************************************************)
(* What the constructor, _open and close of a stream do to descriptors,    *)
(* proved for any number of streams and of descriptors.                    *)
(***************************************************************************)
EXTENDS StreamHandle, TLAPS

(* A stream that is not constructed has nothing, one whose open is queued  *)
(* has no descriptor, one closed before its open has run remembers it, and *)
(* the one that is emitting 'open' has been opened.                        *)
Prepared ==
  \A s \in Streams :
    /\ s \notin made => fd[s] = NoFd /\ ~opening[s] /\ ~fileClosed[s]
    /\ opening[s] => fd[s] = NoFd
    /\ opening[s] /\ fileClosed[s] => early[s]
    /\ emitting = s => s \in made /\ ~opening[s]

IInv ==
  /\ HandleTypeOK
  /\ Prepared
  /\ StreamsUseTheirOwnFd
  /\ NoFdForgotten
  /\ StrandedOnlyByEarlyCloseOrThrow

(* A stream's own step keeps every variable of its type.                   *)
LEMMA HandleTypeStep ==
  HandleTypeOK /\ [HandleNext]_handleVars => HandleTypeOK'
<1> USE FdsAreNumbers, NobodyIsNoStream
<1> SUFFICES ASSUME HandleTypeOK, [HandleNext]_handleVars PROVE HandleTypeOK'
  OBVIOUS
<1>1. CASE UNCHANGED handleVars
  BY <1>1 DEF HandleTypeOK, handleVars
<1>2. ASSUME NEW s \in Streams, Construct(s) PROVE HandleTypeOK'
  BY <1>2 DEF HandleTypeOK, Construct
<1>3. ASSUME NEW s \in Streams, NEW f \in Fds, Adopt(s, f) PROVE HandleTypeOK'
  BY <1>3 DEF HandleTypeOK, Adopt
<1>4. ASSUME NEW s \in Streams, NEW f \in Fds, OpenSucceeds(s, f) PROVE HandleTypeOK'
  BY <1>4 DEF HandleTypeOK, OpenSucceeds
<1>5. ASSUME NEW s \in Streams, OpenFails(s) PROVE HandleTypeOK'
  BY <1>5 DEF HandleTypeOK, OpenFails, GivesUp
<1>6. ASSUME NEW s \in Streams, EmitReady(s) PROVE HandleTypeOK'
  BY <1>6 DEF HandleTypeOK, EmitReady
<1>7. ASSUME NEW s \in Streams, ListenerThrows(s) PROVE HandleTypeOK'
  BY <1>7 DEF HandleTypeOK, ListenerThrows, GivesUp
<1>8. ASSUME NEW s \in Streams, Close(s) PROVE HandleTypeOK'
  BY <1>8 DEF HandleTypeOK, Close, NoFd
<1> QED
  BY <1>1, <1>2, <1>3, <1>4, <1>5, <1>6, <1>7, <1>8 DEF HandleNext

(* A close gives back the stream's own descriptor and no other, because    *)
(* the number it finds in fd is its own.                                   *)
LEMMA CloseFreesItsOwn ==
  ASSUME IInv, NEW s \in Streams, Close(s), HandleTypeOK'
  PROVE  Prepared' /\ StreamsUseTheirOwnFd' /\ NoFdForgotten' /\ StrandedOnlyByEarlyCloseOrThrow'
<1> USE FdsAreNumbers, NobodyIsNoStream
<1>1. /\ fd' = [fd EXCEPT ![s] = NoFd]
      /\ owner' = [f \in Fds |-> IF f = fd[s] THEN Nobody ELSE owner[f]]
      /\ fileClosed' = [fileClosed EXCEPT ![s] = TRUE]
      /\ early' = [early EXCEPT ![s] = opening[s]]
      /\ UNCHANGED <<made, opening, threw, emitting>>
      /\ s \in made
  BY DEF Close
<1>2. Prepared'
  BY <1>1 DEF IInv, Prepared, HandleTypeOK
<1>3. StreamsUseTheirOwnFd'
  <2> SUFFICES ASSUME NEW t \in Streams, fd'[t] # NoFd PROVE owner'[fd'[t]] = t
    BY DEF StreamsUseTheirOwnFd
  <2>1. t # s /\ fd'[t] = fd[t]
    BY <1>1 DEF IInv, HandleTypeOK
  <2>2. fd[t] \in Fds /\ owner[fd[t]] = t
    BY <2>1 DEF IInv, HandleTypeOK, StreamsUseTheirOwnFd
  <2>3. fd[t] # fd[s]
    BY <2>1, <2>2 DEF IInv, HandleTypeOK, StreamsUseTheirOwnFd
  <2> QED
    BY <1>1, <2>1, <2>2, <2>3
<1>4. NoFdForgotten'
  <2> SUFFICES ASSUME NEW f \in Fds, owner'[f] # Nobody PROVE fd'[owner'[f]] = f
    BY DEF NoFdForgotten
  <2>1. f # fd[s] /\ owner'[f] = owner[f]
    BY <1>1
  <2>2. owner[f] \in Streams /\ fd[owner[f]] = f
    BY <2>1 DEF IInv, HandleTypeOK, NoFdForgotten
  <2> QED
    BY <1>1, <2>1, <2>2 DEF IInv, HandleTypeOK
<1>5. StrandedOnlyByEarlyCloseOrThrow'
  BY <1>1 DEF IInv, HandleTypeOK, StrandedOnlyByEarlyCloseOrThrow
<1> QED
  BY <1>2, <1>3, <1>4, <1>5

(* A descriptor that was free goes to a stream that had none.              *)
LEMMA OpenTakesAFreeOne ==
  ASSUME IInv, NEW s \in Streams, NEW f \in Fds, owner[f] = Nobody, fd[s] = NoFd,
         fd' = [fd EXCEPT ![s] = f], owner' = [owner EXCEPT ![f] = s]
  PROVE  StreamsUseTheirOwnFd' /\ NoFdForgotten'
<1> USE FdsAreNumbers, NobodyIsNoStream
<1>1. StreamsUseTheirOwnFd'
  <2> SUFFICES ASSUME NEW t \in Streams, fd'[t] # NoFd PROVE owner'[fd'[t]] = t
    BY DEF StreamsUseTheirOwnFd
  <2>1. CASE t = s
    BY <2>1 DEF IInv, HandleTypeOK
  <2>2. CASE t # s
    <3>1. fd'[t] = fd[t] /\ fd[t] \in Fds /\ owner[fd[t]] = t
      BY <2>2 DEF IInv, HandleTypeOK, StreamsUseTheirOwnFd
    <3> QED
      BY <3>1 DEF IInv, HandleTypeOK
  <2> QED
    BY <2>1, <2>2
<1>2. NoFdForgotten'
  <2> SUFFICES ASSUME NEW g \in Fds, owner'[g] # Nobody PROVE fd'[owner'[g]] = g
    BY DEF NoFdForgotten
  <2>1. CASE g = f
    BY <2>1 DEF IInv, HandleTypeOK
  <2>2. CASE g # f
    <3>1. owner'[g] = owner[g] /\ owner[g] \in Streams /\ fd[owner[g]] = g
      BY <2>2 DEF IInv, HandleTypeOK, NoFdForgotten
    <3>2. owner[g] # s
      BY <3>1, NoFd \notin Fds DEF NoFd
    <3> QED
      BY <3>1, <3>2 DEF IInv, HandleTypeOK
  <2> QED
    BY <2>1, <2>2
<1> QED
  BY <1>1, <1>2

(* IInv is inductive: one step per action of a stream.                     *)
LEMMA HandleStep == IInv /\ [HandleNext]_handleVars => IInv'
<1> USE FdsAreNumbers, NobodyIsNoStream
<1> SUFFICES ASSUME IInv, [HandleNext]_handleVars PROVE IInv'
  OBVIOUS
<1> DEFINE Rest == Prepared /\ StreamsUseTheirOwnFd /\ NoFdForgotten
                     /\ StrandedOnlyByEarlyCloseOrThrow
<1>1. HandleTypeOK'
  BY HandleTypeStep DEF IInv
<1>2. CASE UNCHANGED handleVars
  BY <1>1, <1>2 DEF IInv, handleVars, Prepared, StreamsUseTheirOwnFd, NoFdForgotten,
                    StrandedOnlyByEarlyCloseOrThrow
<1>3. ASSUME NEW s \in Streams, Construct(s) PROVE Rest'
  BY <1>3 DEF IInv, HandleTypeOK, Construct, Prepared, StreamsUseTheirOwnFd, NoFdForgotten,
              StrandedOnlyByEarlyCloseOrThrow
<1>4. ASSUME NEW s \in Streams, NEW f \in Fds, Adopt(s, f) PROVE Rest'
  <2>1. /\ owner[f] = Nobody /\ fd[s] = NoFd /\ s \notin made /\ ~fileClosed[s] /\ ~opening[s]
        /\ fd' = [fd EXCEPT ![s] = f] /\ owner' = [owner EXCEPT ![f] = s]
        /\ made' = made \union {s}
        /\ UNCHANGED <<opening, fileClosed, emitting, early, threw>>
    BY <1>4 DEF IInv, Adopt, Lowest, Free, Prepared
  <2>2. StreamsUseTheirOwnFd' /\ NoFdForgotten'
    BY <2>1, OpenTakesAFreeOne
  <2>3. Prepared' /\ StrandedOnlyByEarlyCloseOrThrow'
    BY <2>1 DEF IInv, HandleTypeOK, Prepared, StrandedOnlyByEarlyCloseOrThrow
  <2> QED
    BY <2>2, <2>3
<1>5. ASSUME NEW s \in Streams, NEW f \in Fds, OpenSucceeds(s, f) PROVE Rest'
  <2>1. /\ owner[f] = Nobody /\ fd[s] = NoFd /\ opening[s] /\ s \in made
        /\ fd' = [fd EXCEPT ![s] = f] /\ owner' = [owner EXCEPT ![f] = s]
        /\ opening' = [opening EXCEPT ![s] = FALSE] /\ emitting' = s
        /\ UNCHANGED <<made, fileClosed, early, threw>>
    BY <1>5 DEF IInv, OpenSucceeds, Lowest, Free, Prepared
  <2>2. StreamsUseTheirOwnFd' /\ NoFdForgotten'
    BY <2>1, OpenTakesAFreeOne
  <2>3. Prepared' /\ StrandedOnlyByEarlyCloseOrThrow'
    BY <2>1 DEF IInv, HandleTypeOK, Prepared, StrandedOnlyByEarlyCloseOrThrow
  <2> QED
    BY <2>2, <2>3
<1>6. ASSUME NEW s \in Streams, OpenFails(s) PROVE Rest'
  BY <1>6 DEF IInv, HandleTypeOK, OpenFails, GivesUp, Prepared, StreamsUseTheirOwnFd,
              NoFdForgotten, StrandedOnlyByEarlyCloseOrThrow
<1>7. ASSUME NEW s \in Streams, EmitReady(s) PROVE Rest'
  BY <1>7 DEF IInv, EmitReady, Prepared, StreamsUseTheirOwnFd, NoFdForgotten,
              StrandedOnlyByEarlyCloseOrThrow
<1>8. ASSUME NEW s \in Streams, ListenerThrows(s) PROVE Rest'
  <2>1. /\ s \in made
        /\ ~opening[s]
        /\ threw' = [threw EXCEPT ![s] = TRUE]
        /\ \A t \in Streams : t # s => fileClosed'[t] = fileClosed[t]
        /\ emitting' = Nobody
        /\ UNCHANGED <<made, opening, fd, owner, early>>
    BY <1>8 DEF IInv, HandleTypeOK, ListenerThrows, GivesUp, Prepared
  <2>2. Prepared' /\ StreamsUseTheirOwnFd' /\ NoFdForgotten'
    BY <2>1 DEF IInv, Prepared, StreamsUseTheirOwnFd, NoFdForgotten
  <2>3. StrandedOnlyByEarlyCloseOrThrow'
    BY <2>1 DEF IInv, HandleTypeOK, StrandedOnlyByEarlyCloseOrThrow
  <2> QED
    BY <2>2, <2>3
<1>9. ASSUME NEW s \in Streams, Close(s) PROVE Rest'
  BY <1>9, <1>1, CloseFreesItsOwn
<1> QED
  BY <1>1, <1>2, <1>3, <1>4, <1>5, <1>6, <1>7, <1>8, <1>9 DEF HandleNext, IInv

(* No stream has anything at the start.                                    *)
LEMMA HandleStart == HandleInit => IInv
BY FdsAreNumbers, NobodyIsNoStream
   DEF HandleInit, IInv, HandleTypeOK, Prepared, StreamsUseTheirOwnFd, NoFdForgotten,
       StrandedOnlyByEarlyCloseOrThrow, NoFd

(* A stream that is closed stays closed.                                   *)
LEMMA ClosedStaysClosed ==
  ASSUME HandleTypeOK, [HandleNext]_handleVars, NEW s \in Streams, fileClosed[s]
  PROVE  fileClosed'[s]
<1>1. CASE UNCHANGED handleVars
  BY <1>1 DEF handleVars
<1>2. ASSUME NEW t \in Streams,
             (\E f \in Fds : Adopt(t, f) \/ OpenSucceeds(t, f)) \/ Construct(t) \/ EmitReady(t)
      PROVE  fileClosed'[s]
  BY <1>2 DEF Adopt, OpenSucceeds, Construct, EmitReady
<1>3. ASSUME NEW t \in Streams, OpenFails(t) \/ ListenerThrows(t) \/ Close(t)
      PROVE  fileClosed'[s]
  BY <1>3 DEF OpenFails, ListenerThrows, Close, GivesUp, HandleTypeOK
<1> QED
  BY <1>1, <1>2, <1>3 DEF HandleNext

(* IInv holds in every state of every run of the streams.                  *)
THEOREM HandleInvariant == HandleSpec => []IInv
BY HandleStart, HandleStep, PTL DEF HandleSpec

(* No stream reads, writes or closes a number that the process has since   *)
(* given to another file: the close of ReadStream.ts and WriteStream.ts    *)
(* forgets the number in the step that frees it.                           *)
THEOREM StreamsNeverShareFds == HandleSpec => []StreamsUseTheirOwnFd
<1>1. IInv => StreamsUseTheirOwnFd
  BY DEF IInv
<1> QED
  BY <1>1, HandleInvariant, PTL

(* A descriptor a stream has opened is in its fd until it is closed: no    *)
(* step of the constructor, _open or close overwrites it.                  *)
THEOREM StreamsForgetNoFd == HandleSpec => []NoFdForgotten
<1>1. IInv => NoFdForgotten
  BY DEF IInv
<1> QED
  BY <1>1, HandleInvariant, PTL

(* A stream that is closed and still holds a descriptor was closed before  *)
(* its open had run, or one of its 'open' listeners threw.                 *)
THEOREM OnlyTwoWaysToStrand == HandleSpec => []StrandedOnlyByEarlyCloseOrThrow
<1>1. IInv => StrandedOnlyByEarlyCloseOrThrow
  BY DEF IInv
<1> QED
  BY <1>1, HandleInvariant, PTL
=============================================================================
