----------------------------- MODULE ReadStream -----------------------------
(***************************************************************************)
(* ReadStream.ts on top of the Readable of the readable-stream package.    *)
(*                                                                         *)
(* The base class is external: it calls _read when nothing is being read,  *)
(* buffers what is pushed, hands it to the consumer, emits 'end' when the  *)
(* buffer is empty after push(null), and destroys the stream after that.   *)
(* A byte is named by its position in the file, so the data a stream has   *)
(* pushed is a sequence of positions.                                      *)
(***************************************************************************)
EXTENDS StreamHandle, Sequences

CONSTANTS Size,        \* the length of the file
          Start, End,  \* the options of each stream; End may be NoEnd
          AutoClose,
          HighWaterMark

NoEnd == -1

ASSUME SizesAreNumbers == Size \in Nat /\ HighWaterMark \in Nat \ {0}
ASSUME OptionsAreTyped ==
  /\ Start \in [Streams -> Nat]
  /\ End \in [Streams -> Nat \union {NoEnd}]
  /\ AutoClose \in [Streams -> BOOLEAN]

VARIABLES
  pos,         \* where the next native read starts
  bytesRead,
  pushed,      \* the positions pushed, in order
  delivered,   \* how many of them the consumer has had
  reading,     \* the base class has called _read and waits for a push
  waiting,     \* a _read has put itself off to the 'ready' event
  ended,       \* push(null)
  endEmitted,
  destroyed,
  lost,        \* a native read failed
  cut          \* the program closed the stream before its end

dataVars == <<pos, bytesRead, pushed, delivered, reading, waiting, ended,
              endEmitted, destroyed, lost, cut>>
vars == <<handleVars, dataVars>>

TypeOK ==
  /\ HandleTypeOK
  /\ pos \in [Streams -> Nat]
  /\ bytesRead \in [Streams -> Nat]
  /\ pushed \in [Streams -> Seq(Nat)]
  /\ delivered \in [Streams -> Nat]
  /\ {reading, waiting, ended, endEmitted, destroyed, lost, cut} \subseteq [Streams -> BOOLEAN]

Init ==
  /\ HandleInit
  /\ pos = Start
  /\ bytesRead = [s \in Streams |-> 0]
  /\ pushed = [s \in Streams |-> <<>>]
  /\ delivered = [s \in Streams |-> 0]
  /\ reading = [s \in Streams |-> FALSE]
  /\ waiting = [s \in Streams |-> FALSE]
  /\ ended = [s \in Streams |-> FALSE]
  /\ endEmitted = [s \in Streams |-> FALSE]
  /\ destroyed = [s \in Streams |-> FALSE]
  /\ lost = [s \in Streams |-> FALSE]
  /\ cut = [s \in Streams |-> FALSE]

Smaller(a, b) == IF a < b THEN a ELSE b

-----------------------------------------------------------------------------
(* _read                                                                   *)

(* Slip: the end option is taken for exclusive. *)
ToReadShort(s) ==
  IF End[s] = NoEnd THEN HighWaterMark
                    ELSE Smaller(HighWaterMark, End[s] - pos[s])

(* Slip: the end option only decides whether to read at all. *)
ToReadPastEnd(s) ==
  IF End[s] = NoEnd \/ pos[s] <= End[s] THEN HighWaterMark ELSE 0

ToRead(s) ==
  IF End[s] = NoEnd THEN HighWaterMark
                    ELSE Smaller(HighWaterMark, End[s] - pos[s] + 1)

PushNull(s) ==
  /\ ended' = [ended EXCEPT ![s] = TRUE]
  /\ reading' = [reading EXCEPT ![s] = FALSE]

(* A push onto a destroyed stream is dropped by the base class. *)
PushBytes(s, n) ==
  /\ bytesRead' = [bytesRead EXCEPT ![s] = @ + n]
  /\ pos' = [pos EXCEPT ![s] = @ + n]
  /\ pushed' = IF destroyed[s] THEN pushed
               ELSE [pushed EXCEPT ![s] = @ \o [i \in 1..n |-> pos[s] + i - 1]]
  /\ reading' = [reading EXCEPT ![s] = destroyed[s]]

(* What one native read may return: some of the bytes asked for, nothing   *)
(* at the end of the file, or -1, which _read treats as the end.           *)
NativeRead(s) ==
  \/ \E n \in 1..Smaller(ToRead(s), Size - pos[s]) :
       PushBytes(s, n) /\ UNCHANGED <<ended, lost>>
  \/ pos[s] >= Size /\ PushNull(s) /\ UNCHANGED <<pos, bytesRead, pushed, lost>>
  \/ PushNull(s) /\ lost' = [lost EXCEPT ![s] = TRUE]
     /\ UNCHANGED <<pos, bytesRead, pushed>>

(* Slip: a failed read is counted. *)
ReadNowCounting(s) ==
  IF fileClosed[s] \/ fd[s] = NoFd \/ ToRead(s) <= 0
    THEN PushNull(s) /\ UNCHANGED <<pos, bytesRead, pushed, lost>>
    ELSE \/ NativeRead(s)
         \/ /\ PushNull(s)
            /\ bytesRead' = [bytesRead EXCEPT ![s] = @ - 1]
            /\ lost' = [lost EXCEPT ![s] = TRUE]
            /\ UNCHANGED <<pos, pushed>>

(* The body of _read once the stream is not pending. *)
ReadNow(s) ==
  IF fileClosed[s] \/ fd[s] = NoFd \/ ToRead(s) <= 0
    THEN PushNull(s) /\ UNCHANGED <<pos, bytesRead, pushed, lost>>
    ELSE NativeRead(s)

(* Slip: a read of a pending stream is not taken up again. *)
ReadForgets(s) ==
  /\ s \in made
  /\ ~reading[s] /\ ~ended[s] /\ ~destroyed[s]
  /\ IF pending[s]
       THEN /\ reading' = [reading EXCEPT ![s] = TRUE]
            /\ UNCHANGED <<pos, bytesRead, pushed, ended, lost, waiting>>
       ELSE ReadNow(s) /\ UNCHANGED waiting
  /\ UNCHANGED <<handleVars, delivered, endEmitted, destroyed, cut>>

Read(s) ==
  /\ s \in made
  /\ ~reading[s] /\ ~ended[s] /\ ~destroyed[s]
  /\ IF pending[s]
       THEN /\ waiting' = [waiting EXCEPT ![s] = TRUE]
            /\ reading' = [reading EXCEPT ![s] = TRUE]
            /\ UNCHANGED <<pos, bytesRead, pushed, ended, lost>>
       ELSE ReadNow(s) /\ UNCHANGED waiting
  /\ UNCHANGED <<handleVars, delivered, endEmitted, destroyed, cut>>

-----------------------------------------------------------------------------
(* _open, its events and close                                             *)

ConstructStream(s) == Construct(s) /\ UNCHANGED dataVars

AdoptFd(s, f) == Adopt(s, f) /\ UNCHANGED dataVars

RunOpen(s) ==
  /\ (\E f \in Fds : OpenSucceeds(s, f)) \/ OpenFails(s)
  /\ UNCHANGED dataVars

(* 'ready' runs the _read that was put off.  A listener that throws keeps  *)
(* it from running when it comes first.                                    *)
RunWaitingRead(s) ==
  /\ IF waiting[s] THEN ReadNow(s) ELSE UNCHANGED <<pos, bytesRead, pushed, reading, ended, lost>>
  /\ waiting' = [waiting EXCEPT ![s] = FALSE]
  /\ UNCHANGED <<delivered, endEmitted, destroyed, cut>>

Ready(s) == EmitReady(s) /\ RunWaitingRead(s)

OpenListenerThrows(s) ==
  ListenerThrows(s) /\ (RunWaitingRead(s) \/ UNCHANGED dataVars)

UserClose(s) ==
  /\ Close(s)
  /\ cut' = [cut EXCEPT ![s] = ~ended[s]]
  /\ UNCHANGED <<pos, bytesRead, pushed, delivered, reading, waiting, ended,
                 endEmitted, destroyed, lost>>

(* destroy(): the class has no _destroy, so its file is left alone. *)
UserDestroy(s) ==
  /\ s \in made
  /\ ~destroyed[s]
  /\ destroyed' = [destroyed EXCEPT ![s] = TRUE]
  /\ UNCHANGED <<handleVars, pos, bytesRead, pushed, delivered, reading, waiting,
                 ended, endEmitted, lost, cut>>

-----------------------------------------------------------------------------
(* The consumer and the base class                                         *)

Deliver(s) ==
  /\ ~destroyed[s] /\ delivered[s] < Len(pushed[s])
  /\ delivered' = [delivered EXCEPT ![s] = @ + 1]
  /\ UNCHANGED <<handleVars, pos, bytesRead, pushed, reading, waiting, ended,
                 endEmitted, destroyed, lost, cut>>

(* Slip: the 'end' listener does not close. *)
EmitEndOnly(s) ==
  /\ emitting = Nobody
  /\ ended[s] /\ ~endEmitted[s] /\ ~destroyed[s]
  /\ delivered[s] = Len(pushed[s])
  /\ endEmitted' = [endEmitted EXCEPT ![s] = TRUE]
  /\ destroyed' = [destroyed EXCEPT ![s] = TRUE]
  /\ UNCHANGED <<handleVars, pos, bytesRead, pushed, delivered, reading, waiting,
                 ended, lost, cut>>

(* 'end' runs the constructor's listener, which closes the file, and the   *)
(* base class then destroys the stream.                                    *)
EmitEnd(s) ==
  /\ emitting = Nobody
  /\ ended[s] /\ ~endEmitted[s] /\ ~destroyed[s]
  /\ delivered[s] = Len(pushed[s])
  /\ endEmitted' = [endEmitted EXCEPT ![s] = TRUE]
  /\ destroyed' = [destroyed EXCEPT ![s] = TRUE]
  /\ IF AutoClose[s] /\ ~fileClosed[s] THEN Close(s) ELSE UNCHANGED handleVars
  /\ UNCHANGED <<pos, bytesRead, pushed, delivered, reading, waiting, ended, lost, cut>>

Next ==
  \E s \in Streams :
    \/ ConstructStream(s)
    \/ \E f \in Fds : AdoptFd(s, f)
    \/ RunOpen(s)
    \/ Ready(s)
    \/ OpenListenerThrows(s)
    \/ Read(s)
    \/ Deliver(s)
    \/ EmitEnd(s)
    \/ UserClose(s)
    \/ UserDestroy(s)

(* The event loop runs what is queued, listeners return or throw, the base *)
(* class keeps asking for data and the consumer keeps taking it.           *)
Fairness ==
  \A s \in Streams : /\ WF_vars(RunOpen(s))
                     /\ WF_vars(Ready(s) \/ OpenListenerThrows(s))
                     /\ WF_vars(Read(s))
                     /\ WF_vars(Deliver(s))
                     /\ WF_vars(EmitEnd(s))

Spec == Init /\ [][Next]_vars /\ Fairness

-----------------------------------------------------------------------------
(* Properties                                                              *)

(* What a stream pushes is the file from its start position onwards, with  *)
(* no byte missing, repeated or out of order however short the native      *)
(* reads are, and no byte beyond its end option.                           *)
PushedIsARangeOfTheFile ==
  \A s \in Streams :
    /\ \A i \in DOMAIN pushed[s] : pushed[s][i] = Start[s] + i - 1
    /\ pos[s] = Start[s] + bytesRead[s]
    /\ Len(pushed[s]) <= bytesRead[s]
    /\ End[s] # NoEnd /\ pushed[s] # <<>> => pos[s] <= End[s] + 1

(* The bytes a stream is asked for: from its start to its end option or to *)
(* the end of the file, whichever comes first.                             *)
Wanted(s) ==
  LET last == IF End[s] = NoEnd THEN Size ELSE Smaller(Size, End[s] + 1)
  IN  IF last > Start[s] THEN last - Start[s] ELSE 0

(* The consumer is told 'end' only when it has had every byte it asked     *)
(* for, unless the program closed the stream, an open listener threw or a  *)
(* native read failed, all of which look like the end of the file to it.   *)
EndMeansComplete ==
  \A s \in Streams :
    endEmitted[s] /\ ~(lost[s] \/ cut[s] \/ threw[s]) => delivered[s] = Wanted(s)

(* A stream that ran to its end has given its descriptor back.             *)
EndReleasesTheFile ==
  \A s \in Streams :
    endEmitted[s] /\ AutoClose[s] => fd[s] = NoFd \/ early[s] \/ threw[s]

(* Every stream comes to its end (or is destroyed) if its file opens and   *)
(* no listener of the open throws: a _read put off to 'ready' is taken up  *)
(* again, and a short read or a close in mid-file does not stall it.       *)
EveryOpenedStreamEnds ==
  \A s \in Streams :
    s \in made ~> \/ endEmitted[s] \/ destroyed[s] \/ threw[s]
                  \/ pending[s] /\ ~opening[s]

=============================================================================
