---------------------------- MODULE WriteStream -----------------------------
(***************************************************************************)
(* WriteStream.ts on top of the Writable of the readable-stream package,   *)
(* several streams writing to one file.                                    *)
(*                                                                         *)
(* The base class is external: it takes the program's chunks, passes them  *)
(* to _write one at a time, destroys the stream when a write reports an    *)
(* error, and emits 'finish' once end() was called and no chunk is left.   *)
(* A unit of data is named by its stream and its place in what the program *)
(* has written to that stream.                                             *)
(***************************************************************************)
EXTENDS StreamHandle, Sequences

CONSTANTS Options,    \* [flags, start, autoClose] a stream may be created with
          ChunkLen,   \* units in one chunk; a native write may be short
          MaxChunks   \* bound on the chunks a program writes to one stream

NoStart == -1

ASSUME OptionsAreTyped ==
  Options \subseteq [flags: {"w", "a", "r+"}, start: Nat \union {NoStart}, autoClose: BOOLEAN]
ASSUME BoundsAreNumbers == ChunkLen \in Nat \ {0} /\ MaxChunks \in Nat

VARIABLES
  opt,           \* the options of each stream
  pos,           \* where a stream with a start option writes next
  bytesWritten,
  accepted,      \* how many chunks the program has handed over
  answered,      \* how many of them _write has called back for without error
  writing,       \* the base class has called _write and waits for its callback
  waiting,       \* a _write has put itself off to the 'ready' event
  ending,        \* end() was called
  finished,
  destroyed,
  offset,        \* the kernel's offset of each stream's descriptor
  content,       \* the file
  landed,        \* the units each stream's writes reported as written
  short          \* a native write took less than its chunk

dataVars == <<opt, pos, bytesWritten, accepted, answered, writing, waiting, ending,
              finished, destroyed, offset, content, landed, short>>
vars == <<handleVars, dataVars>>

Units == Streams \X (1..MaxChunks * ChunkLen)
Hole == <<>>

TypeOK ==
  /\ HandleTypeOK
  /\ opt \in [Streams -> Options]
  /\ {pos, bytesWritten, accepted, answered, offset} \subseteq [Streams -> Nat]
  /\ {writing, waiting, ending, finished, destroyed, short} \subseteq [Streams -> BOOLEAN]
  /\ content \in Seq(Units \union {Hole})
  /\ landed \in [Streams -> Seq(Units)]

Positional(s) == opt[s].start # NoStart

Init ==
  /\ HandleInit
  /\ opt \in [Streams -> Options]
  /\ pos = [s \in Streams |-> IF Positional(s) THEN opt[s].start ELSE 0]
  /\ bytesWritten = [s \in Streams |-> 0]
  /\ accepted = [s \in Streams |-> 0]
  /\ answered = [s \in Streams |-> 0]
  /\ writing = [s \in Streams |-> FALSE]
  /\ waiting = [s \in Streams |-> FALSE]
  /\ ending = [s \in Streams |-> FALSE]
  /\ finished = [s \in Streams |-> FALSE]
  /\ destroyed = [s \in Streams |-> FALSE]
  /\ offset = [s \in Streams |-> 0]
  /\ content = <<>>
  /\ landed = [s \in Streams |-> <<>>]
  /\ short = [s \in Streams |-> FALSE]

-----------------------------------------------------------------------------
(* The native write                                                        *)

(* The first n units of the chunk being written. *)
Chunk(s, n) == [i \in 1..n |-> <<s, answered[s] * ChunkLen + i>>]

(* Slip: flag 'a' opens the file without O_APPEND. *)
PlaceWithoutAppend(s) == IF Positional(s) THEN pos[s] ELSE offset[s]

(* O_APPEND writes at the end, a position of -1 at the current offset.     *)
Place(s) ==
  IF opt[s].flags = "a" THEN Len(content)
  ELSE IF Positional(s) THEN pos[s] ELSE offset[s]

WrittenAt(at, units) ==
  [i \in 1..(IF at + Len(units) > Len(content) THEN at + Len(units) ELSE Len(content)) |->
     IF i \in at + 1 .. at + Len(units) THEN units[i - at]
     ELSE IF i <= Len(content) THEN content[i] ELSE Hole]

-----------------------------------------------------------------------------
(* _write                                                                  *)

(* Slip: the stream's own position is left behind. *)
WriteSucceedsPosStays(s, n) ==
  /\ content' = WrittenAt(Place(s), Chunk(s, n))
  /\ offset' = [offset EXCEPT ![s] = IF Positional(s) THEN @ ELSE Place(s) + n]
  /\ bytesWritten' = [bytesWritten EXCEPT ![s] = @ + n]
  /\ landed' = [landed EXCEPT ![s] = @ \o Chunk(s, n)]
  /\ short' = [short EXCEPT ![s] = @ \/ n < ChunkLen]
  /\ answered' = [answered EXCEPT ![s] = @ + 1]
  /\ writing' = [writing EXCEPT ![s] = FALSE]
  /\ UNCHANGED <<destroyed, pos>>

(* n units were written; a short write counts as a whole chunk.            *)
WriteSucceeds(s, n) ==
  /\ content' = WrittenAt(Place(s), Chunk(s, n))
  /\ offset' = [offset EXCEPT ![s] = IF Positional(s) THEN @ ELSE Place(s) + n]
  /\ bytesWritten' = [bytesWritten EXCEPT ![s] = @ + n]
  /\ pos' = [pos EXCEPT ![s] = IF Positional(s) THEN @ + n ELSE @]
  /\ landed' = [landed EXCEPT ![s] = @ \o Chunk(s, n)]
  /\ short' = [short EXCEPT ![s] = @ \/ n < ChunkLen]
  /\ answered' = [answered EXCEPT ![s] = @ + 1]
  /\ writing' = [writing EXCEPT ![s] = FALSE]
  /\ UNCHANGED destroyed

(* Slip: the -1 of a failed write is added to the counters. *)
WriteFailsCounted(s) ==
  /\ bytesWritten' = [bytesWritten EXCEPT ![s] = @ - 1]
  /\ answered' = [answered EXCEPT ![s] = @ + 1]
  /\ writing' = [writing EXCEPT ![s] = FALSE]
  /\ UNCHANGED <<content, offset, pos, landed, short, destroyed>>

(* Slip: a failed write is answered like a good one. *)
WriteFailsSilently(s) ==
  /\ answered' = [answered EXCEPT ![s] = @ + 1]
  /\ writing' = [writing EXCEPT ![s] = FALSE]
  /\ UNCHANGED <<content, offset, bytesWritten, pos, landed, short, destroyed>>

(* The callback gets an error and the base class destroys the stream.      *)
WriteFails(s) ==
  /\ writing' = [writing EXCEPT ![s] = FALSE]
  /\ destroyed' = [destroyed EXCEPT ![s] = TRUE]
  /\ UNCHANGED <<content, offset, bytesWritten, pos, landed, short, answered>>

(* The body of _write once the stream is not pending.                      *)
WriteNow(s) ==
  \/ WriteFails(s)
  \/ /\ ~fileClosed[s] /\ fd[s] # NoFd
     /\ \E n \in 1..ChunkLen : WriteSucceeds(s, n)

PutOff(s) ==
  /\ waiting' = [waiting EXCEPT ![s] = TRUE]
  /\ writing' = [writing EXCEPT ![s] = TRUE]
  /\ UNCHANGED <<content, offset, bytesWritten, pos, landed, short, answered, destroyed>>

(* Slip: a _write that comes before the open is forgotten. *)
WriteForgets(s) ==
  /\ s \in made
  /\ ~writing[s] /\ ~destroyed[s] /\ answered[s] < accepted[s]
  /\ IF pending[s]
       THEN /\ writing' = [writing EXCEPT ![s] = TRUE]
            /\ UNCHANGED <<waiting, content, offset, bytesWritten, pos, landed, short,
                           answered, destroyed>>
       ELSE WriteNow(s) /\ UNCHANGED waiting
  /\ UNCHANGED <<handleVars, opt, accepted, ending, finished>>

Write(s) ==
  /\ s \in made
  /\ ~writing[s] /\ ~destroyed[s] /\ answered[s] < accepted[s]
  /\ IF pending[s] THEN PutOff(s) ELSE WriteNow(s) /\ UNCHANGED waiting
  /\ UNCHANGED <<handleVars, opt, accepted, ending, finished>>

-----------------------------------------------------------------------------
(* _open, its events and close                                             *)

ConstructStream(s) == Construct(s) /\ UNCHANGED dataVars

(* Opening with 'w' empties the file. *)
Opened(s) ==
  /\ content' = IF opt[s].flags = "w" THEN <<>> ELSE content
  /\ UNCHANGED <<opt, pos, bytesWritten, accepted, answered, writing, waiting, ending,
                 finished, destroyed, offset, landed, short>>

AdoptFd(s, f) == Adopt(s, f) /\ Opened(s)

RunOpen(s) ==
  \/ \E f \in Fds : OpenSucceeds(s, f) /\ Opened(s)
  \/ OpenFails(s) /\ UNCHANGED dataVars

(* 'ready' runs the _write that was put off, unless a listener of 'open'   *)
(* throws first.                                                           *)
RunWaitingWrite(s) ==
  /\ IF waiting[s] THEN WriteNow(s)
     ELSE UNCHANGED <<content, offset, bytesWritten, pos, landed, short, answered,
                      writing, destroyed>>
  /\ waiting' = [waiting EXCEPT ![s] = FALSE]
  /\ UNCHANGED <<opt, accepted, ending, finished>>

Ready(s) == EmitReady(s) /\ RunWaitingWrite(s)

OpenListenerThrows(s) ==
  ListenerThrows(s) /\ (RunWaitingWrite(s) \/ UNCHANGED dataVars)

UserClose(s) == Close(s) /\ UNCHANGED dataVars

-----------------------------------------------------------------------------
(* The program and the base class                                          *)

UserWrite(s) ==
  /\ s \in made
  /\ ~ending[s] /\ ~destroyed[s] /\ accepted[s] < MaxChunks
  /\ accepted' = [accepted EXCEPT ![s] = @ + 1]
  /\ UNCHANGED <<handleVars, opt, pos, bytesWritten, answered, writing, waiting, ending,
                 finished, destroyed, offset, content, landed, short>>

UserEnd(s) ==
  /\ s \in made
  /\ ~ending[s] /\ ~destroyed[s]
  /\ ending' = [ending EXCEPT ![s] = TRUE]
  /\ UNCHANGED <<handleVars, opt, pos, bytesWritten, accepted, answered, writing, waiting,
                 finished, destroyed, offset, content, landed, short>>

CanFinish(s) ==
  /\ emitting = Nobody
  /\ ending[s] /\ ~finished[s] /\ ~destroyed[s]
  /\ ~writing[s] /\ answered[s] = accepted[s]

(* Slip: the 'finish' listener does not close the file. *)
FinishWithoutClose(s) ==
  /\ CanFinish(s)
  /\ finished' = [finished EXCEPT ![s] = TRUE]
  /\ destroyed' = [destroyed EXCEPT ![s] = TRUE]
  /\ UNCHANGED handleVars
  /\ UNCHANGED <<opt, pos, bytesWritten, accepted, answered, writing, waiting, ending,
                 offset, content, landed, short>>

(* 'finish' runs the constructor's listener, which closes the file, and    *)
(* the base class then destroys the stream.                                *)
EmitFinish(s) ==
  /\ CanFinish(s)
  /\ finished' = [finished EXCEPT ![s] = TRUE]
  /\ destroyed' = [destroyed EXCEPT ![s] = TRUE]
  /\ IF opt[s].autoClose /\ ~fileClosed[s] THEN Close(s) ELSE UNCHANGED handleVars
  /\ UNCHANGED <<opt, pos, bytesWritten, accepted, answered, writing, waiting, ending,
                 offset, content, landed, short>>

(* destroy(): the class has no _destroy, so its file is left alone.        *)
UserDestroy(s) ==
  /\ s \in made
  /\ ~destroyed[s]
  /\ destroyed' = [destroyed EXCEPT ![s] = TRUE]
  /\ UNCHANGED <<handleVars, opt, pos, bytesWritten, accepted, answered, writing, waiting,
                 ending, finished, offset, content, landed, short>>

Next ==
  \E s \in Streams :
    \/ ConstructStream(s)
    \/ \E f \in Fds : AdoptFd(s, f)
    \/ RunOpen(s)
    \/ Ready(s)
    \/ OpenListenerThrows(s)
    \/ UserWrite(s)
    \/ Write(s)
    \/ UserEnd(s)
    \/ EmitFinish(s)
    \/ UserClose(s)
    \/ UserDestroy(s)

(* The event loop runs what is queued, listeners return or throw, and the  *)
(* base class passes on the chunks it has and then finishes.               *)
Fairness ==
  \A s \in Streams : /\ WF_vars(RunOpen(s))
                     /\ WF_vars(Ready(s) \/ OpenListenerThrows(s))
                     /\ WF_vars(Write(s))
                     /\ WF_vars(EmitFinish(s))

Spec == Init /\ [][Next]_vars /\ Fairness

-----------------------------------------------------------------------------
(* Properties                                                              *)

(* A stream that has the file to itself leaves in it exactly what its      *)
(* writes reported, one after the other from its start option onwards.     *)
(* (What positions mean in a file that is appended to is the platform's.)  *)
Base(s) == IF Positional(s) THEN opt[s].start ELSE 0
LoneStreamWritesInSequence ==
  \A s \in Streams : made = {s} /\ (Positional(s) => opt[s].flags # "a") =>
    /\ landed[s] # <<>> => Len(content) = Base(s) + Len(landed[s])
    /\ \A i \in DOMAIN landed[s] : content[Base(s) + i] = landed[s][i]

(* The places of the units of s among the first k of a file, and that the  *)
(* units of s in the file are the given ones, one by one and in order.     *)
Mine(file, s, k) == {j \in 1..k : file[j][1] = s}
Holds(file, s, units) ==
  /\ Cardinality(Mine(file, s, Len(file))) = Len(units)
  /\ \A k \in Mine(file, s, Len(file)) : file[k] = units[Cardinality(Mine(file, s, k))]

(* Streams that append to the same file lose nothing to each other: the    *)
(* file holds what each of them wrote, whole and in its order.             *)
AppendersKeepEachOthersData ==
  (\A s \in made : opt[s].flags = "a") => \A s \in made : Holds(content, s, landed[s])

(* 'finish' means that every chunk is in the file whole, unless a native   *)
(* write was short, which the stream does not notice.                      *)
FinishMeansWritten ==
  \A s \in Streams :
    finished[s] /\ ~short[s] => Len(landed[s]) = accepted[s] * ChunkLen

(* A stream that finished has given its descriptor back, unless it         *)
(* finished, empty, or was closed before its open had run.                 *)
FinishReleasesTheFile ==
  \A s \in Streams :
    finished[s] /\ opt[s].autoClose => fd[s] = NoFd \/ early[s] \/ threw[s]

(* Every chunk the program hands over is written or reported as an error   *)
(* (which destroys the stream), and end() is followed by 'finish', if the  *)
(* file opens and no listener of the open throws.                          *)
EveryEndedStreamFinishes ==
  \A s \in Streams :
    ending[s] ~> \/ finished[s] \/ destroyed[s] \/ threw[s]
                 \/ pending[s] /\ ~opening[s]

=============================================================================
