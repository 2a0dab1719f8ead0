---------------------------- MODULE StreamHandle ----------------------------
(***************************************************************************)
(* The descriptor side of ReadStream.ts and WriteStream.ts, which share    *)
(* their constructor, _open and close line for line: a stream opens its    *)
(* file in a setImmediate of its constructor, or adopts a descriptor it is *)
(* given, and closes it once.                                              *)
(*                                                                         *)
(* ReadStream and WriteStream extend this module with the data side.  On   *)
(* its own it is the abstract specification of both: what a stream may do  *)
(* to the process's descriptors, whoever calls close and whenever.         *)
(***************************************************************************)
EXTENDS Integers, FiniteSets

CONSTANTS Streams,   \* the streams a program creates
          Fds,       \* the descriptor numbers of the process
          Nobody     \* the owner of a descriptor that is not open

ASSUME FdsAreNumbers == Fds \subseteq Nat
ASSUME NobodyIsNoStream == Nobody \notin Streams

NoFd == -1

VARIABLES
  made,        \* the streams constructed so far
  opening,     \* _open's immediate is still queued
  pending,     \* the stream's own flag: not opened yet
  fd,          \* the stream's descriptor
  fileClosed,  \* the stream's own flag: close has run
  owner,       \* the kernel's table: the stream each open descriptor belongs to
  emitting,    \* the stream whose 'open' listeners are running
  early,       \* close was called before the open had run
  threw        \* an 'open' or 'ready' listener threw

handleVars == <<made, opening, pending, fd, fileClosed, owner, emitting, early, threw>>

HandleTypeOK ==
  /\ made \subseteq Streams
  /\ opening \in [Streams -> BOOLEAN]
  /\ pending \in [Streams -> BOOLEAN]
  /\ fd \in [Streams -> Fds \union {NoFd}]
  /\ fileClosed \in [Streams -> BOOLEAN]
  /\ owner \in [Fds -> Streams \union {Nobody}]
  /\ emitting \in Streams \union {Nobody}
  /\ early \in [Streams -> BOOLEAN]
  /\ threw \in [Streams -> BOOLEAN]

HandleInit ==
  /\ made = {}
  /\ opening = [s \in Streams |-> FALSE]
  /\ pending = [s \in Streams |-> FALSE]
  /\ fd = [s \in Streams |-> NoFd]
  /\ fileClosed = [s \in Streams |-> FALSE]
  /\ owner = [f \in Fds |-> Nobody]
  /\ emitting = Nobody
  /\ early = [s \in Streams |-> FALSE]
  /\ threw = [s \in Streams |-> FALSE]

Free == {f \in Fds : owner[f] = Nobody}
Lowest(f) == f \in Free /\ \A g \in Free : f <= g

(* new ReadStream(path) or new WriteStream(path). *)
Construct(s) ==
  /\ s \notin made
  /\ made' = made \union {s}
  /\ pending' = [pending EXCEPT ![s] = TRUE]
  /\ opening' = [opening EXCEPT ![s] = TRUE]
  /\ UNCHANGED <<fd, fileClosed, owner, emitting, early, threw>>

(* The same with options.fd: a descriptor the program has just opened and  *)
(* leaves to the stream.                                                   *)
Adopt(s, f) ==
  /\ s \notin made
  /\ Lowest(f)
  /\ made' = made \union {s}
  /\ owner' = [owner EXCEPT ![f] = s]
  /\ fd' = [fd EXCEPT ![s] = f]
  /\ UNCHANGED <<opening, pending, fileClosed, emitting, early, threw>>

(* _open's immediate: the native open, then the 'open' listeners.          *)
OpenSucceeds(s, f) ==
  /\ opening[s]
  /\ emitting = Nobody
  /\ Lowest(f)
  /\ owner' = [owner EXCEPT ![f] = s]
  /\ fd' = [fd EXCEPT ![s] = f]
  /\ pending' = [pending EXCEPT ![s] = FALSE]
  /\ opening' = [opening EXCEPT ![s] = FALSE]
  /\ emitting' = s
  /\ UNCHANGED <<made, fileClosed, early, threw>>

(* The error is emitted before _fileClosed is set: when nobody listens for *)
(* it emit throws, and the flag stays as it was.                           *)
GivesUp(s) == fileClosed' \in {fileClosed, [fileClosed EXCEPT ![s] = TRUE]}

OpenFails(s) ==
  /\ opening[s]
  /\ emitting = Nobody
  /\ opening' = [opening EXCEPT ![s] = FALSE]
  /\ GivesUp(s)
  /\ UNCHANGED <<made, pending, fd, owner, emitting, early, threw>>

(* The listeners return and 'ready' is emitted ... *)
EmitReady(s) ==
  /\ emitting = s
  /\ emitting' = Nobody
  /\ UNCHANGED <<made, opening, pending, fd, fileClosed, owner, early, threw>>

(* ... or one of them throws, and _open's catch takes the stream for one   *)
(* that failed to open.                                                    *)
ListenerThrows(s) ==
  /\ emitting = s
  /\ emitting' = Nobody
  /\ threw' = [threw EXCEPT ![s] = TRUE]
  /\ GivesUp(s)
  /\ UNCHANGED <<made, opening, pending, fd, owner, early>>

(* Slip: close leaves the number in fd. *)
CloseKeepingFd(s) ==
  /\ s \in made
  /\ ~fileClosed[s]
  /\ owner' = [f \in Fds |-> IF f = fd[s] THEN Nobody ELSE owner[f]]
  /\ fileClosed' = [fileClosed EXCEPT ![s] = TRUE]
  /\ early' = [early EXCEPT ![s] = opening[s]]
  /\ UNCHANGED <<made, opening, pending, fd, emitting, threw>>

(* Slip: close forgets the number but only drops the flag. *)
CloseDroppingFd(s) ==
  /\ s \in made
  /\ ~fileClosed[s]
  /\ fd' = [fd EXCEPT ![s] = NoFd]
  /\ fileClosed' = [fileClosed EXCEPT ![s] = TRUE]
  /\ early' = [early EXCEPT ![s] = opening[s]]
  /\ UNCHANGED <<made, opening, pending, owner, emitting, threw>>

(* Slip: close only marks the stream when it is still reading or writing.  *)
CloseMarksOnly(s) ==
  /\ s \in made
  /\ ~fileClosed[s]
  /\ fileClosed' = [fileClosed EXCEPT ![s] = TRUE]
  /\ early' = [early EXCEPT ![s] = opening[s]]
  /\ UNCHANGED <<made, opening, pending, fd, owner, emitting, threw>>

(* close(): nothing on a stream already closed. *)
Close(s) ==
  /\ s \in made
  /\ ~fileClosed[s]
  /\ owner' = [f \in Fds |-> IF f = fd[s] THEN Nobody ELSE owner[f]]
  /\ fd' = [fd EXCEPT ![s] = NoFd]
  /\ fileClosed' = [fileClosed EXCEPT ![s] = TRUE]
  /\ early' = [early EXCEPT ![s] = opening[s]]
  /\ UNCHANGED <<made, opening, pending, emitting, threw>>

HandleNext ==
  \E s \in Streams :
    \/ Construct(s)
    \/ \E f \in Fds : Adopt(s, f) \/ OpenSucceeds(s, f)
    \/ OpenFails(s)
    \/ EmitReady(s)
    \/ ListenerThrows(s)
    \/ Close(s)

HandleSpec == HandleInit /\ [][HandleNext]_handleVars

-----------------------------------------------------------------------------
(* Properties                                                              *)

(* The number in a stream's fd is a descriptor that stream opened and has  *)
(* not closed: no stream reads, writes or closes a number the process has  *)
(* since given to another file.                                            *)
StreamsUseTheirOwnFd ==
  \A s \in Streams : fd[s] # NoFd => owner[fd[s]] = s

(* A stream knows every descriptor it has open.                            *)
NoFdForgotten ==
  \A f \in Fds : owner[f] # Nobody => fd[owner[f]] = f

(* A closed stream still holds a descriptor, which no later close will     *)
(* free, only when close ran before the open did or when an 'open' or      *)
(* 'ready' listener threw.                                                 *)
StrandedOnlyByEarlyCloseOrThrow ==
  \A s \in Streams : fileClosed[s] /\ fd[s] # NoFd => early[s] \/ threw[s]

=============================================================================
