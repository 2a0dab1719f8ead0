------------------------------- MODULE AsyncFs -------------------------------
(***************************************************************************)
(* The callback API of index.ts on one JavaScript thread.                  *)
(*                                                                         *)
(* Every asynchronous function validates its arguments, queues ONE         *)
(* setImmediate and returns; the immediate makes the synchronous native    *)
(* call inside a try, calls the user's callback inside the same try, and   *)
(* calls it a second time from the catch when it throws.  appendFile is    *)
(* the one function that chains three immediates: open, write, close.      *)
(* The functions of `promises' wrap each of them in a promise.             *)
(*                                                                         *)
(* A write lands where its descriptor stands, at the position it was given *)
(* or at the end of the file, as the flags of the open decide; what the    *)
(* native library does with a position is taken to be pwrite.              *)
(*                                                                         *)
(* A call is named by a member of Calls and made at most once.  The        *)
(* program is assumed to use a descriptor only between the open callback   *)
(* that hands it over and the close it asks for, and to use closeSync only *)
(* when nothing it queued on that descriptor is still waiting.  Which file *)
(* a path names does not change here: Directory is about that.             *)
(***************************************************************************)
EXTENDS Integers, Sequences, FiniteSets, FileData

CONSTANTS Calls,      \* the calls a program may make
          Promised,   \* those it makes through the functions of promises
          Paths,      \* the files they name
          Plain,      \* those opened by the Rust library, whose 'a' appends
          Fds,        \* the descriptor numbers of the process
          NoCall,     \* "opened by nobody": a descriptor that is not open
          NoPath,
          OpenFlags,  \* the flags a program passes to open and appendFile
          Places,     \* the positions a program passes to read and write
          ChunkLen    \* units of data in one write; a native write may be short

ASSUME PromisedAreCalls == Promised \subseteq Calls
ASSUME PlainAreFiles == Plain \subseteq Paths
ASSUME FdsAreNumbers == Fds \subseteq Nat
ASSUME PlacesAreNumbers == Places \subseteq Nat
ASSUME ChunkIsNotEmpty == ChunkLen \in Nat \ {0}
ASSUME NoCallIsNoCall == NoCall \notin Calls
ASSUME NoPathIsNoPath == NoPath \notin Paths

NoFd == -1
NoPlace == -1   \* "no position": the descriptor's own offset

(* What the flags of open come to; 'w+' and 'a+' differ from 'w' and 'a'   *)
(* only in what may be read, and an unknown string is 'r'.                 *)
Flags == {"r", "r+", "w", "a"}
ASSUME FlagsAreKnown == OpenFlags \subseteq Flags

Ops == {"none", "open", "openSync", "read", "write", "writeSync", "close",
        "appendFile", "appendFileSync", "readFile", "writeFile", "pathOp",
        "truncate", "ftruncate", "fdMeta"}
Steps == {"none", "open", "read", "write", "close", "readFile", "writeFile",
          "pathOp", "truncate", "ftruncate", "fdMeta", "done"}
FdOps == {"read", "write", "close", "ftruncate", "fdMeta"}
Replies == {"ok", "error", "rethrown"}

VARIABLES
  queue,     \* the immediates, first in first out; each names the call it serves
  op,        \* the function a call invoked
  step,      \* the immediate a call has queued, "none" before it, "done" after
  path,      \* the file a call is about
  flag,      \* how an open was asked to open it
  place,     \* the position a read or write was given
  fdOf,      \* the descriptor a call was given, or that its own open returned
  aim,       \* the open file description behind fdOf when the call was made
  failed,    \* appendFile's captured write error
  replies,   \* how the call's callback was invoked, in order
  desc,      \* the kernel's descriptor table: the call that opened each number
  held,      \* descriptors handed to the program and not yet given back
  data,      \* what each file contains: the call that wrote each unit
  offset,    \* where each open file description stands, by the call that opened it
  appends    \* the appendFile calls in the order the program made them

callVars == <<op, step, path, flag, place, fdOf, aim, failed>>
vars == <<queue, callVars, replies, desc, held, data, offset, appends>>

TypeOK ==
  /\ queue \in Seq(Calls)
  /\ op \in [Calls -> Ops]
  /\ step \in [Calls -> Steps]
  /\ path \in [Calls -> Paths \union {NoPath}]
  /\ flag \in [Calls -> Flags]
  /\ place \in [Calls -> Places \union {NoPlace}]
  /\ fdOf \in [Calls -> Fds \union {NoFd}]
  /\ aim \in [Calls -> Calls \union {NoCall}]
  /\ failed \in [Calls -> BOOLEAN]
  /\ replies \in [Calls -> Seq(Replies)]
  /\ desc \in [Fds -> Calls \union {NoCall}]
  /\ held \subseteq Fds
  /\ data \in [Paths -> Seq(Calls \union {NoCall})]
  /\ offset \in [Calls -> Nat]
  /\ appends \in Seq(Calls)

Init ==
  /\ queue = <<>>
  /\ op = [c \in Calls |-> "none"]
  /\ step = [c \in Calls |-> "none"]
  /\ path = [c \in Calls |-> NoPath]
  /\ flag = [c \in Calls |-> "r"]
  /\ place = [c \in Calls |-> NoPlace]
  /\ fdOf = [c \in Calls |-> NoFd]
  /\ aim = [c \in Calls |-> NoCall]
  /\ failed = [c \in Calls |-> FALSE]
  /\ replies = [c \in Calls |-> <<>>]
  /\ desc = [f \in Fds |-> NoCall]
  /\ held = {}
  /\ data = [p \in Paths |-> <<>>]
  /\ offset = [c \in Calls |-> 0]
  /\ appends = <<>>

Waiting(c) == step[c] \notin {"none", "done"}
Free == {f \in Fds : desc[f] = NoCall}
Lowest(f) == f \in Free /\ \A g \in Free : f <= g

-----------------------------------------------------------------------------
(* What the native layer does.  Of the file behind a descriptor, d names   *)
(* the open file description: the call that opened it.                     *)

(* Whether opening with flag g empties file p.  A content:// URI is opened *)
(* with the mode "w" for 'a' and leaves that to its provider, and a        *)
(* bookmark:// URI hands the numbers of Linux to the open of Darwin, where *)
(* those of 'a' truncate and those of 'w' do not.                          *)
Empties(p, g) ==
  IF p \in Plain THEN {g = "w"} ELSE IF g \in {"a", "w"} THEN BOOLEAN ELSE {FALSE}

OnlyAppends(p, g) == p \in Plain /\ g = "a"

(* Where n units written through d at place k may go: a descriptor that    *)
(* only appends has Linux put them at the end even when a position is      *)
(* given, while Darwin then honours the position.                          *)
Landing(d, k) ==
  LET end == Len(data[path[d]]) IN
  IF OnlyAppends(path[d], flag[d])
    THEN IF k = NoPlace THEN {end} ELSE {k, end}
    ELSE IF k = NoPlace THEN {offset[d]} ELSE {k}

(* A write through d by call c lands n units, and moves the offset unless  *)
(* it was given a position.                                                *)
Lands(d, c, k, n) ==
  /\ flag[d] # "r"
  /\ \E t \in Landing(d, k) :
       /\ data' = [data EXCEPT ![path[d]] = Put(@, c, t, n, NoCall)]
       /\ offset' = IF k = NoPlace THEN [offset EXCEPT ![d] = t + n] ELSE offset

(* A read through d gets n units and moves the offset likewise. *)
Gets(d, k, n) ==
  /\ n = 0 \/ (IF k = NoPlace THEN offset[d] ELSE k) + n <= Len(data[path[d]])
  /\ offset' = IF k = NoPlace THEN [offset EXCEPT ![d] = @ + n] ELSE offset

Overwritten(p, c, n) == [data EXCEPT ![p] = Put(<<>>, c, 0, n, NoCall)]

(* truncate and ftruncate cut a file or lengthen it. *)
Lengths(p) == 0..Len(data[p]) + 1
SetTo(p, n) == [data EXCEPT ![p] = Resized(@, n, NoCall)]
FileAt(f) == path[desc[f]]

-----------------------------------------------------------------------------
(* The program makes a call: one immediate is queued, nothing else happens *)

Issue(c, o, s, p, f) ==
  /\ step[c] = "none"
  /\ queue' = Append(queue, c)
  /\ op' = [op EXCEPT ![c] = o]
  /\ step' = [step EXCEPT ![c] = s]
  /\ path' = [path EXCEPT ![c] = p]
  /\ fdOf' = [fdOf EXCEPT ![c] = f]
  /\ aim' = [aim EXCEPT ![c] = IF f = NoFd THEN c ELSE desc[f]]
  /\ UNCHANGED <<failed, replies, desc, data, offset>>

OpenAsync(c, p, g) ==
  /\ Issue(c, "open", "open", p, NoFd)
  /\ flag' = [flag EXCEPT ![c] = g]
  /\ UNCHANGED <<held, appends, place>>

ReadAsync(c, f, k) ==
  /\ f \in held
  /\ Issue(c, "read", "read", FileAt(f), f)
  /\ place' = [place EXCEPT ![c] = k]
  /\ UNCHANGED <<held, appends, flag>>

WriteAsync(c, f, k) ==
  /\ f \in held
  /\ Issue(c, "write", "write", FileAt(f), f)
  /\ place' = [place EXCEPT ![c] = k]
  /\ UNCHANGED <<held, appends, flag>>

(* appendFile on a descriptor: one write where the descriptor stands.      *)
AppendToFd(c, f) == WriteAsync(c, f, NoPlace)

FtruncateAsync(c, f) ==
  /\ f \in held
  /\ Issue(c, "ftruncate", "ftruncate", FileAt(f), f)
  /\ UNCHANGED <<held, appends, flag, place>>

(* fsync, fdatasync, fstat, fchmod, fchown, futimes: the file's data stays. *)
FdMetaAsync(c, f) ==
  /\ f \in held
  /\ Issue(c, "fdMeta", "fdMeta", FileAt(f), f)
  /\ UNCHANGED <<held, appends, flag, place>>

(* Slip: close closes the file and calls back at once. *)
CloseAsyncAtOnce(c, f) ==
  /\ f \in held /\ step[c] = "none"
  /\ desc' = [desc EXCEPT ![f] = NoCall]
  /\ held' = held \ {f}
  /\ op' = [op EXCEPT ![c] = "close"]
  /\ step' = [step EXCEPT ![c] = "done"]
  /\ replies' = [replies EXCEPT ![c] = <<"ok">>]
  /\ UNCHANGED <<queue, path, flag, place, fdOf, aim, failed, data, offset, appends>>

CloseAsync(c, f) ==
  /\ f \in held
  /\ Issue(c, "close", "close", FileAt(f), f)
  /\ held' = held \ {f}
  /\ UNCHANGED <<appends, flag, place>>

(* The flag is 'a' unless the options name another. *)
AppendFile(c, p, g) ==
  /\ Issue(c, "appendFile", "open", p, NoFd)
  /\ flag' = [flag EXCEPT ![c] = g]
  /\ appends' = Append(appends, c)
  /\ UNCHANGED <<held, place>>

ReadFile(c, p) ==
  /\ Issue(c, "readFile", "readFile", p, NoFd)
  /\ UNCHANGED <<held, appends, flag, place>>

WriteFile(c, p) ==
  /\ Issue(c, "writeFile", "writeFile", p, NoFd)
  /\ UNCHANGED <<held, appends, flag, place>>

Truncate(c, p) ==
  /\ Issue(c, "truncate", "truncate", p, NoFd)
  /\ UNCHANGED <<held, appends, flag, place>>

(* stat, lstat, access, chmod, chown, utimes and their l-variants.         *)
PathOp(c, p) ==
  /\ Issue(c, "pathOp", "pathOp", p, NoFd)
  /\ UNCHANGED <<held, appends, flag, place>>

-----------------------------------------------------------------------------
(* The event loop runs the immediate at the head of the queue.             *)

Due(c, s) == queue # <<>> /\ c = Head(queue) /\ step[c] = s

(* The callback of the functions of promises resolves or rejects, and does *)
(* not throw.                                                              *)
OnlySettles(c) == c \in Promised

(* How the catch around a callback may call it again: not at all when the  *)
(* callback returns, and otherwise with what it threw, before which the    *)
(* closure of appendFile puts its write error.                             *)
Again(c) ==
  IF OnlySettles(c)
    THEN {<<>>}
    ELSE {<<>>, <<IF failed[c] THEN "error" ELSE "rethrown">>}

(* The callback is invoked inside the try of its immediate.                *)
Finish(c, reply) ==
  /\ queue' = Tail(queue)
  /\ step' = [step EXCEPT ![c] = "done"]
  /\ \E again \in Again(c) :
       replies' = [replies EXCEPT ![c] = @ \o <<reply>> \o again]

(* The native call throws: the callback is invoked from the catch, where   *)
(* what it throws is caught by nobody.                                     *)
Refuse(c) ==
  /\ queue' = Tail(queue)
  /\ step' = [step EXCEPT ![c] = "done"]
  /\ replies' = [replies EXCEPT ![c] = Append(@, "error")]

(* A callback inside the library that queues the next link of its chain.   *)
Chain(c, s) ==
  /\ queue' = Append(Tail(queue), c)
  /\ step' = [step EXCEPT ![c] = s]
  /\ UNCHANGED replies

(* The file is emptied or left as it is; a new description stands at 0.    *)
Opens(c) ==
  \E empty \in Empties(path[c], flag[c]) :
    data' = IF empty THEN [data EXCEPT ![path[c]] = <<>>] ELSE data

(* Slip: the chains of appendFile share one variable for their descriptor. *)
OpenIntoSharedFd(c, f) ==
  /\ Lowest(f)
  /\ desc' = [desc EXCEPT ![f] = c]
  /\ fdOf' = [d \in Calls |-> IF d = c \/ (op[d] = "appendFile" /\ Waiting(d))
                               THEN f ELSE fdOf[d]]
  /\ Opens(c)
  /\ IF op[c] = "appendFile"
       THEN Chain(c, "write") /\ UNCHANGED held
       ELSE Finish(c, "ok") /\ held' = held \union {f}

OpenSucceeds(c, f) ==
  /\ Lowest(f)
  /\ desc' = [desc EXCEPT ![f] = c]
  /\ fdOf' = [fdOf EXCEPT ![c] = f]
  /\ Opens(c)
  /\ IF op[c] = "appendFile"
       THEN Chain(c, "write") /\ UNCHANGED held
       ELSE Finish(c, "ok") /\ held' = held \union {f}

(* Slip: appendFile forgets to call back when its open fails. *)
OpenFailsQuietly(c) ==
  /\ UNCHANGED <<desc, fdOf, held, data>>
  /\ IF op[c] = "appendFile"
       THEN /\ queue' = Tail(queue)
            /\ step' = [step EXCEPT ![c] = "done"]
            /\ UNCHANGED replies
       ELSE Finish(c, "error")

(* Slip: the negative number of a failed open is handed to the program. *)
OpenFailsUnchecked(c) ==
  /\ Finish(c, "error")
  /\ held' = held \union {NoFd}
  /\ UNCHANGED <<desc, fdOf, data>>

OpenFails(c) == Finish(c, "error") /\ UNCHANGED <<desc, fdOf, held, data>>

RunOpen(c) ==
  /\ Due(c, "open")
  /\ (\E f \in Fds : OpenSucceeds(c, f)) \/ OpenFails(c)
  /\ UNCHANGED <<op, path, flag, place, aim, failed, offset, appends>>

RunRead(c) ==
  /\ Due(c, "read")
  /\ \/ /\ desc[fdOf[c]] # NoCall
        /\ \E n \in 0..ChunkLen : Gets(desc[fdOf[c]], place[c], n)
        /\ Finish(c, "ok")
     \/ UNCHANGED offset /\ Finish(c, "error")
  /\ UNCHANGED <<op, path, flag, place, fdOf, aim, failed, desc, held, data, appends>>

(* Slip: appendFile gives up on a write error without closing. *)
WriteDoneNoClose(c, bad) ==
  IF op[c] = "appendFile" /\ ~bad
    THEN Chain(c, "close") /\ UNCHANGED failed
    ELSE Finish(c, IF bad THEN "error" ELSE "ok") /\ UNCHANGED failed

(* Slip: appendFile calls back when the data is written and again when the *)
(* file is closed. *)
WriteDoneCallsBack(c, bad) ==
  IF op[c] = "appendFile"
    THEN /\ queue' = Append(Tail(queue), c)
         /\ step' = [step EXCEPT ![c] = "close"]
         /\ replies' = [replies EXCEPT ![c] = Append(@, IF bad THEN "error" ELSE "ok")]
         /\ failed' = [failed EXCEPT ![c] = bad]
    ELSE Finish(c, IF bad THEN "error" ELSE "ok") /\ UNCHANGED failed

(* write reports its result; appendFile keeps only whether there was an    *)
(* error and goes on to close whatever the outcome.                        *)
WriteDone(c, bad) ==
  IF op[c] = "appendFile"
    THEN Chain(c, "close") /\ failed' = [failed EXCEPT ![c] = bad]
    ELSE Finish(c, IF bad THEN "error" ELSE "ok") /\ UNCHANGED failed

(* Slip: appendFile queues another write for what a short write left over. *)
RunWriteInTwoParts(c) ==
  /\ Due(c, "write")
  /\ \/ /\ desc[fdOf[c]] # NoCall
        /\ \E n \in 1..ChunkLen :
             /\ Lands(desc[fdOf[c]], c, place[c], n)
             /\ IF op[c] = "appendFile" /\ n < ChunkLen
                  THEN Chain(c, "write") /\ UNCHANGED failed
                  ELSE WriteDone(c, FALSE)
     \/ UNCHANGED <<data, offset>> /\ WriteDone(c, TRUE)
  /\ UNCHANGED <<op, path, flag, place, fdOf, aim, desc, held, appends>>

RunWrite(c) ==
  /\ Due(c, "write")
  /\ \/ /\ desc[fdOf[c]] # NoCall
        /\ \E n \in 1..ChunkLen : Lands(desc[fdOf[c]], c, place[c], n)
        /\ WriteDone(c, FALSE)
     \/ UNCHANGED <<data, offset>> /\ WriteDone(c, TRUE)
  /\ UNCHANGED <<op, path, flag, place, fdOf, aim, desc, held, appends>>

(* The native result of close is dropped: closing never reports an error.  *)
RunClose(c) ==
  /\ Due(c, "close")
  /\ desc' = [desc EXCEPT ![fdOf[c]] = NoCall]
  /\ Finish(c, IF failed[c] THEN "error" ELSE "ok")
  /\ UNCHANGED <<op, path, flag, place, fdOf, aim, failed, held, data, offset, appends>>

(* readFile and writeFile open, transfer and close inside one native call. *)
RunReadFile(c) ==
  /\ Due(c, "readFile")
  /\ (Free # {} /\ Finish(c, "ok")) \/ Refuse(c)
  /\ UNCHANGED <<op, path, flag, place, fdOf, aim, failed, desc, held, data, offset, appends>>

RunWriteFile(c) ==
  /\ Due(c, "writeFile")
  /\ \/ /\ Free # {}
        /\ \E n \in 1..ChunkLen : data' = Overwritten(path[c], c, n)
        /\ Finish(c, "ok")
     \/ /\ \/ UNCHANGED data
           \/ \E n \in 0..ChunkLen - 1 : data' = Overwritten(path[c], c, n)
        /\ Refuse(c)
  /\ UNCHANGED <<op, path, flag, place, fdOf, aim, failed, desc, held, offset, appends>>

RunTruncate(c) ==
  /\ Due(c, "truncate")
  /\ \/ \E n \in Lengths(path[c]) : data' = SetTo(path[c], n) /\ Finish(c, "ok")
     \/ UNCHANGED data /\ Refuse(c)
  /\ UNCHANGED <<op, path, flag, place, fdOf, aim, failed, desc, held, offset, appends>>

RunFtruncate(c) ==
  /\ Due(c, "ftruncate")
  /\ \/ /\ desc[fdOf[c]] # NoCall /\ flag[desc[fdOf[c]]] # "r"
        /\ \E n \in Lengths(FileAt(fdOf[c])) : data' = SetTo(FileAt(fdOf[c]), n)
        /\ Finish(c, "ok")
     \/ UNCHANGED data /\ Refuse(c)
  /\ UNCHANGED <<op, path, flag, place, fdOf, aim, failed, desc, held, offset, appends>>

RunFdMeta(c) ==
  /\ Due(c, "fdMeta")
  /\ \/ desc[fdOf[c]] # NoCall /\ Finish(c, "ok")
     \/ Refuse(c)
  /\ UNCHANGED <<op, path, flag, place, fdOf, aim, failed, desc, held, data, offset, appends>>

(* stat and its like: one native call on a path, no effect kept here.      *)
RunPathOp(c) ==
  /\ Due(c, "pathOp")
  /\ Finish(c, "ok") \/ Refuse(c)
  /\ UNCHANGED <<op, path, flag, place, fdOf, aim, failed, desc, held, data, offset, appends>>

-----------------------------------------------------------------------------
(* The synchronous functions, run between two immediates.                  *)

OpenSync(c, p, g) ==
  /\ step[c] = "none"
  /\ op' = [op EXCEPT ![c] = "openSync"]
  /\ step' = [step EXCEPT ![c] = "done"]
  /\ path' = [path EXCEPT ![c] = p]
  /\ flag' = [flag EXCEPT ![c] = g]
  /\ aim' = [aim EXCEPT ![c] = c]
  /\ \/ \E f \in Fds : /\ Lowest(f)
                       /\ desc' = [desc EXCEPT ![f] = c]
                       /\ fdOf' = [fdOf EXCEPT ![c] = f]
                       /\ held' = held \union {f}
                       /\ \E empty \in Empties(p, g) :
                            data' = IF empty THEN [data EXCEPT ![p] = <<>>] ELSE data
                       /\ replies' = [replies EXCEPT ![c] = <<"ok">>]
     \/ /\ replies' = [replies EXCEPT ![c] = <<"error">>]
        /\ UNCHANGED <<desc, fdOf, held, data>>
  /\ UNCHANGED <<queue, failed, place, offset, appends>>

(* writeSync, and appendFileSync on a descriptor, which is writeSync where *)
(* the descriptor stands.  It returns a negative number when it fails.     *)
WriteSync(c, f, k) ==
  /\ step[c] = "none" /\ f \in held
  /\ op' = [op EXCEPT ![c] = "writeSync"]
  /\ step' = [step EXCEPT ![c] = "done"]
  /\ path' = [path EXCEPT ![c] = FileAt(f)]
  /\ place' = [place EXCEPT ![c] = k]
  /\ aim' = [aim EXCEPT ![c] = desc[f]]
  /\ \/ /\ \E n \in 1..ChunkLen : Lands(desc[f], c, k, n)
        /\ replies' = [replies EXCEPT ![c] = <<"ok">>]
     \/ /\ replies' = [replies EXCEPT ![c] = <<"error">>]
        /\ UNCHANGED <<data, offset>>
  /\ UNCHANGED <<queue, fdOf, failed, flag, desc, held, appends>>

CloseSync(f) ==
  /\ f \in held
  /\ \A c \in Calls : Waiting(c) => fdOf[c] # f
  /\ desc' = [desc EXCEPT ![f] = NoCall]
  /\ held' = held \ {f}
  /\ UNCHANGED <<queue, callVars, replies, data, offset, appends>>

(* Opens, writes and closes at once; what writeSync returns is dropped, so *)
(* a write that fails, as it must with the flag 'r', returns normally.     *)
AppendFileSync(c, p, g) ==
  /\ step[c] = "none"
  /\ op' = [op EXCEPT ![c] = "appendFileSync"]
  /\ step' = [step EXCEPT ![c] = "done"]
  /\ path' = [path EXCEPT ![c] = p]
  /\ flag' = [flag EXCEPT ![c] = g]
  /\ aim' = [aim EXCEPT ![c] = c]
  /\ \/ /\ Free # {}
        /\ \E n \in 0..ChunkLen, empty \in Empties(p, g) :
             LET s == IF empty THEN <<>> ELSE data[p] IN
             data' = [data EXCEPT ![p] =
               IF g = "r" THEN s
                          ELSE Put(s, c, IF OnlyAppends(p, g) THEN Len(s) ELSE 0, n, NoCall)]
        /\ replies' = [replies EXCEPT ![c] = <<"ok">>]
     \/ replies' = [replies EXCEPT ![c] = <<"error">>] /\ UNCHANGED data
  /\ UNCHANGED <<queue, fdOf, failed, place, offset, desc, held, appends>>

-----------------------------------------------------------------------------
RunImmediate ==
  \E c \in Calls : \/ RunOpen(c)
                   \/ RunRead(c)
                   \/ RunWrite(c)
                   \/ RunClose(c)
                   \/ RunReadFile(c)
                   \/ RunWriteFile(c)
                   \/ RunTruncate(c)
                   \/ RunFtruncate(c)
                   \/ RunFdMeta(c)
                   \/ RunPathOp(c)

Program ==
  \/ \E c \in Calls, p \in Paths : \/ ReadFile(c, p)
                                   \/ WriteFile(c, p)
                                   \/ Truncate(c, p)
                                   \/ PathOp(c, p)
  \/ \E c \in Calls, p \in Paths, g \in OpenFlags : \/ OpenAsync(c, p, g)
                                                    \/ AppendFile(c, p, g)
                                                    \/ OpenSync(c, p, g)
                                                    \/ AppendFileSync(c, p, g)
  \/ \E c \in Calls, f \in Fds, k \in Places \union {NoPlace} :
       \/ ReadAsync(c, f, k)
       \/ WriteAsync(c, f, k)
       \/ WriteSync(c, f, k)
  \/ \E c \in Calls, f \in Fds : \/ AppendToFd(c, f)
                                 \/ FtruncateAsync(c, f)
                                 \/ FdMetaAsync(c, f)
                                 \/ CloseAsync(c, f)
  \/ \E f \in Fds : CloseSync(f)

Next == RunImmediate \/ Program

(* The event loop keeps running its immediates; nothing makes a program    *)
(* issue a call.                                                           *)
Spec == Init /\ [][Next]_vars /\ WF_vars(RunImmediate)

-----------------------------------------------------------------------------
(* The abstract specification of appendFile, on the files of this module.  *)

Pledged(c) ==
  CASE op[c] # "appendFile" -> "idle"
    [] op[c] = "appendFile" /\ step[c] \in {"open", "write"} -> "asked"
    [] op[c] = "appendFile" /\ step[c] = "close" /\ failed[c] -> "failed"
    [] op[c] = "appendFile" /\ step[c] = "close" /\ ~failed[c] -> "landed"
    [] OTHER -> Head(replies[c])

Standing == [c \in Calls |-> Pledged(c)]
Target == [c \in Calls |-> IF op[c] = "appendFile" THEN path[c] ELSE NoPath]

(* Those that asked for the end of the file and open it for that. *)
AtEnd == {c \in Calls : op[c] = "appendFile" /\ OnlyAppends(path[c], flag[c])}

AppendLog ==
  INSTANCE AppendLog WITH Writers <- Calls, Files <- Paths, NoFile <- NoPath,
                          NoWriter <- NoCall, asked <- appends, log <- data,
                          file <- Target, atEnd <- AtEnd, status <- Standing

-----------------------------------------------------------------------------
(* Properties                                                              *)

(* A call's immediate will give the descriptor f back: a close, or an      *)
(* appendFile that has opened its file and has not reached its close.      *)
WillClose(c, f) ==
  /\ fdOf[c] = f
  /\ step[c] = "close" \/ (step[c] = "write" /\ op[c] = "appendFile")

(* Every open descriptor is in the hands of the program or of an immediate *)
(* that will close it: whatever fails or throws in an open, a write or a   *)
(* callback, no path through index.ts drops a descriptor.                  *)
NoDescriptorLeak ==
  \A f \in Fds : desc[f] # NoCall =>
    f \in held \/ \E c \in Calls : WillClose(c, f)

(* One descriptor never has two owners: not the program and a pending      *)
(* close, nor two chains.  Otherwise one owner's close would close the     *)
(* file the other is using, since numbers are reused lowest first.         *)
OneOwner ==
  /\ \A f \in held : desc[f] # NoCall
  /\ \A c \in Calls, f \in Fds : WillClose(c, f) =>
       /\ desc[f] # NoCall /\ f \notin held
       /\ \A d \in Calls : WillClose(d, f) => d = c

(* An operation queued on a descriptor still finds behind it the file that *)
(* was open when the program asked for it, although numbers are reused and *)
(* the program may queue the close without waiting for the operations      *)
(* before it: read, write and close go through the same queue.             *)
QueuedOpsKeepTheirFile ==
  \A c \in Calls :
    op[c] \in FdOps /\ Waiting(c) => desc[fdOf[c]] = aim[c]

(* appendFile, three immediates though it is, does what AppendLog says:    *)
(* each append lands at most once, in one piece, in the file it names, and *)
(* in the order the program made the calls; it lands at the end of the     *)
(* file unless options.flag or the scheme of the path opened it otherwise; *)
(* it is reported as failed only when nothing of it is in the file.  Other *)
(* calls may write over it at a position of theirs, cut it off or empty    *)
(* the file, but none moves what is left of it.                            *)
AppendLogSpec == AppendLog!Spec

(* A callback is told of success at most once and only first; a second     *)
(* invocation carries an error (its own exception, handed back by the      *)
(* catch around it), and there is no third.  A promise gets one answer, so *)
(* that settling it by the first loses nothing.                            *)
SuccessIsToldOnceAndFirst ==
  \A c \in Calls : \A i \in DOMAIN replies[c] :
    i <= 2 /\ (i = 2 => replies[c][i] # "ok" /\ c \notin Promised)

(* Every asynchronous call is answered: its callback is eventually invoked *)
(* whatever the native layer returns and whatever the callbacks throw.     *)
EveryCallIsAnswered ==
  \A c \in Calls : Waiting(c) ~> replies[c] # <<>>

=============================================================================
