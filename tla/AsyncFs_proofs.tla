--------------------------- MODULE AsyncFs_proofs ---------------------------
(***************************************************************************)
(* Proofs about AsyncFs, for any set of calls, files and descriptors.      *)
(* First its descriptors; then what the one queue of immediates gives:     *)
(* appendFile, three immediates though it is, implements AppendLog; every  *)
(* call is answered once; and what is queued on a descriptor keeps its     *)
(* file.                                                                   *)
(***************************************************************************)
EXTENDS AsyncFs, TLAPS

(* Appending to and taking from the queue of immediates. *)
LEMMA QueueTypes ==
  ASSUME NEW q \in Seq(Calls), NEW c \in Calls
  PROVE  /\ Append(q, c) \in Seq(Calls)
         /\ q # <<>> => Tail(q) \in Seq(Calls)
         /\ q # <<>> => Append(Tail(q), c) \in Seq(Calls)
  OBVIOUS

-----------------------------------------------------------------------------
(* Data.                                                                   *)

Units == Calls \union {NoCall}

(* What is put into a sequence stands next to what was there. *)
LEMMA PutShape ==
  ASSUME NEW S, NEW s \in Seq(S), NEW w \in S, NEW hole \in S, NEW k \in Nat, NEW n \in Nat
  PROVE  /\ Put(s, w, k, n, hole) \in Seq(S)
         /\ Len(Put(s, w, k, n, hole)) >= k + n
         /\ \A i \in DOMAIN Put(s, w, k, n, hole) :
              \/ Put(s, w, k, n, hole)[i] \in {w, hole}
              \/ i \in DOMAIN s /\ Put(s, w, k, n, hole)[i] = s[i]
<1> DEFINE m == IF Len(s) < k + n THEN k + n ELSE Len(s)
           At(i) == IF i \in k + 1..k + n THEN w ELSE IF i <= Len(s) THEN s[i] ELSE hole
<1>1. m \in Nat /\ m >= k + n
  OBVIOUS
<1>2. ASSUME NEW i \in 1..m
      PROVE  At(i) \in {w, hole} \/ (i \in DOMAIN s /\ At(i) = s[i])
  OBVIOUS
<1>3. ASSUME NEW i \in 1..m PROVE At(i) \in S
  BY <1>2, <1>3
<1>4. Put(s, w, k, n, hole) = [i \in 1..m |-> At(i)]
  BY DEF Put
<1> HIDE DEF m, At
<1>5. /\ [i \in 1..m |-> At(i)] \in Seq(S)
      /\ Len([i \in 1..m |-> At(i)]) = m
      /\ DOMAIN [i \in 1..m |-> At(i)] = 1..m
      /\ \A i \in 1..m : [j \in 1..m |-> At(j)][i] = At(i)
  BY <1>1, <1>3
<1> QED
  BY <1>1, <1>2, <1>4, <1>5

(* So does what another length leaves of one. *)
LEMMA ResizedShape ==
  ASSUME NEW S, NEW s \in Seq(S), NEW hole \in S, NEW n \in Nat
  PROVE  /\ Resized(s, n, hole) \in Seq(S)
         /\ \A i \in DOMAIN Resized(s, n, hole) :
              \/ Resized(s, n, hole)[i] = hole
              \/ i \in DOMAIN s /\ Resized(s, n, hole)[i] = s[i]
<1> DEFINE At(i) == IF i <= Len(s) THEN s[i] ELSE hole
<1>1. ASSUME NEW i \in 1..n
      PROVE  At(i) = hole \/ (i \in DOMAIN s /\ At(i) = s[i])
  OBVIOUS
<1>2. ASSUME NEW i \in 1..n PROVE At(i) \in S
  BY <1>1, <1>2
<1>3. Resized(s, n, hole) = [i \in 1..n |-> At(i)]
  BY DEF Resized
<1> HIDE DEF At
<1>4. /\ [i \in 1..n |-> At(i)] \in Seq(S)
      /\ DOMAIN [i \in 1..n |-> At(i)] = 1..n
      /\ \A i \in 1..n : [j \in 1..n |-> At(j)][i] = At(i)
  BY <1>2
<1> QED
  BY <1>1, <1>3, <1>4

(* What a call may do to a file: leave units of its own or holes, and take *)
(* away.                                                                   *)
MayWrite(c) ==
  \/ UNCHANGED data
  \/ \E p \in Paths :
       /\ data' = [data EXCEPT ![p] = data'[p]]
       /\ \A i \in DOMAIN data'[p] :
            \/ data'[p][i] \in {c, NoCall}
            \/ i \in DOMAIN data[p] /\ data'[p][i] = data[p][i]

DataKept(c) == data' \in [Paths -> Seq(Units)] /\ offset' \in [Calls -> Nat] /\ MayWrite(c)

LEMMA FileChanged ==
  ASSUME TypeOK, NEW c \in Calls, NEW p, NEW s, data' = [data EXCEPT ![p] = s],
         p \in Paths =>
           /\ s \in Seq(Units)
           /\ \A i \in DOMAIN s :
                s[i] \in {c, NoCall} \/ (i \in DOMAIN data[p] /\ s[i] = data[p][i])
  PROVE  data' \in [Paths -> Seq(Units)] /\ MayWrite(c)
<1>1. data \in [Paths -> Seq(Units)]
  BY DEF TypeOK, Units
<1>2. CASE p \notin Paths
  BY <1>1, <1>2 DEF MayWrite
<1>3. CASE p \in Paths
  BY <1>1, <1>3 DEF MayWrite
<1> QED
  BY <1>2, <1>3

(* A file that is written to, emptied or given another length. *)
LEMMA FileWritten ==
  ASSUME TypeOK, NEW c \in Calls, NEW p, NEW s, NEW k \in Nat, NEW n \in Nat,
         s = <<>> \/ s = data[p],
         data' = [data EXCEPT ![p] = Put(s, c, k, n, NoCall)]
  PROVE  data' \in [Paths -> Seq(Units)] /\ MayWrite(c)
<1>1. ASSUME p \in Paths
      PROVE  /\ Put(s, c, k, n, NoCall) \in Seq(Units)
             /\ \A i \in DOMAIN Put(s, c, k, n, NoCall) :
                  \/ Put(s, c, k, n, NoCall)[i] \in {c, NoCall}
                  \/ i \in DOMAIN data[p] /\ Put(s, c, k, n, NoCall)[i] = data[p][i]
  <2>0. data[p] \in Seq(Units) /\ <<>> \in Seq(Units)
    BY <1>1 DEF TypeOK, Units
  <2>1. s \in Seq(Units) /\ c \in Units /\ NoCall \in Units
    BY <2>0 DEF Units
  <2>2. \A i \in DOMAIN s : i \in DOMAIN data[p] /\ s[i] = data[p][i]
    OBVIOUS
  <2>3. /\ Put(s, c, k, n, NoCall) \in Seq(Units)
        /\ \A i \in DOMAIN Put(s, c, k, n, NoCall) :
             \/ Put(s, c, k, n, NoCall)[i] \in {c, NoCall}
             \/ i \in DOMAIN s /\ Put(s, c, k, n, NoCall)[i] = s[i]
    BY <2>1, PutShape
  <2> QED
    BY <2>2, <2>3
<1> QED
  BY <1>1, FileChanged

LEMMA FileEmptied ==
  ASSUME TypeOK, NEW c \in Calls, NEW p, data' = [data EXCEPT ![p] = <<>>]
  PROVE  data' \in [Paths -> Seq(Units)] /\ MayWrite(c)
<1>1. <<>> \in Seq(Units) /\ DOMAIN <<>> = {}
  OBVIOUS
<1> QED
  BY <1>1, FileChanged

LEMMA FileResized ==
  ASSUME TypeOK, NEW c \in Calls, NEW p, NEW n \in Lengths(p), data' = SetTo(p, n)
  PROVE  data' \in [Paths -> Seq(Units)] /\ MayWrite(c)
<1>1. ASSUME p \in Paths
      PROVE  /\ Resized(data[p], n, NoCall) \in Seq(Units)
             /\ \A i \in DOMAIN Resized(data[p], n, NoCall) :
                  \/ Resized(data[p], n, NoCall)[i] \in {c, NoCall}
                  \/ i \in DOMAIN data[p] /\ Resized(data[p], n, NoCall)[i] = data[p][i]
  <2>1. data[p] \in Seq(Units) /\ NoCall \in Units
    BY <1>1 DEF TypeOK, Units
  <2>2. n \in Nat
    BY <2>1 DEF Lengths
  <2>3. PICK s \in Seq(Units) : s = data[p]
    BY <2>1
  <2>4. /\ Resized(s, n, NoCall) \in Seq(Units)
        /\ \A i \in DOMAIN Resized(s, n, NoCall) :
             Resized(s, n, NoCall)[i] = NoCall \/ (i \in DOMAIN s /\ Resized(s, n, NoCall)[i] = s[i])
    BY <2>1, <2>2, ResizedShape
  <2> QED
    BY <2>3, <2>4
<1>2. data' = [data EXCEPT ![p] = Resized(data[p], n, NoCall)]
  BY DEF SetTo
<1> QED
  BY <1>1, <1>2, FileChanged

(* What nobody touches. *)
LEMMA FileLeft ==
  ASSUME TypeOK, NEW c \in Calls, UNCHANGED data
  PROVE  data' \in [Paths -> Seq(Units)] /\ MayWrite(c)
  BY DEF TypeOK, Units, MayWrite

(* Where a write goes is a place, the offset it leaves is one too.         *)
LEMMA LandsKeepsData ==
  ASSUME TypeOK, NEW c \in Calls, NEW d \in Calls, NEW k \in Places \union {NoPlace},
         NEW n \in 1..ChunkLen, Lands(d, c, k, n)
  PROVE  DataKept(c)
<1>1. n \in Nat
  BY ChunkIsNotEmpty
<1>2. PICK t \in Landing(d, k) :
        /\ data' = [data EXCEPT ![path[d]] = Put(@, c, t, n, NoCall)]
        /\ offset' = IF k = NoPlace THEN [offset EXCEPT ![d] = t + n] ELSE offset
  BY DEF Lands
<1>3. t \in Nat
  <2>1. k # NoPlace => k \in Nat
    BY PlacesAreNumbers
  <2>2. offset[d] \in Nat
    BY DEF TypeOK
  <2>3. ASSUME OnlyAppends(path[d], flag[d]) PROVE Len(data[path[d]]) \in Nat
    <3>1. path[d] \in Paths
      BY <2>3, PlainAreFiles DEF OnlyAppends
    <3>2. data[path[d]] \in Seq(Units)
      BY <3>1 DEF TypeOK, Units
    <3> QED
      BY <3>2
  <2> QED
    BY <1>2, <2>1, <2>2, <2>3 DEF Landing
<1>4. data' = [data EXCEPT ![path[d]] = Put(data[path[d]], c, t, n, NoCall)]
  BY <1>2
<1>5. data' \in [Paths -> Seq(Units)] /\ MayWrite(c)
  BY <1>1, <1>3, <1>4, FileWritten
<1>6. t + n \in Nat
  BY <1>1, <1>3
<1>7. offset' \in [Calls -> Nat]
  BY <1>2, <1>6 DEF TypeOK
<1> QED
  BY <1>5, <1>7 DEF DataKept

(* The immediates that work on a descriptor have a number to work on. *)
FdsInUse ==
  \A c \in Calls : step[c] \in FdOps => fdOf[c] \in Fds

(* The immediates leave data and offsets, and files of which they wrote    *)
(* only units of their own.                                                *)
LEMMA RunsKeepData ==
  ASSUME TypeOK, FdsInUse, NEW c \in Calls,
         \/ RunOpen(c) \/ RunRead(c) \/ RunWrite(c) \/ RunClose(c) \/ RunReadFile(c)
         \/ RunWriteFile(c) \/ RunTruncate(c) \/ RunFtruncate(c) \/ RunFdMeta(c) \/ RunPathOp(c)
  PROVE  DataKept(c)
<1>1. ASSUME UNCHANGED <<data, offset>> PROVE DataKept(c)
  BY <1>1, FileLeft DEF DataKept, TypeOK
<1>2. CASE RunClose(c) \/ RunReadFile(c) \/ RunFdMeta(c) \/ RunPathOp(c)
  BY <1>1, <1>2 DEF RunClose, RunReadFile, RunFdMeta, RunPathOp
<1>3. CASE RunOpen(c)
  <2>1. \/ UNCHANGED data \/ data' = [data EXCEPT ![path[c]] = <<>>]
    BY <1>3 DEF RunOpen, OpenSucceeds, OpenFails, Opens
  <2>2. UNCHANGED offset
    BY <1>3 DEF RunOpen
  <2> QED
    BY <2>1, <2>2, FileLeft, FileEmptied DEF DataKept, TypeOK
<1>4. CASE RunRead(c)
  <2>1. CASE UNCHANGED offset
    BY <1>1, <1>4, <2>1 DEF RunRead
  <2>2. CASE desc[fdOf[c]] # NoCall /\ \E n \in 0..ChunkLen : Gets(desc[fdOf[c]], place[c], n)
    <3>1. fdOf[c] \in Fds
      BY <1>4 DEF RunRead, Due, FdsInUse, FdOps
    <3>2. PICK d \in Calls, n \in 0..ChunkLen :
            offset' = [offset EXCEPT ![d] = @ + n] \/ UNCHANGED offset
      BY <2>2, <3>1 DEF Gets, TypeOK
    <3>3. n \in Nat
      BY ChunkIsNotEmpty
    <3>4. offset' \in [Calls -> Nat]
      <4>1. offset[d] \in Nat /\ offset[d] + n \in Nat
        BY <3>3 DEF TypeOK
      <4>2. offset' = [offset EXCEPT ![d] = offset[d] + n] \/ UNCHANGED offset
        BY <3>2
      <4> QED
        BY <4>1, <4>2 DEF TypeOK
    <3> QED
      BY <1>4, <3>4, FileLeft DEF RunRead, DataKept
  <2> QED
    BY <1>4, <2>1, <2>2 DEF RunRead
<1>5. CASE RunWrite(c)
  <2>1. CASE UNCHANGED <<data, offset>>
    BY <1>1, <2>1
  <2>2. CASE /\ desc[fdOf[c]] # NoCall
             /\ \E n \in 1..ChunkLen : Lands(desc[fdOf[c]], c, place[c], n)
    <3>1. fdOf[c] \in Fds
      BY <1>5 DEF RunWrite, Due, FdsInUse, FdOps
    <3>2. desc[fdOf[c]] \in Calls /\ place[c] \in Places \union {NoPlace}
      BY <2>2, <3>1 DEF TypeOK
    <3> QED
      BY <2>2, <3>2, LandsKeepsData
  <2> QED
    BY <1>5, <2>1, <2>2 DEF RunWrite
<1>6. CASE RunWriteFile(c)
  <2>1. UNCHANGED offset
    BY <1>6 DEF RunWriteFile
  <2>2. CASE UNCHANGED data
    BY <1>1, <2>1, <2>2
  <2>3. ASSUME NEW n \in Nat, data' = Overwritten(path[c], c, n)
        PROVE  DataKept(c)
    <3>1. data' = [data EXCEPT ![path[c]] = Put(<<>>, c, 0, n, NoCall)] /\ 0 \in Nat
      BY <2>3 DEF Overwritten
    <3>2. data' \in [Paths -> Seq(Units)] /\ MayWrite(c)
      BY <2>3, <3>1, FileWritten
    <3> QED
      BY <2>1, <3>2 DEF DataKept, TypeOK
  <2>4. 1..ChunkLen \subseteq Nat /\ 0..ChunkLen - 1 \subseteq Nat
    BY ChunkIsNotEmpty
  <2> QED
    BY <1>6, <2>2, <2>3, <2>4 DEF RunWriteFile
<1>7. CASE RunTruncate(c) \/ RunFtruncate(c)
  <2>1. UNCHANGED offset
    BY <1>7 DEF RunTruncate, RunFtruncate
  <2>2. UNCHANGED data \/ \E p : \E n \in Lengths(p) : data' = SetTo(p, n)
    BY <1>7 DEF RunTruncate, RunFtruncate
  <2>3. ASSUME NEW p, NEW n \in Lengths(p), data' = SetTo(p, n)
        PROVE  DataKept(c)
    <3>1. data' \in [Paths -> Seq(Units)] /\ MayWrite(c)
      BY <2>3, FileResized
    <3> QED
      BY <2>1, <3>1 DEF DataKept, TypeOK
  <2> QED
    BY <1>1, <2>1, <2>2, <2>3
<1> QED
  BY <1>2, <1>3, <1>4, <1>5, <1>6, <1>7


-----------------------------------------------------------------------------
(* The shapes of what the program does.                                    *)

(* An asynchronous call that names a file. *)
PathCall(c) ==
  \E p \in Paths, o \in Ops \ (FdOps \union {"none"}),
     s \in {"open", "readFile", "writeFile", "truncate", "pathOp"} :
    /\ Issue(c, o, s, p, NoFd)
    /\ flag' = [flag EXCEPT ![c] = flag'[c]] /\ flag'[c] \in Flags
    /\ \/ o # "appendFile" /\ UNCHANGED appends
       \/ o = "appendFile" /\ s = "open" /\ appends' = Append(appends, c)
    /\ UNCHANGED <<held, place>>

(* One on a descriptor the program holds. *)
FdCall(c, f) ==
  \E s \in FdOps :
    /\ f \in held
    /\ Issue(c, s, s, FileAt(f), f)
    /\ held' = IF s = "close" THEN held \ {f} ELSE held
    /\ place' = [place EXCEPT ![c] = place'[c]] /\ place'[c] \in Places \union {NoPlace}
    /\ UNCHANGED <<flag, appends>>

(* A synchronous call. *)
RunsAtOnce(c) ==
  /\ step[c] = "none"
  /\ step' = [step EXCEPT ![c] = "done"]
  /\ op' = [op EXCEPT ![c] = op'[c]] /\ op'[c] \in {"openSync", "writeSync", "appendFileSync"}
  /\ path' = [path EXCEPT ![c] = path'[c]] /\ path'[c] \in Paths \union {NoPath}
  /\ flag' = [flag EXCEPT ![c] = flag'[c]] /\ flag'[c] \in Flags
  /\ place' = [place EXCEPT ![c] = place'[c]] /\ place'[c] \in Places \union {NoPlace}
  /\ aim' = [aim EXCEPT ![c] = aim'[c]] /\ aim'[c] \in Units
  /\ \E r \in {"ok", "error"} : replies' = [replies EXCEPT ![c] = <<r>>]
  /\ \/ \E f \in Fds : /\ Lowest(f)
                       /\ op'[c] = "openSync"
                       /\ desc' = [desc EXCEPT ![f] = c]
                       /\ fdOf' = [fdOf EXCEPT ![c] = f]
                       /\ held' = held \union {f}
     \/ UNCHANGED <<desc, fdOf, held>>
  /\ DataKept(c)
  /\ UNCHANGED <<queue, failed, appends>>

LEMMA SyncShape ==
  ASSUME TypeOK, OneOwner, NEW c \in Calls,
         \/ \E p \in Paths, g \in OpenFlags : OpenSync(c, p, g) \/ AppendFileSync(c, p, g)
         \/ \E f \in Fds, k \in Places \union {NoPlace} : WriteSync(c, f, k)
  PROVE  RunsAtOnce(c)
<1>1. ASSUME NEW p \in Paths, NEW g \in OpenFlags, OpenSync(c, p, g)
      PROVE  RunsAtOnce(c)
  <2>1. g \in Flags
    BY FlagsAreKnown
  <2>2. /\ step[c] = "none"
        /\ step' = [step EXCEPT ![c] = "done"]
        /\ op' = [op EXCEPT ![c] = op'[c]] /\ op'[c] \in {"openSync", "writeSync", "appendFileSync"}
        /\ path' = [path EXCEPT ![c] = path'[c]] /\ path'[c] \in Paths \union {NoPath}
        /\ flag' = [flag EXCEPT ![c] = flag'[c]] /\ flag'[c] \in Flags
        /\ place' = [place EXCEPT ![c] = place'[c]] /\ place'[c] \in Places \union {NoPlace}
        /\ aim' = [aim EXCEPT ![c] = aim'[c]] /\ aim'[c] \in Units
        /\ UNCHANGED <<queue, failed, appends>>
    BY <1>1, <2>1 DEF OpenSync, TypeOK, Units
  <2>3. \E r \in {"ok", "error"} : replies' = [replies EXCEPT ![c] = <<r>>]
    BY <1>1 DEF OpenSync
  <2>4. \/ \E f \in Fds : /\ Lowest(f)
                          /\ op'[c] = "openSync"
                          /\ desc' = [desc EXCEPT ![f] = c]
                          /\ fdOf' = [fdOf EXCEPT ![c] = f]
                          /\ held' = held \union {f}
        \/ UNCHANGED <<desc, fdOf, held>>
    BY <1>1 DEF OpenSync, TypeOK
  <2>5. DataKept(c)
    <3>1. UNCHANGED data \/ data' = [data EXCEPT ![p] = <<>>]
      BY <1>1 DEF OpenSync
    <3>2. UNCHANGED offset
      BY <1>1 DEF OpenSync
    <3> QED
      BY <3>1, <3>2, FileLeft, FileEmptied DEF DataKept, TypeOK
  <2> QED
    BY <2>2, <2>3, <2>4, <2>5 DEF RunsAtOnce
<1>2. ASSUME NEW p \in Paths, NEW g \in OpenFlags, AppendFileSync(c, p, g)
      PROVE  RunsAtOnce(c)
  <2>1. g \in Flags
    BY FlagsAreKnown
  <2>2. /\ step[c] = "none"
        /\ step' = [step EXCEPT ![c] = "done"]
        /\ op' = [op EXCEPT ![c] = op'[c]] /\ op'[c] \in {"openSync", "writeSync", "appendFileSync"}
        /\ path' = [path EXCEPT ![c] = path'[c]] /\ path'[c] \in Paths \union {NoPath}
        /\ flag' = [flag EXCEPT ![c] = flag'[c]] /\ flag'[c] \in Flags
        /\ place' = [place EXCEPT ![c] = place'[c]] /\ place'[c] \in Places \union {NoPlace}
        /\ aim' = [aim EXCEPT ![c] = aim'[c]] /\ aim'[c] \in Units
        /\ UNCHANGED <<queue, failed, appends, desc, fdOf, held, offset>>
    BY <1>2, <2>1 DEF AppendFileSync, TypeOK, Units
  <2>3. \E r \in {"ok", "error"} : replies' = [replies EXCEPT ![c] = <<r>>]
    BY <1>2 DEF AppendFileSync
  <2>4. data' \in [Paths -> Seq(Units)] /\ MayWrite(c)
    <3>1. CASE UNCHANGED data
      BY <3>1, FileLeft
    <3>2. ASSUME NEW n \in 0..ChunkLen, NEW empty \in Empties(p, g),
                 LET s == IF empty THEN <<>> ELSE data[p] IN
                 data' = [data EXCEPT ![p] =
                   IF g = "r" THEN s
                              ELSE Put(s, c, IF OnlyAppends(p, g) THEN Len(s) ELSE 0, n, NoCall)]
          PROVE  data' \in [Paths -> Seq(Units)] /\ MayWrite(c)
      <4> DEFINE s == IF empty THEN <<>> ELSE data[p]
      <4>1. /\ s = <<>> \/ s = data[p]
            /\ data' = [data EXCEPT ![p] =
                 IF g = "r" THEN s
                            ELSE Put(s, c, IF OnlyAppends(p, g) THEN Len(s) ELSE 0, n, NoCall)]
        BY <3>2
      <4> HIDE DEF s
      <4>2. CASE g = "r"
        <5>1. data' = [data EXCEPT ![p] = <<>>] \/ data' = data
          BY <4>1, <4>2 DEF TypeOK
        <5> QED
          BY <5>1, FileEmptied, FileLeft
      <4>3. CASE g # "r"
        <5>1. n \in Nat
          BY ChunkIsNotEmpty
        <5>2. data[p] \in Seq(Units) /\ <<>> \in Seq(Units)
          BY DEF TypeOK, Units
        <5>3. (IF OnlyAppends(p, g) THEN Len(s) ELSE 0) \in Nat
          BY <4>1, <5>2
        <5>4. PICK k \in Nat : data' = [data EXCEPT ![p] = Put(s, c, k, n, NoCall)]
          BY <4>1, <4>3, <5>3
        <5> QED
          BY <4>1, <5>1, <5>4, FileWritten, ZenonT(40)
      <4> QED
        BY <4>2, <4>3
    <3> QED
      BY <1>2, <3>1, <3>2 DEF AppendFileSync
  <2>5. DataKept(c)
    BY <2>2, <2>4 DEF DataKept, TypeOK
  <2> QED
    BY <2>2, <2>3, <2>5 DEF RunsAtOnce
<1>3. ASSUME NEW f \in Fds, NEW k \in Places \union {NoPlace}, WriteSync(c, f, k)
      PROVE  RunsAtOnce(c)
  <2>1. f \in held /\ desc[f] \in Calls
    BY <1>3 DEF WriteSync, OneOwner, TypeOK
  <2>2. FileAt(f) \in Paths \union {NoPath}
    BY <2>1 DEF FileAt, TypeOK
  <2>3. /\ step[c] = "none"
        /\ step' = [step EXCEPT ![c] = "done"]
        /\ op' = [op EXCEPT ![c] = op'[c]] /\ op'[c] \in {"openSync", "writeSync", "appendFileSync"}
        /\ path' = [path EXCEPT ![c] = path'[c]] /\ path'[c] \in Paths \union {NoPath}
        /\ flag' = [flag EXCEPT ![c] = flag'[c]] /\ flag'[c] \in Flags
        /\ place' = [place EXCEPT ![c] = place'[c]] /\ place'[c] \in Places \union {NoPlace}
        /\ aim' = [aim EXCEPT ![c] = aim'[c]] /\ aim'[c] \in Units
        /\ UNCHANGED <<queue, failed, appends, desc, fdOf, held>>
    BY <1>3, <2>1, <2>2 DEF WriteSync, TypeOK, Units
  <2>4. \E r \in {"ok", "error"} : replies' = [replies EXCEPT ![c] = <<r>>]
    BY <1>3 DEF WriteSync
  <2>5. DataKept(c)
    <3>1. CASE UNCHANGED <<data, offset>>
      BY <3>1, FileLeft DEF DataKept, TypeOK
    <3>2. CASE \E n \in 1..ChunkLen : Lands(desc[f], c, k, n)
      BY <2>1, <3>2, LandsKeepsData
    <3> QED
      BY <1>3, <3>1, <3>2 DEF WriteSync
  <2> QED
    BY <2>3, <2>4, <2>5 DEF RunsAtOnce
<1> QED
  BY <1>1, <1>2, <1>3

LEMMA ProgramShape ==
  ASSUME TypeOK, OneOwner, Program
  PROVE  \/ \E c \in Calls : PathCall(c) \/ RunsAtOnce(c)
         \/ \E c \in Calls, f \in Fds : FdCall(c, f)
         \/ \E f \in Fds : CloseSync(f)
<1>1. ASSUME NEW c \in Calls, NEW p \in Paths,
             ReadFile(c, p) \/ WriteFile(c, p) \/ Truncate(c, p) \/ PathOp(c, p)
      PROVE  PathCall(c)
  <2>1. flag' = [flag EXCEPT ![c] = flag'[c]] /\ flag'[c] \in Flags
    BY <1>1 DEF ReadFile, WriteFile, Truncate, PathOp, TypeOK
  <2> QED
    BY <1>1, <2>1 DEF PathCall, ReadFile, WriteFile, Truncate, PathOp, Ops, FdOps
<1>2. ASSUME NEW c \in Calls, NEW p \in Paths, NEW g \in OpenFlags,
             OpenAsync(c, p, g) \/ AppendFile(c, p, g)
      PROVE  PathCall(c)
  <2>1. flag' = [flag EXCEPT ![c] = flag'[c]] /\ flag'[c] \in Flags
    BY <1>2, FlagsAreKnown DEF OpenAsync, AppendFile, TypeOK
  <2> QED
    BY <1>2, <2>1 DEF PathCall, OpenAsync, AppendFile, Ops, FdOps
<1>3. ASSUME NEW c \in Calls, NEW f \in Fds,
             \/ \E k \in Places \union {NoPlace} : ReadAsync(c, f, k) \/ WriteAsync(c, f, k)
             \/ AppendToFd(c, f) \/ FtruncateAsync(c, f) \/ FdMetaAsync(c, f) \/ CloseAsync(c, f)
      PROVE  FdCall(c, f)
  <2>1. place' = [place EXCEPT ![c] = place'[c]] /\ place'[c] \in Places \union {NoPlace}
    BY <1>3 DEF ReadAsync, WriteAsync, AppendToFd, FtruncateAsync, FdMetaAsync, CloseAsync, TypeOK
  <2> QED
    BY <1>3, <2>1 DEF FdCall, ReadAsync, WriteAsync, AppendToFd, FtruncateAsync, FdMetaAsync,
                      CloseAsync, FdOps
<1>4. ASSUME NEW c \in Calls,
             \/ \E p \in Paths, g \in OpenFlags : OpenSync(c, p, g) \/ AppendFileSync(c, p, g)
             \/ \E f \in Fds, k \in Places \union {NoPlace} : WriteSync(c, f, k)
      PROVE  RunsAtOnce(c)
  BY <1>4, SyncShape
<1> QED
  BY <1>1, <1>2, <1>3, <1>4, Zenon DEF Program

(***************************************************************************)
(* Type correctness.                                                       *)
(***************************************************************************)
(* The replies a finished call has had. *)
LEMMA ReplyTypes ==
  ASSUME TypeOK, NEW c \in Calls, NEW reply \in Replies, Finish(c, reply), queue # <<>>
  PROVE  /\ queue' \in Seq(Calls)
         /\ step' \in [Calls -> Steps]
         /\ replies' \in [Calls -> Seq(Replies)]
<1>1. PICK again \in {<<>>, <<IF failed[c] THEN "error" ELSE "rethrown">>} :
        replies' = [replies EXCEPT ![c] = @ \o <<reply>> \o again]
  BY DEF Finish, Again
<1>2. again \in Seq(Replies)
  <2>1. (IF failed[c] THEN "error" ELSE "rethrown") \in Replies
    BY DEF Replies
  <2>2. ASSUME NEW r \in Replies
        PROVE  <<r>> \in Seq(Replies)
    OBVIOUS
  <2>3. CASE again = <<>>
    BY <2>3
  <2>4. CASE again = <<IF failed[c] THEN "error" ELSE "rethrown">>
    BY <2>1, <2>2, <2>4, Zenon
  <2>5. QED
    BY <2>3, <2>4
<1>3. <<reply>> \in Seq(Replies) /\ replies[c] \in Seq(Replies)
  BY DEF TypeOK
<1>4. replies[c] \o <<reply>> \o again \in Seq(Replies)
  BY <1>2, <1>3
<1>5. QED
  BY <1>1, <1>4, QueueTypes DEF Finish, TypeOK, Steps

(* The calls of the program, asynchronous or not, keep the types.          *)
LEMMA TypeStepProgram == TypeOK /\ OneOwner /\ Program => TypeOK'
<1> SUFFICES ASSUME TypeOK, OneOwner, Program PROVE TypeOK'
  OBVIOUS
<1> USE DEF TypeOK
<1>1. ASSUME NEW c \in Calls, NEW o \in Ops, NEW s \in Steps,
             NEW p \in Paths \union {NoPath}, NEW f \in Fds \union {NoFd},
             Issue(c, o, s, p, f), held' \subseteq Fds, appends' \in Seq(Calls),
             flag' \in [Calls -> Flags], place' \in [Calls -> Places \union {NoPlace}]
      PROVE  TypeOK'
  <2>1. queue' \in Seq(Calls)
    BY <1>1, QueueTypes DEF Issue
  <2>2. aim' \in [Calls -> Calls \union {NoCall}]
    BY <1>1, FdsAreNumbers DEF Issue, NoFd
  <2>3. QED
    BY <1>1, <2>1, <2>2 DEF Issue
<1>2. ASSUME NEW c \in Calls, PathCall(c)
      PROVE  TypeOK'
  <2>1. PICK p \in Paths, o \in Ops, s \in Steps :
          /\ Issue(c, o, s, p, NoFd)
          /\ UNCHANGED appends \/ appends' = Append(appends, c)
          /\ UNCHANGED <<held, place>>
    BY <1>2 DEF PathCall, Steps
  <2>2. Append(appends, c) \in Seq(Calls)
    OBVIOUS
  <2>3. flag' \in [Calls -> Flags]
    BY <1>2 DEF PathCall
  <2> QED
    BY <1>1, <2>1, <2>2, <2>3
<1>3. ASSUME NEW c \in Calls, NEW f \in Fds, FdCall(c, f)
      PROVE  TypeOK'
  <2>1. FileAt(f) \in Paths \union {NoPath}
    BY <1>3 DEF FdCall, OneOwner, FileAt
  <2>2. PICK s \in Ops : /\ s \in Steps
                         /\ Issue(c, s, s, FileAt(f), f)
                         /\ held' \subseteq Fds
                         /\ UNCHANGED <<appends, flag>>
    BY <1>3 DEF FdCall, FdOps, Ops, Steps
  <2>3. place' \in [Calls -> Places \union {NoPlace}]
    BY <1>3 DEF FdCall
  <2> QED
    BY <1>1, <2>1, <2>2, <2>3
<1>4. ASSUME NEW c \in Calls, RunsAtOnce(c)
      PROVE  TypeOK'
  <2>1. replies' \in [Calls -> Seq(Replies)]
    <3>1. \A r \in {"ok", "error"} : <<r>> \in Seq(Replies)
      BY DEF Replies
    <3>2. QED
      BY <1>4, <3>1 DEF RunsAtOnce
  <2>2. /\ desc' \in [Fds -> Calls \union {NoCall}]
        /\ held' \subseteq Fds
        /\ fdOf' \in [Calls -> Fds \union {NoFd}]
    <3>1. CASE \E f \in Fds : /\ desc' = [desc EXCEPT ![f] = c]
                              /\ fdOf' = [fdOf EXCEPT ![c] = f]
                              /\ held' = held \union {f}
      BY <3>1
    <3>2. CASE UNCHANGED <<desc, fdOf, held>>
      BY <3>2
    <3>3. QED
      BY <1>4, <3>1, <3>2 DEF RunsAtOnce
  <2>3. data' \in [Paths -> Seq(Calls \union {NoCall})] /\ offset' \in [Calls -> Nat]
    BY <1>4 DEF RunsAtOnce, DataKept, Units
  <2>4. op' \in [Calls -> Ops] /\ step' \in [Calls -> Steps]
    <3>1. /\ step' = [step EXCEPT ![c] = "done"]
          /\ op' = [op EXCEPT ![c] = op'[c]] /\ op'[c] \in {"openSync", "writeSync", "appendFileSync"}
      BY <1>4 DEF RunsAtOnce
    <3>2. PICK o \in Ops : op' = [op EXCEPT ![c] = o]
      BY <3>1 DEF Ops
    <3> QED
      BY <3>1, <3>2 DEF Steps
  <2>5. path' \in [Calls -> Paths \union {NoPath}]
    BY <1>4 DEF RunsAtOnce
  <2>6. flag' \in [Calls -> Flags]
    BY <1>4 DEF RunsAtOnce
  <2>7. place' \in [Calls -> Places \union {NoPlace}]
    BY <1>4 DEF RunsAtOnce
  <2>8. aim' \in [Calls -> Calls \union {NoCall}]
    BY <1>4 DEF RunsAtOnce, Units
  <2>9. UNCHANGED <<queue, failed, appends>>
    BY <1>4 DEF RunsAtOnce
  <2> QED
    BY <2>1, <2>2, <2>3, <2>4, <2>5, <2>6, <2>7, <2>8, <2>9
<1>6. ASSUME NEW f \in Fds, CloseSync(f)
      PROVE  TypeOK'
  BY <1>6 DEF CloseSync, callVars
<1>7. QED
  BY <1>2, <1>3, <1>4, <1>6, ProgramShape

(* The inductive invariant. *)
IInv == TypeOK /\ FdsInUse /\ OneOwner

(* An immediate keeps the types: the descriptor it uses is a number.       *)
LEMMA TypeStepRun ==
  ASSUME TypeOK, FdsInUse, OneOwner, RunImmediate
  PROVE  TypeOK'
<1>0. data' \in [Paths -> Seq(Calls \union {NoCall})] /\ offset' \in [Calls -> Nat]
  BY RunsKeepData, Zenon DEF RunImmediate, DataKept, Units
<1> USE DEF TypeOK
<1>1. queue # <<>>
  BY DEF RunImmediate, RunOpen, RunRead, RunWrite, RunClose, RunReadFile,
         RunWriteFile, RunTruncate, RunFtruncate, RunFdMeta, RunPathOp, Due
<1>2. ASSUME NEW c \in Calls, NEW reply \in {"ok", "error"},
             Finish(c, reply) \/ Refuse(c)
      PROVE  /\ queue' \in Seq(Calls)
             /\ step' \in [Calls -> Steps]
             /\ replies' \in [Calls -> Seq(Replies)]
  <2>1. CASE Finish(c, reply)
    BY <1>1, <2>1, ReplyTypes DEF Replies
  <2>2. CASE Refuse(c)
    <3>1. Append(replies[c], "error") \in Seq(Replies)
      BY DEF Replies
    <3>2. QED
      BY <1>1, <2>2, <3>1, QueueTypes DEF Refuse, Steps
  <2>3. QED
    BY <1>2, <2>1, <2>2
<1>3. ASSUME NEW c \in Calls, NEW s \in {"write", "close"}, Chain(c, s)
      PROVE  /\ queue' \in Seq(Calls)
             /\ step' \in [Calls -> Steps]
             /\ replies' \in [Calls -> Seq(Replies)]
  BY <1>1, <1>3, QueueTypes DEF Chain, Steps
<1>4. ASSUME NEW c \in Calls, RunOpen(c)
      PROVE  TypeOK'
  <2>1. ASSUME NEW f \in Fds, OpenSucceeds(c, f)
        PROVE  /\ desc' \in [Fds -> Calls \union {NoCall}]
               /\ held' \subseteq Fds
               /\ fdOf' \in [Calls -> Fds \union {NoFd}]
               /\ queue' \in Seq(Calls)
               /\ step' \in [Calls -> Steps]
               /\ replies' \in [Calls -> Seq(Replies)]
    BY <1>2, <1>3, <2>1 DEF OpenSucceeds
  <2>2. ASSUME OpenFails(c)
        PROVE  /\ desc' \in [Fds -> Calls \union {NoCall}]
               /\ held' \subseteq Fds
               /\ fdOf' \in [Calls -> Fds \union {NoFd}]
               /\ queue' \in Seq(Calls)
               /\ step' \in [Calls -> Steps]
               /\ replies' \in [Calls -> Seq(Replies)]
    BY <1>2, <2>2 DEF OpenFails
  <2>3. QED
    BY <1>0, <1>4, <2>1, <2>2 DEF RunOpen
<1>5. ASSUME NEW c \in Calls,
             \/ RunRead(c) \/ RunReadFile(c) \/ RunFdMeta(c) \/ RunPathOp(c)
             \/ RunWriteFile(c) \/ RunTruncate(c) \/ RunFtruncate(c)
      PROVE  TypeOK'
  <2>1. /\ Finish(c, "ok") \/ Finish(c, "error") \/ Refuse(c)
        /\ UNCHANGED <<op, path, flag, place, fdOf, aim, failed, desc, held, appends>>
    BY <1>5 DEF RunRead, RunReadFile, RunFdMeta, RunPathOp, RunWriteFile, RunTruncate, RunFtruncate
  <2> QED
    BY <1>0, <1>2, <2>1
<1>6. ASSUME NEW c \in Calls, RunWrite(c)
      PROVE  TypeOK'
  <2>2. ASSUME NEW bad \in BOOLEAN, WriteDone(c, bad)
        PROVE  /\ failed' \in [Calls -> BOOLEAN]
               /\ queue' \in Seq(Calls)
               /\ step' \in [Calls -> Steps]
               /\ replies' \in [Calls -> Seq(Replies)]
    <3>1. CASE op[c] = "appendFile"
      BY <1>3, <2>2, <3>1 DEF WriteDone
    <3>2. CASE op[c] # "appendFile"
      BY <1>2, <2>2, <3>2 DEF WriteDone
    <3>3. QED
      BY <3>1, <3>2
  <2>3. PICK bad \in BOOLEAN : WriteDone(c, bad)
    BY <1>6 DEF RunWrite
  <2>5. QED
    BY <1>0, <1>6, <2>2, <2>3 DEF RunWrite
<1>7. ASSUME NEW c \in Calls, RunClose(c)
      PROVE  TypeOK'
  <2>1. (IF failed[c] THEN "error" ELSE "ok") \in {"ok", "error"}
    OBVIOUS
  <2>2. desc' \in [Fds -> Calls \union {NoCall}]
    BY <1>7 DEF RunClose
  <2>3. QED
    BY <1>0, <1>2, <1>7, <2>1, <2>2 DEF RunClose
<1>10. QED
  BY <1>4, <1>5, <1>6, <1>7, Zenon DEF RunImmediate

(***************************************************************************)
(* Descriptors.                                                            *)
(***************************************************************************)

(* What Finish, Refuse and Chain leave of the calls' progress. *)
LEMMA StepChanges ==
  ASSUME TypeOK, NEW c \in Calls
  PROVE  /\ \A reply : Finish(c, reply) => step' = [step EXCEPT ![c] = "done"]
         /\ Refuse(c) => step' = [step EXCEPT ![c] = "done"]
         /\ \A s : Chain(c, s) => step' = [step EXCEPT ![c] = s]
  BY DEF Finish, Refuse, Chain

(* Every immediate that needs a descriptor still finds a number in fdOf.   *)
LEMMA FdsInUseStep == IInv /\ Next => FdsInUse'
<1> SUFFICES ASSUME TypeOK, FdsInUse, OneOwner, Next,
                    NEW d \in Calls, step'[d] \in FdOps
             PROVE  fdOf'[d] \in Fds
  BY DEF IInv, FdsInUse
<1> USE DEF TypeOK, FdsInUse, FdOps
<1>1. ASSUME NEW c \in Calls, PathCall(c) \/ RunsAtOnce(c)
      PROVE  fdOf'[d] \in Fds
  <2>1. CASE PathCall(c)
    BY <2>1 DEF PathCall, Issue
  <2>2. CASE RunsAtOnce(c)
    <3>1. step' = [step EXCEPT ![c] = "done"]
      BY <2>2 DEF RunsAtOnce
    <3>2. step[d] \in FdOps
      BY <3>1
    <3>3. fdOf' = fdOf \/ \E f \in Fds : fdOf' = [fdOf EXCEPT ![c] = f]
      BY <2>2 DEF RunsAtOnce
    <3>4. QED
      BY <3>2, <3>3
  <2>3. QED
    BY <1>1, <2>1, <2>2
<1>2. ASSUME NEW c \in Calls, NEW f \in Fds, FdCall(c, f)
      PROVE  fdOf'[d] \in Fds
  BY <1>2 DEF FdCall, Issue
<1>3. ASSUME NEW f \in Fds, CloseSync(f)
      PROVE  fdOf'[d] \in Fds
  BY <1>3 DEF CloseSync, callVars
<1>4. ASSUME NEW c \in Calls, RunOpen(c)
      PROVE  fdOf'[d] \in Fds
  <2>1. ASSUME NEW f \in Fds, OpenSucceeds(c, f)
        PROVE  fdOf'[d] \in Fds
    BY <2>1, StepChanges DEF OpenSucceeds
  <2>2. ASSUME OpenFails(c)
        PROVE  fdOf'[d] \in Fds
    BY <2>2, StepChanges DEF OpenFails
  <2>3. QED
    BY <1>4, <2>1, <2>2 DEF RunOpen
<1>5. ASSUME NEW c \in Calls,
             \/ RunRead(c) \/ RunClose(c) \/ RunReadFile(c)
             \/ RunWriteFile(c) \/ RunTruncate(c) \/ RunFtruncate(c)
             \/ RunFdMeta(c) \/ RunPathOp(c)
      PROVE  fdOf'[d] \in Fds
  BY <1>5, StepChanges DEF RunRead, RunClose, RunReadFile, RunWriteFile,
                           RunTruncate, RunFtruncate, RunFdMeta, RunPathOp
<1>6. ASSUME NEW c \in Calls, RunWrite(c)
      PROVE  fdOf'[d] \in Fds
  <2>1. fdOf[c] \in Fds /\ UNCHANGED fdOf
    BY <1>6 DEF RunWrite, Due
  <2>2. \A e \in Calls : e # c => step'[e] = step[e]
    BY <1>6, StepChanges DEF RunWrite, WriteDone
  <2>3. QED
    BY <2>1, <2>2
<1>7. CASE RunImmediate
  BY <1>4, <1>5, <1>6, <1>7, Zenon DEF RunImmediate
<1>8. CASE Program
  BY <1>1, <1>2, <1>3, <1>8, ProgramShape
<1>9. QED
  BY <1>7, <1>8 DEF Next

(* A step that opens, closes and hands over nothing keeps the owners when  *)
(* no call becomes responsible for a descriptor.                           *)
LEMMA OwnersKept ==
  ASSUME OneOwner, UNCHANGED <<desc, held>>,
         \A d \in Calls, g \in Fds : WillClose(d, g)' => WillClose(d, g)
  PROVE  OneOwner'
  BY DEF OneOwner

(* No step gives an owned descriptor a second owner.                       *)
LEMMA OneOwnerStep == IInv /\ Next => OneOwner'
<1> SUFFICES ASSUME TypeOK, FdsInUse, OneOwner, Next PROVE OneOwner'
  BY DEF IInv
<1> USE NoCallIsNoCall DEF TypeOK, FdsInUse, FdOps, OneOwner, WillClose
<1>1. ASSUME NEW c \in Calls, PathCall(c)
      PROVE  OneOwner'
  <2>1. /\ UNCHANGED <<desc, held>>
        /\ \E s \in {"open", "readFile", "writeFile", "truncate", "pathOp"} :
             step' = [step EXCEPT ![c] = s]
        /\ \E o \in Ops : op' = [op EXCEPT ![c] = o]
        /\ \E f \in Fds \union {NoFd} : fdOf' = [fdOf EXCEPT ![c] = f]
    BY <1>1 DEF PathCall, Issue
  <2>2. \A d \in Calls, g \in Fds : WillClose(d, g)' => WillClose(d, g)
    BY <2>1
  <2>3. QED
    BY <2>1, <2>2, OwnersKept
<1>2. ASSUME NEW c \in Calls, RunsAtOnce(c)
      PROVE  OneOwner'
  <2>1. step'[c] = "done" /\ \A d \in Calls : d # c => step'[d] = step[d] /\ op'[d] = op[d]
    BY <1>2 DEF RunsAtOnce
  <2>2. ASSUME NEW f \in Fds, Lowest(f), desc' = [desc EXCEPT ![f] = c],
               fdOf' = [fdOf EXCEPT ![c] = f], held' = held \union {f}
        PROVE  OneOwner'
    BY <2>1, <2>2 DEF Lowest, Free
  <2>3. CASE UNCHANGED <<desc, fdOf, held>>
    <3>1. \A d \in Calls, g \in Fds : WillClose(d, g)' => WillClose(d, g)
      BY <2>1, <2>3
    <3>2. QED
      BY <2>3, <3>1, OwnersKept
  <2>4. QED
    BY <1>2, <2>2, <2>3, Zenon DEF RunsAtOnce
<1>4. ASSUME NEW c \in Calls, NEW f \in Fds, NEW s \in FdOps, s # "close",
             f \in held, Issue(c, s, s, FileAt(f), f), UNCHANGED held
      PROVE  OneOwner'
  <2>1. /\ UNCHANGED <<desc, held>>
        /\ step' = [step EXCEPT ![c] = s] /\ op' = [op EXCEPT ![c] = s]
        /\ fdOf' = [fdOf EXCEPT ![c] = f]
    BY <1>4 DEF Issue
  <2>2. \A d \in Calls, g \in Fds : WillClose(d, g)' => WillClose(d, g)
    BY <1>4, <2>1
  <2>3. QED
    BY <2>1, <2>2, OwnersKept
<1>5. ASSUME NEW c \in Calls, NEW f \in Fds, f \in held,
             Issue(c, "close", "close", FileAt(f), f), held' = held \ {f}
      PROVE  OneOwner'
  BY <1>5 DEF Issue
<1>3. ASSUME NEW c \in Calls, NEW f \in Fds, FdCall(c, f)
      PROVE  OneOwner'
  <2>1. PICK s \in FdOps : /\ f \in held /\ Issue(c, s, s, FileAt(f), f)
                           /\ held' = IF s = "close" THEN held \ {f} ELSE held
    BY <1>3 DEF FdCall
  <2>2. CASE s = "close"
    BY <1>5, <2>1, <2>2
  <2>3. CASE s # "close"
    BY <1>4, <2>1, <2>3
  <2> QED
    BY <2>2, <2>3
<1>6. ASSUME NEW f \in Fds, CloseSync(f)
      PROVE  OneOwner'
  BY <1>6 DEF CloseSync, callVars
<1>7. ASSUME NEW c \in Calls, RunOpen(c)
      PROVE  OneOwner'
  <2>1. ASSUME NEW f \in Fds, OpenSucceeds(c, f), op[c] = "appendFile"
        PROVE  OneOwner'
    <3>1. /\ step' = [step EXCEPT ![c] = "write"]
          /\ UNCHANGED <<op, held>>
          /\ desc' = [desc EXCEPT ![f] = c]
          /\ fdOf' = [fdOf EXCEPT ![c] = f]
          /\ desc[f] = NoCall
      BY <1>7, <2>1, StepChanges DEF OpenSucceeds, RunOpen, Lowest, Free
    <3>2. \A d \in Calls, g \in Fds : WillClose(d, g)' => WillClose(d, g) \/ (d = c /\ g = f)
      BY <3>1
    <3>3. f \notin held /\ \A d \in Calls : ~WillClose(d, f)
      BY <3>1
    <3>4. ASSUME NEW g \in held'
          PROVE  desc'[g] # NoCall
      BY <3>1
    <3>5. ASSUME NEW d \in Calls, NEW g \in Fds, WillClose(d, g)'
          PROVE  /\ desc'[g] # NoCall /\ g \notin held'
                 /\ \A e \in Calls : WillClose(e, g)' => e = d
      <4>1. CASE g = f
        BY <3>1, <3>2, <3>3, <3>5, <4>1
      <4>2. CASE g # f
        <5>1. WillClose(d, g) /\ \A e \in Calls : WillClose(e, g)' => WillClose(e, g)
          BY <3>2, <3>5, <4>2
        <5>2. QED
          BY <3>1, <4>2, <5>1
      <4>3. QED
        BY <4>1, <4>2
    <3>6. QED
      BY <3>4, <3>5, Zenon
  <2>2. ASSUME NEW f \in Fds, OpenSucceeds(c, f), op[c] # "appendFile"
        PROVE  OneOwner'
    BY <1>7, <2>2, StepChanges, SMTT(20) DEF OpenSucceeds, RunOpen, Lowest, Free, Due
  <2>3. CASE OpenFails(c)
    <3>1. /\ step' = [step EXCEPT ![c] = "done"]
          /\ UNCHANGED <<op, fdOf, desc, held>>
      BY <1>7, <2>3, StepChanges DEF OpenFails, RunOpen
    <3>2. \A d \in Calls, g \in Fds : WillClose(d, g)' => WillClose(d, g)
      BY <3>1
    <3>3. QED
      BY <3>1, <3>2, OwnersKept
  <2>4. QED
    BY <1>7, <2>1, <2>2, <2>3, Zenon DEF RunOpen
<1>8. ASSUME NEW c \in Calls,
             \/ RunRead(c) \/ RunReadFile(c) \/ RunWriteFile(c)
             \/ RunTruncate(c) \/ RunFtruncate(c) \/ RunFdMeta(c) \/ RunPathOp(c)
      PROVE  OneOwner'
  BY <1>8, StepChanges DEF RunRead, RunReadFile, RunWriteFile, RunTruncate,
                           RunFtruncate, RunFdMeta, RunPathOp
<1>9. ASSUME NEW c \in Calls, RunWrite(c)
      PROVE  OneOwner'
  <2>1. step' = [step EXCEPT ![c] = IF op[c] = "appendFile" THEN "close" ELSE "done"]
    BY <1>9, StepChanges DEF RunWrite, WriteDone
  <2>2. step[c] = "write" /\ UNCHANGED <<op, fdOf, desc, held>>
    BY <1>9 DEF RunWrite, Due
  <2>3. QED
    BY <2>1, <2>2
<1>10. ASSUME NEW c \in Calls, RunClose(c)
       PROVE  OneOwner'
  <2>1. WillClose(c, fdOf[c]) /\ fdOf[c] \in Fds
    BY <1>10 DEF RunClose, Due
  <2>2. /\ step' = [step EXCEPT ![c] = "done"]
        /\ desc' = [desc EXCEPT ![fdOf[c]] = NoCall]
        /\ UNCHANGED <<op, fdOf, held>>
    BY <1>10, StepChanges DEF RunClose
  <2>3. fdOf[c] \notin held /\ \A d \in Calls : WillClose(d, fdOf[c]) => d = c
    BY <2>1
  <2>4. \A d \in Calls, g \in Fds : WillClose(d, g)' => WillClose(d, g) /\ d # c
    BY <2>2
  <2>5. \A d \in Calls, g \in Fds : WillClose(d, g)' => g # fdOf[c]
    BY <2>3, <2>4
  <2>6. \A f \in held' : desc'[f] # NoCall
    BY <2>2, <2>3
  <2>7. ASSUME NEW d \in Calls, NEW g \in Fds, WillClose(d, g)'
        PROVE  /\ desc'[g] # NoCall /\ g \notin held'
               /\ \A e \in Calls : WillClose(e, g)' => e = d
    <3>1. WillClose(d, g) /\ g # fdOf[c] /\ desc'[g] = desc[g] /\ held' = held
      BY <2>2, <2>4, <2>5, <2>7
    <3>2. QED
      BY <2>4, <3>1, ZenonT(40)
  <2>8. QED
    BY <2>6, <2>7, Zenon
<1>11. CASE RunImmediate
  BY <1>7, <1>8, <1>9, <1>10, <1>11, Zenon DEF RunImmediate
<1>12. CASE Program
  <2>1. TypeOK /\ OneOwner
    OBVIOUS
  <2>2. \/ \E c \in Calls : PathCall(c) \/ RunsAtOnce(c)
        \/ \E c \in Calls, f \in Fds : FdCall(c, f)
        \/ \E f \in Fds : CloseSync(f)
    BY <1>12, <2>1, ProgramShape
  <2> QED
    BY <1>1, <1>2, <1>3, <1>6, <2>2, Zenon
<1>13. QED
  BY <1>11, <1>12 DEF Next

(* The strengthened invariant holds at the start and every step keeps it.  *)
LEMMA IInvInductive ==
  /\ Init => IInv
  /\ IInv /\ [Next]_vars => IInv'
<1>1. Init => IInv
  <2>1. Init => TypeOK
    BY DEF Init, TypeOK, Ops, Steps, Flags
  <2>2. QED
    BY <2>1 DEF Init, IInv, FdsInUse, FdOps, OneOwner, WillClose
<1>2. ASSUME IInv, Next
      PROVE  IInv'
  <2>1. TypeOK'
    BY <1>2, TypeStepProgram, TypeStepRun DEF IInv, Next
  <2>2. QED
    BY <1>2, <2>1, FdsInUseStep, OneOwnerStep DEF IInv
<1>3. ASSUME IInv, UNCHANGED vars
      PROVE  IInv'
  BY <1>3 DEF IInv, vars, callVars, TypeOK, FdsInUse, OneOwner, WillClose
<1>4. QED
  BY <1>1, <1>2, <1>3

(* Every variable of the callback API keeps its type. *)
THEOREM TypeCorrect == Spec => []TypeOK
<1>1. IInv => TypeOK
  BY DEF IInv
<1>2. QED
  BY <1>1, IInvInductive, PTL DEF Spec

(* A descriptor never has two owners, whatever is opened, closed, fails or *)
(* throws and in whatever order the program makes its calls.               *)
THEOREM OwnersAreUnique == Spec => []OneOwner
<1>1. IInv => OneOwner
  BY DEF IInv
<1>2. QED
  BY <1>1, IInvInductive, PTL DEF Spec

(* A step that opens and closes nothing leaks nothing when every owner     *)
(* stays an owner.                                                         *)
LEMMA NothingDropped ==
  ASSUME NoDescriptorLeak, UNCHANGED desc,
         \A g \in held : g \in held' \/ \E d \in Calls : WillClose(d, g)',
         \A d \in Calls, g \in Fds :
            WillClose(d, g) => g \in held' \/ \E e \in Calls : WillClose(e, g)'
  PROVE  NoDescriptorLeak'
  BY DEF NoDescriptorLeak

(* No step leaves an open descriptor without somebody who will close it.   *)
LEMMA NoLeakStep == IInv /\ NoDescriptorLeak /\ Next => NoDescriptorLeak'
<1> SUFFICES ASSUME TypeOK, FdsInUse, OneOwner, NoDescriptorLeak, Next
             PROVE  NoDescriptorLeak'
  BY DEF IInv
<1> USE NoCallIsNoCall DEF TypeOK, FdsInUse, FdOps
<1>0. ASSUME UNCHANGED <<desc, fdOf, held>>, NEW c \in Calls,
             \A g \in Fds : ~WillClose(c, g),
             \A d \in Calls : d # c => step'[d] = step[d] /\ op'[d] = op[d]
      PROVE  NoDescriptorLeak'
  <2>1. \A d \in Calls, g \in Fds : WillClose(d, g) => WillClose(d, g)'
    BY <1>0 DEF WillClose
  <2>2. QED
    BY <1>0, <2>1, NothingDropped
<1>1. ASSUME NEW c \in Calls, NEW o, NEW s, NEW p, NEW f \in Fds \union {NoFd},
             Issue(c, o, s, p, f), UNCHANGED held
      PROVE  NoDescriptorLeak'
  <2>1. \A d \in Calls, g \in Fds : WillClose(d, g) => WillClose(d, g)'
    BY <1>1 DEF Issue, WillClose
  <2>2. QED
    BY <1>1, <2>1, NothingDropped DEF Issue
<1>2. ASSUME NEW c \in Calls, NEW f \in Fds, NEW p,
             Issue(c, "close", "close", p, f), held' = held \ {f}
      PROVE  NoDescriptorLeak'
  <2>1. \A d \in Calls, g \in Fds : WillClose(d, g) => WillClose(d, g)'
    BY <1>2 DEF Issue, WillClose
  <2>2. WillClose(c, f)'
    BY <1>2 DEF Issue, WillClose
  <2>3. QED
    BY <1>2, <2>1, <2>2, NothingDropped DEF Issue
<1>3. ASSUME NEW c \in Calls, RunsAtOnce(c)
      PROVE  NoDescriptorLeak'
  <2>1. \A d \in Calls, g \in Fds : WillClose(d, g) => d # c
    BY <1>3 DEF RunsAtOnce, WillClose
  <2>2. \A d \in Calls : d # c => step'[d] = step[d] /\ op'[d] = op[d] /\ fdOf'[d] = fdOf[d]
    BY <1>3 DEF RunsAtOnce
  <2>3. \A d \in Calls, g \in Fds : WillClose(d, g) => WillClose(d, g)'
    BY <2>1, <2>2 DEF WillClose
  <2>4. ASSUME NEW f \in Fds, desc' = [desc EXCEPT ![f] = c], held' = held \union {f}
        PROVE  NoDescriptorLeak'
    BY <2>3, <2>4 DEF NoDescriptorLeak
  <2>5. CASE UNCHANGED <<desc, held>>
    BY <2>3, <2>5, NothingDropped
  <2>6. QED
    BY <1>3, <2>4, <2>5, Zenon DEF RunsAtOnce
<1>5. ASSUME NEW f \in Fds, CloseSync(f)
      PROVE  NoDescriptorLeak'
  BY <1>5 DEF CloseSync, callVars, NoDescriptorLeak, WillClose
<1>6. ASSUME NEW c \in Calls, RunOpen(c)
      PROVE  NoDescriptorLeak'
  <2>1. \A g \in Fds : ~WillClose(c, g)
    BY <1>6 DEF RunOpen, Due, WillClose
  <2>2. ASSUME NEW f \in Fds, OpenSucceeds(c, f)
        PROVE  NoDescriptorLeak'
    <3>1. \A d \in Calls, g \in Fds : WillClose(d, g) => WillClose(d, g)'
      <4>1. \A d \in Calls : d # c =>
              step'[d] = step[d] /\ op'[d] = op[d] /\ fdOf'[d] = fdOf[d]
        BY <1>6, <2>2, StepChanges DEF OpenSucceeds, RunOpen
      <4>2. QED
        BY <2>1, <4>1 DEF WillClose
    <3>2. held \subseteq held' /\ (f \in held' \/ WillClose(c, f)')
      BY <1>6, <2>2, StepChanges DEF OpenSucceeds, RunOpen, WillClose
    <3>3. desc' = [desc EXCEPT ![f] = c]
      BY <2>2 DEF OpenSucceeds
    <3>4. QED
      BY <3>1, <3>2, <3>3 DEF NoDescriptorLeak
  <2>3. CASE OpenFails(c)
    <3>1. step' = [step EXCEPT ![c] = "done"] /\ UNCHANGED <<op, desc, fdOf, held>>
      BY <1>6, <2>3, StepChanges DEF OpenFails, RunOpen
    <3>2. \A d \in Calls : d # c => step'[d] = step[d] /\ op'[d] = op[d]
      BY <3>1
    <3>3. QED
      BY <1>0, <2>1, <3>1, <3>2
  <2>4. QED
    BY <1>6, <2>2, <2>3 DEF RunOpen
<1>7. ASSUME NEW c \in Calls,
             \/ RunRead(c) \/ RunReadFile(c) \/ RunWriteFile(c)
             \/ RunTruncate(c) \/ RunFtruncate(c) \/ RunFdMeta(c) \/ RunPathOp(c)
      PROVE  NoDescriptorLeak'
  <2>1. \A g \in Fds : ~WillClose(c, g)
    BY <1>7 DEF RunRead, RunReadFile, RunWriteFile, RunTruncate, RunFtruncate,
                RunFdMeta, RunPathOp, Due, WillClose
  <2>2. step' = [step EXCEPT ![c] = "done"] /\ UNCHANGED <<op, desc, fdOf, held>>
    BY <1>7, StepChanges
    DEF RunRead, RunReadFile, RunWriteFile, RunTruncate, RunFtruncate, RunFdMeta, RunPathOp
  <2>3. \A d \in Calls : d # c => step'[d] = step[d] /\ op'[d] = op[d]
    BY <2>2
  <2>4. QED
    BY <1>0, <2>1, <2>2, <2>3
<1>8. ASSUME NEW c \in Calls, RunWrite(c)
      PROVE  NoDescriptorLeak'
  <2>1. step' = [step EXCEPT ![c] = IF op[c] = "appendFile" THEN "close" ELSE "done"]
    BY <1>8, StepChanges DEF RunWrite, WriteDone
  <2>2. step[c] = "write" /\ UNCHANGED <<op, fdOf, desc, held>>
    BY <1>8 DEF RunWrite, Due
  <2>3. \A d \in Calls, g \in Fds : WillClose(d, g) => WillClose(d, g)'
    BY <2>1, <2>2 DEF WillClose
  <2>4. QED
    BY <2>2, <2>3, NothingDropped
<1>9. ASSUME NEW c \in Calls, RunClose(c)
      PROVE  NoDescriptorLeak'
  <2>1. /\ step' = [step EXCEPT ![c] = "done"]
        /\ desc' = [desc EXCEPT ![fdOf[c]] = NoCall]
        /\ UNCHANGED <<op, fdOf, held>>
    BY <1>9, StepChanges DEF RunClose
  <2>2. \A d \in Calls, g \in Fds :
          WillClose(d, g) /\ g # fdOf[c] => WillClose(d, g)'
    BY <2>1 DEF WillClose
  <2>3. QED
    BY <2>1, <2>2 DEF NoDescriptorLeak
<1>10. ASSUME NEW c \in Calls, PathCall(c)
       PROVE  NoDescriptorLeak'
  BY <1>1, <1>10 DEF PathCall
<1>11. ASSUME NEW c \in Calls, NEW f \in Fds, FdCall(c, f)
       PROVE  NoDescriptorLeak'
  <2>1. PICK s \in FdOps : /\ Issue(c, s, s, FileAt(f), f)
                           /\ held' = IF s = "close" THEN held \ {f} ELSE held
    BY <1>11 DEF FdCall
  <2>2. CASE s = "close"
    BY <1>2, <2>1, <2>2
  <2>3. CASE s # "close"
    BY <1>1, <2>1, <2>3
  <2>4. QED
    BY <2>2, <2>3
<1>12. CASE RunImmediate
  BY <1>6, <1>7, <1>8, <1>9, <1>12, Zenon DEF RunImmediate
<1>13. CASE Program
  BY <1>3, <1>5, <1>10, <1>11, <1>13, ProgramShape
<1>14. QED
  BY <1>12, <1>13 DEF Next

(* No descriptor is ever dropped: at every moment each open one is in the  *)
(* program's hands or about to be closed by a queued immediate, so that an *)
(* idle event loop leaves open exactly what the program still holds.       *)
THEOREM DescriptorsAreNotLeaked == Spec => []NoDescriptorLeak
<1>1. Init => NoDescriptorLeak
  BY DEF Init, NoDescriptorLeak
<1>2. IInv /\ NoDescriptorLeak /\ [Next]_vars => NoDescriptorLeak'
  <2>1. CASE UNCHANGED vars
    BY <2>1 DEF NoDescriptorLeak, WillClose, vars, callVars
  <2>2. QED
    BY <2>1, NoLeakStep
<1>3. QED
  BY <1>1, <1>2, IInvInductive, PTL DEF Spec



-----------------------------------------------------------------------------
(* Sequences without repetition, and who comes before whom in them.        *)

In(q, x) == \E i \in DOMAIN q : q[i] = x
Distinct(q) == \A i, j \in DOMAIN q : q[i] = q[j] => i = j
Precedes(q, x, y) == \E i, j \in DOMAIN q : i < j /\ q[i] = x /\ q[j] = y

LEMMA AppendedLast ==
  ASSUME NEW S, NEW q \in Seq(S), NEW c \in S
  PROVE  /\ Append(q, c) \in Seq(S)
         /\ \A x : In(Append(q, c), x) <=> In(q, x) \/ x = c
         /\ Distinct(q) /\ ~In(q, c) => Distinct(Append(q, c))
         /\ \A x, y : Precedes(q, x, y) => Precedes(Append(q, c), x, y)
         /\ \A x : In(q, x) => Precedes(Append(q, c), x, c)
         /\ \A x, y : Precedes(Append(q, c), x, y) => Precedes(q, x, y) \/ (In(q, x) /\ y = c)
<1> DEFINE r == Append(q, c)
<1>1. /\ r \in Seq(S)
      /\ DOMAIN r = DOMAIN q \union {Len(q) + 1}
      /\ \A i \in DOMAIN q : i \in Nat /\ i < Len(q) + 1 /\ r[i] = q[i]
      /\ r[Len(q) + 1] = c
  OBVIOUS
<1> HIDE DEF r
<1>2. \A x : In(r, x) <=> In(q, x) \/ x = c
  BY <1>1 DEF In
<1>3. Distinct(q) /\ ~In(q, c) => Distinct(r)
  BY <1>1 DEF Distinct, In
<1>4. \A x, y : Precedes(q, x, y) => Precedes(r, x, y)
  BY <1>1 DEF Precedes
<1>5. \A x : In(q, x) => Precedes(r, x, c)
  BY <1>1 DEF Precedes, In
<1>6. \A x, y : Precedes(r, x, y) => Precedes(q, x, y) \/ (In(q, x) /\ y = c)
  <2> SUFFICES ASSUME NEW i \in DOMAIN r, NEW j \in DOMAIN r, i < j
               PROVE  Precedes(q, r[i], r[j]) \/ (In(q, r[i]) /\ r[j] = c)
    BY DEF Precedes
  <2>1. i \in DOMAIN q
    <3>1. Len(q) \in Nat
      OBVIOUS
    <3> QED
      BY <1>1, <3>1
  <2> QED
    BY <1>1, <2>1 DEF Precedes, In
<1> QED
  BY <1>1, <1>2, <1>3, <1>4, <1>5, <1>6 DEF r

LEMMA FirstLeft ==
  ASSUME NEW S, NEW q \in Seq(S), q # <<>>, Distinct(q)
  PROVE  /\ Tail(q) \in Seq(S) /\ Head(q) \in S
         /\ \A x : In(Tail(q), x) <=> In(q, x) /\ x # Head(q)
         /\ Distinct(Tail(q))
         /\ \A x, y : Precedes(q, x, y) /\ x # Head(q) => Precedes(Tail(q), x, y)
         /\ \A x : ~Precedes(q, x, Head(q))
<1> DEFINE r == Tail(q)
<1>1. /\ r \in Seq(S) /\ Head(q) \in S
      /\ 1 \in DOMAIN q /\ Head(q) = q[1]
      /\ \A i \in DOMAIN r : i \in Nat /\ i + 1 \in DOMAIN q /\ i + 1 # 1 /\ r[i] = q[i + 1]
      /\ \A i \in DOMAIN q : i \in Nat /\ i >= 1 /\ (i # 1 => i - 1 \in DOMAIN r)
  OBVIOUS
<1>2. \A i \in DOMAIN q : i # 1 => r[i - 1] = q[i]
  BY <1>1
<1> HIDE DEF r
<1>3. \A x : In(r, x) <=> In(q, x) /\ x # Head(q)
  <2> SUFFICES ASSUME NEW x PROVE In(r, x) <=> In(q, x) /\ x # Head(q)
    OBVIOUS
  <2>1. ASSUME NEW i \in DOMAIN r, r[i] = x PROVE In(q, x) /\ x # Head(q)
    BY <1>1, <2>1 DEF In, Distinct
  <2>2. ASSUME NEW i \in DOMAIN q, q[i] = x, x # Head(q) PROVE In(r, x)
    <3>1. i # 1 /\ i - 1 \in DOMAIN r /\ r[i - 1] = x
      BY <1>1, <1>2, <2>2
    <3> QED
      BY <3>1 DEF In
  <2> QED
    BY <2>1, <2>2 DEF In
<1>4. Distinct(r)
  <2> SUFFICES ASSUME NEW i \in DOMAIN r, NEW j \in DOMAIN r, r[i] = r[j] PROVE i = j
    BY DEF Distinct
  <2>1. i + 1 = j + 1
    BY <1>1 DEF Distinct
  <2> QED
    BY <1>1, <2>1
<1>5. \A x, y : Precedes(q, x, y) /\ x # Head(q) => Precedes(r, x, y)
  <2> SUFFICES ASSUME NEW i \in DOMAIN q, NEW j \in DOMAIN q, i < j, q[i] # Head(q)
               PROVE  Precedes(r, q[i], q[j])
    BY DEF Precedes
  <2>1. i # 1 /\ j # 1 /\ i \in Nat /\ j \in Nat
    BY <1>1
  <2>2. i - 1 \in DOMAIN r /\ j - 1 \in DOMAIN r /\ i - 1 < j - 1
    BY <1>1, <2>1
  <2> QED
    BY <1>2, <2>1, <2>2 DEF Precedes
<1>6. \A x : ~Precedes(q, x, Head(q))
  BY <1>1 DEF Precedes, Distinct
<1> QED
  BY <1>1, <1>3, <1>4, <1>5, <1>6 DEF r

(* The first of several replies. *)
LEMMA HeadOfFinish ==
  ASSUME NEW S, NEW r \in S, NEW again \in Seq(S)
  PROVE  Head(<<>> \o <<r>> \o again) = r
  OBVIOUS

-----------------------------------------------------------------------------
(* The invariant.                                                          *)

(* What a call has queued, has been asked and has been told, in step. *)
CallsInStep ==
  \A c \in Calls :
    /\ op[c] = "none" <=> step[c] = "none"
    /\ step[c] # "done" => replies[c] = <<>>
    /\ In(queue, c) <=> Waiting(c)
    /\ In(appends, c) <=> op[c] = "appendFile"
    /\ op[c] = "appendFile" => path[c] \in Paths /\ step[c] \in {"open", "write", "close", "done"}
    /\ op[c] \in {"none", "appendFile"} => place[c] = NoPlace

(* An append that is over was told how it went. *)
DoneWereTold ==
  \A c \in Calls : op[c] = "appendFile" /\ step[c] = "done" => Head(replies[c]) \in {"ok", "error"}

(* Nothing of a call that was not made is in a file.                       *)
DataOfCalls ==
  \A p \in Paths, c \in Calls : In(data[p], c) => step[c] # "none"

(* A chain of appendFile works on the file it has opened. *)
ChainsKeepTheirFile ==
  \A c \in Calls : op[c] = "appendFile" /\ step[c] \in {"write", "close"} => desc[fdOf[c]] = c

(* Of two appends, the later does not overtake the earlier in the queue,   *)
(* and has not opened its file when the earlier has not.                   *)
NoOvertaking ==
  \A c, d \in Calls : Precedes(appends, c, d) =>
    /\ step[c] = "open" => step[d] = "open" /\ Precedes(queue, c, d)
    /\ step[c] = "write" /\ step[d] = "write" => Precedes(queue, c, d)

AInv ==
  /\ Distinct(queue) /\ Distinct(appends)
  /\ CallsInStep
  /\ DoneWereTold
  /\ DataOfCalls
  /\ ChainsKeepTheirFile
  /\ NoOvertaking

(* The shapes of a step, as the queue sees them.                           *)

(* A call is made and queues its first immediate. *)
Enters(c) ==
  /\ step[c] = "none"
  /\ queue' = Append(queue, c)
  /\ step' = [step EXCEPT ![c] = step'[c]] /\ step'[c] \notin {"none", "done"}
  /\ op' = [op EXCEPT ![c] = op'[c]] /\ op'[c] # "none"
  /\ path' = [path EXCEPT ![c] = path'[c]]
  /\ flag' = [flag EXCEPT ![c] = flag'[c]]
  /\ place' = [place EXCEPT ![c] = place'[c]]
  /\ \/ op'[c] # "appendFile" /\ UNCHANGED appends
     \/ /\ op'[c] = "appendFile" /\ step'[c] = "open" /\ path'[c] \in Paths
        /\ place'[c] = place[c]
        /\ appends' = Append(appends, c)
  /\ \A d \in Calls : d # c => fdOf'[d] = fdOf[d]
  /\ UNCHANGED <<failed, replies, desc, data>>

(* The immediate at the head of the queue runs and its call is over. *)
Leaves(c) ==
  /\ Due(c, step[c]) /\ Waiting(c)
  /\ queue' = Tail(queue)
  /\ step' = [step EXCEPT ![c] = "done"]
  /\ replies' = [replies EXCEPT ![c] = replies'[c]]
  /\ UNCHANGED <<op, path, flag, place, failed, appends>>

(* ... or has another link of its chain to run. *)
MovesOn(c) ==
  /\ Due(c, step[c]) /\ op[c] = "appendFile"
  /\ \/ step[c] = "open" /\ step'[c] = "write"
     \/ step[c] = "write" /\ step'[c] = "close"
  /\ queue' = Append(Tail(queue), c)
  /\ step' = [step EXCEPT ![c] = step'[c]]
  /\ UNCHANGED <<op, path, flag, place, replies, appends>>

(* A synchronous call is over at once. *)
Passes(c) ==
  /\ step[c] = "none"
  /\ step' = [step EXCEPT ![c] = "done"]
  /\ op' = [op EXCEPT ![c] = op'[c]] /\ op'[c] \notin {"none", "appendFile"}
  /\ path' = [path EXCEPT ![c] = path'[c]]
  /\ flag' = [flag EXCEPT ![c] = flag'[c]]
  /\ place' = [place EXCEPT ![c] = place'[c]]
  /\ replies' = [replies EXCEPT ![c] = replies'[c]]
  /\ UNCHANGED <<queue, failed, appends>>

QueueKeeps == Distinct(queue) /\ Distinct(appends) /\ CallsInStep /\ NoOvertaking

LEMMA QueueAfterEnters ==
  ASSUME TypeOK, AInv, NEW c \in Calls, Enters(c)
  PROVE  QueueKeeps'
<1>0. /\ queue \in Seq(Calls) /\ appends \in Seq(Calls)
      /\ step \in [Calls -> Steps] /\ op \in [Calls -> Ops]
      /\ path \in [Calls -> Paths \union {NoPath}] /\ place \in [Calls -> Places \union {NoPlace}]
      /\ Distinct(queue) /\ Distinct(appends) /\ CallsInStep /\ NoOvertaking
  BY DEF TypeOK, AInv
<1>1. /\ step[c] = "none" /\ step'[c] \notin {"none", "done"}
      /\ op'[c] # "none" /\ op[c] = "none" /\ place[c] = NoPlace
      /\ \A d \in Calls : d # c => /\ step'[d] = step[d] /\ op'[d] = op[d]
                                   /\ path'[d] = path[d] /\ place'[d] = place[d]
      /\ UNCHANGED replies /\ queue' = Append(queue, c)
  BY <1>0 DEF Enters, CallsInStep
<1>2. ~In(queue, c) /\ ~In(appends, c)
  BY <1>0, <1>1 DEF CallsInStep, Waiting
<1>3. /\ \A x : In(queue', x) <=> In(queue, x) \/ x = c
      /\ Distinct(queue')
      /\ \A x, y : Precedes(queue, x, y) => Precedes(queue', x, y)
      /\ \A x : In(queue, x) => Precedes(queue', x, c)
  BY <1>0, <1>1, <1>2, AppendedLast
<1>4. CASE op'[c] # "appendFile" /\ UNCHANGED appends
  <2>1. Distinct(appends')
    BY <1>0, <1>4
  <2>2. CallsInStep'
    BY <1>0, <1>1, <1>2, <1>3, <1>4 DEF CallsInStep, Waiting
  <2>3. ~(\E x : Precedes(appends, x, c) \/ Precedes(appends, c, x))
    BY <1>2 DEF Precedes, In
  <2>4. NoOvertaking'
    BY <1>0, <1>1, <1>3, <1>4, <2>3 DEF NoOvertaking
  <2> QED
    BY <1>3, <2>1, <2>2, <2>4 DEF QueueKeeps
<1>5. CASE /\ op'[c] = "appendFile" /\ step'[c] = "open" /\ path'[c] \in Paths
           /\ place'[c] = place[c] /\ appends' = Append(appends, c)
  <2>1. /\ \A x : In(appends', x) <=> In(appends, x) \/ x = c
        /\ Distinct(appends')
        /\ \A x, y : Precedes(appends', x, y) => Precedes(appends, x, y) \/ (In(appends, x) /\ y = c)
    BY <1>0, <1>2, <1>5, AppendedLast
  <2>2. CallsInStep'
    BY <1>0, <1>1, <1>2, <1>3, <1>5, <2>1 DEF CallsInStep, Waiting
  <2>3. ~(\E x : Precedes(appends, x, c) \/ Precedes(appends, c, x))
    BY <1>2 DEF Precedes, In
  <2>4. ASSUME NEW x \in Calls, NEW y \in Calls, Precedes(appends', x, y)
        PROVE  /\ step'[x] = "open" => step'[y] = "open" /\ Precedes(queue', x, y)
               /\ step'[x] = "write" /\ step'[y] = "write" => Precedes(queue', x, y)
    <3>1. CASE Precedes(appends, x, y)
      <4>1. x # c /\ y # c
        BY <2>3, <3>1
      <4> QED
        BY <1>0, <1>1, <1>3, <3>1, <4>1 DEF NoOvertaking
    <3>2. CASE In(appends, x) /\ y = c
      <4>1. x # c
        BY <1>2, <3>2
      <4>2. step'[x] = "open" => Precedes(queue', x, y)
        BY <1>0, <1>1, <1>3, <3>2, <4>1 DEF CallsInStep, Waiting
      <4> QED
        BY <1>5, <3>2, <4>2
    <3> QED
      BY <2>1, <2>4, <3>1, <3>2
  <2>5. NoOvertaking'
    BY <2>4 DEF NoOvertaking
  <2> QED
    BY <1>3, <2>1, <2>2, <2>5 DEF QueueKeeps
<1> QED
  BY <1>4, <1>5 DEF Enters

LEMMA QueueAfterLeaves ==
  ASSUME TypeOK, AInv, NEW c \in Calls, Leaves(c)
  PROVE  QueueKeeps'
<1>0. /\ queue \in Seq(Calls) /\ queue # <<>> /\ Head(queue) = c
      /\ step \in [Calls -> Steps] /\ replies \in [Calls -> Seq(Replies)]
      /\ Distinct(queue) /\ Distinct(appends) /\ CallsInStep /\ NoOvertaking
  BY DEF TypeOK, AInv, Leaves, Due
<1>1. /\ step'[c] = "done" /\ queue' = Tail(queue)
      /\ \A d \in Calls : d # c => step'[d] = step[d] /\ replies'[d] = replies[d]
      /\ UNCHANGED <<op, path, place, appends>>
  BY <1>0 DEF Leaves
<1>2. /\ \A x : In(queue', x) <=> In(queue, x) /\ x # c
      /\ Distinct(queue')
      /\ \A x, y : Precedes(queue, x, y) /\ x # c => Precedes(queue', x, y)
      /\ \A x : ~Precedes(queue, x, c)
  BY <1>0, <1>1, FirstLeft
<1>3. step[c] \notin {"none", "done"}
  BY DEF Leaves, Waiting
<1>4. CallsInStep'
  BY <1>0, <1>1, <1>2, <1>3 DEF CallsInStep, Waiting
<1>5. NoOvertaking'
  BY <1>0, <1>1, <1>2 DEF NoOvertaking
<1> QED
  BY <1>0, <1>1, <1>2, <1>4, <1>5 DEF QueueKeeps

LEMMA QueueAfterMovesOn ==
  ASSUME TypeOK, AInv, NEW c \in Calls, MovesOn(c)
  PROVE  QueueKeeps'
<1>0. /\ queue \in Seq(Calls) /\ queue # <<>> /\ Head(queue) = c
      /\ step \in [Calls -> Steps]
      /\ Distinct(queue) /\ Distinct(appends) /\ CallsInStep /\ NoOvertaking
  BY DEF TypeOK, AInv, MovesOn, Due
<1>1. /\ \/ step[c] = "open" /\ step'[c] = "write"
         \/ step[c] = "write" /\ step'[c] = "close"
      /\ queue' = Append(Tail(queue), c)
      /\ \A d \in Calls : d # c => step'[d] = step[d]
      /\ UNCHANGED <<op, path, place, replies, appends>>
  BY <1>0 DEF MovesOn
<1>2. /\ Tail(queue) \in Seq(Calls)
      /\ \A x : In(Tail(queue), x) <=> In(queue, x) /\ x # c
      /\ Distinct(Tail(queue))
      /\ \A x, y : Precedes(queue, x, y) /\ x # c => Precedes(Tail(queue), x, y)
      /\ \A x : ~Precedes(queue, x, c)
  BY <1>0, FirstLeft
<1>3. /\ \A x : In(queue', x) <=> In(Tail(queue), x) \/ x = c
      /\ Distinct(queue')
      /\ \A x, y : Precedes(Tail(queue), x, y) => Precedes(queue', x, y)
      /\ \A x : In(Tail(queue), x) => Precedes(queue', x, c)
  <2>1. PICK q \in Seq(Calls) : q = Tail(queue) /\ Distinct(q) /\ ~In(q, c)
    BY <1>2
  <2>2. queue' = Append(q, c)
    BY <1>1, <2>1
  <2>3. /\ \A x : In(Append(q, c), x) <=> In(q, x) \/ x = c
        /\ Distinct(Append(q, c))
        /\ \A x, y : Precedes(q, x, y) => Precedes(Append(q, c), x, y)
        /\ \A x : In(q, x) => Precedes(Append(q, c), x, c)
    BY <2>1, AppendedLast
  <2> QED
    BY <2>1, <2>2, <2>3
<1>4. CallsInStep'
  BY <1>0, <1>1, <1>2, <1>3 DEF CallsInStep, Waiting, MovesOn
<1>5. NoOvertaking'
  <2> SUFFICES ASSUME NEW x \in Calls, NEW y \in Calls, Precedes(appends, x, y)
               PROVE  /\ step'[x] = "open" => step'[y] = "open" /\ Precedes(queue', x, y)
                      /\ step'[x] = "write" /\ step'[y] = "write" => Precedes(queue', x, y)
    BY <1>1 DEF NoOvertaking
  <2>1. CASE x # c /\ y # c
    BY <1>0, <1>1, <1>2, <1>3, <2>1 DEF NoOvertaking
  <2>2. CASE x # c /\ y = c
    <3>1. step[x] # "open"
      BY <1>0, <1>2, <2>2 DEF NoOvertaking
    <3>2. step[x] = "write" => Precedes(queue', x, c)
      BY <1>0, <1>2, <1>3, <2>2 DEF CallsInStep, Waiting
    <3> QED
      BY <1>1, <2>2, <3>1, <3>2
  <2>3. CASE x = c
    <3>1. x # y
      BY <1>0 DEF Precedes, Distinct
    <3>2. step[c] = "open" => step[y] = "open"
      BY <1>0, <2>3 DEF NoOvertaking
    <3> QED
      BY <1>1, <2>3, <3>1, <3>2
  <2> QED
    BY <2>1, <2>2, <2>3
<1> QED
  BY <1>0, <1>1, <1>3, <1>4, <1>5 DEF QueueKeeps

LEMMA QueueAfterPasses ==
  ASSUME TypeOK, AInv, NEW c \in Calls, Passes(c)
  PROVE  QueueKeeps'
<1>0. /\ step \in [Calls -> Steps] /\ op \in [Calls -> Ops]
      /\ path \in [Calls -> Paths \union {NoPath}] /\ replies \in [Calls -> Seq(Replies)]
      /\ place \in [Calls -> Places \union {NoPlace}]
      /\ Distinct(queue) /\ Distinct(appends) /\ CallsInStep /\ NoOvertaking
  BY DEF TypeOK, AInv
<1>1. /\ step[c] = "none" /\ step'[c] = "done"
      /\ op'[c] \notin {"none", "appendFile"} /\ op[c] = "none"
      /\ \A d \in Calls : d # c => /\ step'[d] = step[d] /\ op'[d] = op[d]
                                   /\ path'[d] = path[d] /\ replies'[d] = replies[d]
                                   /\ place'[d] = place[d]
      /\ UNCHANGED <<queue, appends>>
  BY <1>0 DEF Passes, CallsInStep
<1>2. CallsInStep'
  BY <1>0, <1>1 DEF CallsInStep, Waiting
<1>3. ~(\E x : Precedes(appends, x, c) \/ Precedes(appends, c, x))
  BY <1>0, <1>1 DEF CallsInStep, Precedes, In
<1>4. NoOvertaking'
  BY <1>0, <1>1, <1>3 DEF NoOvertaking
<1> QED
  BY <1>0, <1>1, <1>2, <1>4 DEF QueueKeeps

-----------------------------------------------------------------------------
(* What the steps are to AppendLog.                                        *)

OthersKeep(c) ==
  \A d \in Calls : d # c => /\ op'[d] = op[d] /\ step'[d] = step[d] /\ failed'[d] = failed[d]
                            /\ path'[d] = path[d] /\ flag'[d] = flag[d] /\ replies'[d] = replies[d]

LEMMA StandingChanges ==
  ASSUME NEW c \in Calls, OthersKeep(c)
  PROVE  /\ Standing' = [Standing EXCEPT ![c] = Pledged(c)']
         /\ Target' = [Target EXCEPT ![c] = IF op'[c] = "appendFile" THEN path'[c] ELSE NoPath]
<1>1. ASSUME NEW d \in Calls, d # c PROVE Pledged(d)' = Pledged(d)
  BY <1>1 DEF Pledged, OthersKeep
<1> QED
  BY <1>1 DEF Standing, Target, OthersKeep

(* Who asked for the end of a file changes with that call only. *)
LEMMA AtEndChanges ==
  ASSUME NEW c \in Calls, OthersKeep(c)
  PROVE  /\ op[c] # "appendFile" => AtEnd' \in {AtEnd, AtEnd \union {c}}
         /\ op'[c] = op[c] /\ path'[c] = path[c] /\ flag'[c] = flag[c] => AtEnd' = AtEnd
<1>1. ASSUME NEW d \in Calls, d # c PROVE d \in AtEnd' <=> d \in AtEnd
  BY <1>1 DEF AtEnd, OthersKeep, OnlyAppends
<1>2. AtEnd \subseteq Calls /\ AtEnd' \subseteq Calls
  BY DEF AtEnd
<1>3. ASSUME op[c] # "appendFile" PROVE AtEnd' \in {AtEnd, AtEnd \union {c}}
  <2>1. c \notin AtEnd
    BY <1>3 DEF AtEnd
  <2> QED
    BY <1>1, <1>2, <2>1
<1>4. ASSUME op'[c] = op[c], path'[c] = path[c], flag'[c] = flag[c] PROVE AtEnd' = AtEnd
  <2>1. c \in AtEnd' <=> c \in AtEnd
    BY <1>4 DEF AtEnd, OnlyAppends
  <2> QED
    BY <1>1, <1>2, <2>1
<1> QED
  BY <1>3, <1>4

(* A call that is no append has no standing there.                         *)
LEMMA NoStanding ==
  ASSUME NEW c \in Calls, op[c] # "appendFile", op'[c] # "appendFile", OthersKeep(c)
  PROVE  UNCHANGED <<Standing, Target, AtEnd>> /\ Standing[c] = "idle"
<1>1. Pledged(c) = "idle" /\ Pledged(c)' = "idle"
  BY DEF Pledged
<1>2. ASSUME NEW d \in Calls PROVE Pledged(d)' = Pledged(d)
  <2>1. CASE d = c
    BY <1>1, <2>1
  <2>2. CASE d # c
    BY <2>2 DEF Pledged, OthersKeep
  <2> QED
    BY <2>1, <2>2
<1>3. \A d \in Calls : (IF op'[d] = "appendFile" THEN path'[d] ELSE NoPath)
                     = (IF op[d] = "appendFile" THEN path[d] ELSE NoPath)
  BY DEF OthersKeep
<1>4. \A d \in Calls : d \in AtEnd' <=> d \in AtEnd
  BY DEF AtEnd, OthersKeep, OnlyAppends
<1>5. AtEnd' = AtEnd
  BY <1>4 DEF AtEnd
<1> QED
  BY <1>1, <1>2, <1>3, <1>5 DEF Standing, Target

(* What such a call does to a file AppendLog allows to others.             *)
LEMMA OthersMayWrite ==
  ASSUME TypeOK, NEW c \in Calls, Standing[c] = "idle",
         UNCHANGED <<Standing, Target, AtEnd, appends>>,
         MayWrite(c)
  PROVE  [AppendLog!Next]_(AppendLog!logVars)
<1>1. CASE UNCHANGED data
  BY <1>1 DEF AppendLog!logVars
<1>2. ASSUME NEW p \in Paths, data' = [data EXCEPT ![p] = data'[p]],
             \A i \in DOMAIN data'[p] :
               \/ data'[p][i] \in {c, NoCall}
               \/ i \in DOMAIN data[p] /\ data'[p][i] = data[p][i]
      PROVE  AppendLog!Next
  <2>1. AppendLog!Others(p)
    BY <1>2, NoCallIsNoCall DEF AppendLog!Others
  <2> QED
    BY <2>1 DEF AppendLog!Next
<1> QED
  BY <1>1, <1>2 DEF MayWrite

(* So is emptying one, whoever does it. *)
LEMMA OthersMayEmpty ==
  ASSUME TypeOK, NEW p \in Paths, data' = [data EXCEPT ![p] = <<>>],
         UNCHANGED <<Standing, Target, AtEnd, appends>>
  PROVE  AppendLog!Next
<1>1. data'[p] = <<>> /\ DOMAIN <<>> = {}
  BY DEF TypeOK
<1>2. AppendLog!Others(p)
  BY <1>1 DEF AppendLog!Others
<1> QED
  BY <1>2 DEF AppendLog!Next

(* appendFile asks. *)
LEMMA AppendFileAsks ==
  ASSUME TypeOK, AInv, NEW c \in Calls, NEW p \in Paths, Enters(c),
         op'[c] = "appendFile", path'[c] = p
  PROVE  AppendLog!Ask(c, p)
<1>1. /\ step[c] = "none" /\ op[c] = "none"
      /\ op' = [op EXCEPT ![c] = "appendFile"]
      /\ step' = [step EXCEPT ![c] = "open"]
      /\ path' = [path EXCEPT ![c] = p]
      /\ appends' = Append(appends, c)
      /\ UNCHANGED <<failed, replies, data>>
      /\ OthersKeep(c)
  BY DEF Enters, AInv, CallsInStep, OthersKeep, TypeOK
<1>2. Pledged(c) = "idle" /\ Pledged(c)' = "asked"
  BY <1>1 DEF Pledged, TypeOK
<1>3. Standing' = [Standing EXCEPT ![c] = "asked"] /\ Target' = [Target EXCEPT ![c] = p]
  BY <1>1, <1>2, StandingChanges DEF TypeOK
<1>4. \A g \in Paths : ~AppendLog!Wrote(c, g)
  BY <1>1 DEF AInv, DataOfCalls, In, AppendLog!Wrote
<1>5. AtEnd' \in {AtEnd, AtEnd \union {c}}
  BY <1>1, AtEndChanges
<1> QED
  BY <1>1, <1>2, <1>3, <1>4, <1>5 DEF AppendLog!Ask, Standing

(* An open that succeeds says nothing yet, one that fails ends the append. *)
LEMMA OpenTellsOfFailure ==
  ASSUME TypeOK, AInv, NEW c \in Calls, op[c] = "appendFile", RunOpen(c)
  PROVE  [AppendLog!Next]_(AppendLog!logVars)
<1>1. step[c] = "open" /\ UNCHANGED <<op, path, flag, failed, appends>> /\ path[c] \in Paths
  BY DEF RunOpen, Due, AInv, CallsInStep
<1>2. Pledged(c) = "asked"
  BY <1>1 DEF Pledged
<1>3. CASE \E f \in Fds : OpenSucceeds(c, f)
  <2>1. step' = [step EXCEPT ![c] = "write"] /\ UNCHANGED replies
    BY <1>3 DEF OpenSucceeds, Chain
  <2>2. Pledged(c)' = "asked"
    BY <1>1, <2>1 DEF Pledged, TypeOK
  <2>3. OthersKeep(c)
    BY <1>1, <2>1 DEF TypeOK, OthersKeep
  <2>4. Standing' = [Standing EXCEPT ![c] = "asked"] /\ Target' = Target /\ AtEnd' = AtEnd
    BY <1>1, <2>2, <2>3, StandingChanges, AtEndChanges DEF Target
  <2>5. Standing' = Standing
    BY <1>2, <2>4 DEF Standing
  <2>6. UNCHANGED data \/ data' = [data EXCEPT ![path[c]] = <<>>]
    BY <1>3 DEF OpenSucceeds, Opens
  <2>7. CASE UNCHANGED data
    BY <1>1, <2>4, <2>5, <2>7 DEF AppendLog!logVars
  <2>8. CASE data' = [data EXCEPT ![path[c]] = <<>>]
    <3>1. PICK p \in Paths : p = path[c] /\ data' = [data EXCEPT ![p] = <<>>]
      BY <1>1, <2>8
    <3> QED
      BY <1>1, <2>4, <2>5, <3>1, OthersMayEmpty
  <2> QED
    BY <2>6, <2>7, <2>8
<1>4. CASE OpenFails(c)
  <2>1. /\ step' = [step EXCEPT ![c] = "done"]
        /\ \A d \in Calls : d # c => replies'[d] = replies[d]
        /\ Head(replies'[c]) = "error"
        /\ UNCHANGED data
    BY <1>1, <1>4, HeadOfFinish DEF OpenFails, Finish, TypeOK, AInv, CallsInStep
  <2>2. Pledged(c)' = "error"
    BY <1>1, <2>1 DEF Pledged, TypeOK
  <2>3. OthersKeep(c)
    BY <1>1, <2>1 DEF TypeOK, OthersKeep
  <2>4. Standing' = [Standing EXCEPT ![c] = "error"] /\ Target' = Target /\ AtEnd' = AtEnd
    BY <1>1, <2>2, <2>3, StandingChanges, AtEndChanges DEF Target
  <2>5. AppendLog!Tell(c)
    BY <1>1, <1>2, <2>1, <2>4 DEF AppendLog!Tell, Standing
  <2> QED
    BY <2>5 DEF AppendLog!Next
<1> QED
  BY <1>3, <1>4 DEF RunOpen

(* An append that writes has its turn: none before it is undecided.        *)
LEMMA WritersHaveTheirTurn ==
  ASSUME TypeOK, AInv, NEW c \in Calls, op[c] = "appendFile", Due(c, "write")
  PROVE  AppendLog!Turn(c)
<1>0. /\ queue \in Seq(Calls) /\ queue # <<>> /\ Head(queue) = c /\ step[c] = "write"
      /\ appends \in Seq(Calls) /\ Distinct(queue)
  BY DEF Due, TypeOK, AInv
<1>1. PICK i \in DOMAIN appends : appends[i] = c
  BY DEF AInv, CallsInStep, In
<1>2. ASSUME NEW j \in 1..i - 1 PROVE Standing[appends[j]] \notin AppendLog!Undecided
  <2>1. j \in DOMAIN appends /\ j < i /\ appends[j] \in Calls
    BY <1>0, <1>1
  <2>2. Precedes(appends, appends[j], c)
    BY <1>1, <2>1 DEF Precedes
  <2>3. ~Precedes(queue, appends[j], c)
    BY <1>0, FirstLeft
  <2>4. step[appends[j]] \notin {"open", "write"}
    BY <1>0, <2>1, <2>2, <2>3 DEF AInv, NoOvertaking
  <2>5. op[appends[j]] = "appendFile" /\ step[appends[j]] \in {"close", "done"}
    BY <2>1, <2>4 DEF AInv, CallsInStep, In
  <2>6. CASE step[appends[j]] = "close"
    BY <2>1, <2>5, <2>6 DEF Standing, Pledged, TypeOK, AppendLog!Undecided
  <2>7. CASE step[appends[j]] = "done"
    <3>1. Standing[appends[j]] = Head(replies[appends[j]])
      BY <2>1, <2>5, <2>7 DEF Standing, Pledged
    <3> QED
      BY <2>1, <2>5, <2>7, <3>1 DEF AInv, DoneWereTold, AppendLog!Undecided
  <2> QED
    BY <2>5, <2>6, <2>7
<1> QED
  BY <1>1, <1>2 DEF AppendLog!Turn

(* Its write lands in the file it asked for, or fails. *)
LEMMA WriteLandsOrFails ==
  ASSUME TypeOK, AInv, NEW c \in Calls, op[c] = "appendFile", RunWrite(c)
  PROVE  AppendLog!Land(c) \/ AppendLog!Fail(c)
<1>1. /\ step[c] = "write" /\ AppendLog!Turn(c)
      /\ UNCHANGED <<op, path, flag, appends>>
  BY WritersHaveTheirTurn DEF RunWrite, Due
<1>2. /\ Standing[c] = "asked" /\ Target[c] = path[c] /\ path[c] \in Paths
      /\ place[c] = NoPlace /\ desc[fdOf[c]] = c
  BY <1>1 DEF Standing, Pledged, Target, AInv, CallsInStep, ChainsKeepTheirFile
<1>3. ASSUME NEW bad \in BOOLEAN, WriteDone(c, bad)
      PROVE  /\ Standing' = [Standing EXCEPT ![c] = IF bad THEN "failed" ELSE "landed"]
             /\ Target' = Target /\ AtEnd' = AtEnd
  <2>1. /\ step' = [step EXCEPT ![c] = "close"] /\ failed' = [failed EXCEPT ![c] = bad]
        /\ UNCHANGED replies
    BY <1>3 DEF WriteDone, Chain
  <2>2. step'[c] = "close" /\ failed'[c] = bad /\ op'[c] = "appendFile"
    BY <1>1, <2>1 DEF TypeOK
  <2>3. Pledged(c)' = IF bad THEN "failed" ELSE "landed"
    BY <2>2 DEF Pledged
  <2>4. OthersKeep(c)
    BY <1>1, <2>1 DEF TypeOK, OthersKeep
  <2> QED
    BY <1>1, <2>3, <2>4, StandingChanges, AtEndChanges DEF Target
<1>4. ASSUME NEW n \in 1..ChunkLen, Lands(c, c, NoPlace, n), WriteDone(c, FALSE)
      PROVE  AppendLog!Land(c)
  <2>1. PICK p \in Paths : p = path[c]
    BY <1>2
  <2>2. PICK s \in Seq(Units) : s = data[p]
    BY DEF TypeOK, Units
  <2>3. PICK t \in Landing(c, NoPlace) : data' = [data EXCEPT ![p] = Put(s, c, t, n, NoCall)]
    BY <1>4, <2>1, <2>2 DEF Lands
  <2>4. n \in Nat /\ n >= 1
    BY ChunkIsNotEmpty
  <2>5. t \in Nat /\ (c \in AtEnd => t = Len(s))
    <3>1. Len(s) \in Nat /\ offset[c] \in Nat
      BY DEF TypeOK
    <3> QED
      BY <2>1, <2>2, <2>3, <3>1 DEF Landing, AtEnd
  <2>6. c \in Units /\ NoCall \in Units
    BY DEF Units
  <2>7. PICK u \in Seq(Units) : u = Put(s, c, t, n, NoCall) /\ Len(u) >= t + n
    BY <2>4, <2>5, <2>6, PutShape
  <2>8. data'[p] = u
    BY <2>3, <2>7 DEF TypeOK
  <2>9. n \in 1..Len(data'[p]) /\ t \in 0..Len(data'[p])
    <3>1. Len(u) \in Nat
      OBVIOUS
    <3> QED
      BY <2>4, <2>5, <2>7, <2>8, <3>1
  <2>10. /\ Standing' = [Standing EXCEPT ![c] = "landed"]
         /\ Target' = Target /\ AtEnd' = AtEnd
    BY <1>3, <1>4
  <2>11. data' = [data EXCEPT ![p] = Put(@, c, t, n, NoCall)]
    BY <2>2, <2>3
  <2>12. \E m \in 1..Len(data'[Target[c]]), k \in 0..Len(data'[Target[c]]) :
           /\ c \in AtEnd => k = Len(data[Target[c]])
           /\ data' = [data EXCEPT ![Target[c]] = Put(@, c, k, m, NoCall)]
    BY <1>2, <2>1, <2>2, <2>5, <2>9, <2>11
  <2>13. Standing[c] = "asked" /\ AppendLog!Turn(c) /\ UNCHANGED <<appends, Target, AtEnd>>
    BY <1>1, <1>2, <2>10
  <2> QED
    BY <2>10, <2>12, <2>13 DEF AppendLog!Land, AppendLog!Put, Put
<1>5. ASSUME UNCHANGED data, WriteDone(c, TRUE)
      PROVE  AppendLog!Fail(c)
  <2>1. Standing' = [Standing EXCEPT ![c] = "failed"] /\ Target' = Target /\ AtEnd' = AtEnd
    BY <1>3, <1>5
  <2> QED
    BY <1>1, <1>2, <1>5, <2>1 DEF AppendLog!Fail
<1> QED
  BY <1>2, <1>4, <1>5 DEF RunWrite

(* Its close tells how the write went. *)
LEMMA CloseTells ==
  ASSUME TypeOK, AInv, NEW c \in Calls, op[c] = "appendFile", RunClose(c)
  PROVE  AppendLog!Tell(c)
<1>1. /\ step[c] = "close" /\ UNCHANGED <<op, path, flag, failed, data, appends>>
      /\ Finish(c, IF failed[c] THEN "error" ELSE "ok")
  BY DEF RunClose, Due
<1>2. Standing[c] = IF failed[c] THEN "failed" ELSE "landed"
  BY <1>1 DEF Standing, Pledged, TypeOK
<1>3. /\ step' = [step EXCEPT ![c] = "done"]
      /\ \A d \in Calls : d # c => replies'[d] = replies[d]
      /\ Head(replies'[c]) = IF failed[c] THEN "error" ELSE "ok"
  BY <1>1, HeadOfFinish DEF Finish, TypeOK, AInv, CallsInStep
<1>4. Pledged(c)' = IF failed[c] THEN "error" ELSE "ok"
  BY <1>1, <1>3 DEF Pledged, TypeOK
<1>5. /\ Standing' = [Standing EXCEPT ![c] = IF failed[c] THEN "error" ELSE "ok"]
      /\ Target' = Target /\ AtEnd' = AtEnd
  <2>1. OthersKeep(c)
    BY <1>1, <1>3 DEF TypeOK, OthersKeep
  <2> QED
    BY <1>1, <1>4, <2>1, StandingChanges, AtEndChanges DEF Target
<1>6. failed[c] \in BOOLEAN
  BY DEF TypeOK
<1> QED
  BY <1>1, <1>2, <1>5, <1>6 DEF AppendLog!Tell

-----------------------------------------------------------------------------
(* Every step has one of the shapes.                                       *)

(* The immediates that are no link of a chain. *)
RunsAlone(c) ==
  \/ RunRead(c) \/ RunReadFile(c) \/ RunWriteFile(c) \/ RunTruncate(c)
  \/ RunFtruncate(c) \/ RunFdMeta(c) \/ RunPathOp(c)

LEMMA CallsEnter ==
  ASSUME TypeOK, NEW c \in Calls, PathCall(c) \/ \E f \in Fds : FdCall(c, f)
  PROVE  Enters(c)
<1>1. ASSUME NEW o, NEW s, NEW p, NEW f, Issue(c, o, s, p, f),
             s \notin {"none", "done"}, o # "none",
             flag' = [flag EXCEPT ![c] = flag'[c]], place' = [place EXCEPT ![c] = place'[c]],
             \/ o # "appendFile" /\ UNCHANGED appends
             \/ /\ o = "appendFile" /\ s = "open" /\ p \in Paths
                /\ place'[c] = place[c] /\ appends' = Append(appends, c)
      PROVE  Enters(c)
  <2>1. /\ step'[c] = s /\ op'[c] = o /\ path'[c] = p
        /\ \A d \in Calls : d # c => fdOf'[d] = fdOf[d]
    BY <1>1 DEF Issue, TypeOK
  <2> QED
    BY <1>1, <2>1 DEF Issue, Enters
<1>2. UNCHANGED flag => flag' = [flag EXCEPT ![c] = flag'[c]]
  BY DEF TypeOK
<1>3. UNCHANGED place => place' = [place EXCEPT ![c] = place'[c]]
  BY DEF TypeOK
<1>4. CASE PathCall(c)
  BY <1>1, <1>3, <1>4 DEF PathCall
<1>5. CASE \E f \in Fds : FdCall(c, f)
  BY <1>1, <1>2, <1>5 DEF FdCall, FdOps
<1> QED
  BY <1>4, <1>5

LEMMA FinishingLeaves ==
  ASSUME TypeOK, NEW c \in Calls, Due(c, step[c]), Waiting(c), NEW r,
         Finish(c, r) \/ Refuse(c), UNCHANGED <<op, path, flag, place, failed, appends>>
  PROVE  Leaves(c)
<1>1. replies' = [replies EXCEPT ![c] = replies'[c]]
  BY DEF Finish, Refuse, TypeOK
<1> QED
  BY <1>1 DEF Leaves, Finish, Refuse

LEMMA RunsAloneLeaves ==
  ASSUME TypeOK, NEW c \in Calls, RunsAlone(c)
  PROVE  Leaves(c) /\ step[c] \notin {"open", "write", "close"} /\ UNCHANGED <<desc, fdOf>>
<1>1. /\ Due(c, step[c]) /\ Waiting(c)
      /\ UNCHANGED <<op, path, flag, place, failed, appends, desc, fdOf>>
      /\ step[c] \notin {"open", "write", "close"}
      /\ Finish(c, "ok") \/ Finish(c, "error") \/ Refuse(c)
  BY DEF RunsAlone, RunRead, RunReadFile, RunWriteFile, RunTruncate, RunFtruncate,
         RunFdMeta, RunPathOp, Due, Waiting
<1> QED
  BY <1>1, FinishingLeaves

LEMMA StepShapes ==
  ASSUME TypeOK, OneOwner, Next
  PROVE  \/ \E c \in Calls : \/ Enters(c) \/ RunOpen(c) \/ RunWrite(c) \/ RunClose(c)
                            \/ RunsAlone(c) \/ RunsAtOnce(c)
         \/ \E f \in Fds : CloseSync(f)
<1>1. CASE Program
  BY <1>1, ProgramShape, CallsEnter
<1>2. CASE RunImmediate
  BY <1>2, Zenon DEF RunImmediate, RunsAlone
<1> QED
  BY <1>1, <1>2 DEF Next

-----------------------------------------------------------------------------
(* The invariant is kept.                                                  *)

(* A pending chain keeps the descriptor it opened: it is not free, not the *)
(* program's to close and not another chain's.                             *)
LEMMA ChainsStep ==
  ASSUME IInv, AInv, Next
  PROVE  ChainsKeepTheirFile'
<1>0. TypeOK /\ FdsInUse /\ OneOwner /\ CallsInStep /\ ChainsKeepTheirFile
  BY DEF IInv, AInv
<1> DEFINE Chained(d) == op[d] = "appendFile" /\ step[d] \in {"write", "close"}
<1>1. \A d \in Calls : Chained(d) => /\ fdOf[d] \in Fds /\ desc[fdOf[d]] = d
                                     /\ fdOf[d] \notin held /\ WillClose(d, fdOf[d])
  BY <1>0 DEF FdsInUse, FdOps, ChainsKeepTheirFile, WillClose, OneOwner
<1>2. ASSUME UNCHANGED desc,
             \A d \in Calls : Chained(d)' => Chained(d) /\ fdOf'[d] = fdOf[d]
      PROVE  ChainsKeepTheirFile'
  BY <1>1, <1>2 DEF ChainsKeepTheirFile
<1>3. ASSUME NEW c \in Calls, Enters(c) PROVE ChainsKeepTheirFile'
  <2>1. \A d \in Calls : d # c => step'[d] = step[d] /\ op'[d] = op[d] /\ fdOf'[d] = fdOf[d]
    BY <1>0, <1>3 DEF Enters, TypeOK
  <2>2. op'[c] = "appendFile" => step'[c] = "open"
    BY <1>3 DEF Enters
  <2> QED
    BY <1>2, <1>3, <2>1, <2>2 DEF Enters
<1>4. ASSUME NEW c \in Calls, RunsAlone(c) PROVE ChainsKeepTheirFile'
  BY <1>0, <1>2, <1>4, RunsAloneLeaves DEF Leaves, TypeOK
<1>5. ASSUME NEW c \in Calls, RunOpen(c) PROVE ChainsKeepTheirFile'
  <2>1. ASSUME NEW f \in Fds, OpenSucceeds(c, f) PROVE ChainsKeepTheirFile'
    <3>1. /\ desc' = [desc EXCEPT ![f] = c] /\ fdOf' = [fdOf EXCEPT ![c] = f]
          /\ desc[f] = NoCall
          /\ \A d \in Calls : d # c => step'[d] = step[d]
          /\ UNCHANGED op
      BY <1>0, <1>5, <2>1, StepChanges DEF OpenSucceeds, Lowest, Free, RunOpen, TypeOK
    <3>2. ASSUME NEW d \in Calls, Chained(d)' PROVE desc'[fdOf'[d]] = d
      <4>1. CASE d = c
        BY <1>0, <3>1, <4>1 DEF TypeOK
      <4>2. CASE d # c
        <5>1. Chained(d) /\ fdOf'[d] = fdOf[d]
          BY <1>0, <3>1, <3>2, <4>2 DEF TypeOK
        <5>2. fdOf[d] \in Fds /\ desc[fdOf[d]] = d /\ d # NoCall
          BY <1>1, <5>1, NoCallIsNoCall
        <5> QED
          BY <1>0, <3>1, <5>1, <5>2 DEF TypeOK
      <4> QED
        BY <4>1, <4>2
    <3> QED
      BY <3>2 DEF ChainsKeepTheirFile
  <2>2. CASE OpenFails(c)
    <3>1. step' = [step EXCEPT ![c] = "done"] /\ UNCHANGED <<op, desc, fdOf>>
      BY <1>5, <2>2 DEF OpenFails, Finish, RunOpen
    <3> QED
      BY <1>0, <1>2, <3>1 DEF TypeOK
  <2> QED
    BY <1>5, <2>1, <2>2 DEF RunOpen
<1>6. ASSUME NEW c \in Calls, RunWrite(c) PROVE ChainsKeepTheirFile'
  <2>1. /\ step[c] = "write" /\ UNCHANGED <<op, desc, fdOf>>
        /\ \A d \in Calls : d # c => step'[d] = step[d]
        /\ op[c] # "appendFile" => step'[c] = "done"
    BY <1>0, <1>6, StepChanges DEF RunWrite, WriteDone, Due, TypeOK
  <2> QED
    BY <1>2, <2>1
<1>7. ASSUME NEW c \in Calls, RunClose(c) PROVE ChainsKeepTheirFile'
  <2>1. /\ step' = [step EXCEPT ![c] = "done"] /\ UNCHANGED <<op, fdOf>>
        /\ desc' = [desc EXCEPT ![fdOf[c]] = NoCall]
        /\ WillClose(c, fdOf[c]) /\ fdOf[c] \in Fds
    BY <1>0, <1>7, StepChanges DEF RunClose, Due, WillClose, FdsInUse, FdOps
  <2>2. ASSUME NEW d \in Calls, Chained(d)' PROVE desc'[fdOf'[d]] = d
    <3>1. d # c /\ Chained(d)
      BY <1>0, <2>1, <2>2 DEF TypeOK
    <3>2. fdOf[d] \in Fds /\ desc[fdOf[d]] = d /\ WillClose(d, fdOf[d])
      BY <1>1, <3>1
    <3>3. fdOf[d] # fdOf[c]
      BY <1>0, <2>1, <3>1, <3>2 DEF OneOwner
    <3> QED
      BY <1>0, <2>1, <3>2, <3>3 DEF TypeOK
  <2> QED
    BY <2>2 DEF ChainsKeepTheirFile
<1>8. ASSUME NEW c \in Calls, RunsAtOnce(c) PROVE ChainsKeepTheirFile'
  <2>1. /\ step[c] = "none" /\ step'[c] = "done" /\ op'[c] # "appendFile"
        /\ \A d \in Calls : d # c => step'[d] = step[d] /\ op'[d] = op[d] /\ fdOf'[d] = fdOf[d]
    BY <1>0, <1>8 DEF RunsAtOnce, TypeOK
  <2>2. \A f \in Fds : desc[f] # NoCall => desc'[f] = desc[f]
    BY <1>0, <1>8 DEF RunsAtOnce, Lowest, Free, TypeOK
  <2>3. ASSUME NEW d \in Calls, Chained(d)' PROVE desc'[fdOf'[d]] = d
    <3>1. Chained(d) /\ fdOf'[d] = fdOf[d]
      BY <2>1, <2>3
    <3> QED
      BY <1>1, <2>2, <3>1, NoCallIsNoCall
  <2> QED
    BY <2>3 DEF ChainsKeepTheirFile
<1>9. ASSUME NEW f \in Fds, CloseSync(f) PROVE ChainsKeepTheirFile'
  <2>1. /\ UNCHANGED <<op, step, fdOf>> /\ desc' = [desc EXCEPT ![f] = NoCall]
        /\ f \in held
    BY <1>9 DEF CloseSync, callVars
  <2>2. ASSUME NEW d \in Calls, Chained(d)' PROVE desc'[fdOf'[d]] = d
    <3>1. Chained(d) /\ fdOf'[d] = fdOf[d] /\ fdOf[d] # f
      BY <1>1, <2>1, <2>2
    <3> QED
      BY <1>0, <1>1, <2>1, <3>1 DEF TypeOK
  <2> QED
    BY <2>2 DEF ChainsKeepTheirFile
<1> QED
  BY <1>0, <1>3, <1>4, <1>5, <1>6, <1>7, <1>8, <1>9, StepShapes

(* A call puts no other's data into a file.                                *)
LEMMA UnitsOfFiles ==
  ASSUME TypeOK, NEW c \in Calls, MayWrite(c), NEW g \in Paths, NEW x \in Calls, In(data'[g], x)
  PROVE  In(data[g], x) \/ x = c
<1>1. PICK j \in DOMAIN data'[g] : data'[g][j] = x
  BY DEF In
<1>2. CASE data'[g] = data[g]
  BY <1>1, <1>2 DEF In
<1>3. CASE \A i \in DOMAIN data'[g] :
             \/ data'[g][i] \in {c, NoCall}
             \/ i \in DOMAIN data[g] /\ data'[g][i] = data[g][i]
  BY <1>1, <1>3, NoCallIsNoCall DEF In
<1> QED
  BY <1>2, <1>3 DEF MayWrite, TypeOK

LEMMA DataStep ==
  ASSUME TypeOK, DataOfCalls, NEW c \in Calls, MayWrite(c),
         \A d \in Calls : step'[d] = "none" => step[d] = "none" /\ d # c
  PROVE  DataOfCalls'
<1> SUFFICES ASSUME NEW p \in Paths, NEW d \in Calls, In(data'[p], d)
             PROVE  step'[d] # "none"
  BY DEF DataOfCalls
<1>1. In(data[p], d) \/ d = c
  BY UnitsOfFiles
<1> QED
  BY <1>1 DEF DataOfCalls

-----------------------------------------------------------------------------
(* Every step is one of AppendLog's, or none, and keeps the invariant.     *)
Kept == QueueKeeps' /\ DoneWereTold' /\ DataOfCalls' /\ [AppendLog!Next]_(AppendLog!logVars)

(* A call is made: AppendLog hears of it if it is an append.               *)
LEMMA EntersKept ==
  ASSUME TypeOK, AInv, NEW c \in Calls, Enters(c)
  PROVE  Kept
<1>1. QueueKeeps'
  BY QueueAfterEnters
<1>2. /\ step[c] = "none" /\ op[c] = "none"
      /\ \A d \in Calls : d # c => step'[d] = step[d] /\ op'[d] = op[d]
      /\ step'[c] \notin {"none", "done"}
      /\ UNCHANGED <<failed, replies, data>>
      /\ OthersKeep(c)
  BY DEF Enters, TypeOK, AInv, CallsInStep, OthersKeep
<1>3. DoneWereTold'
  BY <1>2 DEF AInv, DoneWereTold
<1>4. DataOfCalls'
  BY <1>2 DEF AInv, DataOfCalls
<1>5. [AppendLog!Next]_(AppendLog!logVars)
  <2>1. CASE op'[c] # "appendFile"
    <3>1. UNCHANGED <<Standing, Target, AtEnd>>
      BY <1>2, <2>1, NoStanding
    <3> QED
      BY <1>2, <2>1, <3>1 DEF Enters, AppendLog!logVars
  <2>2. CASE op'[c] = "appendFile"
    <3>1. PICK p \in Paths : path'[c] = p
      BY <2>2 DEF Enters
    <3> QED
      BY <2>2, <3>1, AppendFileAsks DEF AppendLog!Next
  <2> QED
    BY <2>1, <2>2
<1> QED
  BY <1>1, <1>3, <1>4, <1>5 DEF Kept

(* An immediate that is no link of a chain, a write of the program's and   *)
(* its close: nothing to AppendLog but what others do to files.            *)
LEMMA OrdinaryKept ==
  ASSUME TypeOK, AInv, NEW c \in Calls, op[c] # "appendFile", Leaves(c), MayWrite(c)
  PROVE  Kept
<1>1. QueueKeeps'
  BY QueueAfterLeaves
<1>2. /\ step'[c] = "done" /\ UNCHANGED <<op, path, failed, appends>>
      /\ \A d \in Calls : d # c => step'[d] = step[d] /\ replies'[d] = replies[d]
      /\ OthersKeep(c)
  BY DEF Leaves, TypeOK, OthersKeep
<1>3. DoneWereTold'
  BY <1>2 DEF AInv, DoneWereTold
<1>4. DataOfCalls'
  BY <1>2, DataStep DEF AInv
<1>5. UNCHANGED <<Standing, Target, AtEnd>> /\ Standing[c] = "idle"
  BY <1>2, NoStanding
<1> QED
  BY <1>1, <1>2, <1>3, <1>4, <1>5, OthersMayWrite DEF Kept

(* A synchronous call. *)
LEMMA PassesKept ==
  ASSUME TypeOK, AInv, NEW c \in Calls, Passes(c), MayWrite(c)
  PROVE  Kept
<1>1. QueueKeeps'
  BY QueueAfterPasses
<1>2. /\ op[c] = "none" /\ step'[c] = "done" /\ op'[c] # "appendFile" /\ UNCHANGED <<failed, appends>>
      /\ \A d \in Calls : d # c => /\ op'[d] = op[d] /\ step'[d] = step[d]
                                   /\ path'[d] = path[d] /\ replies'[d] = replies[d]
      /\ OthersKeep(c)
  BY DEF Passes, TypeOK, AInv, CallsInStep, OthersKeep
<1>3. DoneWereTold'
  BY <1>2 DEF AInv, DoneWereTold
<1>4. DataOfCalls'
  BY <1>2, DataStep DEF AInv
<1>5. UNCHANGED <<Standing, Target, AtEnd>> /\ Standing[c] = "idle"
  BY <1>2, NoStanding
<1> QED
  BY <1>1, <1>2, <1>3, <1>4, <1>5, OthersMayWrite DEF Kept

(* A link of a chain that queues the next one. *)
LEMMA MovesOnKept ==
  ASSUME TypeOK, AInv, NEW c \in Calls, MovesOn(c), MayWrite(c),
         [AppendLog!Next]_(AppendLog!logVars)
  PROVE  Kept
<1>1. QueueKeeps'
  BY QueueAfterMovesOn
<1>2. /\ step[c] # "none" /\ step'[c] \notin {"none", "done"} /\ UNCHANGED <<op, replies>>
      /\ \A d \in Calls : d # c => step'[d] = step[d]
  BY DEF MovesOn, TypeOK
<1>3. DoneWereTold'
  BY <1>2 DEF AInv, DoneWereTold
<1>4. DataOfCalls'
  BY <1>2, DataStep DEF AInv
<1> QED
  BY <1>1, <1>3, <1>4 DEF Kept

(* The last link of a chain, which tells how the append went. *)
LEMMA LastLinkKept ==
  ASSUME TypeOK, AInv, NEW c \in Calls, Leaves(c), UNCHANGED data,
         Head(replies'[c]) \in {"ok", "error"}, [AppendLog!Next]_(AppendLog!logVars)
  PROVE  Kept
<1>1. QueueKeeps'
  BY QueueAfterLeaves
<1>2. /\ step'[c] = "done" /\ UNCHANGED op
      /\ \A d \in Calls : d # c => step'[d] = step[d] /\ replies'[d] = replies[d]
  BY DEF Leaves, TypeOK
<1>3. DoneWereTold'
  BY <1>2 DEF AInv, DoneWereTold
<1>4. DataOfCalls'
  BY <1>2, DataStep DEF AInv, MayWrite
<1> QED
  BY <1>1, <1>3, <1>4 DEF Kept

LEMMA AppendStep == IInv /\ AInv /\ Next => Kept
<1> SUFFICES ASSUME IInv, AInv, Next PROVE Kept
  OBVIOUS
<1>0. TypeOK /\ CallsInStep /\ FdsInUse /\ OneOwner
  BY DEF IInv, AInv
<1>1. ASSUME NEW c \in Calls, Enters(c) PROVE Kept
  BY <1>0, <1>1, EntersKept
<1>2. ASSUME NEW c \in Calls, RunsAlone(c) PROVE Kept
  <2>1. Leaves(c) /\ step[c] \notin {"open", "write", "close", "done"} /\ MayWrite(c)
    <3>1. DataKept(c)
      BY <1>0, <1>2, RunsKeepData DEF RunsAlone
    <3> QED
      BY <1>0, <1>2, <3>1, RunsAloneLeaves DEF Leaves, Waiting, DataKept
  <2>2. op[c] # "appendFile"
    BY <1>0, <2>1 DEF CallsInStep
  <2> QED
    BY <1>0, <2>1, <2>2, OrdinaryKept
<1>3. ASSUME NEW c \in Calls, RunOpen(c) PROVE Kept
  <2>1. /\ Due(c, step[c]) /\ Waiting(c) /\ step[c] = "open"
        /\ UNCHANGED <<op, path, flag, place, failed, appends>>
    BY <1>3 DEF RunOpen, Due, Waiting
  <2>2. MayWrite(c)
    BY <1>0, <1>3, RunsKeepData DEF DataKept
  <2>3. CASE op[c] # "appendFile"
    <3>1. Finish(c, "ok") \/ Finish(c, "error")
      BY <1>3, <2>3 DEF RunOpen, OpenSucceeds, OpenFails
    <3>2. Leaves(c)
      BY <1>0, <2>1, <3>1, FinishingLeaves
    <3> QED
      BY <1>0, <2>2, <2>3, <3>2, OrdinaryKept
  <2>4. CASE op[c] = "appendFile"
    <3>1. [AppendLog!Next]_(AppendLog!logVars)
      BY <1>0, <1>3, <2>4, OpenTellsOfFailure
    <3>2. CASE OpenFails(c)
      <4>1. Leaves(c)
        BY <1>0, <2>1, <3>2, FinishingLeaves DEF OpenFails
      <4>2. Head(replies'[c]) = "error"
        BY <1>0, <2>1, <3>2, HeadOfFinish DEF OpenFails, Finish, TypeOK, CallsInStep
      <4> QED
        BY <1>0, <3>1, <3>2, <4>1, <4>2, LastLinkKept DEF OpenFails
    <3>3. CASE \E f \in Fds : OpenSucceeds(c, f)
      <4>1. Chain(c, "write")
        BY <2>4, <3>3 DEF OpenSucceeds
      <4>2. MovesOn(c)
        BY <1>0, <2>1, <2>4, <4>1 DEF MovesOn, Chain, TypeOK
      <4> QED
        BY <1>0, <2>2, <3>1, <4>2, MovesOnKept
    <3> QED
      BY <1>3, <3>2, <3>3 DEF RunOpen
  <2> QED
    BY <2>3, <2>4
<1>4. ASSUME NEW c \in Calls, RunWrite(c) PROVE Kept
  <2>1. /\ Due(c, step[c]) /\ Waiting(c) /\ step[c] = "write"
        /\ UNCHANGED <<op, path, flag, place, appends>> /\ MayWrite(c)
        /\ \E bad \in BOOLEAN : WriteDone(c, bad)
    <3>1. MayWrite(c)
      BY <1>0, <1>4, RunsKeepData DEF DataKept
    <3> QED
      BY <1>4, <3>1 DEF RunWrite, Due, Waiting
  <2>2. CASE op[c] # "appendFile"
    <3>1. Finish(c, "ok") \/ Finish(c, "error")
      BY <2>1, <2>2 DEF WriteDone
    <3>2. UNCHANGED failed
      BY <2>1, <2>2 DEF WriteDone
    <3>3. Leaves(c)
      BY <1>0, <2>1, <3>1, <3>2, FinishingLeaves
    <3> QED
      BY <1>0, <2>1, <2>2, <3>3, OrdinaryKept
  <2>3. CASE op[c] = "appendFile"
    <3>1. [AppendLog!Next]_(AppendLog!logVars)
      BY <1>0, <1>4, <2>3, WriteLandsOrFails DEF AppendLog!Next
    <3>2. Chain(c, "close")
      BY <2>1, <2>3 DEF WriteDone
    <3>3. MovesOn(c)
      BY <1>0, <2>1, <2>3, <3>2 DEF MovesOn, Chain, TypeOK
    <3> QED
      BY <1>0, <2>1, <3>1, <3>3, MovesOnKept
  <2> QED
    BY <2>2, <2>3
<1>5. ASSUME NEW c \in Calls, RunClose(c) PROVE Kept
  <2>1. /\ Due(c, step[c]) /\ Waiting(c) /\ step[c] = "close"
        /\ UNCHANGED <<op, path, flag, place, failed, data, appends>>
        /\ Finish(c, IF failed[c] THEN "error" ELSE "ok")
    BY <1>5 DEF RunClose, Due, Waiting
  <2>2. Leaves(c)
    BY <1>0, <2>1, FinishingLeaves
  <2>3. CASE op[c] # "appendFile"
    BY <1>0, <2>1, <2>2, <2>3, OrdinaryKept DEF MayWrite
  <2>4. CASE op[c] = "appendFile"
    <3>1. [AppendLog!Next]_(AppendLog!logVars)
      BY <1>0, <1>5, <2>4, CloseTells DEF AppendLog!Next
    <3>2. Head(replies'[c]) \in {"ok", "error"}
      BY <1>0, <2>1, HeadOfFinish DEF Finish, TypeOK, CallsInStep
    <3> QED
      BY <1>0, <2>1, <2>2, <3>1, <3>2, LastLinkKept
  <2> QED
    BY <2>3, <2>4
<1>6. ASSUME NEW c \in Calls, RunsAtOnce(c) PROVE Kept
  <2>1. MayWrite(c)
    BY <1>6 DEF RunsAtOnce, DataKept
  <2>2. Passes(c)
    <3>1. replies' = [replies EXCEPT ![c] = replies'[c]]
      BY <1>0, <1>6 DEF RunsAtOnce, TypeOK
    <3> QED
      BY <1>0, <1>6, <3>1 DEF Passes, RunsAtOnce
  <2> QED
    BY <1>0, <2>1, <2>2, PassesKept
<1>7. ASSUME NEW f \in Fds, CloseSync(f) PROVE Kept
  BY <1>7 DEF CloseSync, callVars, Kept, AInv, QueueKeeps, CallsInStep, NoOvertaking, Waiting,
     DoneWereTold, DataOfCalls, AppendLog!logVars, Standing, Target, AtEnd, OnlyAppends, Pledged
<1> QED
  BY <1>0, <1>1, <1>2, <1>3, <1>4, <1>5, <1>6, <1>7, StepShapes

(* The invariant holds at the start, and every step keeps it.              *)
LEMMA AppendStart == Init => AInv /\ AppendLog!Init
<1> SUFFICES ASSUME Init PROVE AInv /\ AppendLog!Init
  OBVIOUS
<1>1. \A c \in Calls : Pledged(c) = "idle"
  BY DEF Init, Pledged
<1>2. \A x, y : ~In(<<>>, x) /\ ~Precedes(<<>>, x, y)
  BY DEF In, Precedes
<1>3. AInv
  BY <1>2 DEF Init, AInv, Distinct, CallsInStep, Waiting, DoneWereTold, DataOfCalls,
     ChainsKeepTheirFile, NoOvertaking
<1>4. AppendLog!Init
  BY <1>1 DEF Init, AppendLog!Init, Standing, Target, AtEnd
<1> QED
  BY <1>3, <1>4

LEMMA AppendNext ==
  IInv /\ AInv /\ [Next]_vars => AInv' /\ [AppendLog!Next]_(AppendLog!logVars)
<1> SUFFICES ASSUME IInv, AInv, [Next]_vars
             PROVE  AInv' /\ [AppendLog!Next]_(AppendLog!logVars)
  OBVIOUS
<1>1. CASE Next
  BY <1>1, AppendStep, ChainsStep DEF Kept, QueueKeeps, AInv
<1>2. CASE UNCHANGED vars
  BY <1>2 DEF vars, callVars, AInv, CallsInStep, NoOvertaking, Waiting, DoneWereTold,
     DataOfCalls, ChainsKeepTheirFile, AppendLog!logVars, Standing, Target, AtEnd, OnlyAppends,
     Pledged
<1> QED
  BY <1>1, <1>2

(* appendFile does what AppendLog says.                                    *)
THEOREM AppendFileIsALog == Spec => AppendLogSpec
BY AppendStart, AppendNext, IInvInductive, PTL DEF Spec, AppendLogSpec, AppendLog!Spec

(* Calls keep in step with the queue, appends do not overtake each other   *)
(* and chains keep the file they opened.                                   *)
THEOREM CallsKeepInStep == Spec => []AInv
BY AppendStart, AppendNext, IInvInductive, PTL DEF Spec


-----------------------------------------------------------------------------
(* Answers.                                                                *)

(* What one invocation of a callback, or two, leave in replies.            *)
LEMMA OneReply ==
  ASSUME NEW S, NEW r \in S
  PROVE  \A i \in DOMAIN <<r>> : i = 1
  OBVIOUS

LEMMA LookBehind ==
  ASSUME NEW S, NEW q \in Seq(S), NEW t \in Seq(S), NEW i \in 1..Len(t)
  PROVE  (q \o t)[Len(q) + i] = t[i] /\ Len(q \o t) = Len(q) + Len(t) /\ q \o t \in Seq(S)
<1>1. Len(q) \in Nat /\ Len(t) \in Nat
  OBVIOUS
<1>2. Len(q \o t) = Len(q) + Len(t)
  OBVIOUS
<1>3. q \o t \in Seq(S)
  OBVIOUS
<1>4. (q \o t)[Len(q) + i] = t[i]
  BY <1>1
<1> QED
  BY <1>2, <1>3, <1>4

LEMMA TwoReplies ==
  ASSUME NEW S, NEW r \in S, NEW e \in S
  PROVE  /\ \A i \in DOMAIN (<<>> \o <<r>> \o <<e>>) : i = 1 \/ i = 2
         /\ (<<>> \o <<r>> \o <<e>>)[2] = e
<1>1. <<r>> \in Seq(S) /\ <<e>> \in Seq(S) /\ Len(<<r>>) = 1 /\ Len(<<e>>) = 1 /\ <<e>>[1] = e
  OBVIOUS
<1>2. <<>> \o <<r>> = <<r>>
  BY <1>1
<1> DEFINE q == <<r>>
           t == <<e>>
<1>3. q \in Seq(S) /\ t \in Seq(S) /\ Len(q) = 1 /\ Len(t) = 1 /\ t[1] = e
  BY <1>1
<1> HIDE DEF q, t
<1>4. Len(q \o t) = 2 /\ (q \o t)[2] = e /\ q \o t \in Seq(S)
  <2>1. 1 \in 1..Len(t)
    BY <1>3
  <2>2. /\ (q \o t)[Len(q) + 1] = t[1]
        /\ Len(q \o t) = Len(q) + Len(t) /\ q \o t \in Seq(S)
    BY <1>3, <2>1, LookBehind
  <2> QED
    BY <1>3, <2>2
<1>5. DOMAIN (q \o t) = 1..2
  BY <1>4
<1>6. (\A i \in DOMAIN (q \o t) : i = 1 \/ i = 2) /\ (q \o t)[2] = e
  BY <1>4, <1>5
<1> QED
  BY <1>2, <1>6 DEF q, t

LEMMA FewReplies ==
  ASSUME NEW c \in Calls, NEW r \in {"ok", "error"}, NEW again \in Again(c)
  PROVE  \A i \in DOMAIN (<<>> \o <<r>> \o again) :
           i <= 2 /\ (i = 2 => (<<>> \o <<r>> \o again)[i] # "ok" /\ c \notin Promised)
<1> DEFINE s == <<>> \o <<r>> \o again
<1>1. CASE again = <<>>
  <2>1. s = <<r>>
    BY <1>1
  <2>2. \A i \in DOMAIN <<r>> : i = 1
    BY OneReply
  <2> HIDE DEF s
  <2> QED
    BY <2>1, <2>2 DEF s
<1>2. CASE again # <<>>
  <2>1. c \notin Promised /\ again = <<IF failed[c] THEN "error" ELSE "rethrown">>
    BY <1>2 DEF Again, OnlySettles
  <2>2. PICK e \in {"error", "rethrown"} : again = <<e>>
    BY <2>1
  <2>3. r \in Replies /\ e \in Replies /\ e # "ok"
    BY DEF Replies
  <2>4. /\ \A i \in DOMAIN (<<>> \o <<r>> \o <<e>>) : i = 1 \/ i = 2
        /\ (<<>> \o <<r>> \o <<e>>)[2] = e
    BY <2>3, TwoReplies
  <2>5. (\A i \in DOMAIN s : i = 1 \/ i = 2) /\ s[2] = e
    BY <2>2, <2>4
  <2> HIDE DEF s
  <2>6. \A i \in DOMAIN s : i <= 2 /\ (i = 2 => s[i] # "ok" /\ c \notin Promised)
    BY <2>1, <2>3, <2>5
  <2> QED
    BY <2>6 DEF s
<1> QED
  BY <1>1, <1>2

(* A call is answered once, when it is over.                               *)
LEMMA AnswerStep == IInv /\ AInv /\ SuccessIsToldOnceAndFirst /\ Next => SuccessIsToldOnceAndFirst'
<1> SUFFICES ASSUME IInv, AInv, SuccessIsToldOnceAndFirst, Next
             PROVE  SuccessIsToldOnceAndFirst'
  OBVIOUS
<1>0. TypeOK /\ OneOwner /\ CallsInStep
  BY DEF IInv, AInv
<1>1. CASE UNCHANGED replies
  BY <1>1 DEF SuccessIsToldOnceAndFirst
<1>2. ASSUME NEW c \in Calls, NEW s, replies' = [replies EXCEPT ![c] = s],
             \A i \in DOMAIN s : i <= 2 /\ (i = 2 => s[i] # "ok" /\ c \notin Promised)
      PROVE  SuccessIsToldOnceAndFirst'
  <2>1. replies'[c] = s /\ \A d \in Calls : d # c => replies'[d] = replies[d]
    BY <1>0, <1>2 DEF TypeOK
  <2> QED
    BY <1>2, <2>1 DEF SuccessIsToldOnceAndFirst
<1>10. ASSUME NEW c \in Calls, NEW r \in Replies, replies' = [replies EXCEPT ![c] = <<r>>]
       PROVE  SuccessIsToldOnceAndFirst'
  <2> DEFINE s == <<r>>
  <2>1. \A i \in DOMAIN s : i = 1
    BY OneReply
  <2>2. replies' = [replies EXCEPT ![c] = s]
    BY <1>10
  <2> HIDE DEF s
  <2>3. \A i \in DOMAIN s : i <= 2 /\ (i = 2 => s[i] # "ok" /\ c \notin Promised)
    BY <2>1
  <2> QED
    BY <1>2, <2>2, <2>3
<1>3. ASSUME NEW c \in Calls, replies[c] = <<>>, NEW r \in {"ok", "error"},
             Finish(c, r) \/ Refuse(c)
      PROVE  SuccessIsToldOnceAndFirst'
  <2>1. CASE Finish(c, r)
    <3>1. PICK again \in Again(c) : replies' = [replies EXCEPT ![c] = <<>> \o <<r>> \o again]
      BY <1>3, <2>1 DEF Finish
    <3>2. \A i \in DOMAIN (<<>> \o <<r>> \o again) :
            i <= 2 /\ (i = 2 => (<<>> \o <<r>> \o again)[i] # "ok" /\ c \notin Promised)
      BY FewReplies
    <3> QED
      BY <1>2, <3>1, <3>2
  <2>2. CASE Refuse(c)
    <3>1. replies' = [replies EXCEPT ![c] = <<"error">>]
      BY <1>3, <2>2 DEF Refuse
    <3> QED
      BY <1>10, <3>1 DEF Replies
  <2> QED
    BY <1>3, <2>1, <2>2
<1>4. ASSUME NEW c \in Calls, Waiting(c) PROVE replies[c] = <<>>
  BY <1>0, <1>4 DEF CallsInStep, Waiting
<1>5. ASSUME NEW c \in Calls, Enters(c) PROVE SuccessIsToldOnceAndFirst'
  BY <1>1, <1>5 DEF Enters
<1>6. ASSUME NEW c \in Calls, RunsAlone(c) PROVE SuccessIsToldOnceAndFirst'
  <2>1. Waiting(c) /\ (Finish(c, "ok") \/ Finish(c, "error") \/ Refuse(c))
    BY <1>6 DEF RunsAlone, RunRead, RunReadFile, RunWriteFile, RunTruncate, RunFtruncate,
       RunFdMeta, RunPathOp, Due, Waiting
  <2> QED
    BY <1>3, <1>4, <2>1
<1>7. ASSUME NEW c \in Calls, RunOpen(c) \/ RunWrite(c) \/ RunClose(c)
      PROVE  SuccessIsToldOnceAndFirst'
  <2>1. Waiting(c) /\ (Finish(c, "ok") \/ Finish(c, "error") \/ UNCHANGED replies)
    BY <1>7 DEF RunOpen, OpenSucceeds, OpenFails, RunWrite, WriteDone, RunClose, Chain, Due, Waiting
  <2> QED
    BY <1>1, <1>3, <1>4, <2>1
<1>8. ASSUME NEW c \in Calls, RunsAtOnce(c)
      PROVE  SuccessIsToldOnceAndFirst'
  <2>1. PICK r \in {"ok", "error"} : replies' = [replies EXCEPT ![c] = <<r>>]
    BY <1>8 DEF RunsAtOnce
  <2> QED
    BY <1>10, <2>1 DEF Replies
<1>9. ASSUME NEW f \in Fds, CloseSync(f) PROVE SuccessIsToldOnceAndFirst'
  BY <1>1, <1>9 DEF CloseSync
<1> QED
  BY <1>0, <1>5, <1>6, <1>7, <1>8, <1>9, StepShapes

(* A callback hears of success at most once and only first, and at most    *)
(* one more time after that; the promises hear once.                       *)
THEOREM SuccessIsNotRepeated == Spec => []SuccessIsToldOnceAndFirst
<1>1. Init => SuccessIsToldOnceAndFirst
  BY DEF Init, SuccessIsToldOnceAndFirst
<1>2. IInv /\ AInv /\ SuccessIsToldOnceAndFirst /\ [Next]_vars => SuccessIsToldOnceAndFirst'
  <2>1. UNCHANGED vars /\ SuccessIsToldOnceAndFirst => SuccessIsToldOnceAndFirst'
    BY DEF vars, SuccessIsToldOnceAndFirst
  <2> QED
    BY <2>1, AnswerStep
<1> QED
  BY <1>1, <1>2, AppendStart, AppendNext, IInvInductive, PTL DEF Spec

(* A call that is over was told something.                                 *)
OverMeansTold == \A c \in Calls : step[c] = "done" => replies[c] # <<>>

(* The callback of an immediate is invoked at least once.                  *)
LEMMA FinishTells ==
  ASSUME TypeOK, NEW c \in Calls, replies[c] = <<>>, NEW r \in {"ok", "error"},
         Finish(c, r) \/ Refuse(c)
  PROVE  \E s : s # <<>> /\ replies' = [replies EXCEPT ![c] = s] /\ step' = [step EXCEPT ![c] = "done"]
<1>1. CASE Finish(c, r)
  <2>1. PICK again \in Again(c) : replies' = [replies EXCEPT ![c] = <<>> \o <<r>> \o again]
    BY <1>1 DEF Finish
  <2>2. <<>> \o <<r>> \o again # <<>>
    <3>1. CASE again = <<>>
      BY <3>1
    <3>2. CASE again # <<>>
      <4>1. again = <<IF failed[c] THEN "error" ELSE "rethrown">>
        BY <3>2 DEF Again
      <4> QED
        BY <4>1
    <3> QED
      BY <3>1, <3>2
  <2> QED
    BY <1>1, <2>1, <2>2 DEF Finish
<1>2. CASE Refuse(c)
  <2>1. <<"error">> # <<>> /\ Append(<<>>, "error") = <<"error">>
    OBVIOUS
  <2> QED
    BY <1>2, <2>1 DEF Refuse
<1> QED
  BY <1>1, <1>2

LEMMA OverStep == IInv /\ AInv /\ OverMeansTold /\ Next => OverMeansTold'
<1> SUFFICES ASSUME IInv, AInv, OverMeansTold, Next PROVE OverMeansTold'
  OBVIOUS
<1>0. /\ TypeOK /\ OneOwner /\ CallsInStep /\ step \in [Calls -> Steps]
      /\ replies \in [Calls -> Seq(Replies)]
  BY DEF IInv, AInv, TypeOK
<1>1. ASSUME NEW c \in Calls, NEW s, s # "done", step' = [step EXCEPT ![c] = s], UNCHANGED replies
      PROVE  OverMeansTold'
  BY <1>0, <1>1 DEF OverMeansTold
<1>2. ASSUME NEW c \in Calls, NEW s, s # <<>>, replies' = [replies EXCEPT ![c] = s],
             step' = [step EXCEPT ![c] = "done"]
      PROVE  OverMeansTold'
  BY <1>0, <1>2 DEF OverMeansTold
<1>3. ASSUME NEW c \in Calls, Waiting(c), NEW r \in {"ok", "error"}, Finish(c, r) \/ Refuse(c)
      PROVE  OverMeansTold'
  <2>1. replies[c] = <<>>
    BY <1>0, <1>3 DEF CallsInStep, Waiting
  <2>2. PICK s : /\ s # <<>> /\ replies' = [replies EXCEPT ![c] = s]
                 /\ step' = [step EXCEPT ![c] = "done"]
    BY <1>0, <1>3, <2>1, FinishTells
  <2> QED
    BY <1>2, <2>2
<1>4. ASSUME NEW c \in Calls, Enters(c) PROVE OverMeansTold'
  BY <1>1, <1>4 DEF Enters
<1>5. ASSUME NEW c \in Calls, RunsAlone(c) PROVE OverMeansTold'
  <2>1. Waiting(c) /\ (Finish(c, "ok") \/ Finish(c, "error") \/ Refuse(c))
    BY <1>5 DEF RunsAlone, RunRead, RunReadFile, RunWriteFile, RunTruncate, RunFtruncate,
       RunFdMeta, RunPathOp, Due, Waiting
  <2> QED
    BY <1>3, <2>1
<1>6. ASSUME NEW c \in Calls, RunOpen(c) \/ RunWrite(c) \/ RunClose(c) PROVE OverMeansTold'
  <2>1. Waiting(c) /\ (Finish(c, "ok") \/ Finish(c, "error") \/ Chain(c, "write") \/ Chain(c, "close"))
    BY <1>6 DEF RunOpen, OpenSucceeds, OpenFails, RunWrite, WriteDone, RunClose, Due, Waiting
  <2>2. ASSUME NEW s \in {"write", "close"}, Chain(c, s) PROVE OverMeansTold'
    BY <1>1, <2>2 DEF Chain
  <2> QED
    BY <1>3, <2>1, <2>2
<1>7. ASSUME NEW c \in Calls, RunsAtOnce(c)
      PROVE  OverMeansTold'
  <2>1. step' = [step EXCEPT ![c] = "done"]
    BY <1>7 DEF RunsAtOnce
  <2>2. PICK r \in {"ok", "error"} : replies' = [replies EXCEPT ![c] = <<r>>]
    BY <1>7 DEF RunsAtOnce
  <2>3. <<r>> # <<>>
    OBVIOUS
  <2> QED
    BY <1>2, <2>1, <2>2, <2>3
<1>8. ASSUME NEW f \in Fds, CloseSync(f) PROVE OverMeansTold'
  BY <1>8 DEF CloseSync, callVars, OverMeansTold
<1> QED
  BY <1>0, <1>4, <1>5, <1>6, <1>7, <1>8, StepShapes

(* No call is lost: one that has not been answered stands in the queue of  *)
(* immediates, at one place, and has been told nothing; one that is over   *)
(* was told how it went.  What EveryCallIsAnswered adds is that the queue  *)
(* goes on.                                                                *)
THEOREM NoCallIsLost ==
  Spec => [](\A c \in Calls :
               /\ Waiting(c) => /\ replies[c] = <<>>
                                /\ \E i \in DOMAIN queue : \A j \in DOMAIN queue : queue[j] = c <=> j = i
               /\ step[c] = "done" => replies[c] # <<>>)
<1> DEFINE Accounted ==
             \A c \in Calls :
               /\ Waiting(c) => /\ replies[c] = <<>>
                                /\ \E i \in DOMAIN queue : \A j \in DOMAIN queue : queue[j] = c <=> j = i
               /\ step[c] = "done" => replies[c] # <<>>
<1>1. Init => OverMeansTold
  BY DEF Init, OverMeansTold
<1>2. IInv /\ AInv /\ OverMeansTold /\ [Next]_vars => OverMeansTold'
  <2>1. UNCHANGED vars /\ OverMeansTold => OverMeansTold'
    BY DEF vars, callVars, OverMeansTold
  <2> QED
    BY <2>1, OverStep
<1>3. AInv /\ OverMeansTold => Accounted
  BY DEF AInv, CallsInStep, Distinct, In, Waiting, OverMeansTold
<1> HIDE DEF Accounted
<1>4. Spec => []Accounted
  BY <1>1, <1>2, <1>3, AppendStart, AppendNext, IInvInductive, PTL DEF Spec
<1> QED
  BY <1>4 DEF Accounted

-----------------------------------------------------------------------------
(* Operations on descriptors.                                              *)

(* The program has asked for the close of c's descriptor after c.          *)
ClosesLater(c) ==
  \E d \in Calls : /\ op[d] = "close" /\ Waiting(d) /\ fdOf[d] = fdOf[c]
                   /\ Precedes(queue, c, d)

(* An operation that waits has its file open, because the program holds    *)
(* the descriptor or has given it back later than it asked for this.       *)
OpsInOrder ==
  \A c \in Calls : op[c] \in FdOps /\ Waiting(c) =>
    /\ step[c] = op[c] /\ desc[fdOf[c]] = aim[c]
    /\ op[c] = "close" \/ fdOf[c] \in held \/ ClosesLater(c)

(* Such an operation finds its descriptor open.                            *)
LEMMA WaitingOpsAreOpen ==
  ASSUME IInv, OpsInOrder, NEW c \in Calls, op[c] \in FdOps, Waiting(c)
  PROVE  fdOf[c] \in Fds /\ desc[fdOf[c]] # NoCall
<1>1. step[c] = op[c] /\ fdOf[c] \in Fds
  BY DEF IInv, OpsInOrder, FdsInUse
<1>2. CASE op[c] = "close"
  BY <1>1, <1>2 DEF IInv, OneOwner, WillClose
<1>3. CASE fdOf[c] \in held
  BY <1>1, <1>3 DEF IInv, OneOwner
<1>4. CASE ClosesLater(c)
  <2>1. PICK d \in Calls : op[d] = "close" /\ Waiting(d) /\ fdOf[d] = fdOf[c]
    BY <1>4 DEF ClosesLater
  <2>2. step[d] = "close"
    BY <2>1 DEF OpsInOrder, FdOps
  <2> QED
    BY <1>1, <2>1, <2>2 DEF IInv, OneOwner, WillClose
<1> QED
  BY <1>1, <1>2, <1>3, <1>4 DEF OpsInOrder

(* What waits on is in order when its file, its descriptor and those who   *)
(* close it later are left alone.                                          *)
LEMMA OrderKept ==
  ASSUME OpsInOrder,
         \A c \in Calls : op'[c] \in FdOps /\ Waiting(c)' =>
           /\ op'[c] = op[c] /\ step'[c] = step[c] /\ fdOf'[c] = fdOf[c] /\ aim'[c] = aim[c]
           /\ desc'[fdOf[c]] = desc[fdOf[c]]
           /\ fdOf[c] \in held => fdOf[c] \in held'
           /\ \A d \in Calls : op[d] = "close" /\ Waiting(d) /\ Precedes(queue, c, d) =>
                /\ op'[d] = "close" /\ Waiting(d)' /\ fdOf'[d] = fdOf[d]
                /\ Precedes(queue', c, d)
  PROVE  OpsInOrder'
<1> SUFFICES ASSUME NEW c \in Calls, op'[c] \in FdOps, Waiting(c)'
             PROVE  /\ step'[c] = op'[c] /\ desc'[fdOf'[c]] = aim'[c]
                    /\ op'[c] = "close" \/ fdOf'[c] \in held' \/ ClosesLater(c)'
  BY DEF OpsInOrder
<1>1. /\ op'[c] = op[c] /\ step'[c] = step[c] /\ fdOf'[c] = fdOf[c] /\ aim'[c] = aim[c]
      /\ desc'[fdOf[c]] = desc[fdOf[c]]
      /\ fdOf[c] \in held => fdOf[c] \in held'
  OBVIOUS
<1>2. op[c] \in FdOps /\ Waiting(c)
  BY <1>1 DEF Waiting
<1>3. ClosesLater(c) => ClosesLater(c)'
  BY <1>1 DEF ClosesLater
<1> QED
  BY <1>1, <1>2, <1>3 DEF OpsInOrder

(* An immediate runs: c is none of those that wait any longer.             *)
LEMMA OrderAfterImmediate ==
  ASSUME IInv, AInv, OpsInOrder, NEW c \in Calls, Due(c, step[c]),
         queue' = Tail(queue) \/ queue' = Append(Tail(queue), c),
         \A d \in Calls : d # c => /\ op'[d] = op[d] /\ step'[d] = step[d]
                                   /\ fdOf'[d] = fdOf[d] /\ aim'[d] = aim[d],
         op'[c] \notin FdOps \/ step'[c] = "done",
         held \subseteq held',
         \A d \in Calls : d # c /\ op[d] \in FdOps /\ Waiting(d) => desc'[fdOf[d]] = desc[fdOf[d]]
  PROVE  OpsInOrder'
<1>1. /\ queue \in Seq(Calls) /\ queue # <<>> /\ Head(queue) = c /\ Distinct(queue)
  BY DEF IInv, TypeOK, AInv, Due
<1>2. /\ Tail(queue) \in Seq(Calls)
      /\ \A x, y : Precedes(queue, x, y) /\ x # c => Precedes(Tail(queue), x, y)
      /\ \A x : ~Precedes(queue, x, c)
  BY <1>1, FirstLeft
<1>3. \A x, y : Precedes(queue, x, y) /\ x # c => Precedes(queue', x, y)
  <2>1. PICK q \in Seq(Calls) : q = Tail(queue)
    BY <1>2
  <2>2. \A x, y : Precedes(q, x, y) => Precedes(Append(q, c), x, y)
    BY AppendedLast
  <2> QED
    BY <1>2, <2>1, <2>2
<1>4. ASSUME NEW d \in Calls, op'[d] \in FdOps, Waiting(d)'
      PROVE  /\ op'[d] = op[d] /\ step'[d] = step[d] /\ fdOf'[d] = fdOf[d] /\ aim'[d] = aim[d]
             /\ desc'[fdOf[d]] = desc[fdOf[d]]
             /\ fdOf[d] \in held => fdOf[d] \in held'
             /\ \A e \in Calls : op[e] = "close" /\ Waiting(e) /\ Precedes(queue, d, e) =>
                  /\ op'[e] = "close" /\ Waiting(e)' /\ fdOf'[e] = fdOf[e]
                  /\ Precedes(queue', d, e)
  <2>1. d # c
    BY <1>4 DEF Waiting
  <2>2. /\ op'[d] = op[d] /\ step'[d] = step[d] /\ fdOf'[d] = fdOf[d] /\ aim'[d] = aim[d]
        /\ op[d] \in FdOps /\ Waiting(d)
    BY <1>4, <2>1 DEF Waiting
  <2>3. ASSUME NEW e \in Calls, op[e] = "close", Waiting(e), Precedes(queue, d, e)
        PROVE  /\ op'[e] = "close" /\ Waiting(e)' /\ fdOf'[e] = fdOf[e]
               /\ Precedes(queue', d, e)
    <3>1. e # c
      BY <1>2, <2>3
    <3> QED
      BY <1>3, <2>1, <2>3, <3>1 DEF Waiting
  <2> QED
    BY <2>1, <2>2, <2>3
<1> QED
  BY <1>4, OrderKept

(* A call is made, on a descriptor the program holds or on none; it may    *)
(* take that descriptor back from the program.                             *)
LEMMA OrderAfterCall ==
  ASSUME IInv, AInv, OpsInOrder, NEW c \in Calls, NEW o, NEW s, NEW p, NEW f,
         Issue(c, o, s, p, f),
         \/ o \notin FdOps /\ UNCHANGED held
         \/ f \in held /\ s = o /\ UNCHANGED held
         \/ f \in held /\ s = o /\ o = "close" /\ held' = held \ {f}
  PROVE  OpsInOrder'
<1>1. /\ step[c] = "none" /\ queue' = Append(queue, c)
      /\ step'[c] = s /\ op'[c] = o /\ fdOf'[c] = f
      /\ aim'[c] = IF f = NoFd THEN c ELSE desc[f]
      /\ \A d \in Calls : d # c => /\ op'[d] = op[d] /\ step'[d] = step[d]
                                   /\ fdOf'[d] = fdOf[d] /\ aim'[d] = aim[d]
      /\ desc' = desc
  BY DEF Issue, IInv, TypeOK
<1>2. /\ \A x, y : Precedes(queue, x, y) => Precedes(queue', x, y)
      /\ \A x : In(queue, x) => Precedes(queue', x, c)
  BY <1>1, AppendedLast DEF IInv, TypeOK
<1>3. ASSUME NEW d \in Calls, op'[d] \in FdOps, Waiting(d)'
      PROVE  /\ step'[d] = op'[d] /\ desc'[fdOf'[d]] = aim'[d]
             /\ op'[d] = "close" \/ fdOf'[d] \in held' \/ ClosesLater(d)'
  <2>1. CASE d = c
    <3>1. f \in held /\ s = o /\ (o = "close" \/ f \in held')
      BY <1>1, <1>3, <2>1
    <3>2. f # NoFd
      BY <3>1, FdsAreNumbers DEF IInv, TypeOK, NoFd
    <3> QED
      BY <1>1, <2>1, <3>1, <3>2
  <2>2. CASE d # c
    <3>1. /\ op'[d] = op[d] /\ step'[d] = step[d] /\ fdOf'[d] = fdOf[d] /\ aim'[d] = aim[d]
          /\ op[d] \in FdOps /\ Waiting(d) /\ In(queue, d)
      BY <1>1, <1>3, <2>2 DEF Waiting, AInv, CallsInStep
    <3>2. ClosesLater(d) => ClosesLater(d)'
      <4>1. ASSUME NEW e \in Calls, op[e] = "close", Waiting(e), fdOf[e] = fdOf[d],
                   Precedes(queue, d, e)
            PROVE  ClosesLater(d)'
        <5>1. e # c
          BY <1>1, <4>1 DEF Waiting
        <5>2. op'[e] = "close" /\ Waiting(e)' /\ fdOf'[e] = fdOf'[d] /\ Precedes(queue', d, e)
          BY <1>1, <1>2, <3>1, <4>1, <5>1 DEF Waiting
        <5> QED
          BY <5>2 DEF ClosesLater
      <4> QED
        BY <4>1 DEF ClosesLater
    <3>3. fdOf[d] \in held => fdOf'[d] \in held' \/ ClosesLater(d)'
      <4>1. CASE fdOf[d] \in held'
        BY <3>1, <4>1
      <4>2. CASE fdOf[d] \in held /\ fdOf[d] \notin held'
        <5>1. o = "close" /\ s = "close" /\ fdOf[d] = f
          BY <4>2
        <5>2. op'[c] = "close" /\ Waiting(c)' /\ fdOf'[c] = fdOf'[d] /\ Precedes(queue', d, c)
          BY <1>1, <1>2, <3>1, <5>1 DEF Waiting
        <5> QED
          BY <5>2 DEF ClosesLater
      <4> QED
        BY <4>1, <4>2
    <3> QED
      BY <1>1, <3>1, <3>2, <3>3 DEF OpsInOrder
  <2> QED
    BY <2>1, <2>2
<1> QED
  BY <1>3 DEF OpsInOrder

LEMMA OrderStep == IInv /\ AInv /\ OpsInOrder /\ Next => OpsInOrder'
<1> SUFFICES ASSUME IInv, AInv, OpsInOrder, Next PROVE OpsInOrder'
  OBVIOUS
<1>0. TypeOK /\ FdsInUse /\ OneOwner /\ CallsInStep
  BY DEF IInv, AInv
<1>1. ASSUME NEW c \in Calls, PathCall(c)
      PROVE  OpsInOrder'
  <2>1. PICK p \in Paths, o \in Ops \ FdOps, s \in Steps : Issue(c, o, s, p, NoFd) /\ UNCHANGED held
    BY <1>1 DEF PathCall, Steps
  <2> QED
    BY <2>1, OrderAfterCall
<1>2. ASSUME NEW c \in Calls, NEW f \in Fds, FdCall(c, f)
      PROVE  OpsInOrder'
  <2>1. PICK s \in FdOps : /\ f \in held /\ Issue(c, s, s, FileAt(f), f)
                           /\ held' = IF s = "close" THEN held \ {f} ELSE held
    BY <1>2 DEF FdCall
  <2> QED
    BY <2>1, OrderAfterCall
<1>4. ASSUME NEW c \in Calls, RunsAlone(c) PROVE OpsInOrder'
  <2>1. /\ Leaves(c) /\ UNCHANGED <<desc, fdOf>>
    BY <1>0, <1>4, RunsAloneLeaves
  <2>2. UNCHANGED <<aim, held>>
    BY <1>4 DEF RunsAlone, RunRead, RunReadFile, RunWriteFile, RunTruncate, RunFtruncate,
       RunFdMeta, RunPathOp
  <2>3. /\ Due(c, step[c]) /\ queue' = Tail(queue) /\ step'[c] = "done"
        /\ \A d \in Calls : d # c => step'[d] = step[d]
        /\ UNCHANGED op
    BY <1>0, <2>1 DEF Leaves, TypeOK
  <2> QED
    BY <2>1, <2>2, <2>3, OrderAfterImmediate
<1>5. ASSUME NEW c \in Calls, RunOpen(c) PROVE OpsInOrder'
  <2>1. /\ Due(c, step[c]) /\ step[c] = "open" /\ UNCHANGED <<op, aim>>
        /\ queue' = Tail(queue) \/ queue' = Append(Tail(queue), c)
        /\ \A d \in Calls : d # c => step'[d] = step[d] /\ fdOf'[d] = fdOf[d]
        /\ held \subseteq held'
        /\ \A f \in Fds : desc[f] # NoCall => desc'[f] = desc[f]
    BY <1>0, <1>5 DEF RunOpen, OpenSucceeds, OpenFails, Finish, Chain, Due, Lowest, Free, TypeOK
  <2>2. op[c] \notin FdOps
    BY <2>1 DEF OpsInOrder, Waiting, FdOps
  <2>3. \A d \in Calls : op[d] \in FdOps /\ Waiting(d) => desc'[fdOf[d]] = desc[fdOf[d]]
    BY <2>1, WaitingOpsAreOpen
  <2> QED
    BY <2>1, <2>2, <2>3, OrderAfterImmediate
<1>6. ASSUME NEW c \in Calls, RunWrite(c) PROVE OpsInOrder'
  <2>1. /\ Due(c, step[c]) /\ UNCHANGED <<op, fdOf, aim, desc, held>>
        /\ queue' = Tail(queue) \/ queue' = Append(Tail(queue), c)
        /\ \A d \in Calls : d # c => step'[d] = step[d]
        /\ op[c] = "appendFile" \/ step'[c] = "done"
    BY <1>0, <1>6 DEF RunWrite, WriteDone, Finish, Chain, Due, TypeOK
  <2>2. op[c] \notin FdOps \/ step'[c] = "done"
    BY <2>1 DEF FdOps
  <2> QED
    BY <2>1, <2>2, OrderAfterImmediate
<1>7. ASSUME NEW c \in Calls, RunClose(c) PROVE OpsInOrder'
  <2>1. /\ Due(c, step[c]) /\ step[c] = "close" /\ UNCHANGED <<op, fdOf, aim, held>>
        /\ queue' = Tail(queue) /\ step'[c] = "done"
        /\ \A d \in Calls : d # c => step'[d] = step[d]
        /\ desc' = [desc EXCEPT ![fdOf[c]] = NoCall]
        /\ fdOf[c] \in Fds /\ WillClose(c, fdOf[c])
    BY <1>0, <1>7 DEF RunClose, Finish, Due, TypeOK, FdsInUse, FdOps, WillClose
  <2>2. ASSUME NEW d \in Calls, d # c, op[d] \in FdOps, Waiting(d), fdOf[d] = fdOf[c]
        PROVE  FALSE
    <3>1. step[d] = op[d] /\ ~WillClose(d, fdOf[c])
      BY <1>0, <2>1, <2>2 DEF OpsInOrder, OneOwner
    <3>2. fdOf[d] \notin held /\ op[d] # "close"
      BY <1>0, <2>1, <2>2, <3>1 DEF OneOwner, WillClose
    <3>3. PICK e \in Calls : op[e] = "close" /\ Waiting(e) /\ fdOf[e] = fdOf[d] /\ Precedes(queue, d, e)
      BY <2>2, <3>2 DEF OpsInOrder, ClosesLater
    <3>4. WillClose(e, fdOf[c])
      BY <2>2, <3>3 DEF OpsInOrder, WillClose, FdOps
    <3>5. e = c
      BY <1>0, <2>1, <3>4 DEF OneOwner
    <3>6. ~Precedes(queue, d, c)
      BY <1>0, <2>1, FirstLeft DEF TypeOK, Due, AInv
    <3> QED
      BY <3>3, <3>5, <3>6
  <2>3. \A d \in Calls : d # c /\ op[d] \in FdOps /\ Waiting(d) => desc'[fdOf[d]] = desc[fdOf[d]]
    BY <1>0, <2>1, <2>2, WaitingOpsAreOpen DEF TypeOK
  <2> QED
    BY <2>1, <2>3, OrderAfterImmediate
<1>8. ASSUME NEW c \in Calls, RunsAtOnce(c)
      PROVE  OpsInOrder'
  <2>1. /\ step[c] = "none" /\ step'[c] = "done" /\ UNCHANGED queue
        /\ \A d \in Calls : d # c => /\ op'[d] = op[d] /\ step'[d] = step[d]
                                     /\ fdOf'[d] = fdOf[d] /\ aim'[d] = aim[d]
        /\ held \subseteq held'
        /\ \A f \in Fds : desc[f] # NoCall => desc'[f] = desc[f]
    BY <1>0, <1>8 DEF RunsAtOnce, Lowest, Free, TypeOK
  <2>2. ASSUME NEW d \in Calls, op'[d] \in FdOps, Waiting(d)'
        PROVE  /\ op'[d] = op[d] /\ step'[d] = step[d] /\ fdOf'[d] = fdOf[d] /\ aim'[d] = aim[d]
               /\ desc'[fdOf[d]] = desc[fdOf[d]]
               /\ fdOf[d] \in held => fdOf[d] \in held'
               /\ \A e \in Calls : op[e] = "close" /\ Waiting(e) /\ Precedes(queue, d, e) =>
                    /\ op'[e] = "close" /\ Waiting(e)' /\ fdOf'[e] = fdOf[e]
                    /\ Precedes(queue', d, e)
    <3>1. d # c
      BY <2>1, <2>2 DEF Waiting
    <3>2. op[d] \in FdOps /\ Waiting(d)
      BY <2>1, <2>2, <3>1 DEF Waiting
    <3>3. desc'[fdOf[d]] = desc[fdOf[d]]
      BY <2>1, <3>2, WaitingOpsAreOpen
    <3>4. \A e \in Calls : Waiting(e) => e # c
      BY <2>1 DEF Waiting
    <3> QED
      BY <2>1, <3>1, <3>3, <3>4 DEF Waiting
  <2> QED
    BY <2>2, OrderKept
<1>9. ASSUME NEW f \in Fds, CloseSync(f) PROVE OpsInOrder'
  <2>1. /\ UNCHANGED <<op, step, fdOf, aim, queue>>
        /\ \A d \in Calls : Waiting(d) => fdOf[d] # f
        /\ desc' = [desc EXCEPT ![f] = NoCall] /\ held' = held \ {f}
    BY <1>9 DEF CloseSync, callVars
  <2>2. \A d \in Calls : op[d] \in FdOps /\ Waiting(d) => desc'[fdOf[d]] = desc[fdOf[d]]
    BY <1>0, <2>1, WaitingOpsAreOpen DEF TypeOK
  <2> QED
    BY <2>1, <2>2, OrderKept DEF Waiting
<1>10. CASE RunImmediate
  BY <1>4, <1>5, <1>6, <1>7, <1>10, Zenon DEF RunImmediate, RunsAlone
<1>11. CASE Program
  BY <1>0, <1>1, <1>2, <1>8, <1>9, <1>11, ProgramShape
<1> QED
  BY <1>10, <1>11 DEF Next

(* An operation queued on a descriptor finds behind it the file that was   *)
(* open when the program asked for it, for any calls and descriptors: the  *)
(* close it may have queued since comes later in the one queue there is.   *)
THEOREM OpsKeepTheirFile == Spec => []QueuedOpsKeepTheirFile
<1>1. Init => OpsInOrder
  BY DEF Init, OpsInOrder, Waiting
<1>2. IInv /\ AInv /\ OpsInOrder /\ [Next]_vars => OpsInOrder'
  <2>1. UNCHANGED vars /\ OpsInOrder => OpsInOrder'
    BY DEF vars, callVars, OpsInOrder, Waiting, ClosesLater
  <2> QED
    BY <2>1, OrderStep
<1>3. OpsInOrder => QueuedOpsKeepTheirFile
  BY DEF OpsInOrder, QueuedOpsKeepTheirFile
<1> QED
  BY <1>1, <1>2, <1>3, AppendStart, AppendNext, IInvInductive, PTL DEF Spec

=============================================================================
