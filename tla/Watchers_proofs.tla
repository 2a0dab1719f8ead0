--------------------------- MODULE Watchers_proofs ---------------------------
(***************************************************************************)
(* Proofs about what programs are told of changes.  First a directory that *)
(* is listed and watched: what a readdir tells of each name, and what a    *)
(* closed watcher learns, for any names, any calls and any number of       *)
(* changes by others.  Then watchFile and unwatchFile, for any listeners,  *)
(* throwing or not, and any number of watchers and of changes to the file. *)
(***************************************************************************)
EXTENDS WatchedDirectory, StatWatcher, WellFoundedInduction, TLAPS

-----------------------------------------------------------------------------
(* A directory that is listed and watched                                  *)

(* What one Dirent says of a name is true of a moment of the readdir. *)
Tells(n) ==
  /\ seen[n] \in Kinds => seen[n] \in during[n]
  /\ seen[n] = "unknown" => "absent" \in during[n] \/ n \in refused
  /\ during[n] # {} /\ "absent" \notin during[n] =>
       seen[n] \in Kinds \/ (seen[n] = "unknown" /\ n \in refused)

(* A readdir under way knows what every name has been so far; names it is  *)
(* done with are told of truly; it does not end before it has no more.     *)
ListingInv ==
  /\ listing => \A n \in Names : entries[n] \in during[n]
  /\ \A n \in Names : n \notin todo => Tells(n)
  /\ ~listing => todo = {}
  /\ listing => queue # <<>>

(* A call is in the queue at most once, while it has its job to do. *)
JobsToDo ==
  /\ \A i \in DOMAIN queue : queue[i] \in Calls => job[queue[i]] \in Jobs
  /\ \A i, j \in DOMAIN queue : queue[i] = queue[j] => i = j

(* Only an open watcher is watched for. *)
DeafUnlessOpen == native => watcher = "open"

IInv == WatchedTypeOK /\ ListingInv /\ JobsToDo /\ DeafUnlessOpen

(* The queue of immediates: empty, appended to and taken from. *)
LEMMA NoQueue ==
  ASSUME NEW S
  PROVE  <<>> \in Seq(S)
  OBVIOUS

LEMMA QueueTypes ==
  ASSUME NEW S, NEW q \in Seq(S), NEW c \in S
  PROVE  /\ Append(q, c) \in Seq(S)
         /\ DOMAIN Append(q, c) = DOMAIN q \union {Len(q) + 1}
         /\ Len(q) + 1 \notin DOMAIN q
         /\ \A i \in DOMAIN q : Append(q, c)[i] = q[i]
         /\ Append(q, c)[Len(q) + 1] = c
  OBVIOUS

LEMMA TailTypes ==
  ASSUME NEW S, NEW q \in Seq(S), q # <<>>
  PROVE  /\ Tail(q) \in Seq(S) /\ Head(q) \in S
         /\ 1 \in DOMAIN q /\ Head(q) = q[1]
         /\ \A i \in DOMAIN Tail(q) : i + 1 \in DOMAIN q /\ i + 1 # 1 /\ Tail(q)[i] = q[i + 1]
  OBVIOUS

(* A native call leaves a directory whose names name what names can. *)
LEMMA OutcomesAreDirectories ==
  ASSUME entries \in [Names -> Contents], NEW j \in Jobs, j.op # "exists",
         NEW e \in Outcomes(j)
  PROVE  e \in [Names -> Contents]
<1> DEFINE was == entries[j.at]
           there == entries[j.to]
<1>1. /\ j.at \in Names /\ j.to \in Names
      /\ j.op \in Lookups \union Changes \union Moves
  BY DEF Jobs
<1>2. was \in Contents /\ there \in Contents
  BY <1>1
<1>3. \A n \in Names, k \in Contents : With(n, k) \in [Names -> Contents]
  BY DEF With
<1>4. {"file", "dir", "link", "absent"} \subseteq Contents
  BY DEF Contents, Kinds
<1>5. ASSUME NEW cond, NEW x \in [Names -> Contents], e \in If(cond, x)
      PROVE  e \in [Names -> Contents]
  BY <1>5 DEF If
<1>6. CASE j.op = "access"
  BY <1>5, <1>6 DEF Outcomes
<1>7. CASE j.op \in {"mkdir", "mkdirRecursive", "unlink", "rmdir", "rm", "symlink"}
  BY <1>1, <1>3, <1>4, <1>5, <1>7 DEF Outcomes
<1>8. CASE j.op = "mkdtemp"
  BY <1>3, <1>4, <1>8 DEF Outcomes
<1>9. CASE j.op \in {"link", "copyFile"}
  BY <1>1, <1>2, <1>3, <1>4, <1>5, <1>9 DEF Outcomes
<1>10. CASE j.op = "cp"
  BY <1>1, <1>2, <1>3, <1>5, <1>10 DEF Outcomes
<1>11. CASE j.op = "rename"
  <2>1. [With(j.to, was) EXCEPT ![j.at] = "absent"] \in [Names -> Contents]
    BY <1>1, <1>2, <1>3, <1>4
  <2> QED
    BY <1>5, <1>11, <2>1 DEF Outcomes
<1> QED
  BY <1>1, <1>6, <1>7, <1>8, <1>9, <1>10, <1>11 DEF Lookups, Changes, Moves

-----------------------------------------------------------------------------
(* The queue.                                                              *)

(* A call that is not queued may be, with a job to do. *)
LEMMA Enqueue ==
  ASSUME TypeOK, JobsToDo, NEW c \in Calls \union {Listing}, ~Queued(c),
         queue' = Append(queue, c),
         \A d \in Calls : d # c => job'[d] = job[d], c \in Calls => job'[c] \in Jobs
  PROVE  queue' \in Seq(Calls \union {Listing}) /\ JobsToDo'
<1>1. queue \in Seq(Calls \union {Listing})
  BY DEF TypeOK
<1>2. /\ queue' \in Seq(Calls \union {Listing})
      /\ DOMAIN queue' = DOMAIN queue \union {Len(queue) + 1}
      /\ Len(queue) + 1 \notin DOMAIN queue
      /\ \A i \in DOMAIN queue : queue'[i] = queue[i]
      /\ queue'[Len(queue) + 1] = c
  BY <1>1, QueueTypes
<1>3. \A i \in DOMAIN queue : queue[i] # c
  BY DEF Queued
<1> QED
  BY <1>2, <1>3 DEF JobsToDo

(* The call that runs leaves the queue, and the others their jobs to do.   *)
LEMMA Dequeue ==
  ASSUME TypeOK, JobsToDo, queue # <<>>, queue' = Tail(queue),
         \A d \in Calls : d # Head(queue) => job'[d] = job[d]
  PROVE  /\ queue' \in Seq(Calls \union {Listing}) /\ JobsToDo'
         /\ Head(queue) \in Calls \union {Listing}
         /\ Head(queue) \in Calls => job[Head(queue)] \in Jobs
<1>1. queue \in Seq(Calls \union {Listing})
  BY DEF TypeOK
<1>2. /\ queue' \in Seq(Calls \union {Listing}) /\ Head(queue) \in Calls \union {Listing}
      /\ 1 \in DOMAIN queue /\ Head(queue) = queue[1]
      /\ \A i \in DOMAIN queue' : i + 1 \in DOMAIN queue /\ i + 1 # 1 /\ queue'[i] = queue[i + 1]
  BY <1>1, TailTypes, Zenon
<1>3. \A i \in DOMAIN queue' : i \in Nat
  BY <1>2
<1>4. \A i \in DOMAIN queue' : queue'[i] # Head(queue)
  BY <1>2 DEF JobsToDo
<1>5. \A i, j \in DOMAIN queue' : queue'[i] = queue'[j] => i = j
  BY <1>2, <1>3 DEF JobsToDo
<1>6. \A i \in DOMAIN queue' : queue'[i] \in Calls => job'[queue'[i]] \in Jobs
  BY <1>2, <1>4 DEF JobsToDo
<1> QED
  BY <1>2, <1>5, <1>6 DEF JobsToDo

-----------------------------------------------------------------------------
(* The steps of the directory.                                             *)

DirStep ==
  \/ \E c \in Calls : RunPathOp(c) \/ RunExists(c) \/ \E j \in Jobs : Ask(c, j)
  \/ \E n \in Names : LookAt(n) \/ \E k \in Contents : Elsewhere(n, k)
  \/ List \/ ListFails \/ AnswerListing \/ Readdir \/ UNCHANGED dirVars

(* A step of the directory keeps types, jobs and what the readdir tells.   *)
LEMMA DirectoryKeeps ==
  ASSUME TypeOK, ListingInv, JobsToDo, DirStep
  PROVE  TypeOK' /\ ListingInv' /\ JobsToDo'
<1> USE ListingIsNoCall, NoJobIsNoJob, MaxElsewhereIsNat
<1>1. ASSUME NEW c \in Calls, RunPathOp(c)
      PROVE  TypeOK' /\ ListingInv' /\ JobsToDo'
  <2>1. /\ queue' \in Seq(Calls \union {Listing}) /\ JobsToDo' /\ job[c] \in Jobs
    BY <1>1, Dequeue DEF RunPathOp, Due, TypeOK
  <2>2. entries' \in [Names -> Contents] /\ told' \in [Calls -> Answers]
    <3>1. CASE /\ entries' \in Outcomes(job[c])
               /\ \E said \in {<<"ok">>, <<"ok", "error">>} : told' = [told EXCEPT ![c] = said]
      <4>1. entries' \in [Names -> Contents]
        BY <1>1, <2>1, <3>1, OutcomesAreDirectories DEF RunPathOp, TypeOK
      <4>2. <<"ok">> \in Answers /\ <<"ok", "error">> \in Answers
        BY Zenon DEF Answers
      <4>3. PICK said \in Answers : told' = [told EXCEPT ![c] = said]
        BY <3>1, <4>2, Zenon
      <4> QED
        BY <4>1, <4>3 DEF TypeOK
    <3>2. CASE told' = [told EXCEPT ![c] = <<"error">>] /\ UNCHANGED entries
      <4>1. <<"error">> \in Answers
        BY Zenon DEF Answers
      <4> QED
        BY <3>2, <4>1 DEF TypeOK
    <3> QED
      BY <1>1, <3>1, <3>2 DEF RunPathOp
  <2>3. ~listing /\ UNCHANGED <<listVars, elsewhere>> /\ job' = [job EXCEPT ![c] = Done]
    BY <1>1 DEF RunPathOp, Due
  <2> QED
    BY <2>1, <2>2, <2>3 DEF TypeOK, ListingInv, Tells, listVars
<1>2. ASSUME NEW c \in Calls, RunExists(c)
      PROVE  TypeOK' /\ ListingInv' /\ JobsToDo'
  <2>1. /\ queue' \in Seq(Calls \union {Listing}) /\ JobsToDo'
    BY <1>2, Dequeue DEF RunExists, Due, TypeOK
  <2>2. told' \in [Calls -> Answers]
    <3>1. <<"yes">> \in Answers /\ <<"yes", "no">> \in Answers /\ <<"no">> \in Answers
      BY Zenon DEF Answers
    <3>2. PICK said \in Answers : told' = [told EXCEPT ![c] = said]
      BY <1>2, <3>1, Zenon DEF RunExists
    <3> QED
      BY <3>2 DEF TypeOK
  <2>3. ~listing /\ UNCHANGED <<entries, listVars, elsewhere>> /\ job' = [job EXCEPT ![c] = Done]
    BY <1>2 DEF RunExists, Due
  <2> QED
    BY <2>1, <2>2, <2>3 DEF TypeOK, ListingInv, Tells, listVars
<1>3. ASSUME NEW c \in Calls, NEW j \in Jobs, Ask(c, j)
      PROVE  TypeOK' /\ ListingInv' /\ JobsToDo'
  <2>1. ~Queued(c)
    BY <1>3 DEF Ask, Queued, JobsToDo
  <2>2. /\ queue' \in Seq(Calls \union {Listing}) /\ JobsToDo'
    BY <1>3, <2>1, Enqueue DEF Ask, TypeOK
  <2> QED
    BY <1>3, <2>2 DEF Ask, TypeOK, ListingInv, Tells, listVars
<1>4. CASE Readdir
  <2>1. /\ queue' \in Seq(Calls \union {Listing}) /\ JobsToDo'
    BY <1>4, Enqueue DEF Readdir
  <2> QED
    BY <1>4, <2>1 DEF Readdir, TypeOK, ListingInv, Tells, listVars
<1>5. CASE List
  <2>1. \A n \in Names : n \in todo' <=> entries[n] # "absent"
    BY <1>5 DEF List, Present
  <2>2. TypeOK'
    BY <1>5 DEF List, TypeOK, Present, Contents
  <2>3. \A n \in Names : during'[n] = {entries[n]} /\ seen'[n] = "absent"
    BY <1>5 DEF List
  <2>4. ListingInv'
    BY <1>5, <2>1, <2>3 DEF List, Due, ListingInv, Tells, Kinds
  <2> QED
    BY <1>5, <2>2, <2>4 DEF List, JobsToDo
<1>6. CASE ListFails
  <2>1. PICK q \in Seq(Calls \union {Listing}) : q = Tail(queue) /\ queue' = Append(q, Listing)
    BY <1>6, TailTypes DEF ListFails, Due, TypeOK
  <2>2. /\ \A i \in DOMAIN queue' : queue'[i] \in Calls => job[queue'[i]] \in Jobs
        /\ \A i, j \in DOMAIN queue' : queue'[i] = queue'[j] => i = j
    <3>1. /\ DOMAIN queue' = DOMAIN q \union {Len(q) + 1}
          /\ Len(q) + 1 \notin DOMAIN q
          /\ \A i \in DOMAIN q : queue'[i] = q[i]
          /\ queue'[Len(q) + 1] = Listing
      BY <2>1, QueueTypes
    <3>2. /\ 1 \in DOMAIN queue /\ queue[1] = Listing
          /\ \A i \in DOMAIN q : i + 1 \in DOMAIN queue /\ i + 1 # 1 /\ q[i] = queue[i + 1]
      BY <1>6, <2>1, TailTypes DEF ListFails, Due, TypeOK
    <3>3. \A i \in DOMAIN q : i \in Nat /\ q[i] # Listing
      BY <2>1, <3>2 DEF JobsToDo
    <3>4. \A i, j \in DOMAIN q : q[i] = q[j] => i = j
      BY <3>2, <3>3 DEF JobsToDo
    <3>5. \A i \in DOMAIN q : q[i] \in Calls => job[q[i]] \in Jobs
      BY <3>2 DEF JobsToDo
    <3> QED
      BY <3>1, <3>3, <3>4, <3>5
  <2>3. queue' \in Seq(Calls \union {Listing})
    BY <2>1
  <2> QED
    BY <1>6, <2>2, <2>3 DEF ListFails, TypeOK, ListingInv, Tells, JobsToDo, listVars
<1>7. ASSUME NEW n \in Names, LookAt(n)
      PROVE  TypeOK' /\ ListingInv' /\ JobsToDo'
  <2>1. /\ listing /\ entries[n] \in during[n] /\ entries[n] \in Contents
        /\ todo' = todo \ {n}
        /\ UNCHANGED <<entries, queue, job, told, listing, during, elsewhere>>
    BY <1>7 DEF LookAt, ListingInv, TypeOK
  <2>2. CASE /\ entries[n] # "absent"
             /\ seen' = [seen EXCEPT ![n] = entries[n]]
             /\ UNCHANGED refused
    BY <2>1, <2>2 DEF TypeOK, ListingInv, Tells, JobsToDo, Kinds, Contents
  <2>3. CASE /\ seen' = [seen EXCEPT ![n] = "unknown"]
             /\ refused' = refused \union ({n} \intersect Present)
    <3>1. refused' \subseteq Names /\ refused \subseteq refused'
      BY <2>3 DEF TypeOK, Present
    <3>2. entries[n] # "absent" => n \in refused'
      BY <2>3 DEF Present
    <3>3. ASSUME NEW m \in Names, m # n PROVE seen'[m] = seen[m] /\ (m \in refused' <=> m \in refused)
      BY <2>3, <3>3 DEF TypeOK
    <3>4. seen'[n] = "unknown"
      BY <2>3 DEF TypeOK
    <3>5. Tells(n)'
      BY <2>1, <3>2, <3>4 DEF Tells, Kinds
    <3>6. ASSUME NEW m \in Names, m \notin todo' PROVE Tells(m)'
      BY <2>1, <3>3, <3>5, <3>6 DEF Tells, ListingInv
    <3>7. TypeOK'
      BY <2>1, <2>3, <3>1 DEF TypeOK
    <3> QED
      BY <2>1, <3>6, <3>7 DEF ListingInv, JobsToDo
  <2> QED
    BY <1>7, <2>2, <2>3 DEF LookAt
<1>8. CASE AnswerListing
  <2>1. /\ queue' \in Seq(Calls \union {Listing}) /\ JobsToDo'
    <3>1. queue # <<>>
      BY <1>8 DEF AnswerListing, ListingInv
    <3> QED
      BY <1>8, <3>1, Dequeue DEF AnswerListing
  <2> QED
    BY <1>8, <2>1 DEF AnswerListing, TypeOK, ListingInv, Tells
<1>9. ASSUME NEW n \in Names, NEW k \in Contents, Elsewhere(n, k)
      PROVE  TypeOK' /\ ListingInv' /\ JobsToDo'
  <2>1. TypeOK'
    BY <1>9 DEF TypeOK, Elsewhere, With
  <2>2. JobsToDo'
    BY <1>9 DEF Elsewhere, JobsToDo
  <2>3. ASSUME NEW m \in Names
        PROVE  /\ entries[m] \in during[m] /\ listing => entries'[m] \in during'[m]
               /\ Tells(m) /\ listing /\ entries[m] \in during[m] => Tells(m)'
    BY <1>9 DEF Elsewhere, With, Tells, TypeOK
  <2>4. ListingInv'
    <3>1. CASE listing
      BY <1>9, <2>3, <3>1 DEF Elsewhere, ListingInv
    <3>2. CASE ~listing
      BY <1>9, <3>2 DEF Elsewhere, ListingInv, Tells
    <3> QED
      BY <3>1, <3>2
  <2> QED
    BY <2>1, <2>2, <2>4
<1>10. CASE UNCHANGED dirVars
  BY <1>10 DEF dirVars, listVars, TypeOK, ListingInv, Tells, JobsToDo
<1> QED
  BY <1>1, <1>2, <1>3, <1>4, <1>5, <1>6, <1>7, <1>8, <1>9, <1>10 DEF DirStep

-----------------------------------------------------------------------------
(* The steps of the watcher.                                               *)

WatchStep ==
  Watch \/ WatchRefused \/ EmitError \/ Post \/ Emit \/ Close \/ NoticeChanges
  \/ UNCHANGED watchVars

(* A step of the watcher keeps its types and watches for open ones only;   *)
(* one that is closed has no more to emit after it than before.            *)
LEMMA WatcherKeeps ==
  ASSUME WatchTypeOK, DeafUnlessOpen, WatchStep
  PROVE  /\ WatchTypeOK' /\ DeafUnlessOpen'
         /\ watcher = "closed" => ToCome' <= ToCome /\ (noticed' => noticed)
<1> USE DEF WatchTypeOK, DeafUnlessOpen, ToCome
<1>1. CASE Watch \/ WatchRefused \/ EmitError
  BY <1>1 DEF Watch, WatchRefused, EmitError
<1>2. CASE Post
  <2>1. /\ posted' = posted + 1 /\ posted \in Nat /\ noticed' = FALSE
        /\ ToCome = posted + 1 /\ ToCome' = posted'
    BY <1>2 DEF Post
  <2>2. posted' \in Nat /\ ToCome' <= ToCome
    BY <2>1
  <2> QED
    BY <1>2, <2>1, <2>2 DEF Post
<1>6. CASE Emit
  <2>1. posted' = posted - 1 /\ posted' \in Nat /\ posted' <= posted
    BY <1>6 DEF Emit
  <2>2. ToCome' <= ToCome
    BY <1>6, <2>1 DEF Emit
  <2> QED
    BY <1>6, <2>1, <2>2 DEF Emit
<1>3. CASE Close
  BY <1>3 DEF Close
<1>4. CASE NoticeChanges
  BY <1>4 DEF NoticeChanges, Notice
<1>5. CASE UNCHANGED watchVars
  BY <1>5 DEF watchVars
<1> QED
  BY <1>1, <1>2, <1>3, <1>4, <1>5, <1>6 DEF WatchStep

(* Every step is one of the directory and one of the watcher. *)
LEMMA StepsOfBoth == [Next]_vars => DirStep /\ WatchStep
<1> SUFFICES ASSUME [Next]_vars PROVE DirStep /\ WatchStep
  OBVIOUS
<1>1. ListAnew => DirStep
  BY DEF ListAnew, DirStep
<1>2. CASE RunDirectory
  BY <1>2 DEF RunDirectory, RunImmediate, DirStep, WatchStep
<1>3. CASE Program
  BY <1>1, <1>3 DEF Program, DirStep, WatchStep
<1>4. CASE RunEvents
  BY <1>1, <1>4 DEF RunEvents, DirStep, WatchStep
<1>5. CASE Others
  BY <1>5 DEF Others, DirStep, WatchStep
<1>6. CASE Post /\ UNCHANGED dirVars
  BY <1>6 DEF DirStep, WatchStep
<1>7. CASE UNCHANGED vars
  BY <1>7 DEF vars, DirStep, WatchStep
<1> QED
  BY <1>2, <1>3, <1>4, <1>5, <1>6, <1>7 DEF Next

-----------------------------------------------------------------------------
(* Every state satisfies the invariant.                                    *)
THEOREM WatchedInvariant == Spec => []IInv
<1>1. Init => IInv
  <2> SUFFICES ASSUME Init PROVE IInv
    OBVIOUS
  <2>1. TypeOK
    <3>1. <<>> \in Answers
      BY DEF Answers
    <3>2. {"file", "absent"} \subseteq Contents
      BY DEF Contents, Kinds
    <3>3. "absent" \in Contents
      BY DEF Contents
    <3>4. entries \in [Names -> Contents]
      BY <3>2 DEF Init, DirInit
    <3>5. told \in [Calls -> Answers]
      BY <3>1, Zenon DEF Init, DirInit
    <3>6. job \in [Calls -> Jobs \union {NoJob, Done}]
      BY DEF Init, DirInit
    <3>7. /\ seen \in [Names -> Contents \union {"unknown"}]
          /\ during \in [Names -> SUBSET Contents]
          /\ refused \subseteq Names
          /\ elsewhere \in 0..MaxElsewhere
      BY <3>3, MaxElsewhereIsNat DEF Init, DirInit
    <3>8. queue \in Seq(Calls \union {Listing}) /\ listing \in BOOLEAN /\ todo \subseteq Names
      <4>1. queue \in Seq(Calls \union {Listing})
        BY NoQueue DEF Init, DirInit
      <4> QED
        BY <4>1 DEF Init, DirInit
    <3> QED
      BY <3>4, <3>5, <3>6, <3>7, <3>8, Zenon DEF TypeOK
  <2>2. WatchTypeOK /\ DeafUnlessOpen
    BY DEF Init, WatchInit, WatchTypeOK, DeafUnlessOpen
  <2>3. ListingInv /\ JobsToDo
    BY DEF Init, DirInit, ListingInv, Tells, Kinds, JobsToDo
  <2> QED
    BY <2>1, <2>2, <2>3 DEF IInv, WatchedTypeOK
<1>2. IInv /\ [Next]_vars => IInv'
  BY StepsOfBoth, DirectoryKeeps, WatcherKeeps DEF IInv, WatchedTypeOK
<1> QED
  BY <1>1, <1>2, PTL DEF Spec

(* Directory, queue, readdir and watcher keep their types; in particular   *)
(* whatever calls and other processes do to it in whatever order, a        *)
(* directory is left with names that name something names can.             *)
THEOREM WatchedTypes == Spec => []WatchedTypeOK
<1>1. IInv => WatchedTypeOK
  BY DEF IInv
<1> QED
  BY <1>1, WatchedInvariant, PTL

(* A readdir with file types answers with kinds the names have had while   *)
(* it ran, and lists each name that was there, however many names there    *)
(* are, whatever others do to them between its lstats and whichever lstats *)
(* fail: mode 0 stands for a name that was gone or whose own lstat failed. *)
THEOREM ReaddirIsTruthful == Spec => []ReaddirTellsWhatItSaw
<1>1. IInv => ReaddirTellsWhatItSaw
  BY DEF IInv, ListingInv, Tells, ReaddirTellsWhatItSaw
<1> QED
  BY <1>1, WatchedInvariant, PTL

(* After close() a watcher emits what was on its way and nothing else.     *)
THEOREM ClosedMeansClosed == Spec => ClosedWatcherLearnsNothing
<1>1. IInv /\ [Next]_vars =>
        [watcher = "closed" => ToCome' <= ToCome /\ (noticed' => noticed)]_watchVars
  BY StepsOfBoth, WatcherKeeps DEF IInv, WatchedTypeOK
<1> QED
  BY <1>1, WatchedInvariant, PTL DEF Spec, ClosedWatcherLearnsNothing

-----------------------------------------------------------------------------
(* Induction, and what filter leaves of a sequence.                        *)

(* Induction over numbers, stated of the set of the numbers that have the  *)
(* property, so that provers without operator variables can use it.        *)
LEMMA InductionOverNat ==
  ASSUME NEW T \in SUBSET Nat, 0 \in T, \A n \in T : n + 1 \in T
  PROVE  T = Nat
<1> DEFINE R == OpToRel(<, Nat)
<1>1. ASSUME NEW m \in Nat \ T, \A k \in Nat \ T : <<k, m>> \notin R
      PROVE  FALSE
  <2>1. m - 1 \in Nat /\ m = (m - 1) + 1
    OBVIOUS
  <2>2. <<m - 1, m>> \in R
    BY <2>1 DEF R, OpToRel
  <2> QED
    BY <1>1, <2>1, <2>2
<1>2. IsWellFoundedOn(R, Nat)
  BY NatLessThanWellFounded
<1> HIDE DEF R
<1>3. Nat \ T # {} => \E m \in Nat \ T : \A k \in Nat \ T : ~(<<k, m>> \in R)
  BY <1>2, WFMin
<1> QED
  BY <1>1, <1>3

(* One registration after the other: left[n] is what remains of the first  *)
(* n of them.                                                              *)
Leaves(left, q, l, m) ==
  left = [n \in 0..m |->
            IF n = 0 THEN <<>>
            ELSE IF q[n] = l THEN left[n - 1] ELSE Append(left[n - 1], q[n])]

(* Such a function exists, so that Without is what its definition says.    *)
LEMMA LeavesExist ==
  ASSUME NEW q, NEW l, NEW m \in Nat
  PROVE  \E left : Leaves(left, q, l, m)
<1> DEFINE T == {k \in Nat : \E left : Leaves(left, q, l, k)}
<1>1. 0 \in T
  <2> DEFINE f == [n \in 0..0 |-> <<>>]
  <2>1. Leaves(f, q, l, 0)
    BY DEF Leaves
  <2> QED
    BY <2>1
<1>2. ASSUME NEW k \in T PROVE k + 1 \in T
  <2>1. k \in Nat /\ \E left : Leaves(left, q, l, k)
    OBVIOUS
  <2>2. PICK left : Leaves(left, q, l, k)
    BY <2>1
  <2> DEFINE next(n) == IF n = 0 THEN <<>>
                        ELSE IF q[n] = l THEN left[n - 1] ELSE Append(left[n - 1], q[n])
             f == [n \in 0..k + 1 |-> next(n)]
  <2>3. ASSUME NEW n \in 0..k PROVE f[n] = left[n]
    <3>1. n \in 0..k + 1
      BY <2>1
    <3>2. left[n] = next(n)
      BY <2>2 DEF Leaves
    <3> QED
      BY <3>1, <3>2
  <2>4. ASSUME NEW n \in 0..k + 1, n # 0 PROVE f[n - 1] = left[n - 1]
    <3>1. n - 1 \in 0..k
      BY <2>1, <2>4
    <3> QED
      BY <2>3, <3>1
  <2>5. ASSUME NEW n \in 0..k + 1
        PROVE  f[n] = IF n = 0 THEN <<>>
                      ELSE IF q[n] = l THEN f[n - 1] ELSE Append(f[n - 1], q[n])
    BY <2>4
  <2>6. Leaves(f, q, l, k + 1)
    BY <2>5 DEF Leaves
  <2> QED
    BY <2>1, <2>6
<1> HIDE DEF T
<1>3. T = Nat
  <2>1. T \subseteq Nat
    BY DEF T
  <2> QED
    BY <1>1, <1>2, <2>1, InductionOverNat
<1> QED
  BY <1>3 DEF T

(* What remains are the registrations of everybody else.                   *)
LEMMA WithoutRemovesOne ==
  ASSUME NEW S, NEW q \in Seq(S), NEW l
  PROVE  Without(q, l) \in Seq(S) /\ ToSet(Without(q, l)) = ToSet(q) \ {l}
<1>1. PICK left : Leaves(left, q, l, Len(q)) /\ Without(q, l) = left[Len(q)]
  <2>1. Len(q) \in Nat
    OBVIOUS
  <2>2. \E left : Leaves(left, q, l, Len(q))
    BY <2>1, LeavesExist
  <2> QED
    BY <2>2 DEF Without, Leaves
<1> DEFINE first(k) == {q[i] : i \in 1..k}
           T == {k \in Nat : k <= Len(q) => /\ left[k] \in Seq(S)
                                            /\ ToSet(left[k]) = first(k) \ {l}}
<1>2. \A n \in 0..Len(q) :
        left[n] = IF n = 0 THEN <<>>
                  ELSE IF q[n] = l THEN left[n - 1] ELSE Append(left[n - 1], q[n])
  BY <1>1 DEF Leaves
<1>3. 0 \in T
  <2>1. 0 \in 0..Len(q)
    OBVIOUS
  <2>2. left[0] = <<>> /\ <<>> \in Seq(S)
    BY <1>2, <2>1
  <2>3. ToSet(<<>>) = {} /\ first(0) = {}
    BY DEF ToSet
  <2> QED
    BY <2>2, <2>3
<1>4. ASSUME NEW k \in T PROVE k + 1 \in T
  <2> SUFFICES ASSUME k + 1 <= Len(q)
               PROVE  left[k + 1] \in Seq(S) /\ ToSet(left[k + 1]) = first(k + 1) \ {l}
    OBVIOUS
  <2>1. /\ k \in Nat /\ k + 1 \in 0..Len(q) /\ k + 1 # 0 /\ (k + 1) - 1 = k /\ q[k + 1] \in S
        /\ left[k] \in Seq(S) /\ ToSet(left[k]) = first(k) \ {l}
    OBVIOUS
  <2>2. left[k + 1] = IF q[k + 1] = l THEN left[k] ELSE Append(left[k], q[k + 1])
    BY <1>2, <2>1
  <2>3. first(k + 1) = first(k) \union {q[k + 1]}
    BY <2>1
  <2>4. ASSUME NEW r \in Seq(S), NEW x \in S
        PROVE  Append(r, x) \in Seq(S) /\ ToSet(Append(r, x)) = ToSet(r) \union {x}
    <3>1. DOMAIN Append(r, x) = DOMAIN r \union {Len(r) + 1}
          /\ Append(r, x)[Len(r) + 1] = x
          /\ \A i \in DOMAIN r : Append(r, x)[i] = r[i]
      OBVIOUS
    <3> QED
      BY <3>1 DEF ToSet
  <2> HIDE DEF T, first
  <2>5. CASE q[k + 1] = l
    BY <2>1, <2>2, <2>3, <2>5
  <2>6. CASE q[k + 1] # l
    BY <2>1, <2>2, <2>3, <2>4, <2>6
  <2> QED
    BY <2>5, <2>6
<1>5. first(Len(q)) = ToSet(q) /\ Len(q) \in Nat
  BY DEF ToSet
<1> HIDE DEF T, first
<1>6. T = Nat
  <2>1. T \subseteq Nat
    BY DEF T
  <2> QED
    BY <1>3, <1>4, <2>1, InductionOverNat
<1>7. Len(q) \in T /\ Len(q) <= Len(q)
  BY <1>5, <1>6
<1> QED
  BY <1>1, <1>5, <1>7 DEF T

-----------------------------------------------------------------------------
(* Types and intervals                                                     *)

(* The types are inductive only together with the rule for intervals: that *)
(* an interval's watcher is the one in the map.                            *)
StatInv == StatTypeOK /\ IntervalsAreReachable

(* A run through the listeners of a watcher.                               *)
LEMMA TellIsRound ==
  ASSUME StatTypeOK, NEW w \in Watchers, NEW now \in Times, NEW isError \in BOOLEAN
  PROVE  Tell(w, now, isError) \in Rounds
<1>1. w \in 0..MaxWatchers /\ listeners[w] \in Seq(Listeners)
  BY BoundsAreNumbers, SMTT(20) DEF StatTypeOK, Watchers
<1> QED
  BY <1>1 DEF Tell, Rounds, StatTypeOK

LEMMA IdleIsRound == Idle \in Rounds
<1>1. 0 \in 0..MaxWatchers /\ 0 \in Times /\ <<>> \in Seq(Listeners)
  BY BoundsAreNumbers DEF Times
<1> QED
  BY <1>1 DEF Idle, Rounds

(* Somebody leaves the watcher in the map, the last one with it.           *)
LEMMA LeaveStep ==
  ASSUME StatInv, current # 0, NEW left \in Seq(Listeners), Leave(current, left),
         UNCHANGED <<mtime, changes, made, prev, polls, round, heard>>
  PROVE  StatInv'
<1>1. /\ current \in Watchers /\ made \in Nat /\ 0 \in 0..made
      /\ listeners' = [listeners EXCEPT ![current] = left]
  BY BoundsAreNumbers DEF StatInv, StatTypeOK, Leave, Watchers
<1>2. CASE left = <<>>
  <2>1. current' = 0 /\ timer' = [timer EXCEPT ![current] = FALSE]
    BY <1>2 DEF Leave
  <2>2. StatTypeOK'
    BY <1>1, <2>1 DEF StatInv, StatTypeOK
  <2>3. ASSUME NEW w \in Watchers PROVE ~timer'[w] /\ listeners'[w] = <<>> /\ w # current'
    <3>1. ~timer'[w] /\ listeners'[w] = <<>>
      BY <1>1, <1>2, <2>1 DEF StatInv, StatTypeOK, IntervalsAreReachable
    <3>2. w # 0
      BY BoundsAreNumbers DEF Watchers
    <3> QED
      BY <2>1, <3>1, <3>2
  <2> QED
    BY <2>2, <2>3 DEF StatInv, IntervalsAreReachable
<1>3. CASE left # <<>>
  <2>1. UNCHANGED <<current, timer>>
    BY <1>3 DEF Leave
  <2> QED
    BY <1>1, <1>3, <2>1 DEF StatInv, StatTypeOK, IntervalsAreReachable
<1> QED
  BY <1>2, <1>3

(* A listener joins the watcher in the map.                                *)
LEMMA JoinStep ==
  ASSUME StatInv, current # 0, NEW l \in Listeners, Join(l, current),
         UNCHANGED <<mtime, changes, polls, round>>
  PROVE  StatInv'
<1>1. current \in Watchers
  BY BoundsAreNumbers DEF StatInv, StatTypeOK, Watchers
<1>2. /\ listeners' = [listeners EXCEPT ![current] = Append(listeners[current], l)]
      /\ heard' = [heard EXCEPT ![l] = IF round.watcher = current THEN round.curr ELSE prev[current]]
      /\ UNCHANGED <<made, current, prev, timer>>
  BY DEF Join
<1>3. Append(listeners[current], l) \in Seq(Listeners) /\ Append(listeners[current], l) # <<>>
  <2>1. listeners[current] \in Seq(Listeners)
    BY <1>1 DEF StatInv, StatTypeOK
  <2> QED
    BY <2>1
<1>4. heard' \in [Listeners -> Times]
  <2>1. round.curr \in Times /\ prev[current] \in Times
    BY <1>1 DEF StatInv, StatTypeOK, Rounds
  <2> QED
    BY <1>2, <2>1 DEF StatInv, StatTypeOK
<1>5. StatTypeOK'
  BY <1>1, <1>2, <1>3, <1>4 DEF StatInv, StatTypeOK
<1>6. IntervalsAreReachable'
  BY <1>1, <1>2, <1>3 DEF StatInv, StatTypeOK, IntervalsAreReachable
<1> QED
  BY <1>5, <1>6 DEF StatInv

(* A watcher is made where there was none.                                 *)
LEMMA NewWatcherStep ==
  ASSUME StatInv, current = 0, NEW l \in Listeners, NEW w \in Watchers, NewWatcher(l, w),
         UNCHANGED <<mtime, changes, polls, round>>
  PROVE  StatInv'
<1>1. /\ made' = w /\ current' = w /\ w \in 0..MaxWatchers /\ w \in 0..w
      /\ listeners' = [listeners EXCEPT ![w] = <<l>>]
      /\ prev' = [prev EXCEPT ![w] = mtime]
      /\ timer' = [timer EXCEPT ![w] = TRUE]
      /\ heard' = [heard EXCEPT ![l] = mtime]
  BY BoundsAreNumbers DEF NewWatcher, Watchers
<1>2. <<l>> \in Seq(Listeners) /\ <<l>> # <<>>
  OBVIOUS
<1>3. StatTypeOK'
  BY <1>1, <1>2 DEF StatInv, StatTypeOK
<1>4. ASSUME NEW v \in Watchers
      PROVE  (timer'[v] <=> v = current') /\ (listeners'[v] # <<>> <=> v = current')
  <2>1. v # current
    BY BoundsAreNumbers DEF Watchers
  <2>2. ~timer[v] /\ listeners[v] = <<>>
    BY <2>1 DEF StatInv, IntervalsAreReachable
  <2> QED
    BY <1>1, <1>2, <2>2 DEF StatInv, StatTypeOK
<1> QED
  BY <1>3, <1>4 DEF StatInv, IntervalsAreReachable

(* A run that is going on is that of a watcher.                            *)
RunningIsOfAWatcher == round # Idle => round.watcher \in Watchers

(* A step of the interval, of the stat it queued or of the listeners       *)
(* leaves the map alone.                                                   *)
LEMMA RoundStep ==
  ASSUME StatInv, RunningIsOfAWatcher,
         (\E w \in Watchers : Tick(w)) \/ Poll \/ RunListeners
  PROVE  StatInv' /\ RunningIsOfAWatcher'
<1> USE DEF StatInv
<1>1. ASSUME NEW w \in Watchers, Tick(w) PROVE StatInv' /\ RunningIsOfAWatcher'
  BY <1>1 DEF Tick, StatTypeOK, IntervalsAreReachable, RunningIsOfAWatcher
<1>2. ASSUME Poll PROVE StatInv' /\ RunningIsOfAWatcher'
  <2>1. Head(polls) \in Watchers /\ Tail(polls) \in Seq(Watchers)
    BY <1>2 DEF Poll, StatTypeOK
  <2>2. /\ polls' = Tail(polls) /\ round' \in {Idle, Tell(Head(polls), mtime, mtime = 0)}
        /\ UNCHANGED <<mtime, changes, made, current, listeners, prev, timer, heard>>
    BY <1>2 DEF Poll, RoundAfterStat
  <2>3. round' \in Rounds
    <3>1. mtime \in Times /\ (mtime = 0) \in BOOLEAN
      BY DEF StatTypeOK
    <3>2. Tell(Head(polls), mtime, mtime = 0) \in Rounds
      BY <2>1, <3>1, TellIsRound
    <3> QED
      BY <2>2, <3>2, IdleIsRound
  <2>4. RunningIsOfAWatcher'
    BY <2>1, <2>2 DEF RunningIsOfAWatcher, Tell
  <2> QED
    BY <2>1, <2>2, <2>3, <2>4 DEF StatTypeOK, IntervalsAreReachable
<1>3. ASSUME CallListener PROVE StatInv' /\ RunningIsOfAWatcher'
  <2>1. /\ round' = [round EXCEPT !.running = Head(round.todo), !.todo = Tail(round.todo)]
        /\ round.todo # <<>> /\ round \in Rounds
        /\ UNCHANGED <<mtime, changes, made, current, listeners, prev, timer, polls>>
    BY <1>3 DEF CallListener, StatTypeOK
  <2>2. Head(round.todo) \in Listeners /\ Tail(round.todo) \in Seq(Listeners) /\ round # Idle
    BY <2>1 DEF Rounds, Idle
  <2>3. round' \in Rounds /\ round'.watcher = round.watcher
    BY <2>1, <2>2 DEF Rounds
  <2>4. heard' \in [Listeners -> Times]
    BY <1>3, <2>1, <2>2 DEF CallListener, StatTypeOK, Rounds
  <2>5. RunningIsOfAWatcher'
    BY <2>2, <2>3 DEF RunningIsOfAWatcher
  <2> QED
    BY <2>1, <2>3, <2>4, <2>5 DEF StatTypeOK, IntervalsAreReachable
<1>4. ASSUME ListenerThrows PROVE StatInv' /\ RunningIsOfAWatcher'
  <2>1. /\ round' = RoundAfterThrow /\ round \in Rounds /\ round # Idle
        /\ UNCHANGED <<mtime, changes, made, current, listeners, prev, timer, polls, heard>>
    BY <1>4, ThrowingAreListeners, NobodyIsNoListener DEF ListenerThrows, StatTypeOK, Idle
  <2>2. round.watcher \in Watchers
    BY <2>1 DEF RunningIsOfAWatcher
  <2>3. 0 \in Times
    BY BoundsAreNumbers DEF Times
  <2>4. Tell(round.watcher, 0, TRUE) \in Rounds
    BY <2>2, <2>3, TellIsRound
  <2>5. [Tell(round.watcher, 0, TRUE) EXCEPT !.seen = round.seen] \in Rounds
    BY <2>1, <2>4 DEF Rounds
  <2>6. round' \in Rounds
    BY <2>1, <2>5, IdleIsRound DEF RoundAfterThrow
  <2>7. RunningIsOfAWatcher'
    BY <2>1, <2>2 DEF RoundAfterThrow, RunningIsOfAWatcher, Tell
  <2> QED
    BY <2>1, <2>6, <2>7 DEF StatTypeOK, IntervalsAreReachable
<1>5. ASSUME EndRound PROVE StatInv' /\ RunningIsOfAWatcher'
  <2>1. /\ prev' = [prev EXCEPT ![round.watcher] = round.curr] /\ round' = Idle
        /\ round.watcher \in Watchers /\ round \in Rounds
        /\ UNCHANGED <<mtime, changes, made, current, listeners, timer, polls, heard>>
    BY <1>5 DEF EndRound, RunningIsOfAWatcher, StatTypeOK
  <2>2. prev' \in [Watchers -> Times] /\ round' \in Rounds
    BY <2>1, IdleIsRound DEF StatTypeOK, Rounds
  <2> QED
    BY <2>1, <2>2 DEF StatTypeOK, IntervalsAreReachable, RunningIsOfAWatcher
<1> QED
  BY <1>1, <1>2, <1>3, <1>4, <1>5 DEF RunListeners

(* The inductive invariant: one step per action.                           *)
LEMMA WatcherStep ==
  StatInv /\ RunningIsOfAWatcher /\ [StatNext]_statVars => StatInv' /\ RunningIsOfAWatcher'
<1> SUFFICES ASSUME StatInv, RunningIsOfAWatcher, [StatNext]_statVars PROVE StatInv' /\ RunningIsOfAWatcher'
  OBVIOUS
<1>1. CASE UNCHANGED statVars
  BY <1>1 DEF statVars, StatInv, StatTypeOK, IntervalsAreReachable, RunningIsOfAWatcher
<1>2. CASE FileChanges
  <2>1. changes' \in 0..MaxChanges /\ mtime' \in Times
    BY <1>2, BoundsAreNumbers DEF FileChanges, StatInv, StatTypeOK, Times
  <2> QED
    BY <1>2, <2>1 DEF FileChanges, StatInv, StatTypeOK, IntervalsAreReachable, RunningIsOfAWatcher
<1>3. ASSUME NEW l \in Listeners, WatchFile(l) PROVE StatInv' /\ RunningIsOfAWatcher'
  BY <1>3, JoinStep, NewWatcherStep DEF WatchFile, RunningIsOfAWatcher
<1>4. ASSUME NEW l \in Listeners, UnwatchFile(l) PROVE StatInv' /\ RunningIsOfAWatcher'
  <2>1. listeners[current] \in Seq(Listeners)
    BY <1>4, BoundsAreNumbers DEF UnwatchFile, StatInv, StatTypeOK, Watchers
  <2>2. Without(listeners[current], l) \in Seq(Listeners)
    BY <2>1, WithoutRemovesOne
  <2> QED
    BY <1>4, <2>2, LeaveStep DEF UnwatchFile, RunningIsOfAWatcher
<1>5. CASE UnwatchAll
  <2>1. <<>> \in Seq(Listeners)
    OBVIOUS
  <2> QED
    BY <1>5, <2>1, LeaveStep DEF UnwatchAll, RunningIsOfAWatcher
<1> QED
  BY <1>1, <1>2, <1>3, <1>4, <1>5, RoundStep DEF StatNext

LEMMA WatcherStart == StatInit => StatInv /\ RunningIsOfAWatcher
<1> SUFFICES ASSUME StatInit PROVE StatInv /\ RunningIsOfAWatcher
  OBVIOUS
<1>1. /\ {0, 1} \subseteq Times /\ 0 \in 0..MaxChanges /\ 0 \in 0..MaxWatchers /\ 0 \in 0..0
      /\ <<>> \in Seq(Listeners) /\ <<>> \in Seq(Watchers)
  BY BoundsAreNumbers DEF Times
<1>2. StatTypeOK
  BY <1>1, IdleIsRound DEF StatInit, StatTypeOK
<1>3. \A w \in Watchers : w # 0
  BY BoundsAreNumbers DEF Watchers
<1> QED
  BY <1>2, <1>3 DEF StatInit, StatInv, IntervalsAreReachable, RunningIsOfAWatcher

LEMMA WatcherInvariant == StatSpec => [](StatInv /\ RunningIsOfAWatcher)
BY WatcherStart, WatcherStep, PTL DEF StatSpec

(* watchFile and unwatchFile keep their types, whichever registrations     *)
(* filter leaves and whenever a listener throws.                           *)
THEOREM WatcherTypes == StatSpec => []StatTypeOK
<1>1. StatInv => StatTypeOK
  BY DEF StatInv
<1> QED
  BY <1>1, WatcherInvariant, PTL

(* However often the path is watched and unwatched, and whatever listeners *)
(* do in the middle of a round: exactly the watcher in the map has an      *)
(* interval, and it has listeners, so that unwatchFile can stop it.        *)
THEOREM NoIntervalIsLeftBehind == StatSpec => []IntervalsAreReachable
<1>1. StatInv => IntervalsAreReachable
  BY DEF StatInv
<1> QED
  BY <1>1, WatcherInvariant, PTL

(* A stat queued for a watcher that is gone calls nobody: a round begins   *)
(* for the listeners of the watcher in the map, or for nobody.             *)
LEMMA RoundsBeginInTheMap ==
  ASSUME StatInv, [StatNext]_statVars, round = Idle, round'.todo # <<>>
  PROVE  round'.watcher = current /\ round'.todo = listeners[current]
<1>1. round.todo = <<>> /\ round.running = Nobody
  BY DEF Idle
<1>2. ~CallListener /\ ~ListenerThrows /\ ~EndRound
  BY <1>1, ThrowingAreListeners, NobodyIsNoListener DEF CallListener, ListenerThrows, EndRound
<1>3. round' # round
  BY <1>1
<1>4. Poll
  BY <1>2, <1>3 DEF StatNext, statVars, FileChanges, WatchFile, UnwatchFile, UnwatchAll, Tick, RunListeners
<1>5. Head(polls) \in Watchers
  BY <1>4 DEF Poll, StatInv, StatTypeOK
<1>6. /\ round' = RoundAfterStat(Head(polls)) /\ round' # Idle
  BY <1>1, <1>3, <1>4 DEF Poll
<1>7. round'.watcher = Head(polls) /\ round'.todo = listeners[Head(polls)]
  BY <1>6 DEF RoundAfterStat, Tell
<1>8. Head(polls) = current
  BY <1>5, <1>7 DEF StatInv, IntervalsAreReachable
<1> QED
  BY <1>7, <1>8

(* Nobody is told of a change by a watcher that has been dropped, not even *)
(* when the path has been watched anew meanwhile.                          *)
THEOREM OnlyRegisteredListenersAreTold == StatSpec => OnlyTheWatchedAreTold
<1>1. StatInv /\ [StatNext]_statVars =>
        [round = Idle /\ round'.todo # <<>> =>
           round'.watcher = current /\ round'.todo = listeners[current]]_statVars
  BY RoundsBeginInTheMap
<1> QED
  BY <1>1, WatcherInvariant, PTL DEF StatSpec, OnlyTheWatchedAreTold

(* unwatchFile with a listener removes every registration of it, however   *)
(* often it was made, and nobody else's.                                   *)
THEOREM UnwatchRemovesOneListener ==
  StatSpec => [][\A l \in Listeners : UnwatchFile(l) =>
               ToSet(listeners'[current]) = ToSet(listeners[current]) \ {l}]_statVars
<1>1. ASSUME StatInv, NEW l \in Listeners, UnwatchFile(l)
      PROVE  ToSet(listeners'[current]) = ToSet(listeners[current]) \ {l}
  <2>1. current \in Watchers
    BY <1>1, BoundsAreNumbers DEF UnwatchFile, StatInv, StatTypeOK, Watchers
  <2>2. listeners[current] \in Seq(Listeners)
    BY <1>1, <2>1 DEF StatInv, StatTypeOK
  <2>3. listeners'[current] = Without(listeners[current], l)
    BY <1>1, <2>1 DEF UnwatchFile, Leave, StatInv, StatTypeOK
  <2> QED
    BY <2>2, <2>3, WithoutRemovesOne
<1>2. StatInv => [\A l \in Listeners : UnwatchFile(l) =>
                 ToSet(listeners'[current]) = ToSet(listeners[current]) \ {l}]_statVars
  BY <1>1
<1> QED
  BY <1>2, WatcherInvariant, PTL DEF StatSpec
=============================================================================
