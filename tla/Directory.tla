------------------------------ MODULE Directory ------------------------------
(***************************************************************************)
(* One directory, as the path functions of index.ts change and list it     *)
(* while other processes change it too.                                    *)
(*                                                                         *)
(* A name of the directory names a file, a directory, a symbolic link or   *)
(* nothing.  Every function queues one immediate (see AsyncFs) that makes  *)
(* one native call.  readdir with withFileTypes makes one to list the      *)
(* names and one lstat for each of them; nothing else of the program runs  *)
(* in between, but other processes do.  An lstat may fail for a name that  *)
(* is there: without permission to search the directory, for a link under  *)
(* bookmark:// that leads nowhere, for all of asset://.  The kind of a     *)
(* name is what lstat makes of it: under bookmark://, where lstat is stat, *)
(* a link is of the kind it leads to.  The program may make each of Calls  *)
(* once, and Listing, such a readdir, again whenever it is not queued.     *)
(***************************************************************************)
EXTENDS Naturals, Sequences

CONSTANTS Calls, Names,
          Listing,       \* the readdir in the queue
          NoJob, Done,   \* a call that is yet to be made, that was answered
          MaxElsewhere   \* bound on what other processes do

ASSUME ListingIsNoCall == Listing \notin Calls
ASSUME MaxElsewhereIsNat == MaxElsewhere \in Nat

Kinds == {"file", "dir", "link"}
Contents == Kinds \union {"absent"}

Lookups == {"access", "exists"}
Changes == {"mkdir", "mkdirRecursive", "mkdtemp", "unlink", "rmdir", "rm"}
Moves == {"rename", "copyFile", "cp", "link", "symlink"}
(* Moves between two names; one onto itself changes nothing.               *)
Jobs == {j \in [op : Lookups \union Changes \union Moves, at : Names, to : Names] :
           j.op \in Moves <=> j.to # j.at}

ASSUME NoJobIsNoJob == NoJob \notin Jobs

(* What a callback is told in all: "ok" or "yes" may be taken back once.   *)
Answers == {<<>>, <<"ok">>, <<"ok", "error">>, <<"error">>,
            <<"yes">>, <<"yes", "no">>, <<"no">>}

VARIABLES
  entries,   \* what each name of the directory names
  queue,     \* the immediates; each names the call it serves
  job,       \* what a call is to do
  told,      \* what a call's callback was told, in order
  listing,   \* the immediate of Listing is running
  todo,      \* the names it has listed and not yet looked at
  seen,      \* the kind in each of its Dirents, "unknown" for mode 0
  during,    \* what each name has been while it ran
  refused,   \* the names that were there when their lstat failed
  elsewhere  \* what other processes have done so far

listVars == <<listing, todo, seen, during, refused>>
dirVars == <<entries, queue, job, told, listVars, elsewhere>>

TypeOK ==
  /\ entries \in [Names -> Contents]
  /\ queue \in Seq(Calls \union {Listing})
  /\ job \in [Calls -> Jobs \union {NoJob, Done}]
  /\ told \in [Calls -> Answers]
  /\ listing \in BOOLEAN
  /\ todo \subseteq Names
  /\ seen \in [Names -> Contents \union {"unknown"}]
  /\ during \in [Names -> SUBSET Contents]
  /\ refused \subseteq Names
  /\ elsewhere \in 0..MaxElsewhere

DirInit ==
  /\ entries \in [Names -> {"file", "absent"}]
  /\ queue = <<>>
  /\ job = [c \in Calls |-> NoJob]
  /\ told = [c \in Calls |-> <<>>]
  /\ listing = FALSE
  /\ todo = {}
  /\ seen = [n \in Names |-> "absent"]
  /\ during = [n \in Names |-> {}]
  /\ refused = {}
  /\ elsewhere = 0

Present == {n \in Names : entries[n] # "absent"}
Queued(c) == \E i \in DOMAIN queue : queue[i] = c

-----------------------------------------------------------------------------
(* What a native call makes of the directory when it succeeds: a set of    *)
(* contents, empty when it cannot succeed.                                 *)

With(n, k) == [entries EXCEPT ![n] = k]
If(cond, e) == IF cond THEN {e} ELSE {}

Outcomes(j) ==
  LET was == entries[j.at]
      there == entries[j.to]
  IN CASE j.op = "access" -> If(was # "absent", entries)
       [] j.op = "mkdir" -> If(was = "absent", With(j.at, "dir"))
       [] j.op = "mkdirRecursive" -> If(was \in {"absent", "dir"}, With(j.at, "dir"))
       [] j.op = "mkdtemp" -> {With(n, "dir") : n \in Names \ Present}
       [] j.op = "unlink" -> If(was \in {"file", "link"}, With(j.at, "absent"))
       [] j.op = "rmdir" -> If(was = "dir", With(j.at, "absent"))
       [] j.op = "rm" -> If(was # "absent", With(j.at, "absent"))
       [] j.op = "symlink" -> If(there = "absent", With(j.to, "link"))
       [] j.op = "link" -> If(was \in {"file", "link"} /\ there = "absent", With(j.to, was))
       [] j.op = "copyFile" -> If(was = "file" /\ there # "dir", With(j.to, "file"))
       [] j.op = "cp" -> If(was # "absent", entries) \union
                         If(was # "absent" /\ there \in {"absent", was}, With(j.to, was))
       [] j.op = "rename" -> If(was # "absent" /\ there \in {"absent", was},
                                [With(j.to, was) EXCEPT ![j.at] = "absent"])

-----------------------------------------------------------------------------
(* The program calls.                                                      *)

Ask(c, j) ==
  /\ ~listing /\ job[c] = NoJob
  /\ job' = [job EXCEPT ![c] = j]
  /\ queue' = Append(queue, c)
  /\ UNCHANGED <<entries, told, listVars, elsewhere>>

Readdir ==
  /\ ~listing /\ ~Queued(Listing)
  /\ queue' = Append(queue, Listing)
  /\ UNCHANGED <<entries, job, told, listVars, elsewhere>>

-----------------------------------------------------------------------------
(* The event loop.                                                         *)

Due(c) == ~listing /\ queue # <<>> /\ c = Head(queue)

(* The call succeeds and its callback may throw, or the native call throws *)
(* and the callback is invoked from the catch.                             *)
RunPathOp(c) ==
  /\ Due(c) /\ c # Listing /\ job[c].op # "exists"
  /\ queue' = Tail(queue)
  /\ \/ /\ entries' \in Outcomes(job[c])
        /\ \E said \in {<<"ok">>, <<"ok", "error">>} : told' = [told EXCEPT ![c] = said]
     \/ told' = [told EXCEPT ![c] = <<"error">>] /\ UNCHANGED entries
  /\ job' = [job EXCEPT ![c] = Done]
  /\ UNCHANGED <<listVars, elsewhere>>

(* Slip: the closure of exists has a try of its own and access calls it    *)
(* from its own catch all the same. *)
RunExistsTriesTwice(c) ==
  /\ Due(c) /\ c # Listing /\ job[c].op = "exists"
  /\ queue' = Tail(queue)
  /\ \/ /\ job[c].at \in Present
        /\ \E said \in {<<"yes">>, <<"yes", "no">>} : told' = [told EXCEPT ![c] = said]
     \/ \E again \in {<<>>, <<"no">>} : told' = [told EXCEPT ![c] = <<"no">> \o again]
  /\ job' = [job EXCEPT ![c] = Done]
  /\ UNCHANGED <<entries, listVars, elsewhere>>

(* exists hands access a closure that turns the error into an answer: when *)
(* the callback throws on "yes", access calls the closure again with the   *)
(* exception, and the callback is told "no".                               *)
RunExists(c) ==
  /\ Due(c) /\ c # Listing /\ job[c].op = "exists"
  /\ queue' = Tail(queue)
  /\ \/ /\ job[c].at \in Present
        /\ \E said \in {<<"yes">>, <<"yes", "no">>} : told' = [told EXCEPT ![c] = said]
     \/ told' = [told EXCEPT ![c] = <<"no">>]
  /\ job' = [job EXCEPT ![c] = Done]
  /\ UNCHANGED <<entries, listVars, elsewhere>>

(* The names of the directory.                                             *)
List ==
  /\ Due(Listing)
  /\ listing' = TRUE
  /\ todo' = Present
  /\ seen' = [n \in Names |-> "absent"]
  /\ during' = [n \in Names |-> {entries[n]}]
  /\ refused' = {}
  /\ UNCHANGED <<entries, queue, job, told, elsewhere>>

(* The directory cannot be listed; the program, as this one does, asks     *)
(* again.  Someone has to have made it so.                                 *)
ListFails ==
  /\ Due(Listing)
  /\ elsewhere < MaxElsewhere
  /\ elsewhere' = elsewhere + 1
  /\ queue' = Append(Tail(queue), Listing)
  /\ UNCHANGED <<entries, job, told, listVars>>

(* Slip: one try around the whole map, so that a name that is gone ends    *)
(* the lookups. *)
LookAtOneTry(n) ==
  /\ listing /\ n \in todo
  /\ \/ /\ entries[n] # "absent"
        /\ todo' = todo \ {n}
        /\ seen' = [seen EXCEPT ![n] = entries[n]]
        /\ UNCHANGED refused
     \/ /\ todo' = {}
        /\ seen' = [m \in Names |-> IF m \in todo THEN "unknown" ELSE seen[m]]
        /\ refused' = refused \union ({n} \intersect Present)
  /\ UNCHANGED <<entries, queue, job, told, listing, during, elsewhere>>

(* One lstat: a name it fails for, gone or not, becomes a Dirent of mode 0. *)
LookAt(n) ==
  /\ listing /\ n \in todo
  /\ todo' = todo \ {n}
  /\ \/ /\ entries[n] # "absent"
        /\ seen' = [seen EXCEPT ![n] = entries[n]]
        /\ UNCHANGED refused
     \/ /\ seen' = [seen EXCEPT ![n] = "unknown"]
        /\ refused' = refused \union ({n} \intersect Present)
  /\ UNCHANGED <<entries, queue, job, told, listing, during, elsewhere>>

(* The callback gets the Dirents; what it throws brings it an error.       *)
AnswerListing ==
  /\ listing /\ todo = {}
  /\ listing' = FALSE
  /\ queue' = Tail(queue)
  /\ UNCHANGED <<entries, job, told, todo, seen, during, refused, elsewhere>>

-----------------------------------------------------------------------------
Elsewhere(n, k) ==
  /\ elsewhere < MaxElsewhere
  /\ entries[n] # k
  /\ elsewhere' = elsewhere + 1
  /\ entries' = With(n, k)
  /\ during' = IF listing THEN [during EXCEPT ![n] = @ \union {k}] ELSE during
  /\ UNCHANGED <<queue, job, told, listing, todo, seen, refused>>

RunImmediate ==
  \/ \E c \in Calls : RunPathOp(c) \/ RunExists(c)
  \/ \E n \in Names : LookAt(n)
  \/ List \/ ListFails \/ AnswerListing

-----------------------------------------------------------------------------
(* Properties                                                              *)

(* A directory listed with file types tells the truth about each name,     *)
(* though the names and the kinds come from different moments: a kind is   *)
(* one the name has had since the listing began, mode 0 means that it was  *)
(* gone for a while or that its own lstat failed, and a name that was      *)
(* there throughout is listed, with its kind unless its own lstat failed,  *)
(* whatever becomes of the others and of their lstats.                     *)
ReaddirTellsWhatItSaw ==
  ~listing => \A n \in Names :
    /\ seen[n] \in Kinds => seen[n] \in during[n]
    /\ seen[n] = "unknown" => "absent" \in during[n] \/ n \in refused
    /\ during[n] # {} /\ "absent" \notin during[n] =>
         seen[n] \in Kinds \/ (seen[n] = "unknown" /\ n \in refused)

=============================================================================
